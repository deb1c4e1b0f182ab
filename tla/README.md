# Specifications of the operating-systems programs

This directory holds TLA+ models of the programs in `src/`: a user-level thread
library (`hw4`), two process-synchronisation programs (`hw3`), a multi-threaded
matrix program and a shell with history (`hw2`), a heap allocator (`hw5`) and a
file-system defragmenter (`hw6`). TLC checks the models on small
instances; TLAPS proves what the runs check of the thread library (both its
cooperative and its preemptive form), the baboons, the matrix program, the shell's
history, the allocator and the defragmenter for every number of threads, baboons,
rows, entries, calls, blocks and inodes. All liveness is only model-checked.

## 1. The system

The repository is a collection of independent programs. Nothing is shared
between them, so each is modelled by itself.

| component | state | operations | how its parts interact |
|---|---|---|---|
| thread library, `_FIFO`/`_SJF` (`hw4/userthread.cpp`) | `initialized`, `schedule_policy`, `thread_count`, `thread_list_head`, `current_active`, `ready_FIFO`/`ready_SJF`, and per thread `status`, `wait_tid`, `suspended_queue`, `yield_count`, `estimated_runtime` | `thread_libinit`, `thread_libterminate`, `thread_create`, `thread_yield`, `thread_join`, return into `thread_wrapper`; each of the last three runs one pass of `my_scheduler` | contexts: a call swaps to `my_scheduler`, which swaps to the next thread or to main |
| thread library, `_PRIORITY` | three ready queues, a timer, the signal mask | the same, and `sigalarm_handler` | SIGALRM interrupts any thread, the scheduler and main between two changes of the mask |
| SJF estimates (`userthread.cpp`, `userthread_aging.cpp`) | the last three run times, the estimate | `set_estimated_time`, `average_time_so_far` | read as priority of `ready_SJF` |
| baboons (`hw3/baboon39.c`) | semaphores `directionLock[2]`, `ropeLock`; counters `twoSideBaboons[2]` in shared memory | fork, arrive, take the rope, cross, leave | ten processes through named semaphores and shared memory |
| baboons without starvation (`hw3/baboon40.c`) | the same and semaphore `starvation` | the same | the same, behind a turnstile |
| matrix (`hw2/matrix.c`) | `A`, `B`, `C`, `MAX_ROW_SUM`, `lock` | three rounds of `pthread_create`/`pthread_join`; `assignNumber`, `multiply`, `maxRowSum` | threads through global memory, one mutex |
| allocator (`hw5/mem.c`) | list of block headers, free list, `largest`, `second_largest`, `last_block_size`, `remaining_size` | `Mem_Init`, `Mem_Alloc`, `Mem_Free`, coalescing | sequential |
| shell with history (`hw2/shell_hist.c`) | doubly linked list of commands whose nodes may share `args` | a command, `!!`, `!n`, `!-n`, `history`, `exit` | sequential, one child at a time |
| shell (`hw2/shell.c`) | none kept | read, split, run | sequential |
| defragmenter (`hw6/defrag.c`) | `whole_buffer`, `dest_buffer` (inodes, index blocks, data blocks, free list), `block_index`, `finished` | the loop over the inodes, the free list, the swap region | sequential |

Hard behaviours, and what makes each component correct:

* *Thread library.* A thread is pushed on a queue by nine branches of
  `my_scheduler`, and by none in others: whether it is in exactly one place,
  whether it is ever lost, whether a join returns at the right time and whether
  main comes back at the right time depend on long mixtures of calls. Under
  `_PRIORITY` the timer adds interleavings.
* *Baboons.* Interleaved increments and tests of shared counters, the order in
  which semaphores are taken and given back, a fork that fails half way. Correct:
  one direction at a time, exact counters, no deadlock, no overtaking (40).
* *Matrix.* Ordering between rounds comes from joins alone; `maxRowSum` computes
  from a value read before its lock.
* *Allocator, shell history, defragmenter.* Sequential programs over linked data
  with cached pointers, shared ownership and boundary cases; long call sequences
  reach states no test has.

`PROJECT.json` lists the hazards line by line, with the property that watches each.

## 2. Modules

### UserThread (hw4/userthread.cpp)

Under `_FIFO` and `_SJF` no timer is armed (`thread_libinit` arms it for
`_PRIORITY` only), so control changes hands only inside a library call. One
action is one call with the whole pass of `my_scheduler` it triggers:

| action | code |
|---|---|
| `LibInit`, `LibInitNoMemory` | `thread_libinit`, and its two `malloc` failures, which leave `initialized` TRUE |
| `LibTerminate`, `ThreadLibTerminate` | `thread_libterminate` called by main, and by a thread |
| `ThreadCreate`, `ThreadCreateNoStack` | `thread_create`, and its `malloc` failure, which uses a tid up |
| `MainYield`, `MainJoin(u)` | `thread_yield`, `thread_join` called by main: `setcontext` without saving main |
| `ThreadYield(t)`, `ThreadJoin(t, u)`, `ThreadReturn(t)` | the calls of a thread: the three branches of `my_scheduler` on its status |

`ScheduleFrom`, `Dispatch`, `BackToMain`, `choose_next` and `Woken` are the parts
of `my_scheduler`. Correspondence of state:

* `current_active = NULL` means main has the CPU. Main is not a thread of the
  library: when nothing is ready, `my_scheduler` swaps to `main_context`, saved
  once in `thread_libinit`. Execution resumes after that `getcontext` and returns
  through the stack slot which by then holds the return address of main's latest
  call; main therefore resumes from its latest `thread_join` or `thread_yield`.
  This presumes that main calls the library from the frame it called
  `thread_libinit` from, as every test does.
* `main_join` is a history variable: the tid of main's pending or latest
  `thread_join`.
* `ready` is a sequence in order of insertion. `choose_next` gives the positions
  the next thread may be taken from: the first under `_FIFO`; under `_SJF` any
  entry of least priority, because a heap does not keep equal entries in order.
* `estimated_runtime` takes values from the small set `Estimates`; it changes only
  from the third switch on (`yield_count > 2`), as in `set_estimated_time`. A new
  thread's priority is the 50 the code uses.
* The field `active` is left out: only `find_active` reads it, and nothing calls
  that. Rejected arguments (a bad policy or priority, an unknown tid, a NULL
  function, a call before `thread_libinit`) return an error and change nothing;
  they are the guards of the actions. Log lines are left out.
* After a failed `thread_libinit` main only calls `thread_libterminate`: what the
  other calls do without their stacks is undefined. So is everything after
  `thread_libterminate` called by a thread, where the model stops.

Constants choose what is asked: `Policies`, `SupportedJoins` (a thread joins only
an unfinished thread that does not wait for it: README of hw4, "Doesn't support
circular join", and a join of a finished thread, which is never woken),
`ThreadsTerminate` (a thread may call `thread_libterminate`).

### PreemptiveThreads (hw4/userthread.cpp)

The library under `_PRIORITY`, after `thread_libinit`, with the timer. Whatever
switches (`thread_yield`, `thread_join`, `thread_wrapper`, `sigalarm_handler`)
lets SIGALRM in again before its `swapcontext`, and `my_scheduler` lets it in
before its own. A call is therefore two actions, and the ticks in between are
others:

| action | code |
|---|---|
| `thread_yield(t)`, `thread_join(t, u)`, `thread_returns(t)` | a thread's call, or its function's return, up to `swapcontext` |
| `Tick(t)` | `sigalarm_handler` in code of the thread's own, up to `swapcontext` |
| `Switch(t, lucky)` | from there through `my_scheduler` to the next thread or main: `EndsAndWakes`, `Yields`, `Stops` are its branches on the status |
| `TickBeforeSwitch` | a tick after SIGALRM was let in and before `swapcontext` (lines 212-218, 261-263, 542-547, 809-810) |
| `TickInScheduler` | a tick on the scheduler's stack, before line 562 or after line 785 |
| `TickOnTheWayToMain` | a tick between lines 627 and 629, or 723 and 724 |
| `SwitchAgain`, `FallsOff` | a thread that is dispatched while it still has to enter the scheduler, and the end of the process |
| `MainGoesOn` | main's own code behind a call |
| `MainSwitches(lucky)` | `thread_yield`, or `thread_join` of a thread, called by main: it is left by `setcontext` |
| `MainTick(lucky)` | `sigalarm_handler` while main runs: likewise, so that main loses its place (lines 812-816) |
| `JoinUnknown` | `thread_join` of a tid that does not exist: it returns with SIGALRM blocked |
| `thread_create(p)` | by main or a thread; the new context inherits the creator's signal mask |
| `thread_libterminate`, `TickAfterEnd` | the end of the session, and the timer that goes on ticking |

`Lottery` is the order in which `choose_next_thread_PRI` asks the three queues,
for each range of `rand() % 19`. `place` is where a thread goes on when it has or
gets the CPU. What a tick in the wrong place costs follows from what the contexts
hold:

* The `swapcontext` at line 789 overwrites `scheduler_context`, which line 788 has
  just prepared, with the frame behind line 789. The next call prepares it again
  (`makecontext`) before it swaps to it. A thread that a tick catches *after* its
  own `makecontext` is dispatched later with the scheduler having run since: its
  `swapcontext` leads behind line 789, `my_scheduler` returns, and with `uc_link`
  0 the process exits (`"doomed"`).
* `thread_yield` lets SIGALRM in before its `makecontext`. A thread caught in
  between prepares the context anew when it goes on, and enters the scheduler with
  status SCHEDULED: no branch is taken and it is dispatched again (`"again"`; its
  `nextID` is the one the previous pass left in that stack slot, the program being
  compiled without optimisation).
* A tick in `my_scheduler` saves a frame of the scheduler's stack as the context
  of `current_active` (`"lost"`); the stack is run over by the next pass, and
  going on there is undefined.
* A FINISHED thread caught by a tick becomes YIELD, is queued, comes back to the
  end of `thread_wrapper`, and ends the process too.

So `outcome` is `"runs"`, `"ended"` (terminated), `"exited"` or `"undefined"`; in
the last two the model stops. `leaving` says that `my_scheduler` may not yet have
left for `current_active`.

Main has a place too. The handler does not save it: what `my_scheduler` resumes, when
nothing is ready, is always `main_context`, the end of `thread_libinit` with
`EXIT_SUCCESS` as its value, on the stack frame of main's latest call (see
UserThread). `main_at` says whether main is just behind that call or has run code
of its own since, and `main_result` what the call has returned to it. For
`thread_yield` and `thread_join` this is how they return. A tick (`MainTick`) makes
any call return once more: what `thread_create` has returned, a tid, becomes 0, the -1
of a failed `thread_join` becomes success, and main runs the code behind the call a
second time (`main_at` goes from `"ahead"` back to `"behind"`).

`SuccessAtTheEnd` says what saves the programs that join their threads in order: the
second return comes when no thread is left. A main that joins a thread whose tid it
has lost gets an error all the same, see section 3.

### CooperativeThreads

The promise of the library without its queues: one CPU, a joining thread blocked
until its target is done, main resumed when all threads are done. `UserThread`
implements it under `_FIFO` with supported joins, and `PreemptiveThreads` under
`_PRIORITY` as long as the process lasts, both by a mapping `Promise`; for the
latter a tick is a yield that the thread did not ask for.

### Baboon39, Baboon40 (hw3)

One action per access of a process to a semaphore or a counter. `++` and `--` are
a load into `register` and a store. The first action of a baboon stands for
everything up to its arrival. `ForkFails` is the parent's `exit(1)`; its children
go on. A semaphore has no queue: any waiter may get it. `Baboon40` extends
`Baboon39`: the same steps, in the order of baboon40.c, and two of its own.

### MatrixSum (hw2/matrix.c)

Main's rounds are `Create`, `CreateFails` (`exit(1)`, which ends every thread) and
`EndRound` (all joins returned). `assignNumber` and `multiply` are one action
each: no two threads of a round touch the same cell. `maxRowSum` is split at
every access to what the threads share: `ReadMax` (before the lock), `Lock`,
`TestAndLoad`, `StoreMax`, `Unlock`. `SumOf` is their loops. The unsynchronised read of `MAX_ROW_SUM` is
taken to give the value before or after a concurrent store. Digits are abstract
subsets of 0..9; at 7 x 7 no product or sum overflows an `int`.

### ShellHistory, BoundedHistory (hw2/shell_hist.c)

The list of commands between its two sentinels, with both links of every node.
One line is two actions: the node is made and added (`NewCommand`, `RecallLast`
for `!!` and `!-n`, `RecallFirst` for `!n`, all through `addToTail`, which holds
`popFront`), and then `callChild` runs (`CallReturns`, `ForkFails`, `CallExit`).
`clearList` is one `ClearFirst` for each node. `args` and `command` are allocated
together when a command is new, shared by the nodes that recall it, and freed
together: they are one block for each `commandId`, and `freed` counts how often
`free` was called for it. `ListLinked`'s `allocated` is what `malloc` has given
out. A command is only told to be `exit`, `history` or another one; its text is
abstract, and a rejected line (empty, `!0`, `n` too large or negative, which the
unsigned comparison rejects too) changes nothing.

`BoundedHistory` is the promise without links: the last commands, oldest first.
`ShellHistory` implements it with a size of `HISTSIZE + 1`, because `numHist` is
compared before the new node is counted.

### Mem (hw5/mem.c)

The headers with their fields, the free list and the cached pointers, over
addresses in bytes; one library call is one action. `Mem_Alloc` is `TakesLargest`
(the cached block is taken without a search) or a walk of the free list that
ranks every block (`Ranked`) and takes the worst fit (`Worst`), then `Split` or
`TakeWhole`. `Mem_Free` is `ReturnSize`, `my_coalesce`, `InsertFree`, `RankFreed`
in this order, and `Mem_FreeNull` the call with NULL. `outcome` says how the calls
end. One that never returns, because a list it walks has become a circle, is
`CallLoops` (`"loops"`); one whose split would write the new header behind the
region is `WritesOutside` (`"outside"`): nothing in the code looks, and what the
header overwrites is not defined. After either the model stops.

Init picks the size of the region from `Regions`. `region_end` is the end of the
bytes that `Mem_Init` asks for under `-Daligned`, a header for every smallest
block; `mmap` may give more, up to the end of a page, which no program should
count on. `last_block_size`, not `region_end`, is what the code takes for the size
of the last block. Sizes are at most `LargestSize`: `round_to` takes an `int`.

The client frees what `Mem_Alloc` gave it, once. `usage` remembers how far the
client has gone, because the lists are exact only up to a point: a block taken
whole stays on the free list (`mem.c:171`, `mem.c:215`) and `my_coalesce` forgets
to take blocks off it. `Overcommitted` is the one block that may be too small for
what was asked for, the last one.

### Defrag (hw6/defrag.c)

An image is its inodes and its blocks; a block is its data, told apart by where
the source has it, and the ints an index block holds. `place` is where in a file
the loops are: the number of the inode's pointer and the ints followed behind it, 0
where none is, so that `<<I2BLOCK, 2, 0, 0>>` is what the second int of the doubly
indirect block points to. The code has eight loops written out, one for each level
and depth; they do the same, and differ in how many index blocks are still to be
followed (`LevelsBelow`), so the model has one set of actions for all of them:

| action | code |
|---|---|
| `CopyInode` | the head of the loop over the inodes (lines 70-81), which skips those without links |
| `CopyData` | a turn that copies a block of data and takes it off `this_file_size` (e.g. 88-93) |
| `CopyIndex` | one that copies an index block, remembers it in `curr_block` and begins the loop over its ints (e.g. 103-107) |
| `LeaveIndex` | the loop over the ints ends after the last (e.g. 118) |
| `Break` | it ends because the file has, and `finished` is set (e.g. 108-111) |
| `EndFile` | all pointers have been passed, or `finished` is set (191) |
| `LinkFreeBlocks`, `CopySwap` | the rest of `main` (194-211) |

`CopyBlock` copies a block to `block_index` and rewrites the pointer that led to
it, in the inode or in the copy of the index block (`Holder`). `Copies` is the test
before it: the doubly and the triply indirect block are copied unless `finished` is
set (123, 153), all others only while size is left; that is why a file that just
fills a level (`Exact`) gets an index block it does not use. The blocks go on, past
the data region, into the swap region, because `swap_offset * BLOCK_SIZE` (line
210) is taken as an offset from the first byte of the image, though boot and super
blocks come before the block that `swap_offset` counts from: the copy begins
`HeadBlocks` blocks too early (`SwapFrom`).

Init takes any image of `Sources`. What is assumed of one (`WellFormed`): the
pointers of files lead to blocks, and the files fit into the image with the blocks
wasted, behind whose end nothing is defined. `MCDefrag` gives `Sources` as `Images`:
all choices of sizes and `nlink`, the blocks scattered with one of `Strides`, unused
pointers 0 as in the images of the repository. `N_DBLOCKS`, `N_IBLOCKS` and the ints
in a block are constants; the run makes them small, so that a file of 15 blocks
uses all four levels. `Nodes` are the places where a file of a size needs a block,
and `Where` reads the file as the file system would: the properties say where each
block is and what data is read, independently of how the copy proceeds.

## 3. What the runs check

| run | instance | shows |
|---|---|---|
| `ut_fifo` | `_FIFO`, 4 threads, supported joins | `NoThreadLost`, `MainJoinFinished`; `ReadyRuns`: a ready thread gets the CPU from threads that only have to call the library; `KeepsPromise`: the library implements CooperativeThreads |
| `ut_any` | both policies, 3 threads, any joins, misuse of `thread_libterminate` | `QueuedOnce`, `CurrentLive`, `JoinReturnsAfterFinish` hold even where the README promises nothing; main always resumes (`MainResumes`) if the threads' functions return |
| `bab39` | 3 baboons | `OneDirection`, `CounterExact`, `CompleteMeansClean`, `EveryBaboonCrosses` |
| `bab40` | 3 baboons | the same and `NoOvertaking` |
| `mat` | 3 x 3 matrices | `ProductExact`, `MaxCoversRows`, `MainEnds` |
| `hist` | `HISTSIZE` 2, 4 new commands, any number of recalls but of the entry that makes room | `ListLinked`, `ListedLive`, `NothingLeaks`, `RecallsNth`; `KeepsLog`: the list implements BoundedHistory |
| `mem` | 72 and 16 bytes, sizes 5, 11 and 48, 6 calls | `BlocksLinked` until the client coalesces; `LiveFit`, `FreeListExact` and `LargestIsFree` until it allocates again after a free |
| `pri` | 3 threads, 2 priorities, ticks anywhere | `QueuedOnce` and `JoinReturnsAfterFinish` whatever the ticks do; `SuccessAtTheEnd`: whenever main goes on behind a call that has returned `EXIT_SUCCESS`, also one a tick has sent it back to, every thread has finished; `KeepsPromise`; `ReadyRuns`: a ready thread gets the CPU from threads that never call the library |
| `defrag` | 2 files, 9 sizes, 3 strides, 28 blocks | `SameFiles`, `InOrder`, `WasteOnlyBehindExact` |
| `ut_sjf_yield` | `_SJF`, 3 threads | violated: a thread that yields alone is lost, main's join returns without it |
| `hist_recall` | `HISTSIZE` 2, any recall | violated: recalling the oldest entry of a full history runs freed `args` |
| `defrag_free` | as `defrag`, fewer sizes | violated: no free block is linked to -1, and the copy of the swap region overwrites the last links |

The last three are findings: `PROJECT.json` quotes the line of the repository that
each contradicts. Six more disagreements were met and have no run of their own:

* A thread that joins itself as the last one ready is not suspended
  (`userthread.cpp:694`): main goes on, where `hw4/fifo_join_oneself.c:19` expects
  the program to hang. `ut_fifo` leaves such joins out (`SupportedJoins`).
* Under `_PRIORITY` a tick in main before it has called `thread_yield` or
  `thread_join` makes its latest `thread_create` return 0 in place of the tid, once
  the threads have finished (`MainTick`). `hw4/test_priority_yield.c:34` then fails,
  `if (thread_join(tids[i]) == -1)`, for a thread that was created and has ended.
  And if what main does behind a call takes longer than a quantum, each tick sends
  it back and it never gets through.
* Two threads that read `MAX_ROW_SUM` before either writes it leave the sum of
  their row sums (`matrix.c:158`), so only `MaxCoversRows` can be claimed.
* After an allocation of freed bytes `largest` may point at an allocated block,
  and after coalescing at a header that is gone (`mem.c:171`, `mem.c:417`); hence
  the guards of `LiveFit` and `LargestIsFree`.
* `Mem_Alloc` takes a cached `largest` without comparing it with the size asked for
  (`mem.c:90`): when all but a few bytes of the region are taken, the last block is
  handed out for more than it has left. A region of 16 bytes shows it: after an
  allocation of 5 the last block has 8, and 11 are granted from it, because
  `remaining_size` counts the bytes asked for. `LiveFit` excepts that block
  (`Overcommitted`). Once freed bytes are allocated again, or blocks coalesced, a
  split may write a header outside the region (`WritesOutside`).
* On a disk so full that files reach the last `HeadBlocks` data blocks the copy of
  the swap region overwrites them (`defrag.c:210`); hence the guard of `SameFiles`.

Bounds. Three threads are the least with which one thread can wait for a second
while a third runs, a join chain, a join cycle and two threads waiting for one
can form; `ut_fifo` has four, so that two waiters and their target leave one more
to schedule. `MaxThreads` bounds thread creations in one session; sessions may
repeat without bound. `ENOUGH_YIELDS` stops `yield_count` where the code's only
test of it (`> 2`) no longer changes. Three baboons are the least with two of one
direction (a first and a last) and one of the other that waits for the rope; all
choices of directions are initial states. Matrices of size 3 give three threads
that race for `MAX_ROW_SUM`; with a matrix of ones for `B` the rows of `C` still
differ in every way those of `A` do. A history of size 2 holds three entries: a
first, a middle and a last one, any of which may share a block with any other;
`MaxCommands` bounds new commands only, recalls are unbounded. In `mem`, 48 bytes
make a freed block in the middle large enough to be split, 5 and 11 are rounded up
to one and two smallest blocks, and in a region of 72 bytes all three fit beside
each other in some order; 16 bytes are used up after two calls, which is what the
cached blocks at their end and `WritesOutside` need. `MaxCalls` of six allows two
blocks to be freed and both kinds of reuse after it. In `pri`, two priorities are enough for a queue to be asked
before and after another one in the lottery, and three threads leave one ready
beside a caller and the thread it joins; two of the three priorities keep the
liveness check small, and with all three the safety properties held too on the
576,076 states of three threads. In `defrag`, one direct and one singly indirect
block and two ints in a block put the borders between the levels at 1, 3, 7 and
15 blocks of 2 bytes; the sizes are those at the borders, one byte and one block
beside them, and 30 fills all levels. Two files show what the first one's
waste does to the second; the strides scatter the blocks forwards and backwards
(27 of 28 is one step back).

Deadlock is checked everywhere but in `ut_any`, where a thread that has called
`thread_libterminate` really stops the model, in `mem`, which stops after
`MaxCalls` calls, one that never returns or one that writes outside the region, in `pri`, which stops when the process
has exited or is undefined, and in `defrag` and `defrag_free`, which end with the program. `Over` is the end of a program.

Fairness.
* `YieldingSpec`: weak fairness of "some thread switches": the thread that has
  the CPU eventually calls the library or returns. No fairness between threads is
  assumed; that is what `ReadyRuns` shows.
* `ReturningSpec`: strong fairness of each thread's return: a thread's function
  that gets the CPU again and again returns in the end. It is a property of the
  client, not of the library, and `MainResumes` is stated under it.
* `FairSpec`, `FairSpec40`: weak fairness of each process, as the operating
  system's scheduler gives it; `sem_wait` needs no more, because each baboon
  crosses once. In `MatrixSum` likewise for each thread and its mutex.

* `PreemptiveThreads!FairSpec`: weak fairness of ticks in threads' own code and in
  main (the interval timer goes on ticking), of whatever has the CPU going on to the
  end of a call it has begun, and strong fairness of a pass with each outcome of the
  lottery: `rand() % 19` is seeded with the microseconds of the clock, and no range
  of it can stay away for ever. No thread need ever call the library.

With one value for estimates (`OneEstimate`, a new thread's priority) every entry
of the `_SJF` queue is a least one, so any of them may come next: `ut_any` covers
every order the estimates could give. `ut_sjf_yield` has two.

Every property has a mutant, an operator beside the definition it replaces, that
TLC refutes: a dropped wait, an off-by-one, a missing give-back, a wrong sign.

## 4. What is proved

`UserThreadProofs` (every number of threads, both policies, any joins, misuse of
`thread_libterminate` included):

| theorem | property |
|---|---|
| `TypeCorrect` | `TypeOK` |
| `NeverQueuedTwice` | `QueuedOnce` |
| `JoinsAreKept` | `JoinReturnsAfterFinish` (an action property) |
| `CurrentIsLive` | `CurrentLive` |

The inductive invariant is `IInv`. `QueuedOnce` alone is not inductive: to see
that a pass of the scheduler cannot queue a thread twice one must know that a
queued thread is CREATED, YIELD or STOPPED, that the running one is SCHEDULED,
that a suspended thread is STOPPED with `wait_tid` naming the queue it is on, and
that a STOPPED thread in the ready queue has a finished target. `Queued` states
these; `Listed` ties `thread_list`, `status` and `thread_count` together, so that
a new tid is on no queue; `Current` is about the running thread. One lemma
(`WholePass`) says what a pass of `my_scheduler` over any queue does; each
library call is then a step of its own that prepares the queue and cites it.

`UserThreadFifoProofs` (every number of threads, assumption `FifoSupported`: only
`_FIFO`, supported joins, no misuse):

| theorem | property |
|---|---|
| `NobodyIsLost` | `NoThreadLost` |
| `MainJoinsAreKept` | `MainJoinFinished` |
| `PromiseKept` | `KeepsPromise` (refinement of CooperativeThreads) |

The invariant `FifoInv` adds to `IInv` that "is suspended on" has no cycle
(`NoCycle`: in every set of threads one is suspended on none of them), that only
the running thread is SCHEDULED, and that main's target is listed. A supported
join adds no cycle (`JoinNoCycle`: the target lies in a set closed under "is
suspended on" that the caller is not in), and finds a thread to schedule: without
one the caller would be on no queue at all, which is what a thread that joins
itself meets. Main gets the CPU only with an empty ready queue, and then
`NoCycle` and `NoThreadLost` leave no unfinished thread (`EmptyMeansFinished`).
No induction on sizes is needed, since `NoCycle` quantifies over sets.
`PromiseKept` maps every call to a step of CooperativeThreads or to none: what a
pass does to the mapped state is said once, and each call is a step that cites it.

`PreemptiveThreadsProofs` (every number of threads, every lottery, ticks anywhere):

| theorem | property |
|---|---|
| `TypeCorrect` | `TypeOK` |
| `NobodyQueuedTwice` | `QueuedOnce` |
| `MainIsToldAtTheEnd` | `SuccessAtTheEnd` |
| `JoinsAreKept` | `JoinReturnsAfterFinish` (an action property) |
| `PromiseKept` | `KeepsPromise` (refinement of CooperativeThreads) |

A tick may come when a call has set a status and the scheduler has not seen it, so
what holds of `status` in the cooperative library does not hold here. The invariant
speaks of `Settled` instead, the statuses with the thread that has the CPU still
taken for running: in these the queues are `Sound` at every moment, that is,
queued threads wait to run (`Queued`), no thread is lost (`Kept`) and suspension
has no cycle (`NoCycle`). `Places` ties where a thread goes on to its status: it
is behind `thread_join` exactly if it is STOPPED. `MainTold` is `SuccessAtTheEnd`
for a process in any state: it needs that main is resumed only when no thread is left
(which `Kept` and `NoCycle` give when no thread is ready), and that every later call of
main's that creates a thread returns a tid. `PendingJoin` says that a join on its way to the scheduler is still
one that makes no cycle; `Counted`, that new tids are unused. `PassResult` is what
a pass leaves, whatever it starts from, and one lemma (`PassKeeps`) makes the
invariant of it; every action of the model is then a choice of statuses and places
the pass starts from, and a tick is one that starts it from YIELD.

`BaboonProofs` (any finite set of baboons, any directions,
a fork that may fail):

| theorem | property |
|---|---|
| `Baboon39Typed` | `TypeOK39` |
| `Baboon39OneDirection`, `Baboon40OneDirection` | `OneDirection` |
| `Baboon39CounterExact` | `CounterExact` |
| `Baboon39CompleteMeansClean` | `CompleteMeansClean` |
| `Baboon40CompleteMeansClean` | `CompleteMeansClean40` |
| `Baboon40NoOvertaking` | `NoOvertaking` (an action property) |

The invariant reads the semaphores and counters off the places of the baboons. A
direction's lock is 0 exactly if one baboon of it is between its `sem_wait` and
`sem_post` (`Locks`); a counter is the number of baboons between their increment
and their decrement, and a register loaded under the lock is still the counter
(`Counters`); the rope is 0 exactly if some baboon's direction has it, and all such
baboons go the same way (`Rope`). `OneDirection` alone is not inductive: that the
second baboon of a direction may go on without `ropeLock` needs that another of
its direction holds it, which follows from the counter (2 or more), from the lock
(the others are out of their critical section) and from `Rope`. Each lemma says
what a kind of step does to the four parts; the theorems of baboon40 cite the same
lemmas for its order of the steps, and adds `Turnstile`: `starvation` is 0 exactly
if one baboon is behind it. `NoOvertaking` is then that the baboon that steps on
the rope is the one behind the turnstile.

`MatrixSumProofs` (any N, any digits):

| theorem | property |
|---|---|
| `ProductIsExact` | `ProductExact` |
| `MaxCovers` | `MaxCoversRows` |

`Rounds` says what the joins give: in a round the threads of the one before have
all ended and those of the next do not exist. `Cells` is the product of the
threads that have ended, `Sums` what a thread of `maxRowSum` knows: since
MAX_ROW_SUM never falls, `sum`, computed from a stale value, still bounds what the
row lacks, and under the lock the loaded value is the current one. The proof of
`Sums` needs that a sum of integers is one, for any number of them (`SumIsInt`):
an induction, done with the least counterexample of the library's theorem on
well-founded relations, because the induction theorems take an operator.

`ShellHistoryProofs` (every `HISTSIZE`, any number of commands and recalls):

| theorem | property | assumes |
|---|---|---|
| `ListStaysLinked` | `ListLinked` | |
| `RecallsTheNth` | `RecallsNth` (an action property) | |
| `LogKept` | `KeepsLog` (refinement of BoundedHistory) | |
| `TypeCorrect` | `TypeOK` | `OldestStays` |
| `ListedStaysLive` | `ListedLive` | `OldestStays` |
| `AllIsFreedOnce` | `NothingLeaks` | `OldestStays` |
| `OnlyTheOldestIsLost` | `CalledLive` | `OldestStays` |

`LinkInv` says that the nodes are a chain: a sequence of places from sentinel to
sentinel that `next` follows forward and `prev` back, and whose nodes are all that
is allocated. The walks of the model (`after`, `before`) are functions on all
numbers; that they return the chain is an induction, done with a least
counterexample. `BlockInv` adds the blocks: one that no node has any more has been
freed once, one that a node has, not at all. It holds only if the entry that makes
room is not the one recalled (`OldestStays`, the constant `RecallsOldest` FALSE):
otherwise `popFront` frees the block between the copy and the call, which is the
finding of `hist_recall`. `OnlyTheOldestIsLost` says that this is the only way: it
proves `CalledLive`, the very property that run refutes, without it. `TypeCorrect`
contains that no block is freed twice (`freed` is 0 or 1), hence its assumption.

`MemProofs` (any regions and sizes up to `LargestSize`, any number of calls):

| theorem | property |
|---|---|
| `HeadersStayLinked` | `BlocksLinked` |
| `LiveBlocksFit` | `LiveFit` |
| `FreeListStaysExact` | `FreeListExact` |
| `LargestStaysFree` | `LargestIsFree` |

The invariant claims that there are a number `k` and a sequence `c` of `k` headers
with three properties, each kept for as long as the property that needs it.

* `Sound`, until the client coalesces: `next` and `prev` run along `c`, whose
  addresses rise by at least a header and a smallest block (`Chain`); every pointer
  the library follows leads to one of these headers (`Closed`). It needs no more
  than that to go through reuse of freed blocks, when the free list is already
  wrong: that is why `BlocksLinked` outlasts the other three.
* `Exact`, until freed bytes are allocated again: from `head_free` and from every
  free header, `next_free` leads to the next free header of `c` (`FreeLinked`); the
  cached `largest` is free; the client's blocks are ALLOCATED and large enough.
  `FreeListExact` alone is not inductive, since `Mem_Free` finds a block's place by
  walking `prev`: `FreedLinked` needs to know which free block comes before it.
* `Packed`, until the first `Mem_Free`: only the last header can be free, and five
  bytes of the region are left for each byte of `last_block_size`. This is what
  keeps the headers inside the region (`PackedRoom`) and makes a cached `largest`
  the last block, the one exception of `LiveFit`.

`FreeListOfChain` and `BlocksOfChain` turn `c` into what the walks of the model
return, again by least counterexamples. One lemma for each operator of the model
says which fields it changes; `AllocateKeeps` and `FreeKeeps` put them together.

`DefragProofs` (any numbers of pointers in an inode, of ints and bytes in a block,
of blocks and inodes, and any images that are `WellFormed`):

| theorem | property |
|---|---|
| `FilesInOrder` | `InOrder` |
| `FilesSurvive` | `SameFiles` |
| `WasteOnly` | `WasteOnlyBehindExact` |
| `CopiesStayInside` | `StaysInside`: what is copied is read from and written to the inside of the image |

`Precedes` is the order in which a file is read, and `First(v)` how many blocks of
its data come before the place `v`. The first part of the module shows that the
loops walk along both: `Advance` adds one to `First` behind a block of data and
the whole `Span` behind an index block, and no place lies between a place and the
next. Hence `this_file_size` is the size less `First(place)` blocks (`Loop`), so that
the test the loops make is whether the file needs the place. The places they copy are
`Gets`: those the file needs and, behind a file that just fills a level, the index
block of the next (`Extra`). `Dest(image, i, v)` is the number of such places, of all
files, before `v` of file `i`.

None of the properties is inductive: `InOrder` speaks of files that are complete,
and what becomes of the one under way depends on the loops. The invariant (`Invariant`)
says that all that has been passed and nothing else has been copied (`Done`), each
block to its `Dest`. `Filled`: `block_index` is the `Dest` of the place of the loops,
and every block below it was filled by a place of `Done`. `Holders`: `curr_block` has the
copies of the index blocks on the way to the place. `InodesOK` and `BlocksOK`: every pointer
of an inode or an index block that has been copied leads to the `Dest` of its place if
that is in `Done`, and is the source's if not; this is why an index block's own
copy can be read for the source's pointers (`Pointer`), the ones not yet reached being
unchanged. `TypeOK` and `Phases` are what is left. That the order of `Dest` is that of
`InOrder`, and one count the other, is about cardinalities (`Rank`), from the
library's theorems on finite sets; `WasteOnly` counts the rest of a bijection. TLC
checked the invariant on the run's instance before it was proved.

The proofs use the assumptions on constants of the modules (`ConstantsAssumption`,
`BaboonAssumption`, `MatrixAssumption`, `HistoryAssumption`, `MemAssumption`,
`DefragAssumption`, `SourcesWellFormed`), `UserThreadFifoProofs` also
`FifoSupported` (the part of the library its README supports) and four theorems of
`ShellHistoryProofs` also `OldestStays`, and nothing else. Only model-checked is all
liveness (`ReadyRuns`, `MainResumes`, `EveryBaboonCrosses`, `MainEnds`): liveness
under fairness is beyond the prover used here. Every other property of a passing run
is a theorem.

## 5. What is not modelled

* Of `_PRIORITY`, a tick inside `thread_create` (it does not block SIGALRM: a list
  or `thread_count` may be caught half changed), inside `malloc` or the log's
  stream, and failures of `malloc` and `setitimer`. Ticks inside the library outside
  of these are modelled, but for one: a tick at the beginning of a call of main's, before
  SIGALRM is blocked, makes the call return 0 with nothing done. For `thread_yield` and
  `thread_join` of a thread this is `MainSwitches`; that a failing `thread_join` or
  `thread_libterminate` may be skipped like this is left out.
* Functions outside of the library that main calls, `printf` for one: a tick sends
  main back behind the latest of them, not of the library's.
* What runs on the scheduler's stack once `thread_libterminate` has freed it: a tick
  that comes then (`TickAfterEnd`) is an action, and what follows it is undefined.
* The arithmetic of SJF estimates, also in `userthread_aging.cpp`, which is
  `userthread.cpp` with another `set_estimated_time`: `UserThread` needs only that
  an estimate may become anything.
* `hw4/util.cpp`, `hw5/util.c`: drafts that no Makefile target links.
* `hw2/shell.c`: no state between commands.
* Of `hw2/shell_hist.c`, how a line is read and split, and an end of input in the
  middle of a line, after which the program reads on for ever.
* Of `hw5/mem.c`, a second `Mem_Init`, `Mem_delete_all`, a free of what is not the
  client's block (a double free falls through the check at line 279), and the
  region sizes of `-Dworst` and `-Daverage`.
* Two runs of a baboon program at once, which share semaphore names: the second
  unlinks them while the first run's baboons are still opening them.
* Of `hw6/defrag.c`, the fields of an inode that are only copied, and images whose
  files do not fit: past the end of `dest_buffer` nothing is defined.
* The test programs: clients of the libraries, quoted where they say what is
  expected.

## 6. Plan

In order:

1. `Mem`: an abstract allocator (disjoint blocks inside the region) that it should
   implement up to the first reuse.
2. `SJFEstimate`: the three-slot mean and the exponential average, as functions.
