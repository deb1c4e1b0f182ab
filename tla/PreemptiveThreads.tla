-------------------------- MODULE PreemptiveThreads --------------------------
(***************************************************************************)
(* The user-level thread library of hw4/userthread.cpp under _PRIORITY,    *)
(* after thread_libinit: three ready queues, a lottery between them, and   *)
(* the timer whose SIGALRM may come wherever the signal is not blocked.    *)
(*                                                                         *)
(* thread_yield, thread_join, thread_wrapper and the handler all let       *)
(* SIGALRM in again before their swapcontext, and my_scheduler does before *)
(* its own.  A call is therefore two actions: up to the point where the    *)
(* signal is let in, and from swapcontext through my_scheduler to the next *)
(* thread; the ticks that may come between and around them are actions of  *)
(* their own.  Joins are the ones the README of hw4 supports, and malloc   *)
(* and setitimer succeed (UserThread has the failures of malloc).  Main    *)
(* calls no function but the library's; its calls are one step each.       *)
(***************************************************************************)
EXTENDS Integers, Sequences, FiniteSets, SequencesExt

CONSTANTS
  MaxThreads,   \* bound: thread_create calls
  Priorities    \* what the program passes to them

ASSUME ConstantsAssumption ==
  /\ MaxThreads \in Nat \ {0}
  /\ Priorities \subseteq {-1, 0, 1}

Tid == 1 .. MaxThreads
NULL == 0                \* current_active == NULL: main runs
NOT_FOUND == -1
EXIT_SUCCESS == 0
EXIT_WITH_ERROR == -1

Priority == {-1, 0, 1}   \* FIRST-1, SECOND-1, THIRD-1
Status == {"NONE", "CREATED", "SCHEDULED", "STOPPED", "FINISHED", "YIELD"}

(* Mutant: the last queue is only asked when the others are empty. *)
LotteryOfTwo(lucky) ==
  IF lucky = "below 10" THEN <<0, -1, 1>> ELSE <<-1, 0, 1>>

(* The order in which choose_next_thread_PRI asks the queues, by rand() % 19. *)
Lucky == {"below 4", "below 10", "other"}
Lottery(lucky) ==
  CASE lucky = "below 4"  -> <<1, -1, 0>>
    [] lucky = "below 10" -> <<0, -1, 1>>
    [] lucky = "other"    -> <<-1, 0, 1>>

(* Where a thread goes on when it has, or gets, the CPU. *)
Place == {"own",      \* in code of its own
          "yield", "join", "return",
                      \* in that call, or back from a function's return: up to
                      \* swapcontext, and then in it until it is dispatched
          "handler",  \* likewise, in sigalarm_handler
          "again",    \* about to prepare and enter the scheduler, having been
                      \* dispatched since it meant to
          "doomed",   \* about to end the process
          "lost"}     \* its context is one of the scheduler's stack

(* Where main is.  Whoever takes the CPU from it, it is main_context that is resumed:
   the end of thread_libinit, on a stack where the return address of main's latest call
   is by now.  So main returns from that call, with EXIT_SUCCESS. *)
MainPlace == {"behind",   \* just behind its latest call of the library
              "ahead"}    \* it has run code of its own since

VARIABLES
  thread_count,
  priority,
  status,
  wait_tid,
  suspended_queue,
  ready,           \* ready_queue_first, _second, _third, by priority
  current_active,
  place,
  blocked,         \* those who run with SIGALRM blocked, NULL for main
  leaving,         \* my_scheduler may still be about to swap to current_active
  outcome,         \* of the process
  main_at,
  main_result      \* what main's latest call has returned, or will return to it next

threadVars == <<thread_count, priority, wait_tid>>
mainVars == <<main_at, main_result>>
vars == <<threadVars, status, suspended_queue, ready, current_active, place,
          blocked, leaving, outcome, mainVars>>

TypeOK ==
  /\ thread_count \in 0 .. MaxThreads
  /\ priority \in [Tid -> Priority]
  /\ status \in [Tid -> Status]
  /\ wait_tid \in [Tid -> Tid \cup {NOT_FOUND}]
  /\ suspended_queue \in [Tid -> Seq(Tid)]
  /\ ready \in [Priority -> Seq(Tid)]
  /\ current_active \in Tid \cup {NULL}
  /\ place \in [Tid -> Place]
  /\ blocked \subseteq Tid \cup {NULL}
  /\ leaving \in BOOLEAN
  /\ outcome \in {"runs", "ended", "exited", "undefined"}
  /\ main_at \in MainPlace
  /\ main_result \in Tid \cup {EXIT_SUCCESS, EXIT_WITH_ERROR}

Created == 1 .. thread_count
InReady(t) == \E p \in Priority : t \in ToSet(ready[p])
SuspendedOn(u) == ToSet(suspended_queue[u])

(* u waits, directly or through others, for t. *)
WaitsFor(u, t) ==
  \A S \in SUBSET Tid :
    (u \in S /\ \A x \in S, y \in Tid : x \in SuspendedOn(y) => y \in S) => t \in S

-----------------------------------------------------------------------------
(* my_scheduler. *)

Enqueue(q, t) == [q EXCEPT ![priority[t]] = Append(@, t)]

(* The queues q once the threads of s have been pushed, one after the other. *)
EnqueueAll(q, s) ==
  LET pushed[k \in 0 .. Len(s)] == IF k = 0 THEN q ELSE Enqueue(pushed[k - 1], s[k])
  IN pushed[Len(s)]

(* Mutants: the thread that ended is queued too; the last waiter is left out. *)
EnqueueWaitersAndSelf(q, t) == EnqueueAll(q, Append(suspended_queue[t], t))
EnqueueWaitersButLast(q, t) ==
  EnqueueAll(q, SubSeq(suspended_queue[t], 1, Len(suspended_queue[t]) - 1))

EnqueueWaiters(q, t) == EnqueueAll(q, suspended_queue[t])

(* The queue choose_next_thread_PRI takes from: the first that is not empty. *)
Asked(q, lucky) ==
  {Lottery(lucky)[i] : i \in {k \in 1 .. 3 :
     /\ q[Lottery(lucky)[k]] # <<>>
     /\ \A j \in 1 .. k - 1 : q[Lottery(lucky)[j]] = <<>>}}

(* The tail of my_scheduler.  A thread whose saved context is a frame of the
   scheduler's stack, run over since, goes on in no defined way. *)
Dispatch(n, st, pl) ==
  /\ current_active' = n
  /\ status' = [st EXCEPT ![n] = "SCHEDULED"]
  /\ place' = [pl EXCEPT ![n] = IF @ \in {"yield", "join", "handler"} THEN "own" ELSE @]
  /\ leaving' = TRUE
  /\ outcome' = IF pl[n] = "lost" THEN "undefined" ELSE outcome

(* Mutant: current_active takes the lottery's answer. *)
BackToMainNotFound(st, pl) ==
  /\ current_active' = NOT_FOUND
  /\ status' = st
  /\ place' = pl
  /\ leaving' = FALSE
  /\ UNCHANGED outcome

BackToMain(st, pl) ==
  /\ current_active' = NULL
  /\ status' = st
  /\ place' = pl
  /\ leaving' = FALSE
  /\ UNCHANGED outcome

(* The pass's end, with the threads ready in q. *)
ScheduleFrom(q, st, pl, lucky) ==
  \/ \E p \in Asked(q, lucky) :
       /\ Dispatch(Head(q[p]), st, pl)
       /\ ready' = [q EXCEPT ![p] = Tail(@)]
  \/ Asked(q, lucky) = {} /\ BackToMain(st, pl) /\ ready' = q

-----------------------------------------------------------------------------
(* Threads in code of their own. *)

Alive == outcome = "runs"
Runs(t) == Alive /\ current_active = t
InOwnCode(t) == Runs(t) /\ place[t] = "own"
MainRuns == Alive /\ current_active = NULL
CallerInOwnCode == Alive /\ (current_active # NULL => InOwnCode(current_active))

(* t, in its own code, comes as far as the swapcontext of a call. *)
Reaches(t, p, s) ==
  /\ InOwnCode(t)
  /\ place' = [place EXCEPT ![t] = p]
  /\ status' = [status EXCEPT ![t] = s]
  /\ leaving' = FALSE
  /\ UNCHANGED <<thread_count, priority, suspended_queue, ready, current_active,
                 outcome, mainVars>>

thread_yield(t) ==
  /\ Reaches(t, "yield", "YIELD")
  /\ blocked' = blocked \ {t}
  /\ UNCHANGED wait_tid

(* The joins the README supports, of a target that has not finished. *)
Supported(t, u) == u \in Created /\ status[u] # "FINISHED" /\ ~WaitsFor(u, t)

thread_join(t, u) ==
  /\ Supported(t, u)
  /\ Reaches(t, "join", "STOPPED")
  /\ wait_tid' = [wait_tid EXCEPT ![t] = u]
  /\ blocked' = blocked \ {t}

(* The thread's function returns into thread_wrapper. *)
thread_returns(t) ==
  /\ Reaches(t, "return", "FINISHED")
  /\ UNCHANGED <<wait_tid, blocked>>

(* A tick in t's own code: sigalarm_handler. *)
Tick(t) ==
  /\ t \notin blocked
  /\ Reaches(t, "handler", "YIELD")
  /\ UNCHANGED <<wait_tid, blocked>>

(* The caller is told r; where it is matters only of main. *)
Returns(r) ==
  IF current_active = NULL
    THEN main_at' = "behind" /\ main_result' = r
    ELSE UNCHANGED mainVars

(* thread_join of a tid no thread has, by main or a thread: it fails after it
   has blocked SIGALRM. *)
JoinUnknown ==
  /\ CallerInOwnCode
  /\ blocked' = blocked \cup {current_active}
  /\ leaving' = FALSE
  /\ Returns(EXIT_WITH_ERROR)
  /\ UNCHANGED <<threadVars, status, suspended_queue, ready, current_active, place,
                 outcome>>

(* By main or a thread; the new thread starts with its creator's signal mask. *)
thread_create(p) ==
  /\ CallerInOwnCode
  /\ thread_count < MaxThreads
  /\ LET t == thread_count + 1 IN
       /\ thread_count' = t
       /\ priority' = [priority EXCEPT ![t] = p]
       /\ status' = [status EXCEPT ![t] = "CREATED"]
       /\ ready' = [ready EXCEPT ![p] = Append(@, t)]
       /\ blocked' = IF current_active \in blocked THEN blocked \cup {t} ELSE blocked
       /\ Returns(t)
  /\ leaving' = FALSE
  /\ UNCHANGED <<wait_tid, suspended_queue, current_active, place, outcome>>

-----------------------------------------------------------------------------
(* From swapcontext on. *)

InCall(t) == Runs(t) /\ place[t] \in {"yield", "join", "return", "handler"}

callVars == <<threadVars, blocked, mainVars>>

(* The pass of my_scheduler for a thread that is FINISHED, YIELD or STOPPED. *)
EndsAndWakes(t, lucky) ==
  /\ status[t] = "FINISHED"
  /\ suspended_queue' = [suspended_queue EXCEPT ![t] = <<>>]
  /\ ScheduleFrom(EnqueueWaiters(ready, t), status, place, lucky)

Yields(t, lucky) ==
  /\ status[t] = "YIELD"
  /\ ScheduleFrom(Enqueue(ready, t), status, place, lucky)
  /\ UNCHANGED suspended_queue

(* Mutant: the caller waits for the thread that is chosen instead. *)
SuspendOnNext(t, lucky) ==
  [suspended_queue EXCEPT ![Head(ready[CHOOSE p \in Asked(ready, lucky) : TRUE])] = Append(@, t)]

Suspend(t, lucky) == [suspended_queue EXCEPT ![wait_tid[t]] = Append(@, t)]

(* The caller of thread_join is suspended only if another thread can run. *)
Stops(t, lucky) ==
  /\ status[t] = "STOPPED"
  /\ ScheduleFrom(ready, status, place, lucky)
  /\ suspended_queue' = IF Asked(ready, lucky) = {} THEN suspended_queue ELSE Suspend(t, lucky)

Switch(t, lucky) ==
  /\ InCall(t)
  /\ EndsAndWakes(t, lucky) \/ Yields(t, lucky) \/ Stops(t, lucky)
  /\ UNCHANGED callVars

(* The pass of a thread that is SCHEDULED takes none of the branches, finds in
   nextID what the pass before left there, and dispatches the caller again. *)
SwitchAgain(t) ==
  /\ Runs(t)
  /\ place[t] = "again"
  /\ place' = [place EXCEPT ![t] = "own"]
  /\ leaving' = TRUE
  /\ UNCHANGED <<callVars, status, suspended_queue, ready, current_active, outcome>>

(* swapcontext leads behind the swapcontext of the scheduler's last pass, and
   my_scheduler returns; or thread_wrapper does.  Neither has a uc_link: the
   process exits. *)
FallsOff(t) ==
  /\ Runs(t)
  /\ place[t] = "doomed"
  /\ outcome' = "exited"
  /\ UNCHANGED <<callVars, status, suspended_queue, ready, current_active, place,
                 leaving>>

-----------------------------------------------------------------------------
(* Ticks between a call and its end. *)

(* Where t, hit by a tick before its swapcontext, goes on when dispatched.  The
   scheduler it is about to enter has run since makecontext prepared it, except
   if thread_yield was not that far; a FINISHED thread that is dispatched again
   comes to the end of thread_wrapper. *)
AfterTick(p) == IF p \in {"yield", "again"} THEN {"again", "doomed"} ELSE {"doomed"}

(* sigalarm_handler, and the pass it starts. *)
Preempted(t, p, lucky) ==
  /\ ScheduleFrom(Enqueue(ready, t), [status EXCEPT ![t] = "YIELD"],
                  [place EXCEPT ![t] = p], lucky)
  /\ UNCHANGED <<callVars, suspended_queue>>

TickBeforeSwitch(t, lucky) ==
  /\ Runs(t)
  /\ place[t] # "own"
  /\ t \notin blocked
  /\ \E p \in AfterTick(place[t]) : Preempted(t, p, lucky)

(* On the scheduler's stack, before my_scheduler has blocked SIGALRM or after it
   has let it in again: that stack is saved as the context of current_active. *)
TickInScheduler(t, lucky) ==
  /\ Runs(t)
  /\ place[t] # "own" \/ leaving
  /\ Preempted(t, "lost", lucky)

(* Likewise on the scheduler's way to main, before current_active is NULL: t is the
   only thread ready then, and the next pass dispatches it. *)
TickOnTheWayToMain(t) ==
  /\ InCall(t)
  /\ status[t] \in {"FINISHED", "STOPPED"}
  /\ status[t] = "FINISHED" => suspended_queue[t] = <<>>
  /\ \A p \in Priority : ready[p] = <<>>
  /\ outcome' = "undefined"
  /\ UNCHANGED <<callVars, status, suspended_queue, ready, current_active, place, leaving>>

-----------------------------------------------------------------------------
(* Main. *)

(* Main runs code of its own. *)
MainGoesOn ==
  /\ MainRuns
  /\ main_at # "ahead"
  /\ main_at' = "ahead"
  /\ UNCHANGED <<threadVars, status, suspended_queue, ready, current_active, place,
                 blocked, leaving, outcome, main_result>>

(* The CPU goes from main to a thread, or straight back to main_context. *)
GivesCPU(lucky) ==
  /\ MainRuns
  /\ ScheduleFrom(ready, status, place, lucky)
  /\ main_at' = "behind"
  /\ main_result' = EXIT_SUCCESS
  /\ UNCHANGED <<threadVars, suspended_queue>>

(* thread_yield, or thread_join of a thread, called by main. *)
MainSwitches(lucky) ==
  /\ GivesCPU(lucky)
  /\ blocked' = blocked \ {NULL}

(* Mutant: the handler goes back to main_context without a pass of the scheduler. *)
MainTickWithoutPass(lucky) ==
  /\ MainRuns
  /\ NULL \notin blocked
  /\ main_at' = "behind"
  /\ main_result' = EXIT_SUCCESS
  /\ leaving' = FALSE
  /\ UNCHANGED <<threadVars, status, suspended_queue, ready, current_active, place,
                 blocked, outcome>>

(* The handler does not save main: a tick in code behind its latest call sends main back
   behind it, to run that code again, and the tid or the error the call has returned
   becomes EXIT_SUCCESS. *)
MainTick(lucky) ==
  /\ NULL \notin blocked
  /\ GivesCPU(lucky)
  /\ UNCHANGED blocked

(* The scheduler's stack is freed and the timer goes on. *)
thread_libterminate ==
  /\ MainRuns
  /\ outcome' = "ended"
  /\ UNCHANGED <<callVars, status, suspended_queue, ready, current_active, place,
                 leaving>>

TickAfterEnd ==
  /\ outcome = "ended"
  /\ NULL \notin blocked
  /\ outcome' = "undefined"
  /\ UNCHANGED <<callVars, status, suspended_queue, ready, current_active, place, leaving>>

-----------------------------------------------------------------------------
Init ==
  /\ thread_count = 0
  /\ priority = [t \in Tid |-> 0]
  /\ status = [t \in Tid |-> "NONE"]
  /\ wait_tid = [t \in Tid |-> NOT_FOUND]
  /\ suspended_queue = [t \in Tid |-> <<>>]
  /\ ready = [p \in Priority |-> <<>>]
  /\ current_active = NULL
  /\ place = [t \in Tid |-> "own"]
  /\ blocked = {}
  /\ leaving = FALSE
  /\ outcome = "runs"
  /\ main_at = "behind"
  /\ main_result = EXIT_SUCCESS

Calls(t) == thread_yield(t) \/ thread_returns(t) \/ \E u \in Tid : thread_join(t, u)

(* A pass with one outcome of the lottery. *)
Pass(lucky) ==
  \/ \E t \in Tid : Switch(t, lucky) \/ TickBeforeSwitch(t, lucky) \/ TickInScheduler(t, lucky)
  \/ MainSwitches(lucky)
  \/ MainTick(lucky)

Next ==
  \/ \E t \in Tid : Calls(t) \/ Tick(t) \/ SwitchAgain(t) \/ FallsOff(t) \/ TickOnTheWayToMain(t)
  \/ JoinUnknown
  \/ MainGoesOn
  \/ \E p \in Priorities : thread_create(p)
  \/ \E lucky \in Lucky : Pass(lucky)
  \/ thread_libterminate
  \/ TickAfterEnd

Spec == Init /\ [][Next]_vars

(* The timer goes on ticking, whoever has the CPU goes on to the end of a call it
   has begun, and each outcome of the lottery comes up again and again. *)
FairSpec ==
  /\ Spec
  /\ WF_vars(\E t \in Tid : Tick(t))
  /\ WF_vars(\E lucky \in Lucky : MainTick(lucky))
  /\ WF_vars(\E t \in Tid : SwitchAgain(t) \/ FallsOff(t) \/ \E lucky \in Lucky : Switch(t, lucky))
  /\ \A lucky \in Lucky : SF_vars(Pass(lucky))

-----------------------------------------------------------------------------
(* Safety. *)

(* Wherever the ticks come, a thread is in one place: once in one ready queue, that
   of its priority, or once on one suspended_queue, or running, or finished. *)
QueuedOnce ==
  /\ \A p \in Priority : \A i, j \in DOMAIN ready[p] : ready[p][i] = ready[p][j] => i = j
  /\ \A p \in Priority : \A t \in ToSet(ready[p]) : priority[t] = p
  /\ \A u \in Tid : \A i, j \in DOMAIN suspended_queue[u] :
       suspended_queue[u][i] = suspended_queue[u][j] => i = j
  /\ \A u, v \in Tid : u # v => SuspendedOn(u) \cap SuspendedOn(v) = {}
  /\ \A t \in Tid : InReady(t) \/ status[t] = "FINISHED" \/ t = current_active =>
       \A u \in Tid : t \notin SuspendedOn(u)
  /\ \A t \in Tid : status[t] = "FINISHED" \/ t = current_active => ~InReady(t)

(* Whenever main goes on behind a call that has returned EXIT_SUCCESS, every thread
   there is has finished: behind thread_yield and thread_join, and also behind the call a
   tick has sent it back to.  The tid thread_create had returned there, and main has
   lost, is one nobody needs to join any more, and what main repeats, it repeats with no
   thread about. *)
SuccessAtTheEnd ==
  MainRuns /\ main_result = EXIT_SUCCESS =>
    \A t \in Created : status[t] = "FINISHED"

(* A thread goes on behind thread_join only once the thread it joined has finished,
   even if ticks have come in the middle of that thread_join or of the end of the
   other thread: what such a tick costs is the process, not a join kept too early. *)
JoinReturnsAfterFinish ==
  [][\A t \in Tid : (place[t] = "join" /\ place'[t] = "own")
                      => status'[wait_tid[t]] = "FINISHED"]_vars

-----------------------------------------------------------------------------
(* Liveness. *)

(* Who has the CPU runs with SIGALRM blocked: after a thread_join of an unknown tid. *)
NobodyPreempts == current_active \in blocked

(* A ready thread of any priority gets the CPU from threads that never call the
   library and from main, unless the process has ended or the CPU is with somebody
   who runs with SIGALRM blocked. *)
ReadyRuns ==
  \A t \in Tid : InReady(t) ~> (current_active = t \/ ~Alive \/ NobodyPreempts)

-----------------------------------------------------------------------------
(* Refinement. *)

StateOf(t) ==
  IF status[t] = "NONE" THEN "absent"
  ELSE IF current_active = t THEN "running"
  ELSE IF status[t] = "FINISHED" THEN "done"
  ELSE IF InReady(t) THEN "ready" ELSE "blocked"

Promise == INSTANCE CooperativeThreads WITH
  Thread <- Tid,
  Main   <- NULL,
  state  <- [t \in Tid |-> StateOf(t)],
  target <- [t \in Tid |-> IF StateOf(t) = "blocked" THEN wait_tid[t] ELSE NULL],
  cpu    <- current_active

(* As long as it lasts, a session under _PRIORITY keeps the promise of
   CooperativeThreads, where a tick is a yield: main gets the CPU only when every
   thread is done, and the end of a thread frees those who wait for it. *)
KeepsPromise == Promise!ASpec
=============================================================================
