----------------------------- MODULE UserThread -----------------------------
(***************************************************************************)
(* The user-level thread library of hw4/userthread.cpp under its two       *)
(* non-preemptive policies, _FIFO and _SJF.  No timer is armed for them,   *)
(* so a thread runs until it calls the library: each library call, with    *)
(* the whole pass of my_scheduler it triggers, is one action.              *)
(*                                                                         *)
(* The main program is not a thread of the library: it runs exactly when   *)
(* current_active is NULL.  thread_join and thread_yield called by main    *)
(* leave through setcontext without saving main; main resumes, inside that *)
(* same call, when a pass of my_scheduler finds nothing ready.             *)
(***************************************************************************)
EXTENDS Integers, Sequences, FiniteSets, SequencesExt

CONSTANTS
  MaxThreads,      \* bound: thread_create calls in one session
  Policies,        \* the policies main may pass to thread_libinit
  Estimates,       \* abstract values of estimated_runtime, in milliseconds
  SupportedJoins,  \* TRUE: a thread joins only what README's limits allow
  ThreadsTerminate \* TRUE: a thread may misuse thread_libterminate

ASSUME ConstantsAssumption ==
  /\ MaxThreads \in Nat \ {0}
  /\ Policies \subseteq {"FIFO", "SJF"}
  /\ Estimates \subseteq Nat /\ Estimates # {}
  /\ SupportedJoins \in BOOLEAN
  /\ ThreadsTerminate \in BOOLEAN

Tid == 1 .. MaxThreads
NULL == 0                        \* current_active == NULL: main runs
NOT_FOUND == -1
DEFAULT_PRIORITY == 50           \* QUANTA / 2, a new thread's place in ready_SJF
ENOUGH_YIELDS == 3               \* bound: yield_count is only tested for > 2

Status == {"NONE", "CREATED", "SCHEDULED", "STOPPED", "FINISHED", "YIELD"}
Entry == [id : Tid, priority : Nat]

VARIABLES
  initialized,        \* the library's flag
  init_ok,            \* the latest thread_libinit returned EXIT_SUCCESS
  schedule_policy,
  thread_count,       \* the last tid handed out
  thread_list,        \* tids in thread_list_head: every thread of the session
  current_active,
  ready,              \* ready_FIFO or ready_SJF, in order of insertion
  status,             \* of each thread ("NONE": not in thread_list)
  wait_tid,
  suspended_queue,    \* the threads suspended on each thread
  yield_count,
  estimated_runtime,
  main_join           \* tid main's pending or latest thread_join names, or NULL

libVars == <<initialized, init_ok, schedule_policy>>
estimateVars == <<yield_count, estimated_runtime>>
vars == <<libVars, thread_count, thread_list, current_active, ready, status,
          wait_tid, suspended_queue, estimateVars, main_join>>

TypeOK ==
  /\ initialized \in BOOLEAN
  /\ init_ok \in BOOLEAN
  /\ schedule_policy \in {"FIFO", "SJF"}
  /\ thread_count \in 0 .. MaxThreads
  /\ thread_list \in SUBSET Tid
  /\ current_active \in Tid \cup {NULL}
  /\ ready \in Seq(Entry)
  /\ status \in [Tid -> Status]
  /\ wait_tid \in [Tid -> Tid \cup {NOT_FOUND}]
  /\ suspended_queue \in [Tid -> Seq(Tid)]
  /\ yield_count \in [Tid -> 0 .. ENOUGH_YIELDS]
  /\ estimated_runtime \in [Tid -> Nat]
  /\ main_join \in Tid \cup {NULL}

-----------------------------------------------------------------------------
(* What the queues hold. *)

InReady(t) == \E i \in DOMAIN ready : ready[i].id = t
SuspendedOn(u) == ToSet(suspended_queue[u])
Suspended(t) == \E u \in Tid : t \in SuspendedOn(u)

(* u waits, directly or through others, for t: every set of threads that has
   u and is closed under "is suspended on" has t. *)
WaitsFor(u, t) ==
  \A S \in SUBSET Tid :
    (u \in S /\ \A x \in S, y \in Tid : x \in SuspendedOn(y) => y \in S) => t \in S

-----------------------------------------------------------------------------
(* my_scheduler. *)

(* Mutants: the entry behind the oldest; the last entry taken for an empty queue. *)
choose_second(q) == {i \in DOMAIN q : i = IF Len(q) > 1 THEN 2 ELSE 1}
choose_all_but_last(q) == {i \in DOMAIN q : i = 1 /\ Len(q) > 1}

(* Positions choose_next_thread_FIFO or choose_next_thread_SJF may take from
   queue q: the oldest; any entry of least priority (ready_SJF is a heap, whose
   order among equals is not the order of insertion). *)
choose_next(q) ==
  {i \in DOMAIN q :
     IF schedule_policy = "FIFO" THEN i = 1
     ELSE \A j \in DOMAIN q : q[i].priority <= q[j].priority}

EntryOf(t, estimate) == [id |-> t, priority |-> estimate]

(* The tail of my_scheduler: dispatch the thread at position i of q. *)
Dispatch(q, i, st) ==
  /\ status' = [st EXCEPT ![q[i].id] = "SCHEDULED"]
  /\ current_active' = q[i].id

(* Mutants: current_active keeps the thread that left, or takes the scheduler's
   answer NOT_FOUND. *)
BackToMainKeepingCurrent(st) == status' = st /\ UNCHANGED current_active
BackToMainNotFound(st) == status' = st /\ current_active' = NOT_FOUND

(* Nothing is ready: swapcontext to main_context. *)
BackToMain(st) ==
  /\ status' = st
  /\ current_active' = NULL

(* Mutant: the chosen entry is read and not popped. *)
ScheduleWithoutPop(q, st) ==
  \/ \E i \in choose_next(q) : Dispatch(q, i, st) /\ ready' = q
  \/ choose_next(q) = {} /\ BackToMain(st) /\ ready' = q

(* One pass: choose from q, leaving what is left of it ready, or go to main. *)
ScheduleFrom(q, st) ==
  \/ \E i \in choose_next(q) : Dispatch(q, i, st) /\ ready' = RemoveAt(q, i)
  \/ choose_next(q) = {} /\ BackToMain(st) /\ ready' = q

(* set_estimated_time and yield_count++, which only _SJF calls: from the third
   switch on the estimate is the mean of the last three run times. *)
UpdateEstimate(t) ==
  IF schedule_policy = "SJF"
  THEN /\ \E e \in IF yield_count[t] > 2 THEN Estimates ELSE {estimated_runtime[t]} :
            estimated_runtime' = [estimated_runtime EXCEPT ![t] = e]
       /\ yield_count' = [yield_count EXCEPT ![t] = IF @ < ENOUGH_YIELDS THEN @ + 1 ELSE @]
  ELSE UNCHANGED estimateVars

(* Mutants: the last waiter is left out; the thread that ended is queued too. *)
WokenButLast(t) ==
  [k \in 1 .. Len(suspended_queue[t]) - 1 |->
     EntryOf(suspended_queue[t][k], estimated_runtime[suspended_queue[t][k]])]
WokenAndSelf(t) == <<EntryOf(t, estimated_runtime[t])>>

(* The ready entries of the threads t's end wakes, in their order of arrival. *)
Woken(t) ==
  [k \in DOMAIN suspended_queue[t] |->
     EntryOf(suspended_queue[t][k], estimated_runtime[suspended_queue[t][k]])]

-----------------------------------------------------------------------------
(* thread_libinit and thread_libterminate. *)

(* What thread_libinit and thread_libterminate leave of the threads: none. *)
NoThreads ==
  /\ thread_list' = {}
  /\ ready' = <<>>
  /\ status' = [t \in Tid |-> "NONE"]
  /\ wait_tid' = [t \in Tid |-> NOT_FOUND]
  /\ suspended_queue' = [t \in Tid |-> <<>>]
  /\ yield_count' = [t \in Tid |-> 0]
  /\ estimated_runtime' = [t \in Tid |-> 0]

MainRuns == current_active = NULL

LibInit(policy) ==
  /\ MainRuns
  /\ ~initialized
  /\ initialized' = TRUE
  /\ init_ok' = TRUE
  /\ schedule_policy' = policy
  /\ thread_count' = 0
  /\ current_active' = NULL
  /\ NoThreads
  /\ main_join' = NULL

(* malloc of the scheduler's stack (before thread_count is reset) or of main's
   stack (after) fails: EXIT_WITH_ERROR, with the library marked initialized. *)
LibInitNoMemory(policy) ==
  /\ MainRuns
  /\ ~initialized
  /\ initialized' = TRUE
  /\ init_ok' = FALSE
  /\ schedule_policy' = policy
  /\ thread_count' \in {thread_count, 0}
  /\ UNCHANGED <<thread_list, current_active, ready, status, wait_tid,
                 suspended_queue, estimateVars, main_join>>

(* Main's call.  Main does not use the library after a failed thread_libinit,
   except to end it. *)
LibTerminate ==
  /\ MainRuns
  /\ initialized
  /\ initialized' = FALSE
  /\ init_ok' = FALSE
  /\ NoThreads
  /\ main_join' = NULL
  /\ UNCHANGED <<schedule_policy, thread_count, current_active>>

(* A thread's call frees every thread, the caller's own stack included, and
   leaves current_active as it is.  What the caller does next is undefined. *)
ThreadLibTerminate(t) ==
  /\ ThreadsTerminate
  /\ current_active = t
  /\ initialized
  /\ initialized' = FALSE
  /\ NoThreads
  /\ UNCHANGED <<init_ok, schedule_policy, thread_count, current_active, main_join>>

-----------------------------------------------------------------------------
(* The calls of main and of the threads. *)

(* The caller may be main or the running thread. *)
Usable == initialized /\ init_ok

(* estimated_runtime starts at average_time_so_far, one of Estimates. *)
ThreadCreate ==
  /\ Usable
  /\ thread_count < MaxThreads
  /\ LET t == thread_count + 1 IN
       /\ thread_count' = t
       /\ thread_list' = thread_list \cup {t}
       /\ status' = [status EXCEPT ![t] = "CREATED"]
       /\ wait_tid' = [wait_tid EXCEPT ![t] = NOT_FOUND]
       /\ suspended_queue' = [suspended_queue EXCEPT ![t] = <<>>]
       /\ yield_count' = [yield_count EXCEPT ![t] = 0]
       /\ \E e \in Estimates : estimated_runtime' = [estimated_runtime EXCEPT ![t] = e]
       /\ ready' = Append(ready, EntryOf(t, DEFAULT_PRIORITY))
  /\ UNCHANGED <<libVars, current_active, main_join>>

(* malloc of the stack fails after thread_count++: the tid is used up. *)
ThreadCreateNoStack ==
  /\ Usable
  /\ thread_count < MaxThreads
  /\ thread_count' = thread_count + 1
  /\ UNCHANGED <<libVars, thread_list, current_active, ready, status, wait_tid,
                 suspended_queue, estimateVars, main_join>>

(* Main hands the CPU to the scheduler, with current_active NULL. *)
MainSwitches ==
  /\ Usable
  /\ MainRuns
  /\ ScheduleFrom(ready, status)
  /\ UNCHANGED <<libVars, thread_count, thread_list, wait_tid, suspended_queue,
                 estimateVars>>

MainYield == MainSwitches /\ main_join' = NULL

MainJoin(u) == u \in thread_list /\ MainSwitches /\ main_join' = u

(* The CPU is with thread t, in code of the program. *)
Runs(t) == current_active = t /\ Usable

(* _FIFO queues the caller and then chooses; _SJF chooses among the others and
   queues the caller only if there was one. *)
ThreadYield(t) ==
  /\ Runs(t)
  /\ UpdateEstimate(t)
  /\ LET st == [status EXCEPT ![t] = "YIELD"] IN
     IF schedule_policy = "FIFO"
     THEN ScheduleFrom(Append(ready, EntryOf(t, estimated_runtime[t])), st)
     ELSE \/ \E i \in choose_next(ready) :
               /\ Dispatch(ready, i, st)
               /\ ready' = Append(RemoveAt(ready, i), EntryOf(t, estimated_runtime'[t]))
          \/ ready = <<>> /\ BackToMain(st) /\ ready' = ready
  /\ UNCHANGED <<libVars, thread_count, thread_list, wait_tid, suspended_queue, main_join>>

(* The joins the README supports, of a target that has not finished. *)
Supported(t, u) == status[u] # "FINISHED" /\ ~WaitsFor(u, t)

(* Mutant: the caller is suspended on the thread that runs next. *)
SuspendOnNext(t, u) == [suspended_queue EXCEPT ![ready[1].id] = Append(@, t)]

SuspendOn(t, u) == [suspended_queue EXCEPT ![u] = Append(@, t)]

(* The caller is suspended on u, finished or not, only if another thread can
   run; otherwise main gets the CPU and the caller is on no queue. *)
ThreadJoin(t, u) ==
  /\ Runs(t)
  /\ u \in thread_list
  /\ SupportedJoins => Supported(t, u)
  /\ UpdateEstimate(t)
  /\ wait_tid' = [wait_tid EXCEPT ![t] = u]
  /\ ScheduleFrom(ready, [status EXCEPT ![t] = "STOPPED"])
  /\ suspended_queue' = IF ready = <<>> THEN suspended_queue ELSE SuspendOn(t, u)
  /\ UNCHANGED <<libVars, thread_count, thread_list, main_join>>

(* The thread's function returns into thread_wrapper. *)
ThreadReturn(t) ==
  /\ Runs(t)
  /\ suspended_queue' = [suspended_queue EXCEPT ![t] = <<>>]
  /\ ScheduleFrom(ready \o Woken(t), [status EXCEPT ![t] = "FINISHED"])
  /\ UNCHANGED <<libVars, thread_count, thread_list, wait_tid, estimateVars, main_join>>

-----------------------------------------------------------------------------
Init ==
  /\ initialized = FALSE
  /\ init_ok = FALSE
  /\ schedule_policy = "FIFO"
  /\ thread_count = 0
  /\ thread_list = {}
  /\ current_active = NULL
  /\ ready = <<>>
  /\ status = [t \in Tid |-> "NONE"]
  /\ wait_tid = [t \in Tid |-> NOT_FOUND]
  /\ suspended_queue = [t \in Tid |-> <<>>]
  /\ yield_count = [t \in Tid |-> 0]
  /\ estimated_runtime = [t \in Tid |-> 0]
  /\ main_join = NULL

ThreadSwitches(t) ==
  ThreadYield(t) \/ ThreadReturn(t) \/ \E u \in Tid : ThreadJoin(t, u)

Next ==
  \/ \E policy \in Policies : LibInit(policy) \/ LibInitNoMemory(policy)
  \/ LibTerminate
  \/ ThreadCreate
  \/ ThreadCreateNoStack
  \/ MainYield
  \/ \E u \in Tid : MainJoin(u)
  \/ \E t \in Tid : ThreadSwitches(t) \/ ThreadLibTerminate(t)

Spec == Init /\ [][Next]_vars

(* The running thread, main aside, does not keep the CPU for ever. *)
YieldingSpec == Spec /\ WF_vars(\E t \in Tid : ThreadSwitches(t))

(* A thread's function, given the CPU again and again, returns. *)
ReturningSpec == Spec /\ \A t \in Tid : SF_vars(ThreadReturn(t))

-----------------------------------------------------------------------------
(* Safety. *)

(* A thread is in at most one place: once in the ready queue, or once on one
   suspended_queue, or running.  A thread queued twice would later be resumed
   from a context it already left (my_scheduler pushes in nine places, and the
   thread it pushes may be the caller, a new thread or a woken one). *)
QueuedOnce ==
  /\ \A i, j \in DOMAIN ready : ready[i].id = ready[j].id => i = j
  /\ \A u \in Tid : \A i, j \in DOMAIN suspended_queue[u] :
       suspended_queue[u][i] = suspended_queue[u][j] => i = j
  /\ \A u, v \in Tid : u # v => SuspendedOn(u) \cap SuspendedOn(v) = {}
  /\ \A t \in Tid : ~(InReady(t) /\ Suspended(t))
  /\ \A t \in Tid : t = current_active => ~InReady(t) /\ ~Suspended(t)

(* Under _FIFO, with the joins the README supports, a thread that has been
   created and has neither finished nor the CPU can still get it: it is ready,
   or suspended on a thread of the session that has not finished. *)
NoThreadLost ==
  \A t \in thread_list :
    \/ status[t] \in {"SCHEDULED", "FINISHED"}
    \/ InReady(t)
    \/ \E u \in thread_list : status[u] # "FINISHED" /\ t \in SuspendedOn(u)

(* When thread_join(tid) returns success to main, thread tid has finished: the
   scheduler must not come back to main while the thread main waits for is
   still to run. *)
MainJoinFinished ==
  (MainRuns /\ main_join # NULL) => status[main_join] = "FINISHED"

(* As long as the library is initialized, whatever runs as a thread is a thread
   of the session, the one marked SCHEDULED. *)
CurrentLive ==
  initialized /\ current_active # NULL =>
    current_active \in thread_list /\ status[current_active] = "SCHEDULED"

(* A thread that called thread_join gets the CPU back only once the thread it
   joined has finished, however many switches lie between. *)
JoinReturnsAfterFinish ==
  [][\A t \in Tid :
       (status[t] = "STOPPED" /\ status'[t] = "SCHEDULED")
         => status'[wait_tid[t]] = "FINISHED"]_vars

-----------------------------------------------------------------------------
(* Liveness. *)

(* Under _FIFO a ready thread gets the CPU, even from threads that yield for
   ever: the queue is first come, first served and main comes last. *)
ReadyRuns ==
  \A t \in Tid : (current_active # NULL /\ InReady(t)) ~> (current_active = t)

(* Main's thread_join and thread_yield return once the threads' functions do,
   unless a thread has ended the library under its own feet. *)
MainResumes == (current_active # NULL) ~> (MainRuns \/ ~initialized)

-----------------------------------------------------------------------------
(* Refinement. *)

StateOf(t) ==
  IF status[t] = "NONE" THEN "absent"
  ELSE IF status[t] = "FINISHED" THEN "done"
  ELSE IF current_active = t THEN "running"
  ELSE IF InReady(t) THEN "ready"
  ELSE "blocked"

Promise == INSTANCE CooperativeThreads WITH
  Thread <- Tid,
  Main   <- NULL,
  state  <- [t \in Tid |-> StateOf(t)],
  target <- [t \in Tid |-> IF StateOf(t) = "blocked" THEN wait_tid[t] ELSE NULL],
  cpu    <- current_active

(* Under _FIFO, with supported joins, the library keeps the promise of
   CooperativeThreads: its queues and statuses only decide which of the ready
   threads goes on. *)
KeepsPromise == Promise!ASpec
=============================================================================
