------------------------ MODULE UserThreadFifoProofs ------------------------
(***************************************************************************)
(* Theorems of UserThread under _FIFO with the joins the README of hw4     *)
(* supports, for every number of threads: no thread is lost, and main      *)
(* comes back from thread_join only when the thread it joined, and in fact *)
(* every thread, has finished.                                             *)
(*                                                                         *)
(* The argument is about the graph "is suspended on".  It has no cycle,    *)
(* because a thread joins only a thread that does not wait for it.  So     *)
(* among threads that have not finished, one waits for none of the others, *)
(* and, not lost, it is ready: the ready queue is empty only when all have *)
(* finished.                                                               *)
(***************************************************************************)
EXTENDS UserThreadProofs

FifoSupported ==
  Policies \subseteq {"FIFO"} /\ SupportedJoins = TRUE /\ ThreadsTerminate = FALSE

(* NoThreadLost of queue q, suspension queues sus and statuses st, when no
   thread runs. *)
AllKept(q, sus, st, list) ==
  \A t \in list :
    \/ st[t] = "FINISHED"
    \/ t \in Ids(q)
    \/ \E u \in list : st[u] # "FINISHED" /\ t \in ToSet(sus[u])

(* In every set of threads one is suspended on none of them. *)
NoCycle(sus) ==
  \A S \in SUBSET Tid : S # {} => \E x \in S : \A y \in S : x \notin ToSet(sus[y])

(* Only the running thread is SCHEDULED. *)
OneScheduled == \A t \in Tid : status[t] = "SCHEDULED" => t = current_active

MainJoinListed == main_join # NULL => main_join \in thread_list

FifoInv ==
  /\ IInv
  /\ schedule_policy = "FIFO"
  /\ NoThreadLost
  /\ OneScheduled
  /\ NoCycle(suspended_queue)
  /\ MainJoinListed
  /\ MainJoinFinished

-----------------------------------------------------------------------------
(* If no thread is ready and none is lost, all have finished. *)
LEMMA EmptyMeansFinished ==
  ASSUME NEW sus, NEW st, NEW list \in SUBSET Tid, NEW q, Ids(q) = {},
         AllKept(q, sus, st, list), NoCycle(sus)
  PROVE  \A t \in list : st[t] = "FINISHED"
<1> DEFINE U == {t \in list : st[t] # "FINISHED"}
<1> SUFFICES ASSUME U # {} PROVE FALSE
  OBVIOUS
<1>1. PICK x \in U : \A y \in U : x \notin ToSet(sus[y])
  BY DEF NoCycle
<1>2. \E u \in list : st[u] # "FINISHED" /\ x \in ToSet(sus[u])
  BY DEF AllKept
<1> QED
  BY <1>1, <1>2

(* Fewer suspended threads make no cycle. *)
LEMMA FewerNoCycle ==
  ASSUME NEW old, NEW new, NoCycle(old),
         \A u \in Tid : ToSet(new[u]) \subseteq ToSet(old[u])
  PROVE  NoCycle(new)
<1> SUFFICES ASSUME NEW S \in SUBSET Tid, S # {}
             PROVE  \E x \in S : \A y \in S : x \notin ToSet(new[y])
  BY DEF NoCycle
<1>1. PICK x \in S : \A y \in S : x \notin ToSet(old[y])
  BY DEF NoCycle
<1> QED
  BY <1>1

(* The positions of a queue under _FIFO: the first, if any. *)
LEMMA FifoChoice ==
  ASSUME schedule_policy = "FIFO", NEW q \in Seq(Entry), choose_next(q) = {}
  PROVE  Ids(q) = {}
<1>1. SUFFICES ASSUME Ids(q) # {} PROVE FALSE
  OBVIOUS
<1>2. Len(q) \in Nat /\ DOMAIN q = 1 .. Len(q) /\ DOMAIN q # {}
  BY <1>1 DEF Ids
<1>3. 1 \in DOMAIN q
  BY <1>2
<1>4. 1 \in choose_next(q)
  BY <1>3 DEF choose_next
<1> QED
  BY <1>4

(* A pass of my_scheduler loses nobody, and goes to main only when every thread
   has finished. *)
FifoResult(sus, list) ==
  /\ \A t \in list :
       \/ status'[t] \in {"SCHEDULED", "FINISHED"}
       \/ t \in Ids(ready')
       \/ \E u \in list : status'[u] # "FINISHED" /\ t \in ToSet(sus[u])
  /\ \A t \in Tid : status'[t] = "SCHEDULED" => t = current_active'
  /\ current_active' = NULL => \A t \in list : status'[t] = "FINISHED"

LEMMA FifoPass ==
  ASSUME TypeOK, schedule_policy = "FIFO",
         NEW q \in Seq(Entry), NEW st \in [Tid -> Status],
         NEW sus, NEW list \in SUBSET Tid,
         Distinct(q), AllKept(q, sus, st, list), NoCycle(sus),
         \A t \in Tid : st[t] # "SCHEDULED",
         ScheduleFrom(q, st)
  PROVE  FifoResult(sus, list)
<1>1. choose_next(q) \subseteq DOMAIN q
  BY DEF choose_next
<1>2. ASSUME NEW i \in DOMAIN q, Dispatch(q, i, st), ready' = RemoveAt(q, i)
      PROVE  FifoResult(sus, list)
  <2>1. /\ current_active' \in Ids(q) \cap Tid
        /\ status' = [st EXCEPT ![current_active'] = "SCHEDULED"]
        /\ Ids(ready') = Ids(q) \ {current_active'}
    <3>1. q[i] \in Entry /\ q[i].id \in Ids(q)
      BY DEF Ids
    <3>2. current_active' = q[i].id /\ q[i].id \in Tid
      BY <1>2, <3>1 DEF Dispatch, Entry
    <3>3. status' = [st EXCEPT ![current_active'] = "SCHEDULED"]
      BY <1>2, <3>2 DEF Dispatch
    <3> QED
      BY <1>2, <3>1, <3>2, <3>3, RemoveAtIds
  <2>2. status'[current_active'] = "SCHEDULED"
    BY <2>1
  <2>3. \A t \in Tid : t # current_active' => status'[t] = st[t]
    BY <2>1
  <2>4. ASSUME NEW t \in list
        PROVE  \/ status'[t] \in {"SCHEDULED", "FINISHED"}
               \/ t \in Ids(ready')
               \/ \E u \in list : status'[u] # "FINISHED" /\ t \in ToSet(sus[u])
    <3>1. CASE t = current_active'
      BY <2>2, <3>1
    <3>2. CASE t # current_active' /\ st[t] = "FINISHED"
      BY <2>3, <3>2
    <3>3. CASE t # current_active' /\ t \in Ids(q)
      BY <2>1, <3>3
    <3>4. ASSUME NEW u \in list, st[u] # "FINISHED", t \in ToSet(sus[u])
          PROVE  status'[u] # "FINISHED"
      BY <2>2, <2>3, <3>4
    <3> QED
      BY <3>1, <3>2, <3>3, <3>4 DEF AllKept
  <2>5. current_active' # NULL
    BY <2>1 DEF Tid, NULL
  <2> QED
    BY <2>3, <2>4, <2>5 DEF FifoResult
<1>3. CASE choose_next(q) = {} /\ BackToMain(st) /\ ready' = q
  <2>1. \A t \in list : st[t] = "FINISHED"
    BY <1>3, FifoChoice, EmptyMeansFinished
  <2> QED
    BY <1>3, <2>1 DEF FifoResult, BackToMain
<1> QED
  BY <1>1, <1>2, <1>3 DEF ScheduleFrom

(* What such a pass makes of the invariant. *)
LEMMA FifoPassKeeps ==
  ASSUME FifoInv, IInv',
         FifoResult(suspended_queue', thread_list), NoCycle(suspended_queue'),
         UNCHANGED <<schedule_policy, thread_list>>,
         main_join' # NULL => main_join' \in thread_list
  PROVE  FifoInv'
<1>1. NoThreadLost'
  BY DEF FifoResult, NoThreadLost, InReady, SuspendedOn, Ids
<1>2. OneScheduled'
  BY DEF FifoResult, OneScheduled
<1>3. MainJoinListed' /\ MainJoinFinished'
  BY DEF FifoResult, MainJoinListed, MainJoinFinished, MainRuns
<1>4. schedule_policy' = "FIFO"
  BY DEF FifoInv
<1>5. NoCycle(suspended_queue)'
  BY DEF NoCycle
<1> QED
  BY <1>1, <1>2, <1>3, <1>4, <1>5 DEF FifoInv

-----------------------------------------------------------------------------
(* One step per library call. *)

(* The threads the pass schedules from: all but the one that leaves. *)
LEMMA NoneScheduled ==
  ASSUME FifoInv, NEW t \in Tid, Runs(t), NEW st,
         st[t] # "SCHEDULED", \A x \in Tid \ {t} : st[x] = status[x]
  PROVE  \A x \in Tid : st[x] # "SCHEDULED"
BY DEF FifoInv, OneScheduled, Runs

(* The part of AllKept that the calls of t leave alone. *)
LEMMA OthersKept ==
  ASSUME FifoInv, NEW t \in Tid, Runs(t), NEW x \in thread_list, x # t
  PROVE  \/ status[x] = "FINISHED"
         \/ x \in Ids(ready)
         \/ \E u \in thread_list : status[u] # "FINISHED" /\ x \in ToSet(suspended_queue[u])
<1>1. x \in Tid
  BY DEF FifoInv, IInv, TypeOK
<1>2. status[x] # "SCHEDULED"
  BY <1>1 DEF FifoInv, OneScheduled, Runs
<1> QED
  BY <1>2 DEF FifoInv, NoThreadLost, InReady, SuspendedOn, Ids

LEMMA FifoMainSwitches ==
  ASSUME FifoInv, IInv', MainSwitches, main_join' # NULL => main_join' \in thread_list
  PROVE  FifoInv'
<1>1. /\ ScheduleFrom(ready, status) /\ current_active = NULL
      /\ UNCHANGED <<schedule_policy, thread_list, suspended_queue>>
  BY DEF MainSwitches, libVars, MainRuns
<1>2. /\ TypeOK /\ schedule_policy = "FIFO" /\ Distinct(ready) /\ NoCycle(suspended_queue)
      /\ ready \in Seq(Entry) /\ status \in [Tid -> Status] /\ thread_list \in SUBSET Tid
  BY DEF FifoInv, IInv, Queued, TypeOK
<1>3. \A t \in Tid : status[t] # "SCHEDULED"
  BY <1>1 DEF FifoInv, OneScheduled, Tid, NULL
<1>4. AllKept(ready, suspended_queue, status, thread_list)
  BY <1>2, <1>3 DEF FifoInv, NoThreadLost, AllKept, InReady, SuspendedOn, Ids
<1>5. FifoResult(suspended_queue, thread_list)
  BY <1>1, <1>2, <1>3, <1>4, FifoPass
<1> QED
  BY <1>1, <1>2, <1>5, FifoPassKeeps

LEMMA FifoYield ==
  ASSUME FifoInv, IInv', NEW t \in Tid, ThreadYield(t)
  PROVE  FifoInv'
<1> DEFINE st == [status EXCEPT ![t] = "YIELD"]
           e == EntryOf(t, estimated_runtime[t])
           q == Append(ready, e)
<1>1. /\ TypeOK /\ IInv /\ schedule_policy = "FIFO" /\ NoCycle(suspended_queue)
      /\ ready \in Seq(Entry) /\ status \in [Tid -> Status] /\ thread_list \in SUBSET Tid
      /\ estimated_runtime \in [Tid -> Nat] /\ Distinct(ready)
  BY DEF FifoInv, IInv, Queued, TypeOK
<1>2. /\ Runs(t) /\ ScheduleFrom(q, st)
      /\ UNCHANGED <<schedule_policy, thread_list, suspended_queue, main_join>>
  BY <1>1 DEF ThreadYield, libVars
<1>3. st \in [Tid -> Status] /\ st[t] = "YIELD" /\ \A x \in Tid \ {t} : st[x] = status[x]
  BY <1>1 DEF Status
<1>4. status[t] = "SCHEDULED" /\ t \in thread_list /\ t \notin Ids(ready)
  BY <1>1, <1>2, RunningUnqueued
<1>5. e \in Entry /\ e.id = t
  BY <1>1 DEF EntryOf, Entry
<1>6. q \in Seq(Entry) /\ Distinct(q) /\ Ids(q) = Ids(ready) \cup {t}
  BY <1>1, <1>4, <1>5, AppendIds
<1> HIDE DEF st, q
<1>7. AllKept(q, suspended_queue, st, thread_list)
  <2> SUFFICES ASSUME NEW x \in thread_list, x # t
               PROVE  \/ st[x] = "FINISHED"
                      \/ x \in Ids(q)
                      \/ \E u \in thread_list :
                           st[u] # "FINISHED" /\ x \in ToSet(suspended_queue[u])
    BY <1>6 DEF AllKept
  <2> QED
    BY <1>1, <1>2, <1>3, <1>6, OthersKept
<1>8. FifoResult(suspended_queue, thread_list)
  BY <1>1, <1>2, <1>3, <1>6, <1>7, NoneScheduled, FifoPass
<1> QED
  BY <1>1, <1>2, <1>8, FifoPassKeeps DEF FifoInv, MainJoinListed

LEMMA FifoReturn ==
  ASSUME FifoInv, IInv', NEW t \in Tid, ThreadReturn(t)
  PROVE  FifoInv'
<1> DEFINE st == [status EXCEPT ![t] = "FINISHED"]
           q == ready \o Woken(t)
           sus == [suspended_queue EXCEPT ![t] = <<>>]
<1>1. /\ TypeOK /\ IInv /\ schedule_policy = "FIFO" /\ NoCycle(suspended_queue)
      /\ ready \in Seq(Entry) /\ status \in [Tid -> Status] /\ thread_list \in SUBSET Tid
      /\ suspended_queue \in [Tid -> Seq(Tid)] /\ Distinct(ready)
  BY DEF FifoInv, IInv, Queued, TypeOK
<1>2. /\ Runs(t) /\ ScheduleFrom(q, st) /\ suspended_queue' = sus
      /\ UNCHANGED <<schedule_policy, thread_list, main_join>>
  BY DEF ThreadReturn, libVars
<1>3. st \in [Tid -> Status] /\ st[t] = "FINISHED" /\ \A x \in Tid \ {t} : st[x] = status[x]
  BY <1>1 DEF Status
<1>4. status[t] = "SCHEDULED" /\ t \in thread_list
  BY <1>1, <1>2, RunningUnqueued
<1>5. /\ q \in Seq(Entry) /\ Distinct(q)
      /\ Ids(q) = Ids(ready) \cup ToSet(suspended_queue[t])
  BY <1>1, WokenIds, ConcatIds
<1>6. \A u \in Tid : ToSet(sus[u]) = IF u = t THEN {} ELSE ToSet(suspended_queue[u])
  BY <1>1 DEF ToSet
<1> HIDE DEF st, q, sus
<1>7. AllKept(q, sus, st, thread_list)
  <2> SUFFICES ASSUME NEW x \in thread_list, x # t
               PROVE  \/ st[x] = "FINISHED"
                      \/ x \in Ids(q)
                      \/ \E u \in thread_list : st[u] # "FINISHED" /\ x \in ToSet(sus[u])
    BY <1>3, <1>4 DEF AllKept
  <2>1. CASE status[x] = "FINISHED" \/ x \in Ids(ready)
    BY <1>1, <1>3, <1>5, <2>1
  <2>2. ASSUME NEW u \in thread_list, status[u] # "FINISHED", x \in ToSet(suspended_queue[u])
        PROVE  x \in Ids(q) \/ (st[u] # "FINISHED" /\ x \in ToSet(sus[u]))
    BY <1>1, <1>3, <1>5, <1>6, <2>2
  <2> QED
    BY <1>2, <2>1, <2>2, OthersKept
<1>8. NoCycle(sus)
  BY <1>1, <1>6, FewerNoCycle
<1>9. FifoResult(sus, thread_list)
  <2>1. \A x \in Tid : st[x] # "SCHEDULED"
    BY <1>2, <1>3, NoneScheduled
  <2> QED
    BY <1>1, <1>2, <1>3, <1>5, <1>7, <1>8, <2>1, FifoPass
<1> QED
  BY <1>1, <1>2, <1>8, <1>9, FifoPassKeeps DEF FifoInv, MainJoinListed

(* A thread that joins one that does not wait for it makes no cycle, and there
   is a thread to schedule: one of those its target waits for, or the target. *)
LEMMA JoinNoCycle ==
  ASSUME FifoInv, NEW t \in Tid, NEW u \in Tid, Runs(t), u \in thread_list,
         Supported(t, u)
  PROVE  /\ NoCycle(SuspendOn(t, u))
         /\ ready # <<>>
<1>1. /\ suspended_queue \in [Tid -> Seq(Tid)] /\ thread_list \in SUBSET Tid
      /\ NoCycle(suspended_queue)
  BY DEF FifoInv, IInv, TypeOK
<1>2. PICK D \in SUBSET Tid :
        /\ u \in D /\ t \notin D
        /\ \A x \in D, y \in Tid : x \in ToSet(suspended_queue[y]) => y \in D
  BY DEF Supported, WaitsFor, SuspendedOn
<1>3. NoCycle(SuspendOn(t, u))
  <2> DEFINE sus == SuspendOn(t, u)
  <2>1. \A y \in Tid \ {u} : sus[y] = suspended_queue[y]
    BY <1>1 DEF SuspendOn
  <2>2. ToSet(sus[u]) = ToSet(suspended_queue[u]) \cup {t}
    <3> DEFINE s == suspended_queue[u]
               r == Append(s, t)
    <3>1. s \in Seq(Tid) /\ sus[u] = r
      BY <1>1 DEF SuspendOn
    <3>2. /\ Len(s) \in Nat /\ DOMAIN r = 1 .. Len(s) + 1 /\ DOMAIN s = 1 .. Len(s)
          /\ r[Len(s) + 1] = t /\ \A k \in 1 .. Len(s) : r[k] = s[k]
      BY <3>1
    <3> HIDE DEF s, r
    <3>3. ToSet(r) \subseteq ToSet(s) \cup {t}
      BY <3>2 DEF ToSet
    <3>4. ToSet(s) \subseteq ToSet(r)
      BY <3>2 DEF ToSet
    <3>5. t \in ToSet(r)
      <4>1. Len(s) + 1 \in DOMAIN r
        BY <3>2
      <4> QED
        BY <3>2, <4>1 DEF ToSet
    <3> QED
      BY <3>1, <3>3, <3>4, <3>5 DEF s
  <2> HIDE DEF sus
  <2> SUFFICES ASSUME NEW S \in SUBSET Tid, S # {}
               PROVE  \E x \in S : \A y \in S : x \notin ToSet(sus[y])
    BY DEF NoCycle, sus
  <2>3. CASE t \in S /\ u \in S
    <3>1. S \cap D # {} /\ S \cap D \in SUBSET Tid
      BY <1>2, <2>3
    <3>2. PICK x \in S \cap D : \A y \in S \cap D : x \notin ToSet(suspended_queue[y])
      BY <1>1, <3>1 DEF NoCycle
    <3>3. \A y \in S : x \notin ToSet(suspended_queue[y])
      BY <1>2, <3>2
    <3>4. \A y \in S : x \notin ToSet(sus[y])
      BY <1>2, <2>1, <2>2, <3>2, <3>3
    <3> QED
      BY <3>2, <3>4
  <2>4. CASE ~(t \in S /\ u \in S)
    <3>1. PICK x \in S : \A y \in S : x \notin ToSet(suspended_queue[y])
      BY <1>1 DEF NoCycle
    <3>2. \A y \in S : x \notin ToSet(sus[y])
      BY <2>1, <2>2, <2>4, <3>1
    <3> QED
      BY <3>2
  <2> QED
    BY <2>3, <2>4
<1>4. ready # <<>>
  <2> SUFFICES ASSUME ready = <<>> PROVE FALSE
    OBVIOUS
  <2> DEFINE U == {x \in D : x \in thread_list /\ status[x] # "FINISHED"}
  <2>1. u \in U /\ U \in SUBSET Tid
    BY <1>2 DEF Supported
  <2>2. PICK x \in U : \A y \in U : x \notin ToSet(suspended_queue[y])
    BY <1>1, <2>1 DEF NoCycle
  <2>3. x \in thread_list /\ x # t /\ x \in D /\ status[x] # "FINISHED"
    BY <1>2
  <2>4. x \notin Ids(ready)
    BY DEF Ids
  <2>5. PICK y \in thread_list : status[y] # "FINISHED" /\ x \in ToSet(suspended_queue[y])
    BY <2>3, <2>4, OthersKept
  <2>6. y \in U
    BY <1>1, <1>2, <2>3, <2>5
  <2> QED
    BY <2>2, <2>5, <2>6
<1> QED
  BY <1>3, <1>4

LEMMA FifoJoin ==
  ASSUME FifoSupported, FifoInv, IInv', NEW t \in Tid, NEW u \in Tid, ThreadJoin(t, u)
  PROVE  FifoInv'
<1> DEFINE st == [status EXCEPT ![t] = "STOPPED"]
           sus == SuspendOn(t, u)
<1>1. /\ TypeOK /\ IInv /\ schedule_policy = "FIFO"
      /\ ready \in Seq(Entry) /\ status \in [Tid -> Status] /\ thread_list \in SUBSET Tid
      /\ suspended_queue \in [Tid -> Seq(Tid)] /\ Distinct(ready)
  BY DEF FifoInv, IInv, Queued, TypeOK
<1>2. /\ Runs(t) /\ ScheduleFrom(ready, st) /\ u \in thread_list /\ Supported(t, u)
      /\ suspended_queue' = IF ready = <<>> THEN suspended_queue ELSE sus
      /\ UNCHANGED <<schedule_policy, thread_list, main_join>>
  BY DEF ThreadJoin, libVars, FifoSupported
<1>3. NoCycle(sus) /\ suspended_queue' = sus
  BY <1>2, JoinNoCycle
<1>4. st \in [Tid -> Status] /\ st[t] = "STOPPED" /\ \A x \in Tid \ {t} : st[x] = status[x]
  BY <1>1 DEF Status
<1>5. /\ \A y \in Tid : ToSet(suspended_queue[y]) \subseteq ToSet(sus[y])
      /\ t \in ToSet(sus[u])
  <2> DEFINE s == suspended_queue[u]
             r == Append(s, t)
  <2>1. s \in Seq(Tid) /\ sus[u] = r /\ \A y \in Tid \ {u} : sus[y] = suspended_queue[y]
    BY <1>1 DEF SuspendOn
  <2>2. /\ Len(s) \in Nat /\ DOMAIN r = 1 .. Len(s) + 1 /\ DOMAIN s = 1 .. Len(s)
        /\ r[Len(s) + 1] = t /\ \A k \in 1 .. Len(s) : r[k] = s[k]
    BY <2>1
  <2> HIDE DEF s, r
  <2>3. ToSet(s) \subseteq ToSet(r)
    BY <2>2 DEF ToSet
  <2>4. t \in ToSet(r)
    <3>1. Len(s) + 1 \in DOMAIN r
      BY <2>2
    <3> QED
      BY <2>2, <3>1 DEF ToSet
  <2> QED
    BY <2>1, <2>3, <2>4 DEF s
<1> HIDE DEF st, sus
<1>6. u # t
  BY <1>2 DEF Supported, WaitsFor
<1>7. AllKept(ready, sus, st, thread_list)
  <2>1. st[u] # "FINISHED"
    BY <1>2, <1>4, <1>6 DEF Supported
  <2> SUFFICES ASSUME NEW x \in thread_list, x # t
               PROVE  \/ st[x] = "FINISHED"
                      \/ x \in Ids(ready)
                      \/ \E y \in thread_list : st[y] # "FINISHED" /\ x \in ToSet(sus[y])
    BY <1>2, <1>5, <2>1 DEF AllKept
  <2>2. CASE status[x] = "FINISHED" \/ x \in Ids(ready)
    BY <1>1, <1>4, <2>2
  <2>3. ASSUME NEW y \in thread_list, status[y] # "FINISHED", x \in ToSet(suspended_queue[y])
        PROVE  st[y] # "FINISHED" /\ x \in ToSet(sus[y])
    BY <1>1, <1>4, <1>5, <2>3
  <2> QED
    BY <1>2, <2>2, <2>3, OthersKept
<1>8. FifoResult(sus, thread_list)
  <2>1. \A x \in Tid : st[x] # "SCHEDULED"
    BY <1>2, <1>4, NoneScheduled
  <2> QED
    BY <1>1, <1>2, <1>3, <1>4, <1>7, <2>1, FifoPass
<1> QED
  BY <1>2, <1>3, <1>8, FifoPassKeeps DEF FifoInv, MainJoinListed

(* A session without threads. *)
LEMMA FifoEmptySession ==
  ASSUME IInv', NoThreads, schedule_policy' = "FIFO", main_join' = NULL,
         current_active' = NULL
  PROVE  FifoInv'
<1>1. thread_list' = {} /\ \A t \in Tid : status'[t] = "NONE" /\ suspended_queue'[t] = <<>>
  BY DEF NoThreads
<1>2. NoCycle(suspended_queue)'
  <2>1. \A t \in Tid : ToSet(suspended_queue'[t]) = {}
    BY <1>1 DEF ToSet
  <2> QED
    BY <2>1 DEF NoCycle
<1>3. NoThreadLost' /\ OneScheduled' /\ MainJoinListed' /\ MainJoinFinished'
  BY <1>1 DEF NoThreadLost, OneScheduled, MainJoinListed, MainJoinFinished
<1> QED
  BY <1>2, <1>3 DEF FifoInv

LEMMA FifoInit == Init => FifoInv
<1> SUFFICES ASSUME Init PROVE FifoInv
  OBVIOUS
<1>1. NoCycle(suspended_queue)
  <2>1. \A t \in Tid : ToSet(suspended_queue[t]) = {}
    BY DEF Init, ToSet
  <2> QED
    BY <2>1 DEF NoCycle
<1>2. NoThreadLost /\ OneScheduled /\ MainJoinListed /\ MainJoinFinished
  BY DEF Init, NoThreadLost, OneScheduled, MainJoinListed, MainJoinFinished
<1> QED
  BY <1>1, <1>2, InitEstablishes DEF FifoInv, Init

(* Calls that change no thread, queue or status. *)
LEMMA FifoUntouched ==
  ASSUME FifoInv, IInv', schedule_policy' = "FIFO",
         UNCHANGED <<thread_list, current_active, ready, status, suspended_queue, main_join>>
  PROVE  FifoInv'
<1>1. NoCycle(suspended_queue)'
  BY DEF FifoInv, NoCycle
<1>2. NoThreadLost'
  BY DEF FifoInv, NoThreadLost, InReady, SuspendedOn
<1>3. OneScheduled' /\ MainJoinListed' /\ MainJoinFinished'
  BY DEF FifoInv, OneScheduled, MainJoinListed, MainJoinFinished, MainRuns
<1> QED
  BY <1>1, <1>2, <1>3 DEF FifoInv

LEMMA FifoCreate ==
  ASSUME FifoInv, IInv', ThreadCreate
  PROVE  FifoInv'
<1> DEFINE n == thread_count + 1
           e == EntryOf(n, DEFAULT_PRIORITY)
<1>1. /\ TypeOK /\ IInv /\ schedule_policy = "FIFO" /\ NoCycle(suspended_queue)
      /\ ready \in Seq(Entry) /\ status \in [Tid -> Status] /\ thread_list \in SUBSET Tid
      /\ suspended_queue \in [Tid -> Seq(Tid)]
  BY DEF FifoInv, IInv, TypeOK
<1>2. n \in Tid /\ n \notin thread_list
  BY ConstantsAssumption
  DEF ThreadCreate, FifoInv, IInv, TypeOK, Listed, Tid, ConstantsAssumption
<1>3. /\ thread_list' = thread_list \cup {n}
      /\ status' = [status EXCEPT ![n] = "CREATED"]
      /\ suspended_queue' = [suspended_queue EXCEPT ![n] = <<>>]
      /\ ready' = Append(ready, e)
      /\ UNCHANGED <<schedule_policy, current_active, main_join>>
  BY DEF ThreadCreate, libVars
<1>4. e \in Entry /\ e.id = n
  BY <1>2 DEF EntryOf, Entry, DEFAULT_PRIORITY
<1>5. Ids(ready') = Ids(ready) \cup {n}
  BY <1>1, <1>3, <1>4, AppendIds
<1>6. \A x \in Tid \ {n} : status'[x] = status[x] /\ suspended_queue'[x] = suspended_queue[x]
  BY <1>1, <1>3
<1>7. status'[n] = "CREATED" /\ ToSet(suspended_queue'[n]) = {}
  BY <1>1, <1>2, <1>3 DEF ToSet
<1> HIDE DEF n, e
<1>8. NoCycle(suspended_queue')
  <2>1. \A u \in Tid : ToSet(suspended_queue'[u]) \subseteq ToSet(suspended_queue[u])
    BY <1>6, <1>7
  <2> QED
    BY <1>1, <2>1, FewerNoCycle
<1>9. NoThreadLost'
  <2> SUFFICES ASSUME NEW x \in thread_list'
               PROVE  \/ status'[x] \in {"SCHEDULED", "FINISHED"}
                      \/ x \in Ids(ready')
                      \/ \E u \in thread_list' :
                           status'[u] # "FINISHED" /\ x \in ToSet(suspended_queue'[u])
    BY DEF NoThreadLost, InReady, SuspendedOn, Ids
  <2>1. CASE x = n
    BY <1>5, <2>1
  <2>2. CASE x # n
    <3>1. x \in thread_list /\ x \in Tid
      BY <1>1, <1>3, <2>2
    <3>2. \/ status[x] \in {"SCHEDULED", "FINISHED"}
          \/ x \in Ids(ready)
          \/ \E u \in thread_list : status[u] # "FINISHED" /\ x \in ToSet(suspended_queue[u])
      BY <3>1 DEF FifoInv, NoThreadLost, InReady, SuspendedOn, Ids
    <3>3. \A u \in thread_list : u \in Tid /\ u # n
      BY <1>1, <1>2
    <3> QED
      BY <1>3, <1>5, <1>6, <2>2, <3>1, <3>2, <3>3
  <2> QED
    BY <2>1, <2>2
<1>10. OneScheduled'
  BY <1>3, <1>6, <1>7 DEF FifoInv, OneScheduled
<1>11. MainJoinListed' /\ MainJoinFinished'
  <2>1. MainJoinListed'
    BY <1>3 DEF FifoInv, MainJoinListed
  <2>2. main_join # NULL => main_join \in Tid \ {n}
    BY <1>1, <1>2 DEF FifoInv, MainJoinListed
  <2> QED
    BY <1>3, <1>6, <2>1, <2>2 DEF FifoInv, MainJoinFinished, MainRuns
<1>12. NoCycle(suspended_queue)'
  BY <1>8 DEF NoCycle
<1> QED
  BY <1>1, <1>3, <1>9, <1>10, <1>11, <1>12 DEF FifoInv

-----------------------------------------------------------------------------
(* The theorems. *)

LEMMA FifoNextKeeps ==
  ASSUME FifoSupported, FifoInv, [Next]_vars
  PROVE  FifoInv'
<1>1. IInv'
  BY NextKeeps DEF FifoInv
<1>2. schedule_policy = "FIFO"
  BY DEF FifoInv
<1>3. ASSUME NEW policy \in Policies, LibInit(policy) PROVE FifoInv'
  BY <1>1, <1>3, FifoEmptySession DEF LibInit, FifoSupported
<1>4. ASSUME NEW policy \in Policies, LibInitNoMemory(policy) PROVE FifoInv'
  <2>1. /\ schedule_policy' = "FIFO"
        /\ UNCHANGED <<thread_list, current_active, ready, status, suspended_queue, main_join>>
    BY <1>4 DEF LibInitNoMemory, FifoSupported
  <2> QED
    BY <1>1, <2>1, FifoUntouched
<1>5. CASE LibTerminate
  BY <1>1, <1>2, <1>5, FifoEmptySession DEF LibTerminate, MainRuns
<1>6. CASE ThreadCreate
  BY <1>1, <1>6, FifoCreate
<1>7. CASE ThreadCreateNoStack
  <2>1. /\ schedule_policy' = "FIFO"
        /\ UNCHANGED <<thread_list, current_active, ready, status, suspended_queue, main_join>>
    BY <1>2, <1>7 DEF ThreadCreateNoStack, libVars
  <2> QED
    BY <1>1, <2>1, FifoUntouched
<1>8. CASE MainYield
  BY <1>1, <1>8, FifoMainSwitches DEF MainYield
<1>9. ASSUME NEW u \in Tid, MainJoin(u) PROVE FifoInv'
  BY <1>1, <1>9, FifoMainSwitches DEF MainJoin
<1>10. ASSUME NEW t \in Tid, ThreadSwitches(t) PROVE FifoInv'
  BY <1>1, <1>10, FifoYield, FifoReturn, FifoJoin DEF ThreadSwitches
<1>11. ASSUME NEW t \in Tid, ThreadLibTerminate(t) PROVE FALSE
  BY <1>11 DEF ThreadLibTerminate, FifoSupported
<1>12. CASE UNCHANGED vars
  <2>1. /\ schedule_policy' = "FIFO"
        /\ UNCHANGED <<thread_list, current_active, ready, status, suspended_queue, main_join>>
    BY <1>2, <1>12 DEF vars, libVars
  <2> QED
    BY <1>1, <2>1, FifoUntouched
<1> QED
  BY <1>3, <1>4, <1>5, <1>6, <1>7, <1>8, <1>9, <1>10, <1>11, <1>12 DEF Next

LEMMA FifoInvariance == ASSUME FifoSupported PROVE Spec => []FifoInv
<1>1. Init => FifoInv
  BY FifoInit
<1>2. FifoInv /\ [Next]_vars => FifoInv'
  BY FifoNextKeeps
<1> QED
  BY <1>1, <1>2, PTL DEF Spec

(* Under _FIFO and supported joins every thread that has been created and has
   not finished runs, is ready, or is suspended on one that has not finished:
   the queues of my_scheduler forget nobody, for every number of threads. *)
THEOREM NobodyIsLost == ASSUME FifoSupported PROVE Spec => []NoThreadLost
<1>1. FifoInv => NoThreadLost
  BY DEF FifoInv
<1> QED
  BY <1>1, FifoInvariance, PTL

(* Under _FIFO and supported joins main's thread_join(tid) returns only when
   thread tid has finished, for every number of threads. *)
THEOREM MainJoinsAreKept == ASSUME FifoSupported PROVE Spec => []MainJoinFinished
<1>1. FifoInv => MainJoinFinished
  BY DEF FifoInv
<1> QED
  BY <1>1, FifoInvariance, PTL

-----------------------------------------------------------------------------
(* The steps of CooperativeThreads. *)

(* Its state and target, read off the ready queue and the statuses. *)
Shown(q, st) ==
  [t \in Tid |->
     IF st[t] = "NONE" THEN "absent"
     ELSE IF st[t] = "SCHEDULED" THEN "running"
     ELSE IF st[t] = "FINISHED" THEN "done"
     ELSE IF t \in Ids(q) THEN "ready" ELSE "blocked"]
Sought(st, wt) == [t \in Tid |-> IF st[t] = "blocked" THEN wt[t] ELSE NULL]

AState == [t \in Tid |-> StateOf(t)]
ATarget == [t \in Tid |-> IF StateOf(t) = "blocked" THEN wait_tid[t] ELSE NULL]
Mapped == AState = Shown(ready, status) /\ ATarget = Sought(AState, wait_tid)

(* The thread with the CPU is the one marked SCHEDULED. *)
LEMMA CurrentScheduled ==
  ASSUME FifoSupported, FifoInv, NEW t \in Tid
  PROVE  t = current_active <=> status[t] = "SCHEDULED"
<1>1. current_active # NULL => status[current_active] = "SCHEDULED"
  BY DEF FifoSupported, FifoInv, IInv, Current
<1> QED
  BY <1>1 DEF FifoInv, OneScheduled, Tid, NULL

LEMMA MappedNow == ASSUME FifoSupported PROVE FifoInv => Mapped
<1> SUFFICES ASSUME FifoInv PROVE Mapped
  OBVIOUS
<1>1. ASSUME NEW t \in Tid PROVE StateOf(t) = Shown(ready, status)[t]
  <2>1. t = current_active <=> status[t] = "SCHEDULED"
    BY CurrentScheduled
  <2>2. InReady(t) <=> t \in Ids(ready)
    BY DEF InReady, Ids
  <2> QED
    BY <2>1, <2>2 DEF StateOf, Shown
<1>2. AState = Shown(ready, status)
  BY <1>1 DEF AState, Shown
<1>3. ATarget = Sought(AState, wait_tid)
  BY DEF ATarget, AState, Sought
<1> QED
  BY <1>2, <1>3 DEF Mapped

LEMMA MappedNext == ASSUME FifoSupported PROVE FifoInv' => Mapped'
BY MappedNow, PTL

(* A pass over queue q from statuses st in which nobody runs, seen as CooperativeThreads
   sees it: the one who gets the CPU, and nobody blocked or freed. *)
LEMMA PassGives ==
  ASSUME FifoSupported, FifoInv', schedule_policy = "FIFO",
         NEW q \in Seq(Entry), NEW st \in [Tid -> Status], Distinct(q),
         \A t \in Ids(q) : st[t] \in Waiting,
         \A t \in Tid : st[t] # "SCHEDULED",
         ScheduleFrom(q, st)
  PROVE  /\ Promise!GiveCPU(Shown(q, st))
         /\ ATarget' = Sought(Shown(q, st), wait_tid')
<1> DEFINE B == Shown(q, st)
<1>1. AState' = Shown(ready', status') /\ ATarget' = Sought(AState', wait_tid')
  BY MappedNext DEF Mapped
<1>2. CASE \E i \in choose_next(q) : Dispatch(q, i, st) /\ ready' = RemoveAt(q, i)
  <2>1. PICK i \in DOMAIN q : Dispatch(q, i, st) /\ ready' = RemoveAt(q, i)
    BY <1>2 DEF choose_next
  <2> DEFINE c == q[i].id
  <2>2. c \in Tid /\ c \in Ids(q) /\ current_active' = c
    <3>1. q[i] \in Entry
      OBVIOUS
    <3> QED
      BY <2>1, <3>1 DEF Entry, Ids, Dispatch
  <2>3. status' = [st EXCEPT ![c] = "SCHEDULED"]
    BY <2>1 DEF Dispatch
  <2>4. Ids(ready') = Ids(q) \ {c}
    BY <2>1, RemoveAtIds
  <2>5. B[c] = "ready"
    BY <2>2 DEF Shown, Waiting
  <2> HIDE DEF c
  <2>6. Shown(ready', status') = [x \in Tid |-> IF x = c THEN "running" ELSE B[x]]
    <3>1. \A x \in Tid : Shown(ready', status')[x] = IF x = c THEN "running" ELSE B[x]
      BY <2>2, <2>3, <2>4 DEF Shown
    <3>2. Shown(ready', status') = [x \in Tid |-> Shown(ready', status')[x]]
      BY DEF Shown
    <3> HIDE DEF B
    <3> QED
      BY <3>1, <3>2
  <2> HIDE DEF B
  <2>7. Promise!GiveCPU(B)
    BY <1>1, <2>2, <2>5, <2>6 DEF Promise!GiveCPU, AState
  <2>8. ATarget' = Sought(B, wait_tid')
    BY <1>1, <2>5, <2>6 DEF Sought
  <2> QED
    BY <2>7, <2>8 DEF B
<1>3. CASE choose_next(q) = {} /\ BackToMain(st) /\ ready' = q
  <2>1. status' = st /\ current_active' = NULL /\ ready' = q
    BY <1>3 DEF BackToMain
  <2>2. Ids(q) = {}
    BY <1>3, FifoChoice
  <2>3. AllKept(q, suspended_queue', status', thread_list')
    BY <2>1 DEF FifoInv, IInv, TypeOK, NoThreadLost, AllKept, InReady, SuspendedOn, Ids
  <2>4. NoCycle(suspended_queue')
    BY DEF FifoInv, NoCycle
  <2>5. thread_list' \in SUBSET Tid /\ \A t \in Tid : t \in thread_list' <=> status'[t] # "NONE"
    BY DEF FifoInv, IInv, TypeOK, Listed
  <2>6. \A t \in thread_list' : status'[t] = "FINISHED"
    BY <2>2, <2>3, <2>4, <2>5, EmptyMeansFinished
  <2>7. \A t \in Tid : B[t] \in {"absent", "done"}
    BY <2>1, <2>5, <2>6 DEF Shown
  <2>8. AState' = B
    BY <1>1, <2>1
  <2> HIDE DEF B
  <2>9. Promise!GiveCPU(B)
    BY <2>1, <2>7, <2>8 DEF Promise!GiveCPU, AState
  <2> QED
    BY <1>1, <2>8, <2>9 DEF B
<1> QED
  BY <1>2, <1>3 DEF ScheduleFrom

(* Who is blocked is suspended on the thread it waits for. *)
LEMMA BlockedSuspended ==
  ASSUME FifoInv, NEW x \in Tid, NEW t \in Tid
  PROVE  (Shown(ready, status)[x] = "blocked" /\ wait_tid[x] = t) <=> x \in SuspendedOn(t)
<1>1. ASSUME x \in SuspendedOn(t) PROVE Shown(ready, status)[x] = "blocked" /\ wait_tid[x] = t
  BY <1>1 DEF FifoInv, IInv, Queued, SuspendedOn, Shown
<1>2. ASSUME Shown(ready, status)[x] = "blocked", wait_tid[x] = t PROVE x \in SuspendedOn(t)
  <2>1. /\ x \in thread_list /\ status[x] \notin {"SCHEDULED", "FINISHED"}
        /\ x \notin Ids(ready) /\ thread_list \subseteq Tid
    BY <1>2 DEF Shown, FifoInv, IInv, Listed, TypeOK
  <2>2. PICK u \in Tid : x \in ToSet(suspended_queue[u])
    BY <2>1 DEF FifoInv, NoThreadLost, InReady, SuspendedOn, Ids
  <2>3. wait_tid[x] = u
    BY <2>2 DEF FifoInv, IInv, Queued
  <2> QED
    BY <1>2, <2>2, <2>3 DEF SuspendedOn
<1> QED
  BY <1>1, <1>2

(* Each call of the library is a step of CooperativeThreads, or none. *)
LEMMA MainMaps ==
  ASSUME FifoSupported, FifoInv, FifoInv', MainSwitches
  PROVE  Promise!MainWaits
<1>1. /\ ScheduleFrom(ready, status) /\ current_active = NULL /\ wait_tid' = wait_tid
      /\ schedule_policy = "FIFO"
  BY DEF MainSwitches, MainRuns, FifoInv
<1>2. /\ ready \in Seq(Entry) /\ status \in [Tid -> Status]
      /\ Distinct(ready) /\ \A t \in Ids(ready) : status[t] \in Waiting
  BY DEF FifoInv, IInv, TypeOK, Queued
<1>3. \A t \in Tid : status[t] # "SCHEDULED"
  BY <1>1, CurrentScheduled DEF Tid, NULL
<1>4. /\ Promise!GiveCPU(Shown(ready, status))
      /\ ATarget' = Sought(Shown(ready, status), wait_tid')
  BY <1>1, <1>2, <1>3, PassGives
<1>5. AState = Shown(ready, status) /\ ATarget = Sought(AState, wait_tid)
  BY MappedNow DEF Mapped
<1>6. ATarget' = ATarget /\ Promise!GiveCPU(AState)
  BY <1>1, <1>4, <1>5
<1> QED
  BY <1>1, <1>6 DEF Promise!MainWaits, AState, ATarget

(* What the calling thread and the others are when it leaves. *)
LEMMA ShownLeaving ==
  ASSUME FifoInv, NEW t \in Tid, Runs(t), NEW st \in [Tid -> Status],
         st[t] \notin {"NONE", "SCHEDULED"}, \A x \in Tid \ {t} : st[x] = status[x], NEW q
  PROVE  /\ \A x \in Tid \ {t} : (x \in Ids(q) <=> x \in Ids(ready)) =>
              Shown(q, st)[x] = Shown(ready, status)[x]
         /\ Shown(ready, status)[t] = "running"
         /\ st[t] = "FINISHED" => Shown(q, st)[t] = "done"
         /\ st[t] # "FINISHED" => Shown(q, st)[t] = IF t \in Ids(q) THEN "ready" ELSE "blocked"
<1>1. status[t] = "SCHEDULED"
  BY RunningUnqueued DEF FifoInv
<1> QED
  BY <1>1 DEF Shown

LEMMA YieldMaps ==
  ASSUME FifoSupported, FifoInv, FifoInv', NEW t \in Tid, ThreadYield(t)
  PROVE  Promise!Yield(t)
<1> DEFINE st == [status EXCEPT ![t] = "YIELD"]
           e == EntryOf(t, estimated_runtime[t])
           q == Append(ready, e)
           S == Shown(ready, status)
<1>1. /\ TypeOK /\ IInv /\ schedule_policy = "FIFO"
      /\ ready \in Seq(Entry) /\ status \in [Tid -> Status]
      /\ estimated_runtime \in [Tid -> Nat] /\ Distinct(ready)
      /\ \A x \in Ids(ready) : status[x] \in Waiting
  BY DEF FifoInv, IInv, Queued, TypeOK
<1>2. Runs(t) /\ ScheduleFrom(q, st) /\ wait_tid' = wait_tid /\ current_active = t
  BY <1>1 DEF ThreadYield, Runs
<1>3. st \in [Tid -> Status] /\ st[t] = "YIELD" /\ \A x \in Tid \ {t} : st[x] = status[x]
  BY <1>1 DEF Status
<1>4. t \notin Ids(ready)
  BY <1>1, <1>2, RunningUnqueued
<1>5. e \in Entry /\ e.id = t
  BY <1>1 DEF EntryOf, Entry
<1>6. q \in Seq(Entry) /\ Distinct(q) /\ Ids(q) = Ids(ready) \cup {t}
  BY <1>1, <1>4, <1>5, AppendIds
<1>7. Ids(ready) \subseteq Tid
  <2>1. \A i \in DOMAIN ready : ready[i] \in Entry
    BY <1>1
  <2> QED
    BY <2>1 DEF Ids, Entry
<1> HIDE DEF st, q, e
<1>8. \A x \in Ids(q) : st[x] \in Waiting
  BY <1>1, <1>3, <1>6, <1>7 DEF Waiting
<1>9. \A x \in Tid : st[x] # "SCHEDULED"
  BY <1>2, <1>3, NoneScheduled
<1>10. Promise!GiveCPU(Shown(q, st)) /\ ATarget' = Sought(Shown(q, st), wait_tid')
  BY <1>1, <1>2, <1>3, <1>6, <1>8, <1>9, PassGives
<1>11. /\ \A x \in Tid \ {t} : Shown(q, st)[x] = S[x]
       /\ S[t] = "running" /\ Shown(q, st)[t] = "ready"
  BY <1>2, <1>3, <1>6, ShownLeaving
<1>12. Shown(q, st) = [S EXCEPT ![t] = "ready"]
  BY <1>11 DEF Shown
<1>13. AState = S /\ ATarget = Sought(AState, wait_tid)
  BY MappedNow DEF Mapped
<1>14. ATarget' = ATarget
  BY <1>2, <1>10, <1>11, <1>13 DEF Sought
<1>15. Promise!GiveCPU([AState EXCEPT ![t] = "ready"])
  BY <1>10, <1>12, <1>13
<1> QED
  BY <1>2, <1>14, <1>15 DEF Promise!Yield, AState, ATarget

LEMMA FinishMaps ==
  ASSUME FifoSupported, FifoInv, FifoInv', NEW t \in Tid, ThreadReturn(t)
  PROVE  Promise!Finish(t)
<1> DEFINE st == [status EXCEPT ![t] = "FINISHED"]
           q == ready \o Woken(t)
           S == Shown(ready, status)
           B == Shown(q, st)
<1>1. /\ TypeOK /\ IInv /\ schedule_policy = "FIFO"
      /\ ready \in Seq(Entry) /\ status \in [Tid -> Status] /\ Distinct(ready)
      /\ \A x \in Ids(ready) : status[x] \in Waiting
      /\ Ids(ready) \subseteq Tid
      /\ suspended_queue \in [Tid -> Seq(Tid)]
  BY DEF FifoInv, IInv, Queued, TypeOK, Ids, Entry
<1>2. Runs(t) /\ ScheduleFrom(q, st) /\ wait_tid' = wait_tid /\ current_active = t
  BY DEF ThreadReturn, Runs
<1>3. st \in [Tid -> Status] /\ st[t] = "FINISHED" /\ \A x \in Tid \ {t} : st[x] = status[x]
  BY <1>1 DEF Status
<1>4. /\ q \in Seq(Entry) /\ Distinct(q)
      /\ Ids(q) = Ids(ready) \cup SuspendedOn(t)
  BY <1>1, WokenIds, ConcatIds DEF SuspendedOn
<1>5. SuspendedOn(t) \subseteq Tid /\ \A x \in SuspendedOn(t) : status[x] = "STOPPED"
  BY <1>1 DEF IInv, Queued, SuspendedOn, ToSet
<1>6. t \notin Ids(ready) /\ t \notin SuspendedOn(t)
  BY <1>1, <1>2, RunningUnqueued DEF SuspendedOn
<1> HIDE DEF st, q
<1>7. \A x \in Ids(q) : st[x] \in Waiting
  BY <1>1, <1>3, <1>4, <1>5, <1>6 DEF Waiting
<1>8. \A x \in Tid : st[x] # "SCHEDULED"
  BY <1>2, <1>3, NoneScheduled
<1>9. Promise!GiveCPU(B) /\ ATarget' = Sought(B, wait_tid)
  BY <1>1, <1>2, <1>3, <1>4, <1>7, <1>8, PassGives
<1>10. AState = S /\ ATarget = Sought(S, wait_tid)
  BY MappedNow DEF Mapped
<1>11. \A x \in Tid : x \in SuspendedOn(t) <=> S[x] = "blocked" /\ ATarget[x] = t
  <2>1. \A x \in Tid : S[x] = "blocked" => ATarget[x] = wait_tid[x]
    BY <1>10 DEF Sought
  <2> QED
    BY <2>1, BlockedSuspended
<1>12. S[t] = "running" /\ B[t] = "done"
  BY <1>2, <1>3, ShownLeaving
<1>13. ASSUME NEW x \in Tid \ {t}
       PROVE  B[x] = IF S[x] = "blocked" /\ ATarget[x] = t THEN "ready" ELSE S[x]
  <2>1. CASE x \in SuspendedOn(t)
    <3>1. B[x] = "ready"
      BY <1>3, <1>4, <1>5, <2>1 DEF Shown
    <3> QED
      BY <1>11, <2>1, <3>1
  <2>2. CASE x \notin SuspendedOn(t)
    <3>1. B[x] = S[x]
      BY <1>2, <1>3, <1>4, <2>2, ShownLeaving
    <3> QED
      BY <1>11, <2>2, <3>1
  <2> QED
    BY <2>1, <2>2
<1>14. B = [x \in Tid |->
              IF x = t THEN "done"
              ELSE IF S[x] = "blocked" /\ ATarget[x] = t THEN "ready"
              ELSE S[x]]
  <2>1. B = [x \in Tid |-> B[x]]
    BY DEF Shown
  <2> HIDE DEF S, B
  <2> QED
    BY <1>12, <1>13, <2>1
<1>15. ATarget' = [x \in Tid |-> IF ATarget[x] = t THEN NULL ELSE ATarget[x]]
  <2>1. ATarget' = [x \in Tid |-> IF B[x] = "blocked" THEN wait_tid[x] ELSE NULL]
    BY <1>9 DEF Sought
  <2>2. \A x \in Tid : ATarget[x] = IF S[x] = "blocked" THEN wait_tid[x] ELSE NULL
    BY <1>10 DEF Sought
  <2>3. t # NULL
    BY DEF Tid, NULL
  <2> HIDE DEF S, B
  <2>4. ASSUME NEW x \in Tid
        PROVE  (IF B[x] = "blocked" THEN wait_tid[x] ELSE NULL)
                 = IF ATarget[x] = t THEN NULL ELSE ATarget[x]
    <3>1. CASE x = t
      BY <1>12, <2>2, <2>3, <3>1
    <3>2. CASE x # t
      BY <1>13, <2>2, <2>3, <3>2
    <3> QED
      BY <3>1, <3>2
  <2> QED
    BY <2>1, <2>4
<1> HIDE DEF S, B
<1>16. Promise!GiveCPU([x \in Tid |->
                          IF x = t THEN "done"
                          ELSE IF AState[x] = "blocked" /\ ATarget[x] = t THEN "ready"
                          ELSE AState[x]])
  BY <1>9, <1>10, <1>14
<1> QED
  BY <1>2, <1>15, <1>16 DEF Promise!Finish, AState, ATarget

LEMMA JoinMaps ==
  ASSUME FifoSupported, FifoInv, FifoInv', NEW t \in Tid, NEW u \in Tid, ThreadJoin(t, u)
  PROVE  Promise!Join(t, u)
<1> DEFINE st == [status EXCEPT ![t] = "STOPPED"]
           S == Shown(ready, status)
           B == Shown(ready, st)
<1>1. /\ TypeOK /\ IInv /\ schedule_policy = "FIFO"
      /\ ready \in Seq(Entry) /\ status \in [Tid -> Status] /\ Distinct(ready)
      /\ \A x \in Ids(ready) : status[x] \in Waiting
      /\ Ids(ready) \subseteq Tid
      /\ wait_tid \in [Tid -> Tid \cup {NOT_FOUND}]
  BY DEF FifoInv, IInv, Queued, TypeOK, Ids, Entry
<1>2. /\ Runs(t) /\ ScheduleFrom(ready, st) /\ wait_tid' = [wait_tid EXCEPT ![t] = u]
      /\ current_active = t /\ u \in thread_list /\ Supported(t, u)
  BY DEF ThreadJoin, Runs, FifoSupported
<1>3. st \in [Tid -> Status] /\ st[t] = "STOPPED" /\ \A x \in Tid \ {t} : st[x] = status[x]
  BY <1>1 DEF Status
<1>4. t \notin Ids(ready)
  BY <1>1, <1>2, RunningUnqueued
<1> HIDE DEF st
<1>5. \A x \in Ids(ready) : st[x] \in Waiting
  BY <1>1, <1>3, <1>4
<1>6. \A x \in Tid : st[x] # "SCHEDULED"
  BY <1>2, <1>3, NoneScheduled
<1>7. Promise!GiveCPU(B) /\ ATarget' = Sought(B, wait_tid')
  BY <1>1, <1>2, <1>3, <1>5, <1>6, PassGives
<1>8. AState = S /\ ATarget = Sought(S, wait_tid)
  BY MappedNow DEF Mapped
<1>9. /\ \A x \in Tid \ {t} : B[x] = S[x]
      /\ S[t] = "running" /\ B[t] = "blocked"
  BY <1>2, <1>3, <1>4, ShownLeaving
<1>10. S[u] \in {"ready", "blocked"}
  <2>1. u # t
    BY <1>2 DEF Supported, WaitsFor
  <2>2. status[u] \notin {"NONE", "FINISHED", "SCHEDULED"}
    BY <1>1, <1>2, <2>1, CurrentScheduled DEF IInv, Listed, Supported
  <2> QED
    BY <2>2 DEF Shown
<1>11. B = [S EXCEPT ![t] = "blocked"]
  BY <1>9 DEF Shown
<1>12. ATarget' = [ATarget EXCEPT ![t] = u]
  <2>1. \A x \in Tid : (IF B[x] = "blocked" THEN wait_tid'[x] ELSE NULL)
                         = IF x = t THEN u ELSE IF S[x] = "blocked" THEN wait_tid[x] ELSE NULL
    BY <1>1, <1>2, <1>9
  <2> HIDE DEF S, B
  <2> QED
    BY <1>7, <1>8, <2>1 DEF Sought
<1> HIDE DEF S, B
<1>13. Promise!GiveCPU([AState EXCEPT ![t] = "blocked"])
  BY <1>7, <1>8, <1>11
<1> QED
  BY <1>2, <1>8, <1>10, <1>12, <1>13 DEF Promise!Join, AState, ATarget

LEMMA CreateMaps ==
  ASSUME FifoSupported, FifoInv, FifoInv', ThreadCreate
  PROVE  Promise!Create(thread_count + 1) /\ thread_count + 1 \in Tid
<1> DEFINE n == thread_count + 1
           e == EntryOf(n, DEFAULT_PRIORITY)
           S == Shown(ready, status)
           B == Shown(ready', status')
<1>1. /\ TypeOK /\ ready \in Seq(Entry) /\ status \in [Tid -> Status]
      /\ wait_tid \in [Tid -> Tid \cup {NOT_FOUND}]
  BY DEF FifoInv, IInv, TypeOK
<1>2. n \in Tid /\ n \notin thread_list
  BY ConstantsAssumption
  DEF ThreadCreate, FifoInv, IInv, TypeOK, Listed, Tid, ConstantsAssumption
<1>3. status[n] = "NONE"
  BY <1>2 DEF FifoInv, IInv, Listed
<1>4. /\ status' = [status EXCEPT ![n] = "CREATED"]
      /\ wait_tid' = [wait_tid EXCEPT ![n] = NOT_FOUND]
      /\ ready' = Append(ready, e)
      /\ current_active' = current_active
  BY DEF ThreadCreate
<1>5. Ids(ready') = Ids(ready) \cup {n}
  <2>1. e \in Entry /\ e.id = n
    BY <1>2 DEF EntryOf, Entry, DEFAULT_PRIORITY
  <2> QED
    BY <1>1, <1>4, <2>1, AppendIds
<1> HIDE DEF n, e
<1>6. S[n] = "absent" /\ B[n] = "ready" /\ \A x \in Tid \ {n} : B[x] = S[x]
  BY <1>1, <1>2, <1>3, <1>4, <1>5 DEF Shown
<1>7. /\ AState = S /\ ATarget = Sought(S, wait_tid)
      /\ AState' = B /\ ATarget' = Sought(B, wait_tid')
  BY MappedNow, MappedNext DEF Mapped
<1>8. B = [S EXCEPT ![n] = "ready"]
  BY <1>6 DEF Shown
<1>9. ATarget' = ATarget
  <2>1. \A x \in Tid : (IF B[x] = "blocked" THEN wait_tid'[x] ELSE NULL)
                         = IF S[x] = "blocked" THEN wait_tid[x] ELSE NULL
    BY <1>1, <1>4, <1>6
  <2> HIDE DEF S, B
  <2> QED
    BY <1>7, <2>1 DEF Sought
<1> HIDE DEF S, B
<1> QED
  BY <1>2, <1>4, <1>6, <1>7, <1>8, <1>9 DEF Promise!Create, AState, ATarget, n

(* A session that begins or ends, with no thread of an earlier one running. *)
LEMMA EmptyMaps ==
  ASSUME FifoSupported, FifoInv', MainRuns, NoThreads, current_active' = NULL
  PROVE  Promise!EndSession
<1>1. AState' = Shown(ready', status') /\ ATarget' = Sought(AState', wait_tid')
  BY MappedNext DEF Mapped
<1>2. \A t \in Tid : status'[t] = "NONE"
  BY DEF NoThreads
<1>3. AState' = [t \in Tid |-> "absent"]
  BY <1>1, <1>2 DEF Shown
<1>4. ATarget' = [t \in Tid |-> NULL]
  BY <1>1, <1>3 DEF Sought
<1> QED
  BY <1>3, <1>4 DEF Promise!EndSession, MainRuns, AState, ATarget

(* Calls that fail for want of memory are no step. *)
LEMMA StutterMaps ==
  ASSUME FifoSupported, FifoInv, FifoInv',
         UNCHANGED <<ready, status, wait_tid, current_active>>
  PROVE  UNCHANGED <<AState, ATarget, current_active>>
<1>1. Mapped /\ Mapped'
  BY MappedNow, MappedNext
<1> QED
  BY <1>1 DEF Mapped

AStep == Promise!ANext \/ UNCHANGED <<AState, ATarget, current_active>>

LEMMA NextMaps ==
  ASSUME FifoSupported, FifoInv, [Next]_vars
  PROVE  AStep
<1>1. FifoInv'
  BY FifoNextKeeps
<1>2. CASE MainYield \/ \E u \in Tid : MainJoin(u)
  <2>1. MainSwitches
    BY <1>2 DEF MainYield, MainJoin
  <2> QED
    BY <1>1, <2>1, MainMaps DEF AStep, Promise!ANext
<1>3. ASSUME NEW t \in Tid, ThreadSwitches(t) PROVE AStep
  <2>1. CASE ThreadYield(t)
    BY <1>1, <2>1, YieldMaps DEF AStep, Promise!ANext
  <2>2. CASE ThreadReturn(t)
    BY <1>1, <2>2, FinishMaps DEF AStep, Promise!ANext
  <2>3. ASSUME NEW u \in Tid, ThreadJoin(t, u) PROVE AStep
    <3>1. Promise!Join(t, u)
      BY <1>1, <2>3, JoinMaps
    <3> QED
      BY <3>1 DEF AStep, Promise!ANext
  <2> QED
    BY <1>3, <2>1, <2>2, <2>3 DEF ThreadSwitches
<1>4. CASE ThreadCreate
  BY <1>1, <1>4, CreateMaps DEF AStep, Promise!ANext
<1>5. ASSUME (\E policy \in Policies : LibInit(policy)) \/ LibTerminate PROVE AStep
  <2>1. MainRuns /\ NoThreads /\ current_active' = NULL
    BY <1>5 DEF LibInit, LibTerminate, MainRuns
  <2> QED
    BY <1>1, <2>1, EmptyMaps DEF AStep, Promise!ANext
<1>6. ASSUME \/ \E policy \in Policies : LibInitNoMemory(policy)
             \/ ThreadCreateNoStack
             \/ UNCHANGED vars
      PROVE  AStep
  <2>1. UNCHANGED <<ready, status, wait_tid, current_active>>
    BY <1>6 DEF LibInitNoMemory, ThreadCreateNoStack, vars
  <2> QED
    BY <1>1, <2>1, StutterMaps DEF AStep
<1>7. ASSUME NEW t \in Tid, ThreadLibTerminate(t) PROVE FALSE
  BY <1>7 DEF ThreadLibTerminate, FifoSupported
<1> QED
  BY <1>2, <1>3, <1>4, <1>5, <1>6, <1>7 DEF Next

LEMMA InitMaps == Init => Promise!AInit
<1> SUFFICES ASSUME Init PROVE Promise!AInit
  OBVIOUS
<1>1. \A t \in Tid : StateOf(t) = "absent"
  BY DEF Init, StateOf
<1> QED
  BY <1>1 DEF Init, Promise!AInit

(* The library under _FIFO, with the joins README allows, implements CooperativeThreads
   for every number of threads and through failing mallocs and new sessions: the
   CPU goes from thread to thread at library calls only, a join blocks until its
   target is done, the end of a thread frees all who wait for it, and main comes
   back when every thread is done. *)
THEOREM PromiseKept == ASSUME FifoSupported PROVE Spec => KeepsPromise
<1>1. FifoInv /\ [Next]_vars => [Promise!ANext]_(Promise!avars)
  <2> SUFFICES ASSUME FifoInv, [Next]_vars PROVE Promise!ANext \/ UNCHANGED Promise!avars
    OBVIOUS
  <2> QED
    BY NextMaps DEF AStep, AState, ATarget, Promise!avars
<1>2. Init => Promise!AInit
  BY InitMaps
<1>3. Spec => Promise!ASpec
  BY <1>1, <1>2, FifoInvariance, PTL DEF Spec, Promise!ASpec
<1> QED
  BY <1>3 DEF KeepsPromise
=============================================================================
