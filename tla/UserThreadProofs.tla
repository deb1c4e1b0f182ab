-------------------------- MODULE UserThreadProofs --------------------------
(***************************************************************************)
(* Theorems of UserThread, for every number of threads and every choice of *)
(* the constants.  The inductive invariant IInv relates the queues, the    *)
(* statuses and current_active; one lemma says that a pass of my_scheduler *)
(* keeps it, and one step per library call brings that lemma to bear.      *)
(***************************************************************************)
EXTENDS UserThread, TLAPS

-----------------------------------------------------------------------------
(* Sequences. *)

Ids(q) == {q[i].id : i \in DOMAIN q}
Distinct(q) == \A i, j \in DOMAIN q : q[i].id = q[j].id => i = j
NoRepeat(s) == \A i, j \in DOMAIN s : s[i] = s[j] => i = j

(* RemoveAt of the community modules closes the gap it makes. *)
LEMMA RemoveAtElements ==
  ASSUME NEW S, NEW q \in Seq(S), NEW i \in DOMAIN q
  PROVE  /\ RemoveAt(q, i) \in Seq(S)
         /\ DOMAIN RemoveAt(q, i) = 1 .. Len(q) - 1
         /\ \A j \in 1 .. Len(q) - 1 :
              RemoveAt(q, i)[j] = IF j < i THEN q[j] ELSE q[j + 1]
<1> DEFINE a == SubSeq(q, 1, i - 1)
           b == SubSeq(q, i + 1, Len(q))
<1>1. i \in 1 .. Len(q) /\ Len(q) \in Nat
  OBVIOUS
<1>2. a \in Seq(S) /\ Len(a) = i - 1 /\ \A j \in 1 .. i - 1 : a[j] = q[j]
  BY <1>1
<1>3. b \in Seq(S) /\ Len(b) = Len(q) - i /\ \A j \in 1 .. Len(q) - i : b[j] = q[i + j]
  BY <1>1
<1>4. RemoveAt(q, i) = a \o b
  BY DEF RemoveAt
<1> HIDE DEF a, b
<1>5. a \o b \in Seq(S) /\ Len(a \o b) = Len(q) - 1
  BY <1>1, <1>2, <1>3
<1>a. \A n \in 1 .. Len(a) + Len(b) :
        (a \o b)[n] = IF n <= Len(a) THEN a[n] ELSE b[n - Len(a)]
  <2>1. a \in Seq(S) /\ b \in Seq(S)
    BY <1>2, <1>3
  <2> QED
    BY <2>1
<1>6. ASSUME NEW j \in 1 .. Len(q) - 1
      PROVE  (a \o b)[j] = IF j < i THEN q[j] ELSE q[j + 1]
  <2>1. CASE j < i
    <3>1. j \in 1 .. i - 1 /\ j \in 1 .. Len(a) + Len(b) /\ j <= Len(a)
      BY <1>1, <1>2, <1>3, <2>1
    <3>2. (a \o b)[j] = a[j]
      BY <1>a, <3>1
    <3> QED
      BY <1>2, <2>1, <3>1, <3>2
  <2>2. CASE ~(j < i)
    <3>1. (a \o b)[j] = b[j - (i - 1)]
      <4>1. j \in 1 .. Len(a) + Len(b) /\ ~(j <= Len(a))
        BY <1>1, <1>2, <1>3, <2>2
      <4>2. (a \o b)[j] = b[j - Len(a)]
        BY <1>a, <4>1
      <4> QED
        BY <1>2, <4>2
    <3>2. j - (i - 1) \in 1 .. Len(q) - i
      BY <1>1, <2>2
    <3>3. b[j - (i - 1)] = q[i + (j - (i - 1))]
      BY <1>3, <3>2
    <3> QED
      BY <1>1, <2>2, <3>1, <3>3
  <2> QED
    BY <2>1, <2>2
<1> QED
  BY <1>4, <1>5, <1>6

(* Taking an entry out of a queue without repeats takes its id out. *)
LEMMA RemoveAtIds ==
  ASSUME NEW q \in Seq(Entry), NEW i \in DOMAIN q, Distinct(q)
  PROVE  /\ RemoveAt(q, i) \in Seq(Entry)
         /\ Distinct(RemoveAt(q, i))
         /\ Ids(RemoveAt(q, i)) = Ids(q) \ {q[i].id}
<1> DEFINE r == RemoveAt(q, i)
<1>1. /\ r \in Seq(Entry)
      /\ DOMAIN r = 1 .. Len(q) - 1
      /\ \A j \in 1 .. Len(q) - 1 : r[j] = IF j < i THEN q[j] ELSE q[j + 1]
  BY RemoveAtElements
<1>2. i \in 1 .. Len(q) /\ Len(q) \in Nat /\ DOMAIN q = 1 .. Len(q)
  OBVIOUS
<1> HIDE DEF r
<1>3. Distinct(r)
  <2> SUFFICES ASSUME NEW j \in 1 .. Len(q) - 1, NEW k \in 1 .. Len(q) - 1,
                      r[j].id = r[k].id
               PROVE  j = k
    BY <1>1 DEF Distinct
  <2> DEFINE pos(n) == IF n < i THEN n ELSE n + 1
  <2>1. /\ pos(j) \in DOMAIN q /\ r[j] = q[pos(j)]
        /\ pos(k) \in DOMAIN q /\ r[k] = q[pos(k)]
    BY <1>1, <1>2
  <2>2. pos(j) = pos(k)
    BY <2>1 DEF Distinct
  <2> QED
    BY <1>2, <2>2
<1>4. ASSUME NEW x \in Ids(r) PROVE x \in Ids(q) \ {q[i].id}
  <2>1. PICK j \in 1 .. Len(q) - 1 : x = r[j].id
    BY <1>1, <1>4 DEF Ids
  <2>2. PICK k \in 1 .. Len(q) : k # i /\ x = q[k].id
    <3>1. r[j] = IF j < i THEN q[j] ELSE q[j + 1]
      BY <1>1
    <3>2. CASE j < i
      <4>1. j \in 1 .. Len(q) /\ j # i /\ x = q[j].id
        BY <1>2, <2>1, <3>1, <3>2
      <4> QED
        BY <4>1
    <3>3. CASE ~(j < i)
      <4>1. j + 1 \in 1 .. Len(q) /\ j + 1 # i
        BY <1>2, <3>3
      <4>2. x = q[j + 1].id
        BY <2>1, <3>1, <3>3
      <4> QED
        BY <4>1, <4>2
    <3> QED
      BY <3>2, <3>3
  <2> QED
    BY <1>2, <2>2 DEF Ids, Distinct
<1>5. ASSUME NEW x \in Ids(q) \ {q[i].id} PROVE x \in Ids(r)
  <2>1. PICK k \in 1 .. Len(q) : x = q[k].id /\ k # i
    BY <1>2, <1>5 DEF Ids
  <2>2. PICK j \in 1 .. Len(q) - 1 : r[j] = q[k]
    <3>1. CASE k < i
      BY <1>1, <1>2, <2>1, <3>1
    <3>2. CASE k > i
      <4>1. k - 1 \in 1 .. Len(q) - 1 /\ ~(k - 1 < i) /\ (k - 1) + 1 = k
        BY <1>2, <2>1, <3>2
      <4>2. r[k - 1] = q[k]
        BY <1>1, <4>1
      <4> QED
        BY <4>1, <4>2
    <3> QED
      BY <1>2, <2>1, <3>1, <3>2
  <2> QED
    BY <1>1, <2>1, <2>2 DEF Ids
<1> QED
  BY <1>1, <1>3, <1>4, <1>5 DEF r

(* Adding an entry at the end, and joining two queues with no id in common. *)
LEMMA AppendIds ==
  ASSUME NEW q \in Seq(Entry), NEW e \in Entry
  PROVE  /\ Append(q, e) \in Seq(Entry)
         /\ Ids(Append(q, e)) = Ids(q) \cup {e.id}
         /\ Distinct(q) /\ e.id \notin Ids(q) => Distinct(Append(q, e))
<1> DEFINE r == Append(q, e)
<1>1. /\ r \in Seq(Entry) /\ Len(q) \in Nat
      /\ DOMAIN r = 1 .. Len(q) + 1 /\ DOMAIN q = 1 .. Len(q)
      /\ r[Len(q) + 1] = e /\ \A i \in 1 .. Len(q) : r[i] = q[i]
  OBVIOUS
<1> HIDE DEF r
<1>2. Ids(r) = Ids(q) \cup {e.id}
  <2>1. ASSUME NEW x \in Ids(r) PROVE x \in Ids(q) \cup {e.id}
    BY <1>1, <2>1 DEF Ids
  <2>2. ASSUME NEW x \in Ids(q) PROVE x \in Ids(r)
    BY <1>1, <2>2 DEF Ids
  <2>3. e.id \in Ids(r)
    <3>1. Len(q) + 1 \in DOMAIN r
      BY <1>1
    <3> QED
      BY <1>1, <3>1 DEF Ids
  <2> QED
    BY <2>1, <2>2, <2>3
<1>3. ASSUME Distinct(q), e.id \notin Ids(q) PROVE Distinct(r)
  <2>1. \A i \in 1 .. Len(q) : q[i].id # e.id
    BY <1>1, <1>3 DEF Ids
  <2> QED
    BY <1>1, <1>3, <2>1 DEF Distinct
<1> QED
  BY <1>1, <1>2, <1>3 DEF r

LEMMA ConcatIds ==
  ASSUME NEW p \in Seq(Entry), NEW q \in Seq(Entry)
  PROVE  /\ p \o q \in Seq(Entry)
         /\ Ids(p \o q) = Ids(p) \cup Ids(q)
         /\ Distinct(p) /\ Distinct(q) /\ Ids(p) \cap Ids(q) = {} => Distinct(p \o q)
<1> DEFINE r == p \o q
<1>1. /\ r \in Seq(Entry) /\ Len(p) \in Nat /\ Len(q) \in Nat
      /\ DOMAIN p = 1 .. Len(p) /\ DOMAIN q = 1 .. Len(q)
      /\ DOMAIN r = 1 .. Len(p) + Len(q)
      /\ \A i \in 1 .. Len(p) + Len(q) : r[i] = IF i <= Len(p) THEN p[i] ELSE q[i - Len(p)]
  OBVIOUS
<1> HIDE DEF r
<1>2. \A i \in DOMAIN r : i <= Len(p) => i \in DOMAIN p /\ r[i] = p[i]
  BY <1>1
<1>3. \A i \in DOMAIN r : ~(i <= Len(p)) => i - Len(p) \in DOMAIN q /\ r[i] = q[i - Len(p)]
  BY <1>1
<1>4. Ids(r) = Ids(p) \cup Ids(q)
  <2>1. Ids(r) \subseteq Ids(p) \cup Ids(q)
    BY <1>2, <1>3 DEF Ids
  <2>2. ASSUME NEW i \in DOMAIN p PROVE i \in DOMAIN r /\ r[i] = p[i]
    BY <1>1
  <2>3. ASSUME NEW i \in DOMAIN q PROVE i + Len(p) \in DOMAIN r /\ r[i + Len(p)] = q[i]
    <3>1. i + Len(p) \in 1 .. Len(p) + Len(q) /\ ~(i + Len(p) <= Len(p))
      BY <1>1
    <3>2. (i + Len(p)) - Len(p) = i
      BY <1>1
    <3> QED
      BY <1>1, <3>1, <3>2
  <2>4. Ids(p) \subseteq Ids(r)
    BY <2>2 DEF Ids
  <2>5. Ids(q) \subseteq Ids(r)
    BY <2>3 DEF Ids
  <2> QED
    BY <2>1, <2>4, <2>5
<1>5. ASSUME Distinct(p), Distinct(q), Ids(p) \cap Ids(q) = {},
             NEW i \in DOMAIN r, NEW j \in DOMAIN r, r[i].id = r[j].id
      PROVE  i = j
  <2>1. CASE i <= Len(p) /\ j <= Len(p)
    BY <1>2, <1>5, <2>1 DEF Distinct
  <2>2. CASE ~(i <= Len(p)) /\ ~(j <= Len(p))
    <3>1. i - Len(p) = j - Len(p)
      BY <1>3, <1>5, <2>2 DEF Distinct
    <3> QED
      BY <1>1, <3>1
  <2>3. CASE (i <= Len(p)) # (j <= Len(p))
    <3>1. r[i].id \in Ids(p) \cap Ids(q)
      BY <1>2, <1>3, <1>5, <2>3 DEF Ids
    <3> QED
      BY <1>5, <3>1
  <2> QED
    BY <2>1, <2>2, <2>3
<1> QED
  BY <1>1, <1>4, <1>5 DEF r, Distinct

-----------------------------------------------------------------------------
(* The inductive invariant. *)

Waiting == {"CREATED", "YIELD", "STOPPED"}

(* Every queued thread is listed, waits in exactly one place, and if it is
   ready after a thread_join, the thread it joined has finished. *)
Queued(q, sus, st, wt, list) ==
  /\ Distinct(q)
  /\ \A t \in Ids(q) :
       /\ t \in list
       /\ st[t] \in Waiting
       /\ st[t] = "STOPPED" => wt[t] \in Tid /\ st[wt[t]] = "FINISHED"
  /\ \A u \in Tid : NoRepeat(sus[u])
  /\ \A u \in Tid : \A t \in ToSet(sus[u]) :
       t \in list /\ st[t] = "STOPPED" /\ wt[t] = u /\ t \notin Ids(q)

Listed ==
  /\ \A t \in Tid : /\ t \in thread_list <=> status[t] # "NONE"
                    /\ t \in thread_list => t <= thread_count
  /\ ~initialized => thread_list = {}

(* The thread with the CPU is listed, unless it has ended the library itself. *)
Current ==
  \/ current_active = NULL
  \/ current_active \in thread_list /\ status[current_active] = "SCHEDULED"
  \/ ThreadsTerminate /\ ~initialized

IInv ==
  /\ TypeOK
  /\ Queued(ready, suspended_queue, status, wait_tid, thread_list)
  /\ Listed
  /\ Current

(* What a pass of my_scheduler over queue q does, from statuses st in which
   the thread that left is no longer running. *)
LEMMA SchedulerPass ==
  ASSUME TypeOK,
         NEW q \in Seq(Entry), NEW st \in [Tid -> Status],
         NEW sus, NEW wt, NEW list,
         Queued(q, sus, st, wt, list),
         NEW i \in DOMAIN q, Dispatch(q, i, st)
  PROVE  /\ RemoveAt(q, i) \in Seq(Entry)
         /\ status' \in [Tid -> Status]
         /\ current_active' \in Ids(q) \cap Tid
         /\ status' = [st EXCEPT ![current_active'] = "SCHEDULED"]
         /\ Ids(RemoveAt(q, i)) = Ids(q) \ {current_active'}
         /\ Queued(RemoveAt(q, i), sus, status', wt, list)
<1> DEFINE r == RemoveAt(q, i)
<1>1. q[i] \in Entry /\ current_active' = q[i].id /\ q[i].id \in Ids(q)
  BY DEF Dispatch, Ids
<1>2. current_active' \in Tid
  BY <1>1 DEF Entry
<1>3. status' = [st EXCEPT ![current_active'] = "SCHEDULED"]
  BY <1>1 DEF Dispatch
<1>4. status' \in [Tid -> Status]
  BY <1>3 DEF Status
<1>5. /\ r \in Seq(Entry)
      /\ Distinct(r)
      /\ Ids(r) = Ids(q) \ {current_active'}
  BY <1>1, RemoveAtIds DEF Queued
<1> HIDE DEF r
<1>6. Ids(q) \subseteq Tid
  <2>1. \A j \in DOMAIN q : q[j] \in Entry
    OBVIOUS
  <2> QED
    BY <2>1 DEF Ids, Entry
<1>7. st[current_active'] \in Waiting
  BY <1>1 DEF Queued
<1>8. Queued(r, sus, status', wt, list)
  <2>1. \A t \in Tid : t # current_active' => status'[t] = st[t]
    BY <1>3
  <2>2. \A t \in Tid : st[t] = "FINISHED" => status'[t] = "FINISHED"
    BY <1>7, <2>1 DEF Waiting
  <2>3. ASSUME NEW t \in Ids(r)
        PROVE  /\ t \in list
               /\ status'[t] \in Waiting
               /\ status'[t] = "STOPPED" => wt[t] \in Tid /\ status'[wt[t]] = "FINISHED"
    BY <1>5, <1>6, <2>1, <2>2, <2>3 DEF Queued
  <2>4. ASSUME NEW u \in Tid, NEW t \in ToSet(sus[u])
        PROVE  t \in list /\ status'[t] = "STOPPED" /\ wt[t] = u /\ t \notin Ids(r)
    <3>1. t \in list /\ st[t] = "STOPPED" /\ wt[t] = u /\ t \notin Ids(q)
      BY DEF Queued
    <3>2. t # current_active' /\ t \notin Ids(r)
      BY <1>1, <1>5, <3>1
    <3>3. status'[t] = st[t]
      BY <1>3, <1>2, <3>2, <3>1
    <3> QED
      BY <3>1, <3>2, <3>3
  <2> QED
    BY <1>5, <2>3, <2>4 DEF Queued
<1> QED
  BY <1>1, <1>2, <1>3, <1>4, <1>5, <1>8 DEF r

(* What such a pass leaves, with r for the ready queue. *)
PassResult(r, st, sus, wt, list) ==
  /\ r \in Seq(Entry)
  /\ status' \in [Tid -> Status]
  /\ current_active' \in Tid \cup {NULL}
  /\ Queued(r, sus, status', wt, list)
  /\ current_active' # NULL =>
       (current_active' \in list /\ status'[current_active'] = "SCHEDULED")
  /\ \A t \in Tid : status'[t] = "NONE" <=> st[t] = "NONE"
  /\ \A t \in Tid :
       (st[t] = "STOPPED" /\ status'[t] = "SCHEDULED") => status'[wt[t]] = "FINISHED"

(* The thread that joined another and now gets the CPU finds it finished. *)
JoinStep ==
  \A t \in Tid :
    (status[t] = "STOPPED" /\ status'[t] = "SCHEDULED") => status'[wait_tid[t]] = "FINISHED"

LEMMA DispatchPass ==
  ASSUME TypeOK,
         NEW q \in Seq(Entry), NEW st \in [Tid -> Status],
         NEW sus, NEW wt, NEW list,
         Queued(q, sus, st, wt, list),
         NEW i \in DOMAIN q, Dispatch(q, i, st)
  PROVE  PassResult(RemoveAt(q, i), st, sus, wt, list)
<1>1. /\ RemoveAt(q, i) \in Seq(Entry)
      /\ status' \in [Tid -> Status]
      /\ current_active' \in Ids(q) \cap Tid
      /\ status' = [st EXCEPT ![current_active'] = "SCHEDULED"]
      /\ Queued(RemoveAt(q, i), sus, status', wt, list)
  BY SchedulerPass
<1>2. /\ current_active' \in list
      /\ st[current_active'] \in Waiting
      /\ st[current_active'] = "STOPPED" =>
           wt[current_active'] \in Tid /\ st[wt[current_active']] = "FINISHED"
  BY <1>1 DEF Queued
<1>3. \A t \in Tid : status'[t] = IF t = current_active' THEN "SCHEDULED" ELSE st[t]
  BY <1>1
<1>4. \A t \in Tid :
        (st[t] = "STOPPED" /\ status'[t] = "SCHEDULED") => status'[wt[t]] = "FINISHED"
  <2>1. \A t \in Tid : (st[t] = "STOPPED" /\ status'[t] = "SCHEDULED") => t = current_active'
    BY <1>3
  <2>2. st[current_active'] = "STOPPED" => status'[wt[current_active']] = "FINISHED"
    BY <1>2, <1>3 DEF Waiting
  <2> QED
    BY <2>1, <2>2
<1>5. \A t \in Tid : status'[t] = "NONE" <=> st[t] = "NONE"
  BY <1>2, <1>3 DEF Waiting
<1> QED
  BY <1>1, <1>2, <1>3, <1>4, <1>5 DEF PassResult

LEMMA MainPass ==
  ASSUME NEW q \in Seq(Entry), NEW st \in [Tid -> Status],
         NEW sus, NEW wt, NEW list,
         Queued(q, sus, st, wt, list),
         BackToMain(st)
  PROVE  PassResult(q, st, sus, wt, list)
<1>1. status' = st /\ current_active' = NULL
  BY DEF BackToMain
<1>2. \A t \in Tid : ~(st[t] = "STOPPED" /\ status'[t] = "SCHEDULED")
  BY <1>1
<1> QED
  BY <1>1, <1>2 DEF PassResult

(* A whole pass, whether it ends in a thread or in main. *)
LEMMA WholePass ==
  ASSUME TypeOK,
         NEW q \in Seq(Entry), NEW st \in [Tid -> Status],
         NEW sus, NEW wt, NEW list,
         Queued(q, sus, st, wt, list),
         ScheduleFrom(q, st)
  PROVE  PassResult(ready', st, sus, wt, list)
<1>1. choose_next(q) \subseteq DOMAIN q
  BY DEF choose_next
<1>2. CASE \E i \in choose_next(q) : Dispatch(q, i, st) /\ ready' = RemoveAt(q, i)
  BY <1>1, <1>2, DispatchPass
<1>3. CASE choose_next(q) = {} /\ BackToMain(st) /\ ready' = q
  BY <1>3, MainPass
<1> QED
  BY <1>2, <1>3 DEF ScheduleFrom

(* The estimate of a thread is a number whatever policy computes it. *)
LEMMA EstimateType ==
  ASSUME TypeOK, NEW t \in Tid, UpdateEstimate(t)
  PROVE  /\ estimated_runtime' \in [Tid -> Nat]
         /\ yield_count' \in [Tid -> 0 .. ENOUGH_YIELDS]
<1>1. CASE schedule_policy = "SJF"
  <2>1. PICK e \in IF yield_count[t] > 2 THEN Estimates ELSE {estimated_runtime[t]} :
          estimated_runtime' = [estimated_runtime EXCEPT ![t] = e]
    BY <1>1 DEF UpdateEstimate
  <2>2. e \in Nat
    BY ConstantsAssumption DEF TypeOK, ConstantsAssumption
  <2>3. yield_count' = [yield_count EXCEPT ![t] = IF @ < ENOUGH_YIELDS THEN @ + 1 ELSE @]
    BY <1>1 DEF UpdateEstimate
  <2> QED
    BY <2>1, <2>2, <2>3 DEF TypeOK, ENOUGH_YIELDS
<1>2. CASE schedule_policy # "SJF"
  BY <1>2 DEF UpdateEstimate, estimateVars, TypeOK
<1> QED
  BY <1>1, <1>2

-----------------------------------------------------------------------------
(* Each library call keeps the invariant. *)

LEMMA InitEstablishes == Init => IInv
<1> SUFFICES ASSUME Init PROVE IInv
  OBVIOUS
<1>1. TypeOK
  <2>1. status \in [Tid -> Status]
    BY DEF Init, Status
  <2>2. yield_count \in [Tid -> 0 .. ENOUGH_YIELDS] /\ estimated_runtime \in [Tid -> Nat]
    BY DEF Init, ENOUGH_YIELDS
  <2>3. wait_tid \in [Tid -> Tid \cup {NOT_FOUND}] /\ suspended_queue \in [Tid -> Seq(Tid)]
    BY DEF Init
  <2>4. thread_count \in 0 .. MaxThreads
    BY ConstantsAssumption DEF Init, ConstantsAssumption
  <2>5. initialized \in BOOLEAN /\ init_ok \in BOOLEAN
    BY Zenon DEF Init
  <2>6. /\ schedule_policy \in {"FIFO", "SJF"} /\ thread_list \in SUBSET Tid
        /\ current_active \in Tid \cup {NULL} /\ main_join \in Tid \cup {NULL}
    BY DEF Init
  <2>7. ready \in Seq(Entry)
    BY DEF Init
  <2> QED
    BY <2>1, <2>2, <2>3, <2>4, <2>5, <2>6, <2>7 DEF TypeOK
<1>2. Queued(ready, suspended_queue, status, wait_tid, thread_list)
  BY DEF Init, Queued, Distinct, NoRepeat, Ids, ToSet
<1>3. Listed /\ Current
  BY DEF Init, Listed, Current
<1> QED
  BY <1>1, <1>2, <1>3 DEF IInv

(* The queues of a session without threads. *)
LEMMA EmptySession ==
  ASSUME NoThreads
  PROVE  /\ thread_list' \in SUBSET Tid
         /\ ready' \in Seq(Entry)
         /\ status' \in [Tid -> Status]
         /\ wait_tid' \in [Tid -> Tid \cup {NOT_FOUND}]
         /\ suspended_queue' \in [Tid -> Seq(Tid)]
         /\ yield_count' \in [Tid -> 0 .. ENOUGH_YIELDS]
         /\ estimated_runtime' \in [Tid -> Nat]
         /\ Queued(ready', suspended_queue', status', wait_tid', thread_list')
         /\ Listed'
         /\ \A t \in Tid : status'[t] = "NONE"
<1>1. Queued(ready', suspended_queue', status', wait_tid', thread_list')
  BY DEF NoThreads, Queued, Distinct, NoRepeat, Ids, ToSet
<1> QED
  BY <1>1 DEF NoThreads, Listed, Status, ENOUGH_YIELDS

LEMMA LibInitStep ==
  ASSUME IInv, NEW policy \in Policies, LibInit(policy)
  PROVE  IInv' /\ JoinStep
<1>1. TypeOK'
  BY EmptySession, ConstantsAssumption DEF LibInit, TypeOK, ConstantsAssumption, NULL
<1>2. Current'
  BY DEF LibInit, Current
<1> QED
  BY <1>1, <1>2, EmptySession DEF LibInit, IInv, JoinStep

LEMMA LibInitNoMemoryStep ==
  ASSUME IInv, NEW policy \in Policies, LibInitNoMemory(policy)
  PROVE  IInv' /\ JoinStep
<1> USE DEF IInv
<1>1. /\ UNCHANGED <<thread_list, current_active, ready, status, wait_tid>>
      /\ UNCHANGED <<suspended_queue, yield_count, estimated_runtime, main_join>>
  BY DEF LibInitNoMemory, estimateVars
<1>2. thread_count' \in 0 .. MaxThreads
  BY ConstantsAssumption DEF LibInitNoMemory, TypeOK, ConstantsAssumption
<1>3. initialized' \in BOOLEAN /\ init_ok' \in BOOLEAN
  BY Zenon DEF LibInitNoMemory
<1>4. schedule_policy' \in {"FIFO", "SJF"}
  BY ConstantsAssumption DEF LibInitNoMemory, ConstantsAssumption
<1>5. TypeOK'
  BY <1>1, <1>2, <1>3, <1>4 DEF TypeOK
<1>6. Queued(ready, suspended_queue, status, wait_tid, thread_list)'
  BY <1>1 DEF Queued, Distinct, NoRepeat, Ids, ToSet
<1>7. Listed' /\ Current'
  BY <1>1 DEF LibInitNoMemory, Listed, Current, MainRuns
<1>8. JoinStep
  BY <1>1 DEF JoinStep
<1> QED
  BY <1>5, <1>6, <1>7, <1>8

LEMMA LibTerminateStep ==
  ASSUME IInv, LibTerminate \/ \E t \in Tid : ThreadLibTerminate(t)
  PROVE  IInv' /\ JoinStep
<1>1. NoThreads /\ initialized' = FALSE /\ current_active' = current_active
  BY DEF LibTerminate, ThreadLibTerminate
<1>2. UNCHANGED <<schedule_policy, thread_count>>
  BY DEF LibTerminate, ThreadLibTerminate
<1>3. init_ok' \in BOOLEAN /\ main_join' \in Tid \cup {NULL}
  BY DEF LibTerminate, ThreadLibTerminate, IInv, TypeOK
<1>4. TypeOK'
  BY <1>1, <1>2, <1>3, EmptySession DEF IInv, TypeOK
<1>5. Current'
  BY <1>1 DEF LibTerminate, ThreadLibTerminate, Current, MainRuns
<1> QED
  BY <1>1, <1>4, <1>5, EmptySession DEF IInv, JoinStep

(* A new thread goes to the end of the ready queue; no queue had its tid. *)
LEMMA ThreadCreateStep ==
  ASSUME IInv, ThreadCreate
  PROVE  IInv' /\ JoinStep
<1> DEFINE n == thread_count + 1
           e == EntryOf(n, DEFAULT_PRIORITY)
<1>1. n \in Tid /\ n \notin thread_list /\ status[n] = "NONE"
  BY ConstantsAssumption
  DEF ThreadCreate, IInv, TypeOK, Listed, Tid, ConstantsAssumption
<1>2. /\ thread_count' = n
      /\ thread_list' = thread_list \cup {n}
      /\ status' = [status EXCEPT ![n] = "CREATED"]
      /\ wait_tid' = [wait_tid EXCEPT ![n] = NOT_FOUND]
      /\ suspended_queue' = [suspended_queue EXCEPT ![n] = <<>>]
      /\ ready' = Append(ready, e)
      /\ UNCHANGED <<initialized, init_ok, schedule_policy, current_active, main_join>>
  BY DEF ThreadCreate, libVars
<1>3. e \in Entry /\ e.id = n
  BY <1>1 DEF EntryOf, Entry, DEFAULT_PRIORITY
<1> HIDE DEF e
<1>4. /\ ready \in Seq(Entry) /\ status \in [Tid -> Status]
      /\ wait_tid \in [Tid -> Tid \cup {NOT_FOUND}]
      /\ suspended_queue \in [Tid -> Seq(Tid)]
  BY DEF IInv, TypeOK
<1>5. n \notin Ids(ready)
  BY <1>1 DEF IInv, Queued
<1>6. /\ ready' \in Seq(Entry) /\ Distinct(ready')
      /\ Ids(ready') = Ids(ready) \cup {n}
  BY <1>2, <1>3, <1>4, <1>5, AppendIds DEF IInv, Queued
<1>7. TypeOK'
  <2>1. yield_count' = [yield_count EXCEPT ![n] = 0]
    BY DEF ThreadCreate
  <2>2. PICK est \in Estimates : estimated_runtime' = [estimated_runtime EXCEPT ![n] = est]
    BY DEF ThreadCreate
  <2>3. /\ yield_count' \in [Tid -> 0 .. ENOUGH_YIELDS]
        /\ estimated_runtime' \in [Tid -> Nat]
    <3>1. yield_count \in [Tid -> 0 .. ENOUGH_YIELDS] /\ 0 \in 0 .. ENOUGH_YIELDS
      BY DEF IInv, TypeOK, ENOUGH_YIELDS
    <3>2. estimated_runtime \in [Tid -> Nat] /\ est \in Nat
      BY ConstantsAssumption DEF IInv, TypeOK, ConstantsAssumption
    <3> QED
      BY <2>1, <2>2, <3>1, <3>2
  <2>4. thread_count' \in 0 .. MaxThreads
    BY <1>1, <1>2 DEF Tid, IInv, TypeOK
  <2>5. /\ status' \in [Tid -> Status]
        /\ wait_tid' \in [Tid -> Tid \cup {NOT_FOUND}]
        /\ suspended_queue' \in [Tid -> Seq(Tid)]
    <3>1. "CREATED" \in Status
      BY DEF Status
    <3>2. <<>> \in Seq(Tid)
      OBVIOUS
    <3> QED
      BY <1>2, <1>4, <3>1, <3>2
  <2> QED
    BY <1>1, <1>2, <1>6, <2>3, <2>4, <2>5 DEF IInv, TypeOK
<1>8. \A t \in Tid : t # n => status'[t] = status[t] /\ wait_tid'[t] = wait_tid[t]
                               /\ suspended_queue'[t] = suspended_queue[t]
  BY <1>2, <1>4
<1>9. status'[n] = "CREATED" /\ suspended_queue'[n] = <<>>
  BY <1>1, <1>2, <1>4
<1>10. Queued(ready', suspended_queue', status', wait_tid', thread_list')
  <2>1. ASSUME NEW t \in Ids(ready')
        PROVE  /\ t \in thread_list'
               /\ status'[t] \in Waiting
               /\ status'[t] = "STOPPED" =>
                    wait_tid'[t] \in Tid /\ status'[wait_tid'[t]] = "FINISHED"
    <3>1. CASE t = n
      BY <1>2, <1>9, <3>1 DEF Waiting
    <3>2. CASE t # n
      <4>1. t \in Ids(ready) /\ t \in Tid
        BY <1>6, <3>2 DEF IInv, Queued, TypeOK
      <4> QED
        BY <1>1, <1>2, <1>8, <3>2, <4>1 DEF IInv, Queued
    <3> QED
      BY <3>1, <3>2
  <2>2. \A u \in Tid : NoRepeat(suspended_queue'[u])
    BY <1>8, <1>9 DEF IInv, Queued, NoRepeat
  <2>3. ASSUME NEW u \in Tid, NEW t \in ToSet(suspended_queue'[u])
        PROVE  /\ t \in thread_list' /\ status'[t] = "STOPPED"
               /\ wait_tid'[t] = u /\ t \notin Ids(ready')
    <3>1. u # n
      BY <1>9 DEF ToSet
    <3>2. t \in ToSet(suspended_queue[u])
      BY <1>8, <3>1
    <3>3. /\ t \in thread_list /\ status[t] = "STOPPED"
          /\ wait_tid[t] = u /\ t \notin Ids(ready)
      BY <3>2 DEF IInv, Queued
    <3> QED
      BY <1>1, <1>2, <1>6, <1>8, <3>3 DEF IInv, TypeOK
  <2> QED
    BY <1>6, <2>1, <2>2, <2>3 DEF Queued
<1>11. Listed'
  BY <1>1, <1>2, <1>8, <1>9 DEF Listed, IInv, TypeOK, ThreadCreate, Usable, Tid
<1>12. Current'
  BY <1>1, <1>2, <1>8 DEF Current, IInv, TypeOK
<1>13. JoinStep
  BY <1>8, <1>9 DEF JoinStep
<1> QED
  BY <1>7, <1>10, <1>11, <1>12, <1>13 DEF IInv

LEMMA ThreadCreateNoStackStep ==
  ASSUME IInv, ThreadCreateNoStack
  PROVE  IInv' /\ JoinStep
<1> USE DEF IInv
<1>1. /\ UNCHANGED <<initialized, init_ok, schedule_policy, thread_list, current_active>>
      /\ UNCHANGED <<ready, status, wait_tid, suspended_queue, yield_count>>
      /\ UNCHANGED <<estimated_runtime, main_join>>
      /\ thread_count' = thread_count + 1 /\ thread_count' \in 0 .. MaxThreads
  BY ConstantsAssumption
  DEF ThreadCreateNoStack, libVars, estimateVars, TypeOK, ConstantsAssumption
<1>2. TypeOK'
  BY <1>1 DEF TypeOK
<1>3. Queued(ready, suspended_queue, status, wait_tid, thread_list)'
  BY <1>1 DEF Queued, Distinct, NoRepeat, Ids, ToSet
<1>4. Listed' /\ Current'
  BY <1>1 DEF Listed, Current, TypeOK, Tid
<1>5. JoinStep
  BY <1>1 DEF JoinStep
<1> QED
  BY <1>2, <1>3, <1>4, <1>5

(* Main hands the CPU over: a pass over the ready queue as it is. *)
LEMMA MainSwitchesStep ==
  ASSUME IInv, MainSwitches, main_join' \in Tid \cup {NULL}
  PROVE  IInv' /\ JoinStep
<1>1. /\ ScheduleFrom(ready, status)
      /\ UNCHANGED <<initialized, init_ok, schedule_policy, thread_count, thread_list>>
      /\ UNCHANGED <<wait_tid, suspended_queue, yield_count, estimated_runtime>>
  BY DEF MainSwitches, libVars, estimateVars
<1>2. ready \in Seq(Entry) /\ status \in [Tid -> Status]
  BY DEF IInv, TypeOK
<1>pass. PassResult(ready', status, suspended_queue, wait_tid, thread_list)
  BY <1>1, <1>2, WholePass DEF IInv
<1>3. /\ ready' \in Seq(Entry)
      /\ status' \in [Tid -> Status]
      /\ current_active' \in Tid \cup {NULL}
      /\ Queued(ready', suspended_queue, status', wait_tid, thread_list)
      /\ current_active' # NULL =>
           (current_active' \in thread_list /\ status'[current_active'] = "SCHEDULED")
      /\ \A t \in Tid : status'[t] = "NONE" <=> status[t] = "NONE"
      /\ JoinStep
  BY <1>pass DEF PassResult, JoinStep
<1>4. TypeOK'
  BY <1>1, <1>3 DEF IInv, TypeOK
<1>5. Queued(ready', suspended_queue', status', wait_tid', thread_list')
  BY <1>1, <1>3
<1>6. Listed' /\ Current'
  BY <1>1, <1>3 DEF IInv, Listed, Current
<1> QED
  BY <1>3, <1>4, <1>5, <1>6 DEF IInv

(* The running thread is on no queue. *)
LEMMA RunningUnqueued ==
  ASSUME IInv, NEW t \in Tid, Runs(t)
  PROVE  /\ status[t] = "SCHEDULED" /\ t \in thread_list
         /\ t \notin Ids(ready)
         /\ \A u \in Tid : t \notin ToSet(suspended_queue[u])
<1>1. status[t] = "SCHEDULED" /\ t \in thread_list
  BY DEF Runs, Usable, IInv, Current, Tid, NULL
<1> QED
  BY <1>1 DEF IInv, Queued, Waiting

(* A pass that the running thread t starts, which leaves
   the other threads' statuses as they are in st. *)
LEMMA ThreadPass ==
  ASSUME IInv, NEW t \in Tid, Runs(t),
         NEW st \in [Tid -> Status],
         st[t] \notin {"NONE", "SCHEDULED"},
         \A x \in Tid \ {t} : st[x] = status[x],
         PassResult(ready', st, suspended_queue', wait_tid', thread_list),
         suspended_queue' \in [Tid -> Seq(Tid)],
         wait_tid' \in [Tid -> Tid \cup {NOT_FOUND}],
         \A x \in Tid \ {t} : wait_tid'[x] = wait_tid[x],
         UpdateEstimate(t) \/ UNCHANGED estimateVars,
         UNCHANGED <<libVars, thread_count, thread_list, main_join>>
  PROVE  IInv' /\ JoinStep
<1>1. TypeOK
  BY DEF IInv
<1>2. /\ \A x \in Tid \ {t} : st[x] = status[x]
      /\ st[t] \notin {"NONE", "SCHEDULED"}
  OBVIOUS
<1>3. status[t] = "SCHEDULED" /\ t \in thread_list
  BY RunningUnqueued
<1>4. /\ ready' \in Seq(Entry)
      /\ status' \in [Tid -> Status]
      /\ current_active' \in Tid \cup {NULL}
      /\ Queued(ready', suspended_queue', status', wait_tid', thread_list)
      /\ current_active' # NULL =>
           (current_active' \in thread_list /\ status'[current_active'] = "SCHEDULED")
      /\ \A x \in Tid : status'[x] = "NONE" <=> st[x] = "NONE"
      /\ \A x \in Tid :
           (st[x] = "STOPPED" /\ status'[x] = "SCHEDULED") => status'[wait_tid'[x]] = "FINISHED"
  BY DEF PassResult
<1>5. /\ UNCHANGED <<initialized, init_ok, schedule_policy>>
      /\ UNCHANGED <<thread_count, thread_list, main_join>>
  BY DEF libVars
<1>6. /\ estimated_runtime' \in [Tid -> Nat]
      /\ yield_count' \in [Tid -> 0 .. ENOUGH_YIELDS]
  <2>1. CASE UpdateEstimate(t)
    BY <1>1, <2>1, EstimateType
  <2>2. CASE UNCHANGED estimateVars
    BY <1>1, <2>2 DEF estimateVars, TypeOK
  <2> QED
    BY <2>1, <2>2
<1>7. TypeOK'
  <2>1. /\ initialized' \in BOOLEAN /\ init_ok' \in BOOLEAN
        /\ schedule_policy' \in {"FIFO", "SJF"} /\ thread_list' \in SUBSET Tid
        /\ thread_count' \in 0 .. MaxThreads /\ main_join' \in Tid \cup {NULL}
    BY <1>1, <1>5 DEF TypeOK
  <2> QED
    BY <1>4, <1>6, <2>1 DEF TypeOK
<1>8. Queued(ready', suspended_queue', status', wait_tid', thread_list')
  BY <1>4, <1>5
<1>9. Listed' /\ Current'
  <2>1. \A x \in Tid : status'[x] = "NONE" <=> status[x] = "NONE"
    BY <1>2, <1>3, <1>4
  <2>2. Listed'
    BY <1>5, <2>1 DEF IInv, Listed
  <2>3. Current'
    BY <1>4, <1>5 DEF Current
  <2> QED
    BY <2>2, <2>3
<1>10. JoinStep
  BY <1>2, <1>3, <1>4 DEF JoinStep
<1> QED
  BY <1>7, <1>8, <1>9, <1>10 DEF IInv

(* The entries a thread's end wakes are those of the threads suspended on it,
   each once, none of them ready before. *)
LEMMA WokenIds ==
  ASSUME IInv, NEW t \in Tid
  PROVE  /\ Woken(t) \in Seq(Entry)
         /\ Distinct(Woken(t))
         /\ Ids(Woken(t)) = ToSet(suspended_queue[t])
         /\ Ids(Woken(t)) \cap Ids(ready) = {}
<1> DEFINE w == Woken(t)
           sq == suspended_queue[t]
<1>1. estimated_runtime \in [Tid -> Nat] /\ suspended_queue \in [Tid -> Seq(Tid)]
  BY DEF IInv, TypeOK
<1>2. sq \in Seq(Tid) /\ \A k \in DOMAIN sq : sq[k] \in Tid
  BY <1>1
<1>3. w \in Seq(Entry) /\ DOMAIN w = DOMAIN sq /\ \A k \in DOMAIN sq : w[k].id = sq[k]
  <2>1. \A k \in DOMAIN sq : EntryOf(sq[k], estimated_runtime[sq[k]]) \in Entry
    BY <1>1, <1>2 DEF EntryOf, Entry
  <2>2. w = [k \in 1 .. Len(sq) |-> EntryOf(sq[k], estimated_runtime[sq[k]])]
    BY <1>2 DEF Woken
  <2>3. w \in Seq(Entry)
    BY <1>2, <2>1, <2>2
  <2>4. \A k \in DOMAIN sq : w[k].id = sq[k]
    BY <1>2, <2>2 DEF EntryOf
  <2> QED
    BY <1>2, <2>2, <2>3, <2>4
<1>4. Ids(w) = ToSet(sq)
  BY <1>3 DEF Ids, ToSet
<1>5. Distinct(w)
  BY <1>3 DEF IInv, Queued, NoRepeat, Distinct
<1>6. Ids(w) \cap Ids(ready) = {}
  BY <1>4 DEF IInv, Queued
<1> QED
  BY <1>3, <1>4, <1>5, <1>6

LEMMA ThreadReturnStep ==
  ASSUME IInv, NEW t \in Tid, ThreadReturn(t)
  PROVE  IInv' /\ JoinStep
<1> DEFINE st == [status EXCEPT ![t] = "FINISHED"]
           w == Woken(t)
           sq == suspended_queue[t]
<1>1. /\ Runs(t)
      /\ suspended_queue' = [suspended_queue EXCEPT ![t] = <<>>]
      /\ ScheduleFrom(ready \o w, st)
      /\ UNCHANGED <<libVars, thread_count, thread_list, wait_tid, estimateVars, main_join>>
  BY DEF ThreadReturn
<1>2. /\ ready \in Seq(Entry) /\ status \in [Tid -> Status]
      /\ wait_tid \in [Tid -> Tid \cup {NOT_FOUND}]
      /\ suspended_queue \in [Tid -> Seq(Tid)]
      /\ estimated_runtime \in [Tid -> Nat]
      /\ TypeOK
  BY DEF IInv, TypeOK
<1>3. /\ status[t] = "SCHEDULED" /\ t \in thread_list
      /\ t \notin Ids(ready)
      /\ \A u \in Tid : t \notin ToSet(suspended_queue[u])
  BY <1>1, RunningUnqueued
<1>4. st \in [Tid -> Status] /\ st[t] = "FINISHED" /\ \A x \in Tid \ {t} : st[x] = status[x]
  <2>1. "FINISHED" \in Status
    BY DEF Status
  <2> QED
    BY <1>2, <2>1
<1>5. sq \in Seq(Tid) /\ \A k \in DOMAIN sq : sq[k] \in Tid
  BY <1>2
<1>6. /\ w \in Seq(Entry) /\ Distinct(w) /\ Ids(w) = ToSet(sq)
      /\ Ids(w) \cap Ids(ready) = {}
  BY WokenIds
<1>7. \A x \in ToSet(sq) : /\ x \in thread_list /\ status[x] = "STOPPED" /\ wait_tid[x] = t
                           /\ x \notin Ids(ready) /\ x \in Tid /\ x # t
  BY <1>3, <1>5 DEF IInv, Queued, ToSet
<1> HIDE DEF w, st
<1>8. /\ ready \o w \in Seq(Entry) /\ Distinct(ready \o w)
       /\ Ids(ready \o w) = Ids(ready) \cup ToSet(sq)
  BY <1>2, <1>6, ConcatIds DEF IInv, Queued
<1>9. Queued(ready \o w, suspended_queue', st, wait_tid, thread_list)
  <2>1. ASSUME NEW x \in Ids(ready \o w)
        PROVE  /\ x \in thread_list
               /\ st[x] \in Waiting
               /\ st[x] = "STOPPED" => wait_tid[x] \in Tid /\ st[wait_tid[x]] = "FINISHED"
    <3>1. CASE x \in Ids(ready)
      <4>1. /\ x \in thread_list /\ x # t /\ status[x] \in Waiting
            /\ status[x] = "STOPPED" => wait_tid[x] \in Tid /\ status[wait_tid[x]] = "FINISHED"
        BY <1>3, <3>1 DEF IInv, Queued
      <4>2. x \in Tid
        BY <1>2, <4>1 DEF TypeOK
      <4> QED
        BY <1>4, <4>1, <4>2
    <3>2. CASE x \in ToSet(sq)
      BY <1>4, <1>7, <3>2 DEF Waiting
    <3> QED
      BY <1>8, <3>1, <3>2
  <2>2. \A u \in Tid : suspended_queue'[u] = IF u = t THEN <<>> ELSE suspended_queue[u]
    BY <1>1, <1>2
  <2>3. \A u \in Tid : NoRepeat(suspended_queue'[u])
    BY <2>2 DEF IInv, Queued, NoRepeat
  <2>4. ASSUME NEW u \in Tid, NEW x \in ToSet(suspended_queue'[u])
        PROVE  /\ x \in thread_list /\ st[x] = "STOPPED" /\ wait_tid[x] = u
               /\ x \notin Ids(ready \o w)
    <3>1. u # t
      BY <2>2 DEF ToSet
    <3>2. x \in ToSet(suspended_queue[u])
      BY <2>2, <3>1
    <3>3. /\ x \in thread_list /\ status[x] = "STOPPED" /\ wait_tid[x] = u
          /\ x \notin Ids(ready)
      BY <3>2 DEF IInv, Queued
    <3>4. x \notin ToSet(sq)
      BY <1>7, <3>1, <3>3
    <3>5. x \in Tid /\ x # t
      BY <1>2, <1>3, <3>3 DEF TypeOK
    <3> QED
      BY <1>4, <1>8, <3>3, <3>4, <3>5
  <2> QED
    BY <1>8, <2>1, <2>3, <2>4 DEF Queued
<1>10. PassResult(ready', st, suspended_queue', wait_tid', thread_list)
  <2>1. PassResult(ready', st, suspended_queue', wait_tid, thread_list)
    BY <1>1, <1>2, <1>4, <1>8, <1>9, WholePass
  <2> QED
    BY <1>1, <2>1
<1>11. suspended_queue' \in [Tid -> Seq(Tid)]
  <2>1. <<>> \in Seq(Tid)
    OBVIOUS
  <2> QED
    BY <1>1, <1>2, <2>1
<1>12. st[t] \notin {"NONE", "SCHEDULED"}
  BY <1>4
<1>13. /\ wait_tid' \in [Tid -> Tid \cup {NOT_FOUND}]
       /\ \A x \in Tid \ {t} : wait_tid'[x] = wait_tid[x]
       /\ UNCHANGED estimateVars
       /\ UNCHANGED <<libVars, thread_count, thread_list, main_join>>
  BY <1>1, <1>2
<1> QED
  BY <1>1, <1>4, <1>10, <1>11, <1>12, <1>13, ThreadPass

LEMMA ThreadJoinStep ==
  ASSUME IInv, NEW t \in Tid, NEW u \in Tid, ThreadJoin(t, u)
  PROVE  IInv' /\ JoinStep
<1> DEFINE st == [status EXCEPT ![t] = "STOPPED"]
           wt == [wait_tid EXCEPT ![t] = u]
           sus == suspended_queue'
<1>1. /\ Runs(t)
      /\ wait_tid' = wt
      /\ suspended_queue' = IF ready = <<>> THEN suspended_queue ELSE SuspendOn(t, u)
      /\ ScheduleFrom(ready, st)
      /\ UpdateEstimate(t)
      /\ UNCHANGED <<libVars, thread_count, thread_list, main_join>>
  BY DEF ThreadJoin
<1>2. /\ ready \in Seq(Entry) /\ status \in [Tid -> Status]
      /\ wait_tid \in [Tid -> Tid \cup {NOT_FOUND}]
      /\ suspended_queue \in [Tid -> Seq(Tid)]
      /\ TypeOK
  BY DEF IInv, TypeOK
<1>3. /\ status[t] = "SCHEDULED" /\ t \in thread_list
      /\ t \notin Ids(ready)
      /\ \A v \in Tid : t \notin ToSet(suspended_queue[v])
  BY <1>1, RunningUnqueued
<1>4. st \in [Tid -> Status] /\ st[t] = "STOPPED" /\ \A x \in Tid \ {t} : st[x] = status[x]
  <2>1. "STOPPED" \in Status
    BY DEF Status
  <2> QED
    BY <1>2, <2>1
<1>5. /\ wt \in [Tid -> Tid \cup {NOT_FOUND}]
      /\ wt[t] = u /\ \A x \in Tid \ {t} : wt[x] = wait_tid[x]
  BY <1>2
<1>6. /\ sus \in [Tid -> Seq(Tid)]
      /\ \A v \in Tid \ {u} : sus[v] = suspended_queue[v]
      /\ sus[u] = suspended_queue[u] \/ sus[u] = Append(suspended_queue[u], t)
  <2>1. CASE ready = <<>>
    BY <1>1, <1>2, <2>1
  <2>2. CASE ready # <<>>
    <3>1. suspended_queue[u] \in Seq(Tid) /\ Append(suspended_queue[u], t) \in Seq(Tid)
      BY <1>2
    <3>2. sus = [suspended_queue EXCEPT ![u] = Append(suspended_queue[u], t)]
      BY <1>1, <2>2 DEF SuspendOn
    <3> QED
      BY <1>2, <3>1, <3>2
  <2> QED
    BY <2>1, <2>2
<1>7. /\ NoRepeat(sus[u])
      /\ ToSet(sus[u]) \subseteq ToSet(suspended_queue[u]) \cup {t}
  <2>1. CASE sus[u] = suspended_queue[u]
    BY <2>1 DEF IInv, Queued
  <2>2. CASE sus[u] = Append(suspended_queue[u], t)
    <3> DEFINE s == suspended_queue[u]
               r == Append(s, t)
    <3>1. /\ Len(s) \in Nat /\ DOMAIN r = 1 .. Len(s) + 1 /\ DOMAIN s = 1 .. Len(s)
          /\ r[Len(s) + 1] = t /\ \A k \in 1 .. Len(s) : r[k] = s[k]
      BY <1>2
    <3>2. \A k \in DOMAIN s : s[k] # t
      BY <1>3 DEF ToSet
    <3>3. NoRepeat(s)
      BY DEF IInv, Queued
    <3> HIDE DEF s, r
    <3>4. NoRepeat(r)
      BY <3>1, <3>2, <3>3 DEF NoRepeat
    <3>5. ToSet(r) \subseteq ToSet(s) \cup {t}
      BY <3>1 DEF ToSet
    <3> QED
      BY <2>2, <3>4, <3>5 DEF s, r
  <2> QED
    BY <1>6, <2>1, <2>2
<1> HIDE DEF st, wt, sus
<1>8. Queued(ready, sus, st, wt, thread_list)
  <2>1. ASSUME NEW x \in Ids(ready)
        PROVE  /\ x \in thread_list
               /\ st[x] \in Waiting
               /\ st[x] = "STOPPED" => wt[x] \in Tid /\ st[wt[x]] = "FINISHED"
    <3>1. /\ x \in thread_list /\ x # t /\ status[x] \in Waiting
          /\ status[x] = "STOPPED" => wait_tid[x] \in Tid /\ status[wait_tid[x]] = "FINISHED"
      BY <1>3 DEF IInv, Queued
    <3>2. x \in Tid
      BY <1>2, <3>1 DEF TypeOK
    <3> QED
      BY <1>3, <1>4, <1>5, <3>1, <3>2
  <2>2. \A v \in Tid : NoRepeat(sus[v])
    BY <1>6, <1>7 DEF IInv, Queued
  <2>3. ASSUME NEW v \in Tid, NEW x \in ToSet(sus[v])
        PROVE  x \in thread_list /\ st[x] = "STOPPED" /\ wt[x] = v /\ x \notin Ids(ready)
    <3>1. CASE x \in ToSet(suspended_queue[v])
      <4>1. /\ x \in thread_list /\ status[x] = "STOPPED" /\ wait_tid[x] = v
            /\ x \notin Ids(ready)
        BY <3>1 DEF IInv, Queued
      <4>2. x \in Tid /\ x # t
        BY <1>2, <1>3, <4>1 DEF TypeOK
      <4> QED
        BY <1>4, <1>5, <4>1, <4>2
    <3>2. CASE x = t /\ v = u
      BY <1>3, <1>4, <1>5, <3>2
    <3> QED
      BY <1>6, <1>7, <3>1, <3>2
  <2>4. Distinct(ready)
    BY DEF IInv, Queued
  <2> QED
    BY <2>1, <2>2, <2>3, <2>4 DEF Queued
<1>9. PassResult(ready', st, suspended_queue', wait_tid', thread_list)
  <2>1. PassResult(ready', st, sus, wt, thread_list)
    BY <1>1, <1>2, <1>4, <1>8, WholePass
  <2> QED
    BY <1>1, <2>1 DEF sus
<1>10. suspended_queue' \in [Tid -> Seq(Tid)]
  BY <1>6 DEF sus
<1>11. /\ wait_tid' \in [Tid -> Tid \cup {NOT_FOUND}]
       /\ \A x \in Tid \ {t} : wait_tid'[x] = wait_tid[x]
  BY <1>1, <1>5
<1>12. st[t] \notin {"NONE", "SCHEDULED"}
  BY <1>4
<1> QED
  BY <1>1, <1>4, <1>9, <1>10, <1>11, <1>12, ThreadPass

LEMMA ThreadYieldStep ==
  ASSUME IInv, NEW t \in Tid, ThreadYield(t)
  PROVE  IInv' /\ JoinStep
<1> DEFINE st == [status EXCEPT ![t] = "YIELD"]
           old == EntryOf(t, estimated_runtime[t])
           new == EntryOf(t, estimated_runtime'[t])
<1>1. /\ Runs(t)
      /\ UpdateEstimate(t)
      /\ UNCHANGED <<libVars, thread_count, thread_list, wait_tid, suspended_queue, main_join>>
  BY DEF ThreadYield
<1>2. /\ ready \in Seq(Entry) /\ status \in [Tid -> Status]
      /\ wait_tid \in [Tid -> Tid \cup {NOT_FOUND}]
      /\ suspended_queue \in [Tid -> Seq(Tid)]
      /\ TypeOK
  BY DEF IInv, TypeOK
<1>3. /\ status[t] = "SCHEDULED" /\ t \in thread_list
      /\ t \notin Ids(ready)
      /\ \A v \in Tid : t \notin ToSet(suspended_queue[v])
  BY <1>1, RunningUnqueued
<1>4. st \in [Tid -> Status] /\ st[t] = "YIELD" /\ \A x \in Tid \ {t} : st[x] = status[x]
  <2>1. "YIELD" \in Status
    BY DEF Status
  <2> QED
    BY <1>2, <2>1
<1>5. old \in Entry /\ old.id = t /\ new \in Entry /\ new.id = t
  BY <1>1, <1>2, EstimateType DEF EntryOf, Entry, TypeOK
<1>6. \/ ScheduleFrom(Append(ready, old), st)
      \/ \E i \in DOMAIN ready :
           Dispatch(ready, i, st) /\ ready' = Append(RemoveAt(ready, i), new)
      \/ BackToMain(st) /\ ready' = ready
  BY DEF ThreadYield, choose_next
<1> HIDE DEF st, old, new
<1>7. Queued(ready, suspended_queue, st, wait_tid, thread_list)
  <2>1. \A x \in thread_list : x \in Tid
    BY <1>2 DEF TypeOK
  <2>2. \A x \in Tid : status[x] = "FINISHED" => st[x] = "FINISHED"
    BY <1>3, <1>4
  <2>3. ASSUME NEW x \in Ids(ready)
        PROVE  /\ x \in thread_list
               /\ st[x] \in Waiting
               /\ st[x] = "STOPPED" => wait_tid[x] \in Tid /\ st[wait_tid[x]] = "FINISHED"
    <3>1. /\ x \in thread_list /\ x # t /\ status[x] \in Waiting
          /\ status[x] = "STOPPED" => wait_tid[x] \in Tid /\ status[wait_tid[x]] = "FINISHED"
      BY <1>3 DEF IInv, Queued
    <3> QED
      BY <1>4, <2>1, <2>2, <3>1
  <2>4. ASSUME NEW v \in Tid, NEW x \in ToSet(suspended_queue[v])
        PROVE  /\ x \in thread_list /\ st[x] = "STOPPED" /\ wait_tid[x] = v
               /\ x \notin Ids(ready)
    <3>1. /\ x \in thread_list /\ status[x] = "STOPPED" /\ wait_tid[x] = v
          /\ x \notin Ids(ready) /\ x # t
      BY <1>3 DEF IInv, Queued
    <3> QED
      BY <1>4, <2>1, <3>1
  <2> QED
    BY <2>3, <2>4 DEF IInv, Queued
<1>8. ASSUME NEW q \in Seq(Entry), NEW e \in Entry, e.id = t, t \notin Ids(q),
             NEW s, Queued(q, suspended_queue, s, wait_tid, thread_list), s[t] = "YIELD"
      PROVE  /\ Append(q, e) \in Seq(Entry)
             /\ Queued(Append(q, e), suspended_queue, s, wait_tid, thread_list)
  <2> DEFINE r == Append(q, e)
  <2>1. r \in Seq(Entry) /\ Distinct(r) /\ Ids(r) = Ids(q) \cup {t}
    BY <1>8, AppendIds DEF Queued
  <2> HIDE DEF r
  <2>2. ASSUME NEW x \in Ids(r)
        PROVE  /\ x \in thread_list
               /\ s[x] \in Waiting
               /\ s[x] = "STOPPED" => wait_tid[x] \in Tid /\ s[wait_tid[x]] = "FINISHED"
    <3>1. CASE x = t
      BY <1>3, <1>8, <3>1 DEF Waiting
    <3>2. CASE x \in Ids(q)
      BY <1>8, <3>2 DEF Queued
    <3> QED
      BY <2>1, <3>1, <3>2
  <2>3. \A v \in Tid : \A x \in ToSet(suspended_queue[v]) :
          x \in thread_list /\ s[x] = "STOPPED" /\ wait_tid[x] = v /\ x \notin Ids(r)
    BY <1>3, <1>8, <2>1 DEF Queued
  <2>4. \A v \in Tid : NoRepeat(suspended_queue[v])
    BY <1>8 DEF Queued
  <2>5. Queued(r, suspended_queue, s, wait_tid, thread_list)
    BY <2>1, <2>2, <2>3, <2>4 DEF Queued
  <2> QED
    BY <2>1, <2>5 DEF r
<1>9. PassResult(ready', st, suspended_queue, wait_tid, thread_list)
  <2>1. CASE ScheduleFrom(Append(ready, old), st)
    <3>1. /\ Append(ready, old) \in Seq(Entry)
          /\ Queued(Append(ready, old), suspended_queue, st, wait_tid, thread_list)
      BY <1>2, <1>3, <1>4, <1>5, <1>7, <1>8
    <3> QED
      BY <1>2, <1>4, <2>1, <3>1, WholePass
  <2>2. ASSUME NEW i \in DOMAIN ready, Dispatch(ready, i, st),
               ready' = Append(RemoveAt(ready, i), new)
        PROVE  PassResult(ready', st, suspended_queue, wait_tid, thread_list)
    <3> DEFINE q == RemoveAt(ready, i)
    <3>1. /\ PassResult(q, st, suspended_queue, wait_tid, thread_list)
          /\ status' = [st EXCEPT ![current_active'] = "SCHEDULED"]
          /\ current_active' \in Ids(ready) \cap Tid
          /\ Ids(q) = Ids(ready) \ {current_active'}
      BY <1>2, <1>4, <1>7, <2>2, DispatchPass, SchedulerPass
    <3> HIDE DEF q
    <3>2. status'[t] = "YIELD" /\ t \notin Ids(q)
      BY <1>3, <1>4, <3>1
    <3>3. q \in Seq(Entry) /\ Queued(q, suspended_queue, status', wait_tid, thread_list)
      BY <3>1 DEF PassResult
    <3>4. /\ Append(q, new) \in Seq(Entry)
          /\ Queued(Append(q, new), suspended_queue, status', wait_tid, thread_list)
      BY <1>5, <1>8, <3>2, <3>3
    <3>5. ready' = Append(q, new)
      BY <2>2 DEF q
    <3> QED
      BY <3>1, <3>4, <3>5 DEF PassResult
  <2>3. CASE BackToMain(st) /\ ready' = ready
    BY <1>2, <1>4, <1>7, <2>3, MainPass
  <2> QED
    BY <1>6, <2>1, <2>2, <2>3
<1>10. PassResult(ready', st, suspended_queue', wait_tid', thread_list)
  BY <1>1, <1>9
<1>11. /\ suspended_queue' \in [Tid -> Seq(Tid)]
       /\ wait_tid' \in [Tid -> Tid \cup {NOT_FOUND}]
       /\ \A x \in Tid \ {t} : wait_tid'[x] = wait_tid[x]
       /\ UNCHANGED <<libVars, thread_count, thread_list, main_join>>
  BY <1>1, <1>2
<1>12. st[t] \notin {"NONE", "SCHEDULED"}
  BY <1>4
<1> QED
  BY <1>1, <1>4, <1>10, <1>11, <1>12, ThreadPass

-----------------------------------------------------------------------------
(* The theorems. *)

LEMMA StutterStep ==
  ASSUME IInv, UNCHANGED vars
  PROVE  IInv' /\ JoinStep
<1> USE DEF vars, libVars, estimateVars, IInv
<1>1. TypeOK'
  BY DEF TypeOK
<1>2. Queued(ready, suspended_queue, status, wait_tid, thread_list)'
  BY DEF Queued, Distinct, NoRepeat, Ids, ToSet
<1>3. Listed' /\ Current' /\ JoinStep
  BY DEF Listed, Current, JoinStep
<1> QED
  BY <1>1, <1>2, <1>3

LEMMA NextKeeps ==
  ASSUME IInv, [Next]_vars
  PROVE  IInv' /\ JoinStep
<1>1. ASSUME NEW policy \in Policies, LibInit(policy) PROVE IInv' /\ JoinStep
  BY <1>1, LibInitStep
<1>2. ASSUME NEW policy \in Policies, LibInitNoMemory(policy) PROVE IInv' /\ JoinStep
  BY <1>2, LibInitNoMemoryStep
<1>3. CASE LibTerminate
  BY <1>3, LibTerminateStep
<1>4. CASE ThreadCreate
  BY <1>4, ThreadCreateStep
<1>5. CASE ThreadCreateNoStack
  BY <1>5, ThreadCreateNoStackStep
<1>6. CASE MainYield
  <2>1. MainSwitches /\ main_join' \in Tid \cup {NULL}
    BY <1>6 DEF MainYield
  <2> QED
    BY <2>1, MainSwitchesStep
<1>7. ASSUME NEW u \in Tid, MainJoin(u) PROVE IInv' /\ JoinStep
  <2>1. MainSwitches /\ main_join' \in Tid \cup {NULL}
    BY <1>7 DEF MainJoin
  <2> QED
    BY <2>1, MainSwitchesStep
<1>8. ASSUME NEW t \in Tid, ThreadSwitches(t) PROVE IInv' /\ JoinStep
  BY <1>8, ThreadYieldStep, ThreadReturnStep, ThreadJoinStep DEF ThreadSwitches
<1>9. ASSUME NEW t \in Tid, ThreadLibTerminate(t) PROVE IInv' /\ JoinStep
  BY <1>9, LibTerminateStep
<1>10. CASE UNCHANGED vars
  BY <1>10, StutterStep
<1> QED
  BY <1>1, <1>2, <1>3, <1>4, <1>5, <1>6, <1>7, <1>8, <1>9, <1>10 DEF Next

LEMMA Invariance == Spec => []IInv
<1>1. Init => IInv
  BY InitEstablishes
<1>2. IInv /\ [Next]_vars => IInv'
  BY NextKeeps
<1> QED
  BY <1>1, <1>2, PTL DEF Spec

(* The variables keep the types the code gives them, for every number of
   threads, policy and misuse. *)
THEOREM TypeCorrect == Spec => []TypeOK
<1>1. IInv => TypeOK
  BY DEF IInv
<1> QED
  BY <1>1, Invariance, PTL

(* No thread is ever queued twice, or queued while it runs: whatever mixture of
   thread_create, thread_yield, thread_join and returns led there, self joins,
   join cycles and joins of finished threads included. *)
THEOREM NeverQueuedTwice == Spec => []QueuedOnce
<1>1. IInv => QueuedOnce
  <2> SUFFICES ASSUME IInv PROVE QueuedOnce
    OBVIOUS
  <2>1. \A i, j \in DOMAIN ready : ready[i].id = ready[j].id => i = j
    BY DEF IInv, Queued, Distinct
  <2>2. \A u \in Tid : \A i, j \in DOMAIN suspended_queue[u] :
          suspended_queue[u][i] = suspended_queue[u][j] => i = j
    BY DEF IInv, Queued, NoRepeat
  <2>3. \A u, v \in Tid : u # v => SuspendedOn(u) \cap SuspendedOn(v) = {}
    BY DEF IInv, Queued, SuspendedOn
  <2>4. \A t \in Tid : ~(InReady(t) /\ Suspended(t))
    BY DEF IInv, Queued, InReady, Suspended, SuspendedOn, Ids
  <2>5. ASSUME NEW t \in Tid, t = current_active
        PROVE  ~InReady(t) /\ ~Suspended(t)
    <3>1. t # NULL
      BY DEF Tid, NULL
    <3>2. CASE t \in thread_list /\ status[t] = "SCHEDULED"
      BY <3>2 DEF IInv, Queued, Waiting, InReady, Suspended, SuspendedOn, Ids
    <3>3. CASE thread_list = {}
      BY <3>3 DEF IInv, Queued, InReady, Suspended, SuspendedOn, Ids
    <3> QED
      BY <2>5, <3>1, <3>2, <3>3 DEF IInv, Current, Listed
  <2> QED
    BY <2>1, <2>2, <2>3, <2>4, <2>5 DEF QueuedOnce
<1> QED
  BY <1>1, Invariance, PTL

(* A thread comes back from thread_join only when the thread it joined has
   finished, for every number of threads and every pattern of joins. *)
THEOREM JoinsAreKept == Spec => JoinReturnsAfterFinish
<1>1. IInv /\ [Next]_vars => [JoinStep]_vars
  BY NextKeeps
<1>2. Spec => [][JoinStep]_vars
  BY <1>1, Invariance, PTL DEF Spec
<1> QED
  BY <1>2 DEF JoinReturnsAfterFinish, JoinStep

(* While the library is initialized current_active is NULL or a listed thread
   marked SCHEDULED. *)
THEOREM CurrentIsLive == Spec => []CurrentLive
<1>1. IInv => CurrentLive
  BY DEF IInv, Current, CurrentLive, TypeOK
<1> QED
  BY <1>1, Invariance, PTL
=============================================================================
