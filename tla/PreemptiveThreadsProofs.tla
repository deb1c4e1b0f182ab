----------------------- MODULE PreemptiveThreadsProofs -----------------------
(***************************************************************************)
(* Theorems of PreemptiveThreads, for every number of threads and wherever *)
(* the ticks come: no thread is queued twice, no thread_join returns early *)
(* to a thread and no call with EXIT_SUCCESS to main, and the library      *)
(* refines CooperativeThreads.                                             *)
(*                                                                         *)
(* A thread on its way to the scheduler already has the status of the      *)
(* thread that left.  Settled takes it for running until the pass of       *)
(* my_scheduler: over the settled statuses the ready queues and            *)
(* suspended_queue are sound between any two steps, a tick or a call up to *)
(* its swapcontext changes none of this, and a pass is one lemma for each  *)
(* way to leave the CPU and one for the way to get it.                     *)
(***************************************************************************)
EXTENDS PreemptiveThreads, WellFoundedInduction, TLAPS

-----------------------------------------------------------------------------
(* Sequences and numbers. *)

NoRepeat(s) == \A i, j \in DOMAIN s : s[i] = s[j] => i = j

LEMMA LeastOf ==
  ASSUME NEW T, T \subseteq Nat, T # {}
  PROVE  \E n \in T : \A m \in T : ~(m < n)
<1> DEFINE R == {ss \in Nat \X Nat : ss[1] < ss[2]}
<1>1. IsWellFoundedOn(R, Nat)
  BY NatLessThanWellFounded DEF OpToRel
<1> HIDE DEF R
<1>2. \E x \in T : \A y \in T : ~ (<<y, x>> \in R)
  BY <1>1, WFMin
<1> QED
  BY <1>2 DEF R

LEMMA AppendSet ==
  ASSUME NEW s \in Seq(Tid), NEW t \in Tid
  PROVE  /\ Append(s, t) \in Seq(Tid)
         /\ ToSet(Append(s, t)) = ToSet(s) \cup {t}
         /\ NoRepeat(s) /\ t \notin ToSet(s) => NoRepeat(Append(s, t))
<1> DEFINE r == Append(s, t)
<1>1. /\ r \in Seq(Tid) /\ Len(s) \in Nat
      /\ DOMAIN r = 1 .. Len(s) + 1 /\ DOMAIN s = 1 .. Len(s)
      /\ r[Len(s) + 1] = t /\ \A i \in 1 .. Len(s) : r[i] = s[i]
  OBVIOUS
<1> HIDE DEF r
<1>2. ToSet(r) \subseteq ToSet(s) \cup {t}
  BY <1>1 DEF ToSet
<1>3. ToSet(s) \subseteq ToSet(r)
  BY <1>1 DEF ToSet
<1>4. t \in ToSet(r)
  <2>1. Len(s) + 1 \in DOMAIN r
    BY <1>1
  <2> QED
    BY <1>1, <2>1 DEF ToSet
<1>5. ASSUME NoRepeat(s), t \notin ToSet(s) PROVE NoRepeat(r)
  <2>1. \A i \in 1 .. Len(s) : s[i] # t
    BY <1>1, <1>5 DEF ToSet
  <2> QED
    BY <1>1, <1>5, <2>1 DEF NoRepeat
<1> QED
  BY <1>1, <1>2, <1>3, <1>4, <1>5 DEF r

LEMMA TailSet ==
  ASSUME NEW s \in Seq(Tid), s # <<>>
  PROVE  /\ Head(s) \in Tid /\ Head(s) \in ToSet(s)
         /\ Tail(s) \in Seq(Tid)
         /\ NoRepeat(s) => NoRepeat(Tail(s)) /\ ToSet(Tail(s)) = ToSet(s) \ {Head(s)}
<1> DEFINE r == Tail(s)
<1>1. /\ r \in Seq(Tid) /\ Len(s) \in Nat /\ Len(s) > 0 /\ Head(s) = s[1]
      /\ DOMAIN s = 1 .. Len(s) /\ DOMAIN r = 1 .. Len(s) - 1
      /\ \A i \in 1 .. Len(s) - 1 : r[i] = s[i + 1]
  OBVIOUS
<1>2. Head(s) \in Tid /\ Head(s) \in ToSet(s)
  BY <1>1 DEF ToSet
<1> HIDE DEF r
<1>3. ASSUME NoRepeat(s) PROVE NoRepeat(r)
  <2> SUFFICES ASSUME NEW i \in DOMAIN r, NEW j \in DOMAIN r, r[i] = r[j] PROVE i = j
    BY DEF NoRepeat
  <2>1. i + 1 \in DOMAIN s /\ j + 1 \in DOMAIN s /\ s[i + 1] = s[j + 1]
    BY <1>1
  <2>2. i + 1 = j + 1
    BY <1>3, <2>1 DEF NoRepeat
  <2> QED
    BY <1>1, <2>2
<1>4. ASSUME NoRepeat(s), NEW x \in ToSet(r) PROVE x \in ToSet(s) \ {Head(s)}
  <2>1. PICK i \in 1 .. Len(s) - 1 : x = r[i]
    BY <1>1, <1>4 DEF ToSet
  <2>2. i + 1 \in DOMAIN s /\ 1 \in DOMAIN s /\ i + 1 # 1 /\ x = s[i + 1]
    BY <1>1, <2>1
  <2>3. s[i + 1] # s[1]
    BY <1>4, <2>2 DEF NoRepeat
  <2> QED
    BY <1>1, <2>2, <2>3 DEF ToSet
<1>5. ASSUME NEW x \in ToSet(s) \ {Head(s)} PROVE x \in ToSet(r)
  <2>1. PICK i \in 1 .. Len(s) : x = s[i]
    BY <1>1, <1>5 DEF ToSet
  <2>2. i # 1
    BY <1>1, <1>5, <2>1
  <2>3. i - 1 \in DOMAIN r /\ r[i - 1] = s[(i - 1) + 1]
    BY <1>1, <2>1, <2>2
  <2> QED
    BY <1>1, <2>1, <2>3 DEF ToSet
<1> QED
  BY <1>1, <1>2, <1>3, <1>4, <1>5 DEF r

-----------------------------------------------------------------------------
(* The ready queues. *)

Queues == [Priority -> Seq(Tid)]
Within(q, t) == \E p \in Priority : t \in ToSet(q[p])
Orderly(q) ==
  \A p \in Priority : NoRepeat(q[p]) /\ \A t \in ToSet(q[p]) : priority[t] = p

LEMMA AskedQueue ==
  ASSUME NEW q, NEW lucky \in Lucky
  PROVE  /\ \A p \in Asked(q, lucky) : p \in Priority /\ q[p] # <<>>
         /\ Asked(q, lucky) = {} => \A p \in Priority : q[p] = <<>>
<1>1. PICK L : L = Lottery(lucky)
  OBVIOUS
<1>2. L \in {<<1, -1, 0>>, <<0, -1, 1>>, <<-1, 0, 1>>}
  BY <1>1 DEF Lottery, Lucky
<1>3. /\ {L[i] : i \in 1 .. 3} = Priority
      /\ \A k \in 1 .. 3 : L[k] \in Priority
  BY <1>2 DEF Priority
<1> DEFINE found == {k \in 1 .. 3 : q[L[k]] # <<>> /\ \A j \in 1 .. k - 1 : q[L[j]] = <<>>}
<1>4. Asked(q, lucky) = {L[i] : i \in found}
  BY <1>1 DEF Asked
<1>5. found = {} => \A k \in 1 .. 3 : q[L[k]] = <<>>
  <2> SUFFICES ASSUME found = {} PROVE \A k \in 1 .. 3 : q[L[k]] = <<>>
    OBVIOUS
  <2>1. q[L[1]] = <<>>
    <3>1. 1 \notin found /\ 1 .. 1 - 1 = {}
      OBVIOUS
    <3> QED
      BY <3>1
  <2>2. q[L[2]] = <<>>
    <3>1. 2 \notin found /\ \A j \in 1 .. 2 - 1 : j = 1
      OBVIOUS
    <3> QED
      BY <2>1, <3>1
  <2>3. q[L[3]] = <<>>
    <3>1. 3 \notin found /\ \A j \in 1 .. 3 - 1 : j \in {1, 2}
      OBVIOUS
    <3> QED
      BY <2>1, <2>2, <3>1
  <2>4. \A k \in 1 .. 3 : k \in {1, 2, 3}
    OBVIOUS
  <2> QED
    BY <2>1, <2>2, <2>3, <2>4
<1>6. \A p \in Asked(q, lucky) : p \in Priority /\ q[p] # <<>>
  BY <1>3, <1>4
<1>7. Asked(q, lucky) = {} => found = {}
  BY <1>4
<1> HIDE DEF found
<1>8. ASSUME Asked(q, lucky) = {}, NEW p \in Priority PROVE q[p] = <<>>
  <2>1. PICK i \in 1 .. 3 : p = L[i]
    BY <1>3
  <2> QED
    BY <1>5, <1>7, <1>8, <2>1
<1> QED
  BY <1>6, <1>8

LEMMA EnqueueOne ==
  ASSUME TypeOK, NEW q \in Queues, NEW t \in Tid
  PROVE  /\ Enqueue(q, t) \in Queues
         /\ \A p \in Priority :
              ToSet(Enqueue(q, t)[p]) = ToSet(q[p]) \cup {x \in {t} : priority[x] = p}
         /\ Orderly(q) /\ ~Within(q, t) => Orderly(Enqueue(q, t))
<1> DEFINE r == Enqueue(q, t)
<1>1. priority[t] \in Priority
  BY DEF TypeOK
<1>2. /\ r[priority[t]] = Append(q[priority[t]], t)
      /\ \A p \in Priority \ {priority[t]} : r[p] = q[p]
      /\ \A p \in Priority : q[p] \in Seq(Tid)
  BY <1>1 DEF Enqueue, Queues
<1>3. r \in Queues
  BY <1>1, AppendSet DEF Enqueue, Queues
<1> HIDE DEF r
<1>4. ASSUME NEW p \in Priority
      PROVE  ToSet(r[p]) = ToSet(q[p]) \cup {x \in {t} : priority[x] = p}
  <2>1. CASE p = priority[t]
    <3>1. ToSet(r[p]) = ToSet(q[p]) \cup {t}
      BY <1>2, <2>1, AppendSet
    <3> QED
      BY <2>1, <3>1
  <2>2. CASE p # priority[t]
    BY <1>2, <2>2
  <2> QED
    BY <2>1, <2>2
<1>5. ASSUME Orderly(q), ~Within(q, t), NEW p \in Priority
      PROVE  NoRepeat(r[p]) /\ \A x \in ToSet(r[p]) : priority[x] = p
  <2>1. NoRepeat(r[p])
    <3>1. CASE p = priority[t]
      <4>1. t \notin ToSet(q[p]) /\ NoRepeat(q[p]) /\ q[p] \in Seq(Tid)
        BY <1>2, <1>5 DEF Within, Orderly
      <4> QED
        BY <1>2, <3>1, <4>1, AppendSet
    <3>2. CASE p # priority[t]
      BY <1>2, <1>5, <3>2 DEF Orderly
    <3> QED
      BY <3>1, <3>2
  <2> QED
    BY <1>4, <1>5, <2>1 DEF Orderly
<1> QED
  BY <1>3, <1>4, <1>5 DEF r, Orderly

(* The queues that EnqueueAll names, after each push, exist. *)
LEMMA PushedQueues ==
  ASSUME TypeOK, NEW q \in Queues, NEW s \in Seq(Tid)
  PROVE  \E f \in [0 .. Len(s) -> Queues] :
           f = [k \in 0 .. Len(s) |-> IF k = 0 THEN q ELSE Enqueue(f[k - 1], s[k])]
<1> DEFINE Pushes(n, f) == f = [k \in 0 .. n |-> IF k = 0 THEN q ELSE Enqueue(f[k - 1], s[k])]
           T == {n \in 0 .. Len(s) : ~ \E f \in [0 .. n -> Queues] : Pushes(n, f)}
<1>1. Len(s) \in Nat /\ \A k \in 1 .. Len(s) : s[k] \in Tid
  OBVIOUS
<1>2. SUFFICES ASSUME T # {} PROVE FALSE
  BY <1>1
<1>3. PICK n \in T : \A m \in T : ~(m < n)
  <2>1. T \subseteq Nat
    BY <1>1
  <2> HIDE DEF T
  <2> QED
    BY <1>2, <2>1, LeastOf
<1>4. n \in 0 .. Len(s) /\ ~ \E f \in [0 .. n -> Queues] : Pushes(n, f)
  BY <1>3
<1>5. CASE n = 0
  <2> DEFINE f == [k \in 0 .. n |-> q]
  <2>1. f \in [0 .. n -> Queues] /\ Pushes(n, f)
    BY <1>5
  <2> QED
    BY <1>4, <2>1
<1>6. CASE n # 0
  <2>1. n - 1 \in 0 .. Len(s) /\ n - 1 < n /\ n \in 1 .. Len(s)
    BY <1>1, <1>4, <1>6
  <2>2. n - 1 \notin T
    <3> HIDE DEF T
    <3> QED
      BY <1>3, <2>1
  <2>3. PICK f \in [0 .. n - 1 -> Queues] : Pushes(n - 1, f)
    BY <2>1, <2>2
  <2>4. PICK last \in Queues : last = Enqueue(f[n - 1], s[n])
    <3>1. f[n - 1] \in Queues /\ s[n] \in Tid
      BY <1>1, <2>1
    <3> QED
      BY <3>1, EnqueueOne
  <2> DEFINE g == [k \in 0 .. n |-> IF k < n THEN f[k] ELSE last]
  <2>5. g \in [0 .. n -> Queues]
    BY <1>1, <2>1
  <2>6. ASSUME NEW k \in 0 .. n PROVE g[k] = IF k = 0 THEN q ELSE Enqueue(g[k - 1], s[k])
    <3>1. CASE k = n
      BY <1>1, <1>6, <2>1, <2>4, <3>1
    <3>2. CASE k # n
      <4>1. k \in 0 .. n - 1 /\ k < n /\ (k # 0 => k - 1 \in 0 .. n /\ k - 1 < n)
        BY <1>1, <2>1, <3>2
      <4>2. f[k] = IF k = 0 THEN q ELSE Enqueue(f[k - 1], s[k])
        BY <2>3, <4>1
      <4> QED
        BY <4>1, <4>2
    <3> QED
      BY <3>1, <3>2
  <2>7. Pushes(n, g)
    BY <2>6
  <2> QED
    BY <1>4, <2>5, <2>7
<1> QED
  BY <1>5, <1>6

(* Waiters pushed on queues they are not in keep these in order. *)
LEMMA EnqueueMany ==
  ASSUME TypeOK, NEW q \in Queues, NEW s \in Seq(Tid),
         Orderly(q), NoRepeat(s), \A t \in ToSet(s) : ~Within(q, t)
  PROVE  /\ EnqueueAll(q, s) \in Queues
         /\ Orderly(EnqueueAll(q, s))
         /\ \A p \in Priority :
              ToSet(EnqueueAll(q, s)[p]) = ToSet(q[p]) \cup {t \in ToSet(s) : priority[t] = p}
<1> DEFINE D == 0 .. Len(s)
           f == CHOOSE g : g = [k \in D |-> IF k = 0 THEN q ELSE Enqueue(g[k - 1], s[k])]
           First(k) == {s[j] : j \in 1 .. k}
           Good(k) ==
             /\ f[k] \in Queues
             /\ Orderly(f[k])
             /\ \A p \in Priority : ToSet(f[k][p]) = ToSet(q[p]) \cup {t \in First(k) : priority[t] = p}
<1>1. Len(s) \in Nat /\ \A k \in 1 .. Len(s) : s[k] \in Tid
  OBVIOUS
<1>2. f = [k \in D |-> IF k = 0 THEN q ELSE Enqueue(f[k - 1], s[k])]
  <2>1. \E g : g = [k \in D |-> IF k = 0 THEN q ELSE Enqueue(g[k - 1], s[k])]
    BY PushedQueues
  <2> QED
    BY <2>1
<1>3. EnqueueAll(q, s) = f[Len(s)]
  BY DEF EnqueueAll
<1> HIDE DEF f
<1>4. f[0] = q /\ \A k \in 1 .. Len(s) : f[k] = Enqueue(f[k - 1], s[k])
  BY <1>1, <1>2
<1>5. Good(0)
  BY <1>4
<1>6. ASSUME NEW k \in 1 .. Len(s), Good(k - 1) PROVE Good(k)
  <2>1. First(k) = First(k - 1) \cup {s[k]}
    BY <1>1
  <2>2. s[k] \notin First(k - 1)
    <3>1. \A j \in 1 .. k - 1 : j \in DOMAIN s /\ j # k /\ k \in DOMAIN s
      BY <1>1
    <3> QED
      BY <3>1 DEF NoRepeat
  <2>3. ~Within(f[k - 1], s[k])
    <3>1. s[k] \in ToSet(s)
      BY <1>1 DEF ToSet
    <3> QED
      BY <1>6, <2>2, <3>1 DEF Within
  <2> DEFINE r == Enqueue(f[k - 1], s[k])
  <2>4. /\ r \in Queues
        /\ Orderly(r)
        /\ \A p \in Priority :
             ToSet(r[p]) = ToSet(f[k - 1][p]) \cup {x \in {s[k]} : priority[x] = p}
    BY <1>1, <1>6, <2>3, EnqueueOne
  <2>5. f[k] = r
    BY <1>4
  <2> HIDE DEF r
  <2> QED
    BY <1>6, <2>1, <2>4, <2>5
<1> DEFINE T == {k \in D : ~Good(k)}
<1>7. T = {}
  <2> SUFFICES ASSUME T # {} PROVE FALSE
    OBVIOUS
  <2>1. PICK k \in T : \A m \in T : ~(m < k)
    <3>1. T \subseteq Nat
      BY <1>1
    <3> HIDE DEF T
    <3> QED
      BY <3>1, LeastOf
  <2>2. k \in D /\ ~Good(k)
    BY <2>1
  <2>3. k # 0
    BY <1>5, <2>2
  <2>4. k - 1 \in D /\ k - 1 < k /\ k \in 1 .. Len(s)
    BY <1>1, <2>2, <2>3
  <2>5. k - 1 \notin T
    <3> HIDE DEF T
    <3> QED
      BY <2>1, <2>4
  <2> HIDE DEF Good
  <2> QED
    BY <1>6, <2>2, <2>4, <2>5
<1>8. Good(Len(s))
  BY <1>1, <1>7
<1>9. First(Len(s)) = ToSet(s)
  BY <1>1 DEF ToSet
<1> QED
  BY <1>3, <1>8, <1>9

-----------------------------------------------------------------------------
(* Queues that are sound, and the inductive invariant. *)

Waiting == {"CREATED", "YIELD", "STOPPED"}
Over == {"NONE", "FINISHED"}

(* Who is in a ready queue waits to run and, after a thread_join, for a thread that
   has finished; who is suspended waits for the owner of the queue, and nowhere
   else. *)
Queued(q, sus, st, wt) ==
  /\ \A t \in Tid : Within(q, t) =>
       /\ st[t] \in Waiting
       /\ st[t] = "STOPPED" => wt[t] \in Tid /\ st[wt[t]] = "FINISHED"
  /\ \A u \in Tid : NoRepeat(sus[u])
  /\ \A t, u \in Tid : t \in ToSet(sus[u]) => st[t] = "STOPPED" /\ wt[t] = u /\ ~Within(q, t)

(* No thread is lost. *)
Kept(q, sus, st) ==
  \A t \in Tid :
    \/ st[t] \in Over \cup {"SCHEDULED"}
    \/ Within(q, t)
    \/ \E u \in Tid : st[u] \notin Over /\ t \in ToSet(sus[u])

(* In every set of threads one is suspended on none of them. *)
NoCycle(sus) ==
  \A S \in SUBSET Tid : S # {} => \E x \in S : \A y \in S : x \notin ToSet(sus[y])

Sound(q, sus, st, wt) == Queued(q, sus, st, wt) /\ Kept(q, sus, st) /\ NoCycle(sus)

(* The statuses, with the thread that has the CPU still taken for running. *)
Settled == [t \in Tid |-> IF t = current_active THEN "SCHEDULED" ELSE status[t]]

Rest == Orderly(ready) /\ Sound(ready, suspended_queue, Settled, wait_tid)

Counted ==
  /\ \A t \in Tid : status[t] = "NONE" <=> t > thread_count
  /\ \A t \in Tid : status[t] = "SCHEDULED" => t = current_active
  /\ current_active # NULL => status[current_active] # "NONE"

Places == \A t \in Tid : place[t] = "join" <=> status[t] = "STOPPED"

(* A join that has not reached the scheduler yet is still one the README supports. *)
PendingJoin ==
  \A t \in Tid : t = current_active /\ place[t] = "join" =>
    /\ wait_tid[t] \in Tid
    /\ Settled[wait_tid[t]] \notin Over
    /\ ~WaitsFor(wait_tid[t], t)

(* Main is told EXIT_SUCCESS when no thread is left, and no thread is created since. *)
MainTold ==
  current_active = NULL /\ main_result = EXIT_SUCCESS => \A t \in Tid : status[t] \in Over

IInv == TypeOK /\ Rest /\ Counted /\ Places /\ PendingJoin /\ MainTold

-----------------------------------------------------------------------------
(* The way to the CPU: a pass of my_scheduler. *)

(* If no thread is ready and none runs, none is left. *)
LEMMA NoneReady ==
  ASSUME NEW q, NEW sus, NEW st, NEW wt, Sound(q, sus, st, wt),
         \A t \in Tid : ~Within(q, t) /\ st[t] # "SCHEDULED"
  PROVE  \A t \in Tid : st[t] \in Over
<1> DEFINE U == {t \in Tid : st[t] \notin Over}
<1> SUFFICES ASSUME U # {} PROVE FALSE
  OBVIOUS
<1>1. PICK x \in U : \A y \in U : x \notin ToSet(sus[y])
  BY DEF Sound, NoCycle
<1>2. \E u \in Tid : st[u] \notin Over /\ x \in ToSet(sus[u])
  BY DEF Sound, Kept
<1> QED
  BY <1>1, <1>2

(* The queues and the statuses after a dispatch. *)
Popped(q, p) == [q EXCEPT ![p] = Tail(@)]
Dispatched(st, n) == [st EXCEPT ![n] = "SCHEDULED"]

(* The head of a queue gets the CPU. *)
LEMMA HeadRuns ==
  ASSUME TypeOK, NEW q \in Queues, NEW sus, NEW st \in [Tid -> Status], NEW wt,
         Orderly(q), Sound(q, sus, st, wt),
         NEW p \in Priority, q[p] # <<>>
  PROVE  /\ Head(q[p]) \in Tid /\ Within(q, Head(q[p]))
         /\ Dispatched(st, Head(q[p])) \in [Tid -> Status]
         /\ Popped(q, p) \in Queues /\ Orderly(Popped(q, p))
         /\ \A t \in Tid : Within(Popped(q, p), t) <=> Within(q, t) /\ t # Head(q[p])
         /\ Sound(Popped(q, p), sus, Dispatched(st, Head(q[p])), wt)
<1> DEFINE n == Head(q[p])
           r == Popped(q, p)
           st2 == Dispatched(st, n)
<1>r. r = [q EXCEPT ![p] = Tail(@)]
  BY DEF Popped
<1>s. st2 = [st EXCEPT ![n] = "SCHEDULED"]
  BY DEF Dispatched
<1> HIDE DEF r, st2
<1>1. q[p] \in Seq(Tid) /\ NoRepeat(q[p])
  BY DEF Queues, Orderly
<1>2. /\ n \in Tid /\ n \in ToSet(q[p])
      /\ Tail(q[p]) \in Seq(Tid) /\ NoRepeat(Tail(q[p]))
      /\ ToSet(Tail(q[p])) = ToSet(q[p]) \ {n}
  BY <1>1, TailSet
<1> HIDE DEF n
<1>3. Within(q, n) /\ st2 \in [Tid -> Status]
  BY <1>2, <1>s DEF Within, Status
<1>4. /\ r \in Queues
      /\ r[p] = Tail(q[p]) /\ \A x \in Priority \ {p} : r[x] = q[x]
  BY <1>2, <1>r DEF Queues
<1>5. Orderly(r)
  <2> SUFFICES ASSUME NEW x \in Priority
               PROVE  NoRepeat(r[x]) /\ \A t \in ToSet(r[x]) : priority[t] = x
    BY DEF Orderly
  <2>1. CASE x = p
    BY <1>2, <1>4, <2>1 DEF Orderly
  <2>2. CASE x # p
    BY <1>4, <2>2 DEF Orderly
  <2> QED
    BY <2>1, <2>2
<1>6. ASSUME NEW t \in Tid PROVE Within(r, t) <=> Within(q, t) /\ t # n
  <2>1. \A x \in Priority \ {p} : n \notin ToSet(q[x])
    BY <1>2 DEF Orderly
  <2>2. ASSUME NEW x \in Priority PROVE t \in ToSet(r[x]) <=> t \in ToSet(q[x]) /\ t # n
    <3>1. CASE x = p
      BY <1>2, <1>4, <3>1
    <3>2. CASE x # p
      BY <1>4, <2>1, <3>2
    <3> QED
      BY <3>1, <3>2
  <2> QED
    BY <2>2 DEF Within
<1>7. st[n] \in Waiting
  BY <1>2, <1>3 DEF Sound, Queued
<1>8. st2[n] = "SCHEDULED" /\ \A t \in Tid \ {n} : st2[t] = st[t]
  BY <1>2, <1>s
<1>9. Queued(r, sus, st2, wt)
  <2>1. ASSUME NEW t \in Tid, Within(r, t)
        PROVE  /\ st2[t] \in Waiting
               /\ st2[t] = "STOPPED" => wt[t] \in Tid /\ st2[wt[t]] = "FINISHED"
    <3>1. t # n /\ Within(q, t) /\ st2[t] = st[t]
      BY <1>6, <1>8, <2>1
    <3>2. /\ st[t] \in Waiting
          /\ st[t] = "STOPPED" => wt[t] \in Tid /\ st[wt[t]] = "FINISHED"
      BY <3>1 DEF Sound, Queued
    <3> QED
      BY <1>7, <1>8, <3>1, <3>2 DEF Waiting
  <2>2. ASSUME NEW t \in Tid, NEW u \in Tid, t \in ToSet(sus[u])
        PROVE  st2[t] = "STOPPED" /\ wt[t] = u /\ ~Within(r, t)
    <3>1. st[t] = "STOPPED" /\ wt[t] = u /\ ~Within(q, t)
      BY <2>2 DEF Sound, Queued
    <3> QED
      BY <1>3, <1>6, <1>8, <3>1
  <2> QED
    BY <2>1, <2>2 DEF Sound, Queued
<1>10. Kept(r, sus, st2)
  <2> SUFFICES ASSUME NEW t \in Tid, t # n
               PROVE  \/ st2[t] \in Over \cup {"SCHEDULED"}
                      \/ Within(r, t)
                      \/ \E u \in Tid : st2[u] \notin Over /\ t \in ToSet(sus[u])
    BY <1>8 DEF Kept
  <2>1. ASSUME NEW u \in Tid, st[u] \notin Over PROVE st2[u] \notin Over
    BY <1>8, <2>1 DEF Over
  <2> QED
    BY <1>6, <1>8, <2>1 DEF Sound, Kept
<1> QED
  BY <1>2, <1>3, <1>4, <1>5, <1>6, <1>9, <1>10 DEF Sound, n, r, st2

(* What a pass over queues q leaves, from statuses st with no thread running. *)
PassResult(q, st, pl, sus, wt) ==
  /\ ready' \in Queues /\ Orderly(ready')
  /\ status' \in [Tid -> Status] /\ place' \in [Tid -> Place]
  /\ current_active' \in Tid \cup {NULL}
  /\ Sound(ready', sus, status', wt)
  /\ \A t \in Tid : status'[t] = "SCHEDULED" <=> t = current_active'
  /\ \A t \in Tid : t # current_active' => status'[t] = st[t] /\ place'[t] = pl[t]
  /\ current_active' \in Tid =>
       /\ Within(q, current_active') /\ st[current_active'] \in Waiting
       /\ st[current_active'] = "STOPPED" =>
            /\ wt[current_active'] \in Tid \ {current_active'}
            /\ status'[wt[current_active']] = "FINISHED"
       /\ place'[current_active'] =
            IF pl[current_active'] \in {"yield", "join", "handler"}
            THEN "own" ELSE pl[current_active']
  /\ current_active' = NULL => ready' = q /\ \A t \in Tid : st[t] \in Over
  /\ \A t \in Tid : Within(ready', t) <=> Within(q, t) /\ t # current_active'
  /\ outcome' = outcome \/ (outcome' = "undefined" /\ \E t \in Tid : pl[t] = "lost")
  /\ leaving' \in BOOLEAN

LEMMA WholePass ==
  ASSUME TypeOK, NEW q \in Queues, NEW st \in [Tid -> Status], NEW pl \in [Tid -> Place],
         NEW lucky \in Lucky, NEW sus, NEW wt,
         Orderly(q), Sound(q, sus, st, wt),
         \A t \in Tid : st[t] # "SCHEDULED",
         ScheduleFrom(q, st, pl, lucky)
  PROVE  PassResult(q, st, pl, sus, wt)
<1>1. ASSUME NEW p \in Asked(q, lucky),
             Dispatch(Head(q[p]), st, pl), ready' = [q EXCEPT ![p] = Tail(@)]
      PROVE  PassResult(q, st, pl, sus, wt)
  <2> DEFINE n == Head(q[p])
  <2>1. p \in Priority /\ q[p] # <<>>
    BY AskedQueue
  <2>2. /\ current_active' = n /\ status' = [st EXCEPT ![n] = "SCHEDULED"]
        /\ place' = [pl EXCEPT ![n] = IF @ \in {"yield", "join", "handler"} THEN "own" ELSE @]
        /\ leaving' = TRUE
        /\ outcome' = IF pl[n] = "lost" THEN "undefined" ELSE outcome
    BY <1>1 DEF Dispatch
  <2>n. n = Head(q[p])
    OBVIOUS
  <2> HIDE DEF n
  <2>3. /\ n \in Tid /\ Within(q, n)
        /\ status' \in [Tid -> Status]
        /\ ready' \in Queues /\ Orderly(ready')
        /\ \A t \in Tid : Within(ready', t) <=> Within(q, t) /\ t # n
        /\ Sound(ready', sus, status', wt)
    <3>1. ready' = Popped(q, p) /\ status' = Dispatched(st, n)
      BY <1>1, <2>2 DEF Popped, Dispatched
    <3> QED
      BY <2>n, <2>1, <3>1, HeadRuns
  <2>4. place' \in [Tid -> Place]
    BY <2>2 DEF Place
  <2>5. /\ status'[n] = "SCHEDULED"
        /\ place'[n] = IF pl[n] \in {"yield", "join", "handler"} THEN "own" ELSE pl[n]
        /\ \A t \in Tid \ {n} : status'[t] = st[t] /\ place'[t] = pl[t]
    BY <2>2, <2>3
  <2>6. /\ st[n] \in Waiting
        /\ st[n] = "STOPPED" => wt[n] \in Tid \ {n} /\ status'[wt[n]] = "FINISHED"
    <3>1. /\ st[n] \in Waiting
          /\ st[n] = "STOPPED" => wt[n] \in Tid /\ st[wt[n]] = "FINISHED"
      BY <2>3 DEF Sound, Queued
    <3> QED
      BY <2>3, <2>5, <3>1
  <2>7. outcome' = outcome \/ (outcome' = "undefined" /\ \E t \in Tid : pl[t] = "lost")
    BY <2>2, <2>3
  <2>8. n # NULL /\ leaving' \in BOOLEAN
    BY <2>2, <2>3 DEF Tid, NULL
  <2> QED
    BY <2>2, <2>3, <2>4, <2>5, <2>6, <2>7, <2>8 DEF PassResult
<1>2. CASE Asked(q, lucky) = {} /\ BackToMain(st, pl) /\ ready' = q
  <2>1. /\ current_active' = NULL /\ status' = st /\ place' = pl
        /\ leaving' = FALSE /\ outcome' = outcome /\ ready' = q
    BY <1>2 DEF BackToMain
  <2>2. \A t \in Tid : ~Within(q, t)
    <3>1. \A p \in Priority : q[p] = <<>>
      BY <1>2, AskedQueue
    <3>2. ToSet(<<>>) = {}
      BY DEF ToSet
    <3> QED
      BY <3>1, <3>2 DEF Within
  <2>3. \A t \in Tid : st[t] \in Over
    BY <2>2, NoneReady
  <2>4. \A t \in Tid : t # current_active'
    BY <2>1 DEF Tid, NULL
  <2>5. leaving' \in BOOLEAN
    BY <2>1
  <2> QED
    BY <2>1, <2>2, <2>3, <2>4, <2>5 DEF PassResult
<1> QED
  BY <1>1, <1>2 DEF ScheduleFrom

-----------------------------------------------------------------------------
(* The ways to leave the CPU. *)

LEMMA SettledStatus ==
  ASSUME TypeOK
  PROVE  /\ Settled \in [Tid -> Status]
         /\ \A t \in Tid : Settled[t] = IF t = current_active THEN "SCHEDULED" ELSE status[t]
BY DEF Settled, TypeOK, Status

(* The statuses with which thread t goes to the scheduler. *)
Leaves(t, st) ==
  /\ t \in Tid /\ t = current_active
  /\ st \in [Tid -> Status]
  /\ st[t] \in {"YIELD", "STOPPED", "FINISHED"}
  /\ \A x \in Tid \ {t} : st[x] = status[x]

LEMMA LeavingStatus ==
  ASSUME TypeOK, Counted, NEW t, NEW st, Leaves(t, st)
  PROVE  /\ \A x \in Tid : st[x] # "SCHEDULED"
         /\ \A x \in Tid \ {t} : Settled[x] = st[x]
         /\ Settled[t] = "SCHEDULED"
         /\ \A x \in Tid : st[x] = "NONE" <=> status[x] = "NONE"
<1>1. \A x \in Tid \ {t} : status[x] # "SCHEDULED"
  BY DEF Counted, Leaves
<1>2. status[t] # "NONE"
  BY DEF Counted, Leaves, Tid, NULL
<1> QED
  BY <1>1, <1>2, SettledStatus DEF Leaves

(* The thread with the CPU is in no queue. *)
LEMMA RunningUnqueued ==
  ASSUME TypeOK, Rest, NEW t \in Tid, t = current_active
  PROVE  ~Within(ready, t) /\ \A u \in Tid : t \notin ToSet(suspended_queue[u])
<1>1. Settled[t] = "SCHEDULED"
  BY SettledStatus
<1> QED
  BY <1>1 DEF Rest, Sound, Queued, Waiting

LEMMA QueueTypes ==
  ASSUME TypeOK
  PROVE  /\ ready \in Queues
         /\ suspended_queue \in [Tid -> Seq(Tid)]
         /\ \A t, u \in Tid : t \in ToSet(suspended_queue[u]) => t \in Tid
BY DEF TypeOK, Queues

LEMMA YieldSound ==
  ASSUME TypeOK, Rest, Counted, NEW t, NEW st, Leaves(t, st), st[t] = "YIELD"
  PROVE  /\ Enqueue(ready, t) \in Queues /\ Orderly(Enqueue(ready, t))
         /\ \A x \in Tid : Within(Enqueue(ready, t), x) <=> Within(ready, x) \/ x = t
         /\ Sound(Enqueue(ready, t), suspended_queue, st, wait_tid)
<1> DEFINE q == Enqueue(ready, t)
           sus == suspended_queue
<1>1. t \in Tid /\ ready \in Queues /\ Orderly(ready) /\ ~Within(ready, t)
  BY RunningUnqueued, QueueTypes DEF Leaves, Rest
<1>2. /\ q \in Queues /\ Orderly(q)
      /\ \A p \in Priority : ToSet(q[p]) = ToSet(ready[p]) \cup {x \in {t} : priority[x] = p}
  BY <1>1, EnqueueOne
<1> HIDE DEF q
<1>3. \A x \in Tid : Within(q, x) <=> Within(ready, x) \/ x = t
  BY <1>1, <1>2 DEF Within, TypeOK
<1>4. \A x \in Tid \ {t} : Settled[x] = st[x]
  BY LeavingStatus
<1>5. Settled[t] = "SCHEDULED"
  BY LeavingStatus
<1>6. Queued(q, sus, st, wait_tid)
  <2>1. ASSUME NEW x \in Tid, Within(q, x)
        PROVE  /\ st[x] \in Waiting
               /\ st[x] = "STOPPED" => wait_tid[x] \in Tid /\ st[wait_tid[x]] = "FINISHED"
    <3>1. CASE x = t
      BY <3>1 DEF Waiting
    <3>2. CASE x # t
      <4>1. /\ Settled[x] \in Waiting
            /\ Settled[x] = "STOPPED" =>
                 wait_tid[x] \in Tid /\ Settled[wait_tid[x]] = "FINISHED"
        BY <1>3, <2>1, <3>2 DEF Rest, Sound, Queued
      <4> QED
        BY <1>4, <1>5, <3>2, <4>1
    <3> QED
      BY <3>1, <3>2
  <2>2. ASSUME NEW x \in Tid, NEW u \in Tid, x \in ToSet(sus[u])
        PROVE  st[x] = "STOPPED" /\ wait_tid[x] = u /\ ~Within(q, x)
    <3>1. Settled[x] = "STOPPED" /\ wait_tid[x] = u /\ ~Within(ready, x)
      BY <2>2 DEF Rest, Sound, Queued
    <3> QED
      BY <1>3, <1>4, <1>5, <3>1
  <2> QED
    BY <2>1, <2>2 DEF Rest, Sound, Queued
<1>7. Kept(q, sus, st)
  <2> SUFFICES ASSUME NEW x \in Tid, x # t
               PROVE  \/ st[x] \in Over \cup {"SCHEDULED"}
                      \/ Within(q, x)
                      \/ \E u \in Tid : st[u] \notin Over /\ x \in ToSet(sus[u])
    BY <1>1, <1>3 DEF Kept
  <2>1. \A u \in Tid : Settled[u] \notin Over => st[u] \notin Over
    BY <1>4 DEF Over
  <2> QED
    BY <1>3, <1>4, <2>1 DEF Rest, Sound, Kept
<1> QED
  BY <1>2, <1>3, <1>6, <1>7 DEF Rest, Sound, q

(* Fewer suspended threads make no cycle. *)
LEMMA FewerNoCycle ==
  ASSUME NEW old, NEW new, NoCycle(old),
         \A u \in Tid : ToSet(new[u]) \subseteq ToSet(old[u])
  PROVE  NoCycle(new)
<1> SUFFICES ASSUME NEW S \in SUBSET Tid, S # {}
             PROVE  \E x \in S : \A y \in S : x \notin ToSet(new[y])
  BY DEF NoCycle
<1>1. PICK x \in S : \A y \in S : x \notin ToSet(old[y])
  BY DEF NoCycle
<1> QED
  BY <1>1

Emptied(t) == [suspended_queue EXCEPT ![t] = <<>>]

LEMMA FinishSound ==
  ASSUME TypeOK, Rest, Counted, NEW t, NEW st, Leaves(t, st), st[t] = "FINISHED"
  PROVE  /\ EnqueueWaiters(ready, t) \in Queues /\ Orderly(EnqueueWaiters(ready, t))
         /\ Emptied(t) \in [Tid -> Seq(Tid)]
         /\ \A x \in Tid :
              Within(EnqueueWaiters(ready, t), x) <=> Within(ready, x) \/ x \in SuspendedOn(t)
         /\ Sound(EnqueueWaiters(ready, t), Emptied(t), st, wait_tid)
<1> DEFINE q == EnqueueWaiters(ready, t)
           s == suspended_queue[t]
           sus == Emptied(t)
<1>1. /\ t \in Tid /\ ready \in Queues /\ Orderly(ready)
      /\ suspended_queue \in [Tid -> Seq(Tid)] /\ s \in Seq(Tid)
  BY QueueTypes DEF Leaves, Rest
<1>2. ToSet(s) \subseteq Tid
  BY <1>1 DEF ToSet
<1>3. NoRepeat(s) /\ \A x \in ToSet(s) : ~Within(ready, x)
  BY <1>1, <1>2 DEF Rest, Sound, Queued
<1>4. /\ q \in Queues /\ Orderly(q)
      /\ \A p \in Priority : ToSet(q[p]) = ToSet(ready[p]) \cup {x \in ToSet(s) : priority[x] = p}
  BY <1>1, <1>3, EnqueueMany DEF EnqueueWaiters
<1>5. sus \in [Tid -> Seq(Tid)] /\ sus[t] = <<>> /\ \A u \in Tid \ {t} : sus[u] = suspended_queue[u]
  BY <1>1 DEF Emptied
<1>6. \A u \in Tid : ToSet(sus[u]) = IF u = t THEN {} ELSE ToSet(suspended_queue[u])
  BY <1>5 DEF ToSet
<1> HIDE DEF q, sus
<1>7. \A x \in Tid : Within(q, x) <=> Within(ready, x) \/ x \in ToSet(s)
  BY <1>4 DEF Within, TypeOK
<1>8. \A x \in Tid \ {t} : Settled[x] = st[x]
  BY LeavingStatus
<1>9. Settled[t] = "SCHEDULED"
  BY LeavingStatus
<1> HIDE DEF s
<1>10. \A x \in ToSet(s) : x \in Tid /\ Settled[x] = "STOPPED" /\ wait_tid[x] = t
  BY <1>1, <1>2 DEF Rest, Sound, Queued, s
<1>11. Queued(q, sus, st, wait_tid)
  <2>1. ASSUME NEW x \in Tid, Within(q, x)
        PROVE  /\ st[x] \in Waiting
               /\ st[x] = "STOPPED" => wait_tid[x] \in Tid /\ st[wait_tid[x]] = "FINISHED"
    <3>1. CASE x \in ToSet(s)
      BY <1>1, <1>8, <1>9, <1>10, <3>1 DEF Waiting
    <3>2. CASE Within(ready, x)
      <4>1. /\ Settled[x] \in Waiting
            /\ Settled[x] = "STOPPED" =>
                 wait_tid[x] \in Tid /\ Settled[wait_tid[x]] = "FINISHED"
        BY <3>2 DEF Rest, Sound, Queued
      <4>2. x # t
        BY <1>9, <4>1 DEF Waiting
      <4> QED
        BY <1>8, <1>9, <4>1, <4>2
    <3> QED
      BY <1>7, <2>1, <3>1, <3>2
  <2>2. ASSUME NEW x \in Tid, NEW u \in Tid, x \in ToSet(sus[u])
        PROVE  st[x] = "STOPPED" /\ wait_tid[x] = u /\ ~Within(q, x)
    <3>1. u # t /\ x \in ToSet(suspended_queue[u])
      BY <1>6, <2>2
    <3>2. Settled[x] = "STOPPED" /\ wait_tid[x] = u /\ ~Within(ready, x)
      BY <3>1 DEF Rest, Sound, Queued
    <3> QED
      BY <1>7, <1>8, <1>9, <1>10, <3>1, <3>2
  <2>3. \A u \in Tid : NoRepeat(sus[u])
    <3>1. NoRepeat(<<>>)
      BY DEF NoRepeat
    <3> QED
      BY <1>5, <3>1 DEF Rest, Sound, Queued
  <2> QED
    BY <2>1, <2>2, <2>3 DEF Queued
<1>12. Kept(q, sus, st)
  <2> SUFFICES ASSUME NEW x \in Tid, x # t
               PROVE  \/ st[x] \in Over \cup {"SCHEDULED"}
                      \/ Within(q, x)
                      \/ \E u \in Tid : st[u] \notin Over /\ x \in ToSet(sus[u])
    BY DEF Kept, Over
  <2>1. CASE \E u \in Tid : Settled[u] \notin Over /\ x \in ToSet(suspended_queue[u])
    BY <1>6, <1>7, <1>8, <2>1 DEF s
  <2>2. CASE Settled[x] \in Over \cup {"SCHEDULED"} \/ Within(ready, x)
    BY <1>7, <1>8, <2>2
  <2> QED
    BY <2>1, <2>2 DEF Rest, Sound, Kept
<1>13. NoCycle(sus)
  BY <1>6, FewerNoCycle DEF Rest, Sound
<1> QED
  BY <1>4, <1>5, <1>7, <1>11, <1>12, <1>13 DEF Sound, SuspendedOn, q, sus, s

Joined(t, u) == [suspended_queue EXCEPT ![u] = Append(@, t)]

(* A thread that joins one that does not wait for it makes no cycle. *)
LEMMA JoinNoCycle ==
  ASSUME NoCycle(suspended_queue), NEW t \in Tid, NEW u \in Tid, ~WaitsFor(u, t),
         NEW sus,
         \A y \in Tid : ToSet(sus[y]) = ToSet(suspended_queue[y]) \cup {x \in {t} : y = u}
  PROVE  NoCycle(sus)
<1>1. PICK D \in SUBSET Tid :
        /\ u \in D /\ t \notin D
        /\ \A x \in D, y \in Tid : x \in ToSet(suspended_queue[y]) => y \in D
  BY DEF WaitsFor, SuspendedOn
<1> SUFFICES ASSUME NEW S \in SUBSET Tid, S # {}
             PROVE  \E x \in S : \A y \in S : x \notin ToSet(sus[y])
  BY DEF NoCycle
<1>2. CASE t \in S /\ u \in S
  <2>1. S \cap D # {} /\ S \cap D \in SUBSET Tid
    BY <1>1, <1>2
  <2>2. PICK x \in S \cap D : \A y \in S \cap D : x \notin ToSet(suspended_queue[y])
    BY <2>1 DEF NoCycle
  <2>3. \A y \in S : x \notin ToSet(suspended_queue[y])
    BY <1>1, <2>2
  <2>4. \A y \in S : x \notin ToSet(sus[y])
    BY <1>1, <2>2, <2>3
  <2> QED
    BY <2>2, <2>4
<1>3. CASE ~(t \in S /\ u \in S)
  <2>1. PICK x \in S : \A y \in S : x \notin ToSet(suspended_queue[y])
    BY DEF NoCycle
  <2>2. \A y \in S : x \notin ToSet(sus[y])
    BY <1>3, <2>1
  <2> QED
    BY <2>2
<1> QED
  BY <1>2, <1>3

LEMMA StopSound ==
  ASSUME TypeOK, Rest, Counted, NEW t, NEW st, Leaves(t, st), st[t] = "STOPPED",
         NEW u \in Tid, u = wait_tid[t], Settled[u] \notin Over, ~WaitsFor(u, t)
  PROVE  /\ Joined(t, u) \in [Tid -> Seq(Tid)]
         /\ Sound(ready, Joined(t, u), st, wait_tid)
<1> DEFINE sus == Joined(t, u)
<1>1. /\ t \in Tid /\ suspended_queue \in [Tid -> Seq(Tid)]
      /\ ~Within(ready, t) /\ \A y \in Tid : t \notin ToSet(suspended_queue[y])
  BY RunningUnqueued, QueueTypes DEF Leaves
<1>2. u # t
  BY DEF WaitsFor
<1>3. /\ \A y \in Tid \ {u} : sus[y] = suspended_queue[y]
      /\ sus[u] = Append(suspended_queue[u], t)
  BY <1>1 DEF Joined
<1>4. sus \in [Tid -> Seq(Tid)]
  BY <1>1, AppendSet DEF Joined
<1> HIDE DEF sus
<1>5. \A y \in Tid : ToSet(sus[y]) = ToSet(suspended_queue[y]) \cup {x \in {t} : y = u}
  <2>1. ToSet(sus[u]) = ToSet(suspended_queue[u]) \cup {t}
    BY <1>1, <1>3, AppendSet
  <2> QED
    BY <1>3, <2>1
<1>6. \A y \in Tid : NoRepeat(sus[y])
  <2>1. \A y \in Tid : NoRepeat(suspended_queue[y]) /\ suspended_queue[y] \in Seq(Tid)
    BY <1>1 DEF Rest, Sound, Queued
  <2>2. NoRepeat(Append(suspended_queue[u], t))
    BY <1>1, <2>1, AppendSet
  <2> QED
    BY <1>3, <2>1, <2>2
<1>7. \A x \in Tid \ {t} : Settled[x] = st[x]
  BY LeavingStatus
<1>8. Settled[t] = "SCHEDULED"
  BY LeavingStatus
<1>9. Queued(ready, sus, st, wait_tid)
  <2>1. ASSUME NEW x \in Tid, Within(ready, x)
        PROVE  /\ st[x] \in Waiting
               /\ st[x] = "STOPPED" => wait_tid[x] \in Tid /\ st[wait_tid[x]] = "FINISHED"
    <3>1. /\ Settled[x] \in Waiting
          /\ Settled[x] = "STOPPED" =>
               wait_tid[x] \in Tid /\ Settled[wait_tid[x]] = "FINISHED"
      BY <2>1 DEF Rest, Sound, Queued
    <3> QED
      BY <1>1, <1>7, <1>8, <2>1, <3>1
  <2>2. ASSUME NEW x \in Tid, NEW y \in Tid, x \in ToSet(sus[y])
        PROVE  st[x] = "STOPPED" /\ wait_tid[x] = y /\ ~Within(ready, x)
    <3>1. CASE x = t
      BY <1>1, <1>5, <2>2, <3>1
    <3>2. CASE x # t
      <4>1. Settled[x] = "STOPPED" /\ wait_tid[x] = y /\ ~Within(ready, x)
        BY <1>5, <2>2, <3>2 DEF Rest, Sound, Queued
      <4> QED
        BY <1>7, <3>2, <4>1
    <3> QED
      BY <3>1, <3>2
  <2> QED
    BY <1>6, <2>1, <2>2 DEF Queued
<1>10. Kept(ready, sus, st)
  <2>1. \A y \in Tid : Settled[y] \notin Over => st[y] \notin Over
    BY <1>7 DEF Over
  <2>2. st[u] \notin Over /\ t \in ToSet(sus[u])
    BY <1>5, <2>1
  <2> SUFFICES ASSUME NEW x \in Tid, x # t
               PROVE  \/ st[x] \in Over \cup {"SCHEDULED"}
                      \/ Within(ready, x)
                      \/ \E y \in Tid : st[y] \notin Over /\ x \in ToSet(sus[y])
    BY <2>2 DEF Kept
  <2> QED
    BY <1>5, <1>7, <2>1 DEF Rest, Sound, Kept
<1>11. NoCycle(sus)
  BY <1>1, <1>5, JoinNoCycle DEF Rest, Sound
<1> QED
  BY <1>4, <1>9, <1>10, <1>11 DEF Sound, sus

LEMMA MainSound ==
  ASSUME TypeOK, Rest, Counted, current_active = NULL
  PROVE  /\ Sound(ready, suspended_queue, status, wait_tid)
         /\ \A t \in Tid : status[t] # "SCHEDULED"
         /\ Settled = status
<1>1. \A t \in Tid : t # current_active
  BY DEF Tid, NULL
<1>2. Settled = status
  BY <1>1 DEF Settled, TypeOK
<1> QED
  BY <1>1, <1>2 DEF Rest, Counted

-----------------------------------------------------------------------------
(* Each step keeps the invariant. *)

(* No thread goes on behind thread_join before the thread it joined has finished. *)
JoinStep ==
  \A t \in Tid : (place[t] = "join" /\ place'[t] = "own") => status'[wait_tid[t]] = "FINISHED"

Odd == {"again", "doomed", "lost"}

MainTyped == main_at \in MainPlace /\ main_result \in Tid \cup {EXIT_SUCCESS, EXIT_WITH_ERROR}

LEMMA MainTypedNow == TypeOK => MainTyped
BY DEF TypeOK, MainTyped

(* A pass keeps the invariant if it starts from statuses and places that fit. *)
LEMMA PassKeeps ==
  ASSUME IInv, NEW q, NEW st, NEW pl,
         PassResult(q, st, pl, suspended_queue', wait_tid),
         suspended_queue' \in [Tid -> Seq(Tid)],
         outcome = "runs", blocked' \subseteq blocked,
         UNCHANGED threadVars,
         MainTyped',
         \A t \in Tid : st[t] = "NONE" <=> status[t] = "NONE",
         \A t \in Tid : st[t] # "SCHEDULED",
         \A t \in Tid : pl[t] = "join" <=> st[t] = "STOPPED",
         \A t \in Tid : pl[t] = place[t] \/ pl[t] \in Odd
  PROVE  IInv' /\ JoinStep
<1>1. /\ thread_count' = thread_count /\ priority' = priority /\ wait_tid' = wait_tid
  BY DEF threadVars
<1>2. /\ ready' \in Queues /\ Orderly(ready')
      /\ status' \in [Tid -> Status] /\ place' \in [Tid -> Place]
      /\ current_active' \in Tid \cup {NULL}
      /\ Sound(ready', suspended_queue', status', wait_tid)
      /\ \A t \in Tid : status'[t] = "SCHEDULED" <=> t = current_active'
      /\ \A t \in Tid : t # current_active' => status'[t] = st[t] /\ place'[t] = pl[t]
      /\ current_active' = NULL => \A t \in Tid : st[t] \in Over
      /\ leaving' \in BOOLEAN
      /\ outcome' = outcome \/ (outcome' = "undefined" /\ \E t \in Tid : pl[t] = "lost")
  BY DEF PassResult
<1>3. current_active' \in Tid =>
        /\ st[current_active'] \in Waiting
        /\ st[current_active'] = "STOPPED" =>
             /\ wait_tid[current_active'] \in Tid \ {current_active'}
             /\ status'[wait_tid[current_active']] = "FINISHED"
        /\ place'[current_active'] =
             IF pl[current_active'] \in {"yield", "join", "handler"}
             THEN "own" ELSE pl[current_active']
  BY DEF PassResult
<1>4. TypeOK'
  <2>1. /\ main_at' \in MainPlace
        /\ main_result' \in Tid \cup {EXIT_SUCCESS, EXIT_WITH_ERROR}
    BY DEF MainTyped
  <2>2. blocked' \subseteq Tid \cup {NULL} /\ outcome' \in {"runs", "ended", "exited", "undefined"}
    BY <1>2 DEF IInv, TypeOK
  <2>3. ready' \in [Priority -> Seq(Tid)]
    BY <1>2 DEF Queues
  <2>4. /\ thread_count' \in 0 .. MaxThreads
        /\ priority' \in [Tid -> Priority]
        /\ wait_tid' \in [Tid -> Tid \cup {NOT_FOUND}]
    BY <1>1 DEF IInv, TypeOK
  <2> QED
    BY <1>2, <2>1, <2>2, <2>3, <2>4 DEF TypeOK
<1>5. Rest'
  <2>1. Settled' = status'
    BY <1>2 DEF Settled
  <2>2. Orderly(ready)'
    BY <1>1, <1>2 DEF Orderly
  <2>3. Sound(ready', suspended_queue', Settled', wait_tid')
    BY <1>1, <1>2, <2>1
  <2> QED
    BY <2>2, <2>3 DEF Rest
<1>6. Counted'
  <2>1. \A t \in Tid : status'[t] = "NONE" <=> t > thread_count
    <3>1. \A t \in Tid : status'[t] = "NONE" <=> st[t] = "NONE"
      BY <1>2, <1>3 DEF Waiting
    <3> QED
      BY <3>1 DEF IInv, Counted
  <2>2. current_active' # NULL => status'[current_active'] # "NONE"
    BY <1>2
  <2> QED
    BY <1>1, <1>2, <2>1, <2>2 DEF Counted
<1>7. Places'
  <2>1. ASSUME NEW t \in Tid PROVE place'[t] = "join" <=> status'[t] = "STOPPED"
    <3>1. CASE t = current_active'
      <4>1. status'[t] = "SCHEDULED"
        BY <1>2, <3>1
      <4>2. place'[t] # "join"
        BY <1>3, <3>1
      <4> QED
        BY <4>1, <4>2
    <3>2. CASE t # current_active'
      BY <1>2, <3>2
    <3> QED
      BY <3>1, <3>2
  <2> QED
    BY <2>1 DEF Places
<1>8. PendingJoin'
  <2>1. \A t \in Tid : t = current_active' => place'[t] # "join"
    BY <1>2, <1>3
  <2> QED
    BY <2>1 DEF PendingJoin
<1>9. MainTold'
  <2> SUFFICES ASSUME current_active' = NULL PROVE \A t \in Tid : status'[t] \in Over
    BY DEF MainTold
  <2>1. \A t \in Tid : t # current_active'
    BY DEF Tid, NULL
  <2> QED
    BY <1>2, <2>1
<1>10. JoinStep
  <2> SUFFICES ASSUME NEW t \in Tid, place[t] = "join", place'[t] = "own"
               PROVE  status'[wait_tid[t]] = "FINISHED"
    BY DEF JoinStep
  <2>1. pl[t] = "join" \/ pl[t] \in Odd
    OBVIOUS
  <2>2. t = current_active'
    <3>1. SUFFICES ASSUME t # current_active' PROVE FALSE
      OBVIOUS
    <3>2. place'[t] = pl[t]
      BY <1>2, <3>1
    <3> QED
      BY <2>1, <3>2 DEF Odd
  <2>3. pl[t] = "join"
    <3>1. SUFFICES ASSUME pl[t] \in Odd PROVE FALSE
      BY <2>1
    <3>2. place'[t] = IF pl[t] \in {"yield", "join", "handler"} THEN "own" ELSE pl[t]
      BY <1>3, <2>2
    <3> QED
      BY <3>1, <3>2 DEF Odd
  <2>4. st[t] = "STOPPED"
    BY <2>3
  <2> QED
    BY <1>3, <2>2, <2>4
<1> QED
  BY <1>4, <1>5, <1>6, <1>7, <1>8, <1>9, <1>10 DEF IInv

(* The four passes: of a thread that goes on later, ends or joins, and of main. *)
LEMMA YieldPass ==
  ASSUME IInv, NEW t, NEW st, Leaves(t, st), st[t] = "YIELD",
         NEW pl \in [Tid -> Place], NEW lucky \in Lucky,
         ScheduleFrom(Enqueue(ready, t), st, pl, lucky)
  PROVE  PassResult(Enqueue(ready, t), st, pl, suspended_queue, wait_tid)
<1>1. TypeOK /\ Rest /\ Counted /\ st \in [Tid -> Status]
  BY DEF IInv, Leaves
<1>2. /\ Enqueue(ready, t) \in Queues /\ Orderly(Enqueue(ready, t))
      /\ Sound(Enqueue(ready, t), suspended_queue, st, wait_tid)
  BY <1>1, YieldSound
<1>3. \A x \in Tid : st[x] # "SCHEDULED"
  BY <1>1, LeavingStatus
<1> QED
  BY <1>1, <1>2, <1>3, WholePass

LEMMA FinishPass ==
  ASSUME IInv, NEW t, NEW st, Leaves(t, st), st[t] = "FINISHED",
         NEW pl \in [Tid -> Place], NEW lucky \in Lucky,
         ScheduleFrom(EnqueueWaiters(ready, t), st, pl, lucky)
  PROVE  PassResult(EnqueueWaiters(ready, t), st, pl, Emptied(t), wait_tid)
<1>1. TypeOK /\ Rest /\ Counted /\ st \in [Tid -> Status]
  BY DEF IInv, Leaves
<1>2. /\ EnqueueWaiters(ready, t) \in Queues /\ Orderly(EnqueueWaiters(ready, t))
      /\ Sound(EnqueueWaiters(ready, t), Emptied(t), st, wait_tid)
  BY <1>1, FinishSound
<1>3. \A x \in Tid : st[x] # "SCHEDULED"
  BY <1>1, LeavingStatus
<1> QED
  BY <1>1, <1>2, <1>3, WholePass

(* There is always another thread to run when a thread joins: the one it joins, or
   one of those that one waits for. *)
LEMMA StopPass ==
  ASSUME IInv, NEW t, NEW st, Leaves(t, st), st[t] = "STOPPED",
         NEW u \in Tid, u = wait_tid[t], Settled[u] \notin Over, ~WaitsFor(u, t),
         NEW pl \in [Tid -> Place], NEW lucky \in Lucky,
         ScheduleFrom(ready, st, pl, lucky)
  PROVE  /\ Asked(ready, lucky) # {}
         /\ PassResult(ready, st, pl, Joined(t, u), wait_tid)
<1>1. TypeOK /\ Rest /\ Counted /\ st \in [Tid -> Status]
  BY DEF IInv, Leaves
<1>2. ready \in Queues /\ Orderly(ready) /\ Sound(ready, Joined(t, u), st, wait_tid)
  BY <1>1, StopSound, QueueTypes DEF Rest
<1>3. \A x \in Tid : st[x] # "SCHEDULED"
  BY <1>1, LeavingStatus
<1>4. PassResult(ready, st, pl, Joined(t, u), wait_tid)
  BY <1>1, <1>2, <1>3, WholePass
<1>5. Asked(ready, lucky) # {}
  <2> SUFFICES ASSUME Asked(ready, lucky) = {} PROVE FALSE
    OBVIOUS
  <2>1. current_active' = NULL
    BY DEF ScheduleFrom, BackToMain
  <2>2. st[t] \in Over /\ t \in Tid
    BY <1>4, <2>1 DEF PassResult, Leaves
  <2> QED
    BY <2>2 DEF Over
<1> QED
  BY <1>4, <1>5

LEMMA MainPass ==
  ASSUME IInv, current_active = NULL, NEW lucky \in Lucky,
         ScheduleFrom(ready, status, place, lucky)
  PROVE  PassResult(ready, status, place, suspended_queue, wait_tid)
<1>1. TypeOK /\ Rest /\ Counted /\ status \in [Tid -> Status] /\ place \in [Tid -> Place]
  BY DEF IInv, TypeOK
<1>2. /\ ready \in Queues /\ Orderly(ready)
      /\ Sound(ready, suspended_queue, status, wait_tid)
      /\ \A t \in Tid : status[t] # "SCHEDULED"
  BY <1>1, MainSound, QueueTypes DEF Rest
<1> QED
  BY <1>1, <1>2, WholePass

LEMMA MainSwitchStep ==
  ASSUME IInv, NEW lucky \in Lucky, MainSwitches(lucky) \/ MainTick(lucky)
  PROVE  IInv' /\ JoinStep
<1>1. /\ ScheduleFrom(ready, status, place, lucky)
      /\ current_active = NULL /\ outcome = "runs"
      /\ UNCHANGED <<threadVars, suspended_queue>>
      /\ blocked' \subseteq blocked
      /\ main_at' = "behind" /\ main_result' = EXIT_SUCCESS
  BY DEF MainSwitches, MainTick, GivesCPU, MainRuns, Alive
<1>2. PassResult(ready, status, place, suspended_queue', wait_tid)
  BY <1>1, MainPass
<1>3. \A t \in Tid : status[t] # "SCHEDULED"
  BY <1>1, MainSound DEF IInv
<1>4. suspended_queue' \in [Tid -> Seq(Tid)] /\ UNCHANGED threadVars
  BY <1>1, QueueTypes DEF IInv
<1>5. \A t \in Tid : place[t] = "join" <=> status[t] = "STOPPED"
  BY DEF IInv, Places
<1>6. MainTyped'
  BY <1>1 DEF MainTyped, MainPlace
<1> QED
  BY <1>1, <1>2, <1>3, <1>4, <1>5, <1>6, PassKeeps

(* What a thread is when it enters the scheduler of its own. *)
LEMMA InCallLeaves ==
  ASSUME IInv, NEW t \in Tid, InCall(t), status[t] \in {"YIELD", "STOPPED", "FINISHED"}
  PROVE  /\ Leaves(t, status)
         /\ outcome = "runs"
         /\ \A x \in Tid : place[x] = "join" <=> status[x] = "STOPPED"
         /\ \A x \in Tid : status[x] # "SCHEDULED"
         /\ place \in [Tid -> Place]
<1>1. Leaves(t, status) /\ outcome = "runs"
  BY DEF InCall, Runs, Alive, Leaves, IInv, TypeOK
<1> QED
  BY <1>1, LeavingStatus DEF IInv, Places, TypeOK

LEMMA SwitchStep ==
  ASSUME IInv, NEW t \in Tid, NEW lucky \in Lucky, Switch(t, lucky)
  PROVE  IInv' /\ JoinStep
<1>1. /\ InCall(t)
      /\ UNCHANGED threadVars /\ blocked' = blocked /\ UNCHANGED mainVars
      /\ status[t] \in {"YIELD", "STOPPED", "FINISHED"}
  BY DEF Switch, callVars, EndsAndWakes, Yields, Stops
<1>2. /\ Leaves(t, status)
      /\ outcome = "runs"
      /\ \A x \in Tid : place[x] = "join" <=> status[x] = "STOPPED"
      /\ \A x \in Tid : status[x] # "SCHEDULED"
      /\ place \in [Tid -> Place]
  BY <1>1, InCallLeaves
<1>m. MainTyped'
  BY <1>1, MainTypedNow DEF IInv, MainTyped, mainVars
<1>3. ASSUME NEW q, PassResult(q, status, place, suspended_queue', wait_tid),
             suspended_queue' \in [Tid -> Seq(Tid)]
      PROVE  IInv' /\ JoinStep
  BY <1>1, <1>2, <1>3, <1>m, PassKeeps
<1>4. CASE EndsAndWakes(t, lucky)
  <2>1. /\ suspended_queue' = Emptied(t) /\ status[t] = "FINISHED"
        /\ ScheduleFrom(EnqueueWaiters(ready, t), status, place, lucky)
    BY <1>4 DEF EndsAndWakes, Emptied
  <2>2. PassResult(EnqueueWaiters(ready, t), status, place, Emptied(t), wait_tid)
    BY <1>2, <2>1, FinishPass
  <2>3. suspended_queue' \in [Tid -> Seq(Tid)]
    BY <1>2, <2>1, FinishSound DEF IInv
  <2> QED
    BY <1>3, <2>1, <2>2, <2>3
<1>5. CASE Yields(t, lucky)
  <2>1. /\ suspended_queue' = suspended_queue /\ status[t] = "YIELD"
        /\ ScheduleFrom(Enqueue(ready, t), status, place, lucky)
    BY <1>5 DEF Yields
  <2>2. PassResult(Enqueue(ready, t), status, place, suspended_queue, wait_tid)
    BY <1>2, <2>1, YieldPass
  <2>3. suspended_queue' \in [Tid -> Seq(Tid)]
    BY <2>1, QueueTypes DEF IInv
  <2> QED
    BY <1>3, <2>1, <2>2, <2>3
<1>6. CASE Stops(t, lucky)
  <2>1. /\ status[t] = "STOPPED" /\ ScheduleFrom(ready, status, place, lucky)
        /\ suspended_queue' =
             IF Asked(ready, lucky) = {} THEN suspended_queue ELSE Joined(t, wait_tid[t])
    BY <1>6 DEF Stops, Suspend, Joined
  <2>2. wait_tid[t] \in Tid /\ Settled[wait_tid[t]] \notin Over /\ ~WaitsFor(wait_tid[t], t)
    BY <1>2, <2>1 DEF IInv, PendingJoin, Leaves
  <2>3. /\ Asked(ready, lucky) # {}
        /\ PassResult(ready, status, place, Joined(t, wait_tid[t]), wait_tid)
    BY <1>2, <2>1, <2>2, StopPass
  <2>4. Joined(t, wait_tid[t]) \in [Tid -> Seq(Tid)]
    BY <1>2, <2>1, <2>2, StopSound DEF IInv
  <2> QED
    BY <1>3, <2>1, <2>3, <2>4
<1> QED
  BY <1>4, <1>5, <1>6 DEF Switch

Yielded(t) == [status EXCEPT ![t] = "YIELD"]
Hit(t, p) == [place EXCEPT ![t] = p]

(* The handler in the middle of something: the thread yields, whatever it was at. *)
LEMMA PreemptedPass ==
  ASSUME IInv, NEW t \in Tid, NEW p \in Odd, NEW lucky \in Lucky, Runs(t), Preempted(t, p, lucky)
  PROVE  /\ Leaves(t, Yielded(t)) /\ Yielded(t)[t] = "YIELD"
         /\ \A x \in Tid : Hit(t, p)[x] = "join" <=> Yielded(t)[x] = "STOPPED"
         /\ \A x \in Tid : Hit(t, p)[x] = place[x] \/ Hit(t, p)[x] \in Odd
         /\ PassResult(Enqueue(ready, t), Yielded(t), Hit(t, p), suspended_queue, wait_tid)
<1> DEFINE st == Yielded(t)
           pl == Hit(t, p)
<1>1. status \in [Tid -> Status] /\ place \in [Tid -> Place]
  BY DEF IInv, TypeOK
<1>2. st \in [Tid -> Status] /\ st[t] = "YIELD" /\ \A x \in Tid \ {t} : st[x] = status[x]
  BY <1>1 DEF Status, Yielded
<1>3. pl \in [Tid -> Place] /\ pl[t] = p /\ \A x \in Tid \ {t} : pl[x] = place[x]
  BY <1>1 DEF Place, Odd, Hit
<1>4. Leaves(t, st)
  BY <1>2 DEF Leaves, Runs
<1>5. ScheduleFrom(Enqueue(ready, t), st, pl, lucky)
  BY DEF Preempted, Yielded, Hit
<1> HIDE DEF st, pl
<1>6. PassResult(Enqueue(ready, t), st, pl, suspended_queue, wait_tid)
  BY <1>2, <1>3, <1>4, <1>5, YieldPass
<1>7. \A x \in Tid : pl[x] = "join" <=> st[x] = "STOPPED"
  BY <1>2, <1>3 DEF IInv, Places, Odd
<1> QED
  BY <1>2, <1>3, <1>4, <1>6, <1>7 DEF st, pl

LEMMA TickedPlaces == \A p : AfterTick(p) \subseteq Odd
BY DEF AfterTick, Odd

LEMMA PreemptedStep ==
  ASSUME IInv, NEW t \in Tid, NEW lucky \in Lucky,
         TickBeforeSwitch(t, lucky) \/ TickInScheduler(t, lucky)
  PROVE  IInv' /\ JoinStep
<1>1. PICK p \in Odd : Preempted(t, p, lucky)
  BY TickedPlaces DEF TickBeforeSwitch, TickInScheduler, Odd
<1>2. Runs(t) /\ outcome = "runs"
  BY DEF TickBeforeSwitch, TickInScheduler, Runs, Alive
<1> DEFINE st == Yielded(t)
           pl == Hit(t, p)
<1>3. /\ Leaves(t, st) /\ st[t] = "YIELD"
      /\ \A x \in Tid : pl[x] = "join" <=> st[x] = "STOPPED"
      /\ \A x \in Tid : pl[x] = place[x] \/ pl[x] \in Odd
      /\ PassResult(Enqueue(ready, t), st, pl, suspended_queue, wait_tid)
  BY <1>1, <1>2, PreemptedPass
<1> HIDE DEF st, pl
<1>4. /\ UNCHANGED threadVars /\ UNCHANGED mainVars
      /\ blocked' = blocked /\ suspended_queue' = suspended_queue
  BY <1>1 DEF Preempted, callVars
<1>5. /\ \A x \in Tid : st[x] # "SCHEDULED"
      /\ \A x \in Tid : st[x] = "NONE" <=> status[x] = "NONE"
  BY <1>3, LeavingStatus DEF IInv
<1>6. suspended_queue' \in [Tid -> Seq(Tid)]
  BY <1>4, QueueTypes DEF IInv
<1>7. PassResult(Enqueue(ready, t), st, pl, suspended_queue', wait_tid)
  BY <1>3, <1>4
<1>8. MainTyped'
  BY <1>4, MainTypedNow DEF IInv, MainTyped, mainVars
<1> QED
  BY <1>2, <1>3, <1>4, <1>5, <1>6, <1>7, <1>8, PassKeeps

(* The steps that leave the queues alone: up to the swapcontext of a call, and those
   that only concern the process. *)
LEMMA ReachesStep ==
  ASSUME IInv, NEW t \in Tid, NEW p \in Place \ Odd, NEW s, Reaches(t, p, s),
         s \in {"YIELD", "STOPPED", "FINISHED"}, p = "join" <=> s = "STOPPED",
         blocked' \subseteq blocked,
         \/ p # "join" /\ UNCHANGED wait_tid
         \/ \E u \in Tid : Supported(t, u) /\ wait_tid' = [wait_tid EXCEPT ![t] = u]
  PROVE  IInv' /\ JoinStep /\ Settled' = Settled
<1>1. /\ current_active = t /\ place[t] = "own"
      /\ place' = [place EXCEPT ![t] = p]
      /\ status' = [status EXCEPT ![t] = s]
      /\ leaving' = FALSE
      /\ UNCHANGED <<thread_count, priority, suspended_queue, ready, current_active>>
      /\ UNCHANGED <<outcome, main_at, main_result>>
  BY DEF Reaches, InOwnCode, Runs, mainVars
<1>2. TypeOK
  BY DEF IInv
<1>3. /\ place' \in [Tid -> Place] /\ place'[t] = p
      /\ \A x \in Tid \ {t} : place'[x] = place[x]
  BY <1>1, <1>2 DEF TypeOK
<1>4. /\ status' \in [Tid -> Status] /\ status'[t] = s
      /\ \A x \in Tid \ {t} : status'[x] = status[x]
  BY <1>1, <1>2 DEF TypeOK, Status
<1>5. /\ wait_tid' \in [Tid -> Tid \cup {NOT_FOUND}]
      /\ \A x \in Tid \ {t} : wait_tid'[x] = wait_tid[x]
  BY <1>2 DEF TypeOK
<1>6. TypeOK'
  <2>1. blocked' \subseteq Tid \cup {NULL} /\ leaving' \in BOOLEAN
    BY <1>1, <1>2 DEF TypeOK
  <2>2. /\ thread_count' \in 0 .. MaxThreads /\ priority' \in [Tid -> Priority]
        /\ suspended_queue' \in [Tid -> Seq(Tid)] /\ ready' \in [Priority -> Seq(Tid)]
        /\ current_active' \in Tid \cup {NULL}
        /\ outcome' \in {"runs", "ended", "exited", "undefined"}
        /\ main_at' \in MainPlace
        /\ main_result' \in Tid \cup {EXIT_SUCCESS, EXIT_WITH_ERROR}
    BY <1>1, <1>2 DEF TypeOK
  <2> QED
    BY <1>3, <1>4, <1>5, <2>1, <2>2 DEF TypeOK
<1>7. Settled' = Settled
  BY <1>1, <1>4 DEF Settled
<1>8. ~Within(ready, t) /\ \A u \in Tid : t \notin ToSet(suspended_queue[u])
  BY <1>1, <1>2, RunningUnqueued DEF IInv
<1>9. Rest'
  <2>1. Orderly(ready)'
    BY <1>1 DEF IInv, Rest, Orderly
  <2>2. Queued(ready, suspended_queue, Settled, wait_tid')
    <3>1. Queued(ready, suspended_queue, Settled, wait_tid)
      BY DEF IInv, Rest, Sound
    <3> HIDE DEF Settled
    <3> QED
      BY <1>5, <1>8, <3>1 DEF Queued
  <2>3. Sound(ready, suspended_queue, Settled, wait_tid')
    BY <2>2 DEF IInv, Rest, Sound
  <2>4. Sound(ready', suspended_queue', Settled', wait_tid')
    BY <1>1, <1>7, <2>3
  <2> QED
    BY <2>1, <2>4 DEF Rest
<1>10. Counted'
  <2>1. status[t] # "NONE" /\ s \notin {"NONE", "SCHEDULED"}
    BY <1>1 DEF IInv, Counted, Tid, NULL
  <2> QED
    BY <1>1, <1>4, <2>1 DEF IInv, Counted
<1>11. Places'
  BY <1>1, <1>3, <1>4 DEF IInv, Places
<1>12. PendingJoin'
  <2> SUFFICES ASSUME place'[t] = "join"
               PROVE  /\ wait_tid'[t] \in Tid
                      /\ Settled'[wait_tid'[t]] \notin Over
                      /\ ~WaitsFor(wait_tid[t], t)'
    BY <1>1 DEF PendingJoin
  <2>1. PICK u \in Tid : Supported(t, u) /\ wait_tid' = [wait_tid EXCEPT ![t] = u]
    BY <1>3
  <2>2. wait_tid'[t] = u
    BY <1>2, <2>1 DEF TypeOK
  <2>3. Settled[u] \notin Over
    <3>1. status[u] \notin Over
      BY <2>1 DEF Supported, Created, Over, IInv, Counted, TypeOK
    <3> QED
      BY <1>2, <3>1, SettledStatus DEF Over
  <2>4. ~WaitsFor(wait_tid[t], t)'
    BY <1>1, <2>1, <2>2 DEF Supported, WaitsFor, SuspendedOn
  <2> QED
    BY <1>7, <2>2, <2>3, <2>4
<1>13. MainTold'
  BY <1>1 DEF MainTold, Tid, NULL
<1>14. JoinStep
  BY <1>1, <1>3 DEF JoinStep
<1> QED
  BY <1>6, <1>7, <1>9, <1>10, <1>11, <1>12, <1>13, <1>14 DEF IInv

LEMMA CallsStep ==
  ASSUME IInv, NEW t \in Tid, Calls(t) \/ Tick(t)
  PROVE  IInv' /\ JoinStep /\ Settled' = Settled
<1>1. {"yield", "join", "return", "handler"} \subseteq Place \ Odd
  BY DEF Place, Odd
<1>2. CASE thread_yield(t)
  BY <1>1, <1>2, ReachesStep DEF thread_yield
<1>3. CASE thread_returns(t)
  BY <1>1, <1>3, ReachesStep DEF thread_returns
<1>4. ASSUME NEW u \in Tid, thread_join(t, u) PROVE IInv' /\ JoinStep /\ Settled' = Settled
  BY <1>1, <1>4, ReachesStep DEF thread_join
<1>5. CASE Tick(t)
  BY <1>1, <1>5, ReachesStep DEF Tick
<1> QED
  BY <1>2, <1>3, <1>4, <1>5 DEF Calls

LEMMA UntouchedStep ==
  ASSUME IInv,
         UNCHANGED <<threadVars, status, suspended_queue, ready, current_active>>,
         place' \in [Tid -> Place],
         \A t \in Tid : place'[t] = "join" <=> place[t] = "join",
         blocked' \subseteq Tid \cup {NULL}, leaving' \in BOOLEAN,
         outcome' \in {"runs", "ended", "exited", "undefined"},
         main_at' \in MainPlace, main_result' \in {main_result, EXIT_WITH_ERROR}
  PROVE  IInv' /\ JoinStep /\ Settled' = Settled
<1>1. /\ UNCHANGED <<thread_count, priority, wait_tid, status, suspended_queue>>
      /\ UNCHANGED <<ready, current_active>>
  BY DEF threadVars
<1>2. TypeOK'
  <2>1. main_result' \in Tid \cup {EXIT_SUCCESS, EXIT_WITH_ERROR}
    BY DEF IInv, TypeOK
  <2>2. /\ thread_count' \in 0 .. MaxThreads /\ priority' \in [Tid -> Priority]
        /\ status' \in [Tid -> Status] /\ wait_tid' \in [Tid -> Tid \cup {NOT_FOUND}]
        /\ suspended_queue' \in [Tid -> Seq(Tid)] /\ ready' \in [Priority -> Seq(Tid)]
        /\ current_active' \in Tid \cup {NULL}
    BY <1>1 DEF IInv, TypeOK
  <2> QED
    BY <2>1, <2>2 DEF TypeOK
<1>3. Settled' = Settled
  BY <1>1 DEF Settled
<1>4. Rest'
  <2>1. Orderly(ready)'
    BY <1>1 DEF IInv, Rest, Orderly
  <2>2. Sound(ready', suspended_queue', Settled', wait_tid')
    BY <1>1, <1>3 DEF IInv, Rest
  <2> QED
    BY <2>1, <2>2 DEF Rest
<1>5. Counted'
  BY <1>1 DEF IInv, Counted
<1>6. Places'
  BY <1>1 DEF IInv, Places
<1>7. PendingJoin'
  <2>1. \A u, t \in Tid : WaitsFor(u, t)' <=> WaitsFor(u, t)
    BY <1>1 DEF WaitsFor, SuspendedOn
  <2> SUFFICES ASSUME NEW t \in Tid, t = current_active, place[t] = "join"
               PROVE  /\ wait_tid[t] \in Tid
                      /\ Settled'[wait_tid[t]] \notin Over
                      /\ ~WaitsFor(wait_tid[t], t)'
    BY <1>1 DEF PendingJoin
  <2>2. /\ wait_tid[t] \in Tid
        /\ Settled[wait_tid[t]] \notin Over
        /\ ~WaitsFor(wait_tid[t], t)
    BY DEF IInv, PendingJoin
  <2>3. wait_tid'[t] = wait_tid[t]
    BY <1>1
  <2> QED
    BY <1>3, <2>1, <2>2, <2>3
<1>8. MainTold'
  BY <1>1 DEF IInv, MainTold, EXIT_SUCCESS, EXIT_WITH_ERROR
<1>9. JoinStep
  BY DEF JoinStep
<1> QED
  BY <1>2, <1>3, <1>4, <1>5, <1>6, <1>7, <1>8, <1>9 DEF IInv

LEMMA ProcessStep ==
  ASSUME IInv,
         \/ JoinUnknown
         \/ MainGoesOn
         \/ thread_libterminate
         \/ TickAfterEnd
         \/ \E t \in Tid : SwitchAgain(t) \/ FallsOff(t) \/ TickOnTheWayToMain(t)
         \/ UNCHANGED vars
  PROVE  IInv' /\ JoinStep /\ Settled' = Settled
<1>1. place \in [Tid -> Place] /\ blocked \subseteq Tid \cup {NULL} /\ leaving \in BOOLEAN
  BY DEF IInv, TypeOK
<1>2. /\ outcome \in {"runs", "ended", "exited", "undefined"}
      /\ current_active \in Tid \cup {NULL} /\ main_at \in MainPlace
      /\ {"behind", "ahead"} \subseteq MainPlace
  BY DEF IInv, TypeOK, MainPlace
<1>3. CASE JoinUnknown
  <2>1. main_at' \in MainPlace /\ main_result' \in {main_result, EXIT_WITH_ERROR}
    BY <1>2, <1>3 DEF JoinUnknown, Returns, mainVars
  <2> QED
    BY <1>1, <1>2, <1>3, <2>1, UntouchedStep DEF JoinUnknown
<1>g. CASE MainGoesOn
  BY <1>1, <1>2, <1>g, UntouchedStep DEF MainGoesOn
<1>4. CASE thread_libterminate
  BY <1>1, <1>2, <1>4, UntouchedStep DEF thread_libterminate, callVars, mainVars
<1>5. CASE TickAfterEnd
  BY <1>1, <1>2, <1>5, UntouchedStep DEF TickAfterEnd, callVars, mainVars
<1>6. ASSUME NEW t \in Tid, SwitchAgain(t) PROVE IInv' /\ JoinStep /\ Settled' = Settled
  <2>1. /\ place' = [place EXCEPT ![t] = "own"] /\ place[t] = "again"
        /\ leaving' = TRUE /\ blocked' = blocked /\ outcome' = outcome
        /\ main_at' = main_at /\ main_result' = main_result
        /\ UNCHANGED <<threadVars, status, suspended_queue, ready, current_active>>
    BY <1>6 DEF SwitchAgain, callVars, mainVars
  <2>2. place' \in [Tid -> Place] /\ place'[t] = "own" /\ \A x \in Tid \ {t} : place'[x] = place[x]
    BY <1>1, <2>1 DEF Place
  <2>3. \A x \in Tid : place'[x] = "join" <=> place[x] = "join"
    BY <2>1, <2>2
  <2> QED
    BY <1>1, <1>2, <2>1, <2>2, <2>3, UntouchedStep
<1>7. ASSUME NEW t \in Tid, FallsOff(t) PROVE IInv' /\ JoinStep /\ Settled' = Settled
  BY <1>1, <1>2, <1>7, UntouchedStep DEF FallsOff, callVars, mainVars
<1>8. ASSUME NEW t \in Tid, TickOnTheWayToMain(t) PROVE IInv' /\ JoinStep /\ Settled' = Settled
  BY <1>1, <1>2, <1>8, UntouchedStep DEF TickOnTheWayToMain, callVars, mainVars
<1>9. CASE UNCHANGED vars
  BY <1>1, <1>2, <1>9, UntouchedStep DEF vars, mainVars
<1> QED
  BY <1>3, <1>g, <1>4, <1>5, <1>6, <1>7, <1>8, <1>9

(* A new thread goes to the end of a ready queue; no queue had its tid. *)
LEMMA CreateStep ==
  ASSUME IInv, NEW p \in Priorities, thread_create(p)
  PROVE  /\ IInv' /\ JoinStep
         /\ thread_count + 1 \in Tid /\ Settled[thread_count + 1] = "NONE"
         /\ Settled' = [Settled EXCEPT ![thread_count + 1] = "CREATED"]
         /\ \A x \in Tid : Within(ready', x) <=> Within(ready, x) \/ x = thread_count + 1
<1> DEFINE n == thread_count + 1
<1>1. /\ thread_count' = n
      /\ priority' = [priority EXCEPT ![n] = p]
      /\ status' = [status EXCEPT ![n] = "CREATED"]
      /\ ready' = [ready EXCEPT ![p] = Append(@, n)]
      /\ blocked' = IF current_active \in blocked THEN blocked \cup {n} ELSE blocked
      /\ leaving' = FALSE
      /\ UNCHANGED <<wait_tid, suspended_queue, current_active, place>>
      /\ outcome' = outcome
      /\ thread_count < MaxThreads
  BY DEF thread_create
<1>m. \/ current_active = NULL /\ main_at' = "behind" /\ main_result' = n
      \/ current_active # NULL /\ UNCHANGED <<main_at, main_result>>
  BY DEF thread_create, Returns, mainVars
<1>2. /\ TypeOK /\ p \in Priority
      /\ priority \in [Tid -> Priority] /\ status \in [Tid -> Status]
      /\ ready \in Queues /\ suspended_queue \in [Tid -> Seq(Tid)]
  BY ConstantsAssumption DEF IInv, TypeOK, ConstantsAssumption, Priority, Queues
<1>3. n \in Tid /\ status[n] = "NONE" /\ n # current_active /\ thread_count \in Nat
  BY <1>1, ConstantsAssumption DEF IInv, TypeOK, Counted, Tid, NULL, ConstantsAssumption
<1> HIDE DEF n
<1>4. Settled[n] = "NONE"
  BY <1>2, <1>3, SettledStatus
<1>5. ~Within(ready, n) /\ \A u \in Tid : n \notin ToSet(suspended_queue[u])
  BY <1>3, <1>4 DEF IInv, Rest, Sound, Queued, Waiting
<1>6. /\ status' \in [Tid -> Status] /\ status'[n] = "CREATED"
      /\ \A x \in Tid \ {n} : status'[x] = status[x]
  BY <1>1, <1>2, <1>3 DEF Status
<1>7. /\ priority' \in [Tid -> Priority] /\ priority'[n] = p
      /\ \A x \in Tid \ {n} : priority'[x] = priority[x]
  BY <1>1, <1>2, <1>3
<1>8. /\ ready' \in Queues /\ ready'[p] = Append(ready[p], n)
      /\ \A x \in Priority \ {p} : ready'[x] = ready[x]
      /\ \A x \in Priority : ready[x] \in Seq(Tid)
  BY <1>1, <1>2, <1>3, AppendSet DEF Queues
<1>9. ToSet(ready'[p]) = ToSet(ready[p]) \cup {n}
  BY <1>2, <1>3, <1>8, AppendSet
<1>10. \A x \in Tid : Within(ready', x) <=> Within(ready, x) \/ x = n
  BY <1>2, <1>8, <1>9 DEF Within
<1>11. Settled' = [Settled EXCEPT ![n] = "CREATED"]
  BY <1>1, <1>3, <1>6 DEF Settled
<1>12. /\ Settled \in [Tid -> Status] /\ Settled'[n] = "CREATED"
       /\ \A x \in Tid \ {n} : Settled'[x] = Settled[x]
  BY <1>2, <1>3, <1>11, SettledStatus
<1>13. TypeOK'
  <2>1. thread_count' \in 0 .. MaxThreads
    BY <1>1, <1>3 DEF n, Tid
  <2>2. blocked' \subseteq Tid \cup {NULL}
    BY <1>1, <1>2, <1>3 DEF TypeOK
  <2>3. /\ wait_tid' \in [Tid -> Tid \cup {NOT_FOUND}] /\ suspended_queue' \in [Tid -> Seq(Tid)]
        /\ current_active' \in Tid \cup {NULL} /\ place' \in [Tid -> Place]
        /\ outcome' \in {"runs", "ended", "exited", "undefined"}
    BY <1>1, <1>2 DEF TypeOK
  <2>4. /\ main_at' \in MainPlace
        /\ main_result' \in Tid \cup {EXIT_SUCCESS, EXIT_WITH_ERROR}
    BY <1>2, <1>3, <1>m DEF TypeOK, MainPlace
  <2>5. ready' \in [Priority -> Seq(Tid)]
    BY <1>8 DEF Queues
  <2> QED
    BY <1>1, <1>6, <1>7, <2>1, <2>2, <2>3, <2>4, <2>5 DEF TypeOK
<1>14. Orderly(ready)'
  <2>1. \A x \in Priority : NoRepeat(ready[x]) /\ \A t \in ToSet(ready[x]) : priority[t] = x
    BY DEF IInv, Rest, Orderly
  <2>2. \A x \in Priority : ToSet(ready[x]) \subseteq Tid \ {n}
    <3>1. \A x \in Priority : ToSet(ready[x]) \subseteq Tid
      BY <1>8 DEF ToSet
    <3> QED
      BY <1>5, <3>1 DEF Within
  <2>3. NoRepeat(ready'[p])
    BY <1>2, <1>3, <1>8, <2>1, <2>2, AppendSet
  <2>4. ASSUME NEW x \in Priority
        PROVE  NoRepeat(ready'[x]) /\ \A t \in ToSet(ready'[x]) : priority'[t] = x
    <3>1. CASE x = p
      BY <1>7, <1>9, <2>1, <2>2, <2>3, <3>1
    <3>2. CASE x # p
      BY <1>7, <1>8, <2>1, <2>2, <3>2
    <3> QED
      BY <3>1, <3>2
  <2> QED
    BY <2>4 DEF Orderly
<1>15. Queued(ready', suspended_queue, Settled', wait_tid)
  <2>1. ASSUME NEW x \in Tid, Within(ready', x)
        PROVE  /\ Settled'[x] \in Waiting
               /\ Settled'[x] = "STOPPED" => wait_tid[x] \in Tid /\ Settled'[wait_tid[x]] = "FINISHED"
    <3>1. CASE x = n
      BY <1>12, <3>1 DEF Waiting
    <3>2. CASE x # n
      <4>1. /\ Settled[x] \in Waiting
            /\ Settled[x] = "STOPPED" => wait_tid[x] \in Tid /\ Settled[wait_tid[x]] = "FINISHED"
        BY <1>10, <2>1, <3>2 DEF IInv, Rest, Sound, Queued
      <4> QED
        BY <1>4, <1>12, <3>2, <4>1
    <3> QED
      BY <3>1, <3>2
  <2>2. ASSUME NEW x \in Tid, NEW u \in Tid, x \in ToSet(suspended_queue[u])
        PROVE  Settled'[x] = "STOPPED" /\ wait_tid[x] = u /\ ~Within(ready', x)
    <3>1. Settled[x] = "STOPPED" /\ wait_tid[x] = u /\ ~Within(ready, x)
      BY <2>2 DEF IInv, Rest, Sound, Queued
    <3> QED
      BY <1>4, <1>10, <1>12, <3>1
  <2> QED
    BY <2>1, <2>2 DEF IInv, Rest, Sound, Queued
<1>16. Kept(ready', suspended_queue, Settled')
  <2> SUFFICES ASSUME NEW x \in Tid, x # n
               PROVE  \/ Settled'[x] \in Over \cup {"SCHEDULED"}
                      \/ Within(ready', x)
                      \/ \E u \in Tid : Settled'[u] \notin Over /\ x \in ToSet(suspended_queue[u])
    BY <1>3, <1>10 DEF Kept
  <2>1. \A u \in Tid : Settled[u] \notin Over => Settled'[u] \notin Over
    BY <1>4, <1>12 DEF Over
  <2> QED
    BY <1>10, <1>12, <2>1 DEF IInv, Rest, Sound, Kept
<1>17. Rest'
  <2>1. Sound(ready', suspended_queue', Settled', wait_tid')
    BY <1>1, <1>15, <1>16 DEF IInv, Rest, Sound
  <2> QED
    BY <1>14, <2>1 DEF Rest
<1>18. Counted'
  <2>1. \A t \in Tid : t > thread_count + 1 <=> t > thread_count /\ t # n
    BY <1>3 DEF Tid, n
  <2>2. \A t \in Tid : status'[t] = "NONE" <=> t > thread_count + 1
    BY <1>6, <2>1 DEF IInv, Counted
  <2>3. current_active # NULL => status[current_active] # "NONE" /\ current_active \in Tid \ {n}
    BY <1>2, <1>3 DEF IInv, Counted, TypeOK
  <2> QED
    BY <1>1, <1>6, <2>2, <2>3 DEF IInv, Counted, n
<1>19. Places'
  BY <1>1, <1>3, <1>6 DEF IInv, Places
<1>20. PendingJoin'
  <2> SUFFICES ASSUME NEW t \in Tid, t = current_active, place[t] = "join"
               PROVE  /\ wait_tid'[t] \in Tid
                      /\ Settled'[wait_tid'[t]] \notin Over
                      /\ ~WaitsFor(wait_tid[t], t)'
    BY <1>1 DEF PendingJoin
  <2>1. /\ wait_tid[t] \in Tid
        /\ Settled[wait_tid[t]] \notin Over
        /\ ~WaitsFor(wait_tid[t], t)
    BY DEF IInv, PendingJoin
  <2>2. ~WaitsFor(wait_tid[t], t)'
    BY <1>1, <2>1 DEF WaitsFor, SuspendedOn
  <2>3. wait_tid[t] # n
    BY <1>4, <2>1 DEF Over
  <2> QED
    BY <1>1, <1>12, <2>1, <2>2, <2>3
<1>21. MainTold'
  <2>1. n # EXIT_SUCCESS
    BY <1>3 DEF Tid, EXIT_SUCCESS
  <2> QED
    BY <1>1, <1>m, <2>1 DEF MainTold
<1>22. JoinStep
  BY <1>1 DEF JoinStep
<1> QED
  BY <1>3, <1>4, <1>10, <1>11, <1>13, <1>17, <1>18, <1>19, <1>20, <1>21, <1>22 DEF IInv, n

LEMMA InitEstablishes == Init => IInv
<1> SUFFICES ASSUME Init PROVE IInv
  OBVIOUS
<1>1. TypeOK
  <2>1. status \in [Tid -> Status] /\ place \in [Tid -> Place] /\ priority \in [Tid -> Priority]
    BY DEF Init, Status, Place, Priority
  <2>2. wait_tid \in [Tid -> Tid \cup {NOT_FOUND}] /\ suspended_queue \in [Tid -> Seq(Tid)]
    BY DEF Init
  <2>3. ready \in [Priority -> Seq(Tid)]
    BY DEF Init
  <2>4. thread_count \in 0 .. MaxThreads
    BY ConstantsAssumption DEF Init, ConstantsAssumption
  <2>5. leaving \in BOOLEAN
    BY Zenon DEF Init
  <2>7. main_at \in MainPlace /\ main_result \in Tid \cup {EXIT_SUCCESS, EXIT_WITH_ERROR}
    BY DEF Init, MainPlace
  <2>6. /\ current_active \in Tid \cup {NULL} /\ blocked \subseteq Tid \cup {NULL}
        /\ outcome \in {"runs", "ended", "exited", "undefined"}
    BY DEF Init
  <2> QED
    BY <2>1, <2>2, <2>3, <2>4, <2>5, <2>6, <2>7 DEF TypeOK
<1>2. ToSet(<<>>) = {} /\ NoRepeat(<<>>)
  BY DEF ToSet, NoRepeat
<1>3. /\ \A p \in Priority : ready[p] = <<>>
      /\ \A t \in Tid : status[t] = "NONE" /\ suspended_queue[t] = <<>> /\ place[t] = "own"
      /\ current_active = NULL /\ thread_count = 0 /\ outcome = "runs"
  BY DEF Init
<1>4. \A t \in Tid : t # current_active /\ t > thread_count
  BY <1>3 DEF Tid, NULL
<1>5. \A t \in Tid : Settled[t] = "NONE"
  BY <1>1, <1>3, <1>4, SettledStatus
<1>6. Orderly(ready) /\ \A t \in Tid : ~Within(ready, t)
  BY <1>2, <1>3 DEF Orderly, Within
<1>7. Rest
  <2>1. Queued(ready, suspended_queue, Settled, wait_tid)
    BY <1>2, <1>3, <1>6 DEF Queued
  <2>2. Kept(ready, suspended_queue, Settled)
    BY <1>5 DEF Kept, Over
  <2>3. NoCycle(suspended_queue)
    BY <1>2, <1>3 DEF NoCycle
  <2> QED
    BY <1>6, <2>1, <2>2, <2>3 DEF Rest, Sound
<1>8. Counted /\ Places /\ PendingJoin /\ MainTold
  BY <1>3, <1>4 DEF Counted, Places, PendingJoin, MainTold, Over
<1> QED
  BY <1>1, <1>7, <1>8 DEF IInv

LEMMA NextKeeps ==
  ASSUME IInv, [Next]_vars
  PROVE  IInv' /\ JoinStep
<1>1. ASSUME NEW t \in Tid, Calls(t) \/ Tick(t) PROVE IInv' /\ JoinStep
  BY <1>1, CallsStep
<1>2. ASSUME NEW t \in Tid, SwitchAgain(t) \/ FallsOff(t) \/ TickOnTheWayToMain(t)
      PROVE  IInv' /\ JoinStep
  BY <1>2, ProcessStep
<1>3. CASE JoinUnknown \/ MainGoesOn \/ thread_libterminate \/ TickAfterEnd \/ UNCHANGED vars
  BY <1>3, ProcessStep
<1>4. ASSUME NEW p \in Priorities, thread_create(p) PROVE IInv' /\ JoinStep
  BY <1>4, CreateStep
<1>5. ASSUME NEW lucky \in Lucky, Pass(lucky) PROVE IInv' /\ JoinStep
  <2>1. ASSUME NEW t \in Tid, Switch(t, lucky) PROVE IInv' /\ JoinStep
    BY <2>1, SwitchStep
  <2>2. ASSUME NEW t \in Tid, TickBeforeSwitch(t, lucky) \/ TickInScheduler(t, lucky)
        PROVE  IInv' /\ JoinStep
    BY <2>2, PreemptedStep
  <2>3. CASE MainSwitches(lucky) \/ MainTick(lucky)
    BY <2>3, MainSwitchStep
  <2> QED
    BY <1>5, <2>1, <2>2, <2>3 DEF Pass
<1> QED
  BY <1>1, <1>2, <1>3, <1>4, <1>5 DEF Next

LEMMA Invariance == Spec => []IInv
<1>1. IInv /\ [Next]_vars => IInv'
  BY NextKeeps
<1> QED
  BY InitEstablishes, <1>1, PTL DEF Spec

LEMMA InReadyWithin == \A t : InReady(t) <=> Within(ready, t)
BY DEF InReady, Within

-----------------------------------------------------------------------------
(* The steps of CooperativeThreads. *)

(* Its state and target, read off the ready queues and the settled statuses. *)
Shown(q, st) ==
  [t \in Tid |->
     IF st[t] = "NONE" THEN "absent"
     ELSE IF st[t] = "SCHEDULED" THEN "running"
     ELSE IF st[t] = "FINISHED" THEN "done"
     ELSE IF Within(q, t) THEN "ready" ELSE "blocked"]
Sought(q, st, wt) == [t \in Tid |-> IF Shown(q, st)[t] = "blocked" THEN wt[t] ELSE NULL]

AState == [t \in Tid |-> StateOf(t)]
ATarget == [t \in Tid |-> IF StateOf(t) = "blocked" THEN wait_tid[t] ELSE NULL]
Mapped == AState = Shown(ready, Settled) /\ ATarget = Sought(ready, Settled, wait_tid)

LEMMA MappedNow == IInv => Mapped
<1> SUFFICES ASSUME IInv PROVE Mapped
  OBVIOUS
<1>1. ASSUME NEW t \in Tid PROVE StateOf(t) = Shown(ready, Settled)[t]
  <2>1. /\ Settled[t] = IF t = current_active THEN "SCHEDULED" ELSE status[t]
        /\ t = current_active => status[t] # "NONE"
        /\ status[t] = "SCHEDULED" => t = current_active
    BY SettledStatus DEF IInv, Counted, Tid, NULL
  <2>2. InReady(t) <=> Within(ready, t)
    BY InReadyWithin
  <2> QED
    BY <2>1, <2>2 DEF StateOf, Shown
<1>2. AState = Shown(ready, Settled)
  BY <1>1 DEF AState, Shown
<1>3. ATarget = Sought(ready, Settled, wait_tid)
  BY <1>1 DEF ATarget, Sought
<1> QED
  BY <1>2, <1>3 DEF Mapped

LEMMA MappedNext == IInv' => Mapped'
BY MappedNow, PTL

(* After a pass the one who runs next is as CooperativeThreads has it. *)
LEMMA PassGives ==
  ASSUME IInv', NEW q, NEW st, NEW pl, NEW sus, NEW wt,
         PassResult(q, st, pl, sus, wt),
         \A t \in Tid : st[t] # "SCHEDULED"
  PROVE  /\ Promise!GiveCPU(Shown(q, st))
         /\ \A t \in Tid : Shown(ready', Settled')[t] = "blocked" <=> Shown(q, st)[t] = "blocked"
<1>1. AState' = Shown(ready', Settled')
  BY MappedNext DEF Mapped
<1>2. /\ status' \in [Tid -> Status] /\ current_active' \in Tid \cup {NULL}
      /\ \A t \in Tid : status'[t] = "SCHEDULED" <=> t = current_active'
      /\ \A t \in Tid : t # current_active' => status'[t] = st[t]
      /\ \A t \in Tid : Within(ready', t) <=> Within(q, t) /\ t # current_active'
  BY DEF PassResult
<1>3. Settled' = status'
  BY <1>2 DEF Settled
<1>4. ASSUME NEW t \in Tid, t # current_active'
      PROVE  Shown(ready', Settled')[t] = Shown(q, st)[t]
  BY <1>2, <1>3, <1>4 DEF Shown
<1>5. CASE current_active' \in Tid
  <2> DEFINE c == current_active'
  <2>1. Within(q, c) /\ st[c] \in Waiting
    BY <1>5 DEF PassResult
  <2>2. Shown(q, st)[c] = "ready"
    BY <1>5, <2>1 DEF Shown, Waiting
  <2>3. Shown(ready', Settled')[c] = "running"
    BY <1>2, <1>3, <1>5 DEF Shown
  <2>4. AState' = [x \in Tid |-> IF x = c THEN "running" ELSE Shown(q, st)[x]]
    <3>1. \A x \in Tid : Shown(ready', Settled')[x] = IF x = c THEN "running" ELSE Shown(q, st)[x]
      BY <1>4, <2>3
    <3>2. Shown(ready', Settled') = [x \in Tid |-> Shown(ready', Settled')[x]]
      BY DEF Shown
    <3> HIDE DEF c
    <3> QED
      BY <1>1, <3>1, <3>2
  <2>5. Promise!GiveCPU(Shown(q, st))
    BY <1>5, <2>2, <2>4 DEF Promise!GiveCPU, AState
  <2> QED
    BY <1>4, <2>2, <2>3, <2>5
<1>6. CASE current_active' = NULL
  <2>1. \A t \in Tid : st[t] \in Over /\ t # current_active'
    BY <1>6 DEF PassResult, Tid, NULL
  <2>2. \A t \in Tid : Shown(q, st)[t] \in {"absent", "done"}
    BY <2>1 DEF Shown, Over
  <2>3. AState' = Shown(q, st)
    <3>1. \A t \in Tid : Shown(ready', Settled')[t] = Shown(q, st)[t]
      BY <1>4, <2>1
    <3> QED
      BY <1>1, <3>1 DEF Shown
  <2>4. Promise!GiveCPU(Shown(q, st))
    BY <1>6, <2>2, <2>3 DEF Promise!GiveCPU, AState
  <2> QED
    BY <1>4, <2>1, <2>4
<1> QED
  BY <1>2, <1>5, <1>6

(* Who is blocked is suspended on the thread it waits for. *)
LEMMA BlockedSuspended ==
  ASSUME TypeOK, Rest, NEW x \in Tid, NEW t \in Tid
  PROVE  (Shown(ready, Settled)[x] = "blocked" /\ wait_tid[x] = t) <=> x \in SuspendedOn(t)
<1>1. ASSUME x \in SuspendedOn(t) PROVE Shown(ready, Settled)[x] = "blocked" /\ wait_tid[x] = t
  <2>1. Settled[x] = "STOPPED" /\ wait_tid[x] = t /\ ~Within(ready, x)
    BY <1>1 DEF Rest, Sound, Queued, SuspendedOn
  <2> QED
    BY <2>1 DEF Shown
<1>2. ASSUME Shown(ready, Settled)[x] = "blocked", wait_tid[x] = t PROVE x \in SuspendedOn(t)
  <2>1. Settled[x] \notin Over \cup {"SCHEDULED"} /\ ~Within(ready, x)
    BY <1>2 DEF Shown, Over
  <2>2. PICK u \in Tid : x \in ToSet(suspended_queue[u])
    BY <2>1 DEF Rest, Sound, Kept
  <2>3. wait_tid[x] = u
    BY <2>2 DEF Rest, Sound, Queued
  <2> QED
    BY <1>2, <2>2, <2>3 DEF SuspendedOn
<1> QED
  BY <1>1, <1>2

(* The threads in the steps of CooperativeThreads, from the passes. *)
LEMMA ShownLeaving ==
  ASSUME TypeOK, Rest, Counted, NEW t, NEW st, Leaves(t, st), NEW q
  PROVE  /\ \A x \in Tid \ {t} : (Within(q, x) <=> Within(ready, x)) =>
              Shown(q, st)[x] = Shown(ready, Settled)[x]
         /\ Shown(ready, Settled)[t] = "running"
         /\ st[t] = "FINISHED" => Shown(q, st)[t] = "done"
         /\ st[t] # "FINISHED" => Shown(q, st)[t] = IF Within(q, t) THEN "ready" ELSE "blocked"
<1>1. /\ \A x \in Tid \ {t} : Settled[x] = st[x]
      /\ Settled[t] = "SCHEDULED"
  BY LeavingStatus
<1>2. t \in Tid /\ st[t] \in {"YIELD", "STOPPED", "FINISHED"}
  BY DEF Leaves
<1> QED
  BY <1>1, <1>2 DEF Shown

LEMMA YieldMaps ==
  ASSUME IInv, IInv', NEW t, NEW st, NEW pl, Leaves(t, st), st[t] = "YIELD",
         PassResult(Enqueue(ready, t), st, pl, suspended_queue, wait_tid),
         wait_tid' = wait_tid
  PROVE  Promise!Yield(t)
<1> DEFINE q == Enqueue(ready, t)
           S == Shown(ready, Settled)
<1>1. TypeOK /\ Rest /\ Counted /\ t \in Tid /\ t = current_active
  BY DEF IInv, Leaves
<1>2. \A x \in Tid : Within(q, x) <=> Within(ready, x) \/ x = t
  BY <1>1, YieldSound
<1>3. \A x \in Tid : st[x] # "SCHEDULED"
  BY <1>1, LeavingStatus
<1>4. /\ Promise!GiveCPU(Shown(q, st))
      /\ \A x \in Tid : Shown(ready', Settled')[x] = "blocked" <=> Shown(q, st)[x] = "blocked"
  BY <1>3, PassGives
<1> HIDE DEF q
<1>5. /\ \A x \in Tid \ {t} : Shown(q, st)[x] = S[x]
      /\ S[t] = "running" /\ Shown(q, st)[t] = "ready"
  BY <1>1, <1>2, ShownLeaving
<1>6. Shown(q, st) = [S EXCEPT ![t] = "ready"]
  BY <1>5 DEF Shown
<1>7. AState = S /\ ATarget = Sought(ready, Settled, wait_tid)
  BY MappedNow DEF Mapped
<1>8. ATarget' = ATarget
  <2>1. ATarget' = Sought(ready', Settled', wait_tid')
    BY MappedNext DEF Mapped
  <2>2. \A x \in Tid : Shown(ready', Settled')[x] = "blocked" <=> S[x] = "blocked"
    BY <1>4, <1>5
  <2> HIDE DEF S
  <2>3. Sought(ready', Settled', wait_tid) = [x \in Tid |-> IF S[x] = "blocked" THEN wait_tid[x] ELSE NULL]
    BY <2>2 DEF Sought
  <2>4. Sought(ready, Settled, wait_tid) = [x \in Tid |-> IF S[x] = "blocked" THEN wait_tid[x] ELSE NULL]
    BY DEF Sought, S
  <2> QED
    BY <1>7, <2>1, <2>3, <2>4
<1> HIDE DEF S
<1>9. Promise!GiveCPU([AState EXCEPT ![t] = "ready"])
  BY <1>4, <1>6, <1>7
<1> QED
  BY <1>1, <1>8, <1>9 DEF Promise!Yield, AState, ATarget

LEMMA TargetAfter ==
  ASSUME IInv', NEW B, \A x \in Tid : Shown(ready', Settled')[x] = "blocked" <=> B[x] = "blocked"
  PROVE  /\ ATarget' = [x \in Tid |-> IF B[x] = "blocked" THEN wait_tid'[x] ELSE NULL]
<1>1. ATarget' = Sought(ready', Settled', wait_tid')
  BY MappedNext DEF Mapped
<1> QED
  BY <1>1 DEF Sought

LEMMA FinishMaps ==
  ASSUME IInv, IInv', NEW t, NEW st, NEW pl, Leaves(t, st), st[t] = "FINISHED",
         PassResult(EnqueueWaiters(ready, t), st, pl, Emptied(t), wait_tid),
         wait_tid' = wait_tid
  PROVE  Promise!Finish(t)
<1> DEFINE q == EnqueueWaiters(ready, t)
           S == Shown(ready, Settled)
           B == Shown(q, st)
<1>1. TypeOK /\ Rest /\ Counted /\ t \in Tid /\ t = current_active
  BY DEF IInv, Leaves
<1>2. \A x \in Tid : Within(q, x) <=> Within(ready, x) \/ x \in SuspendedOn(t)
  BY <1>1, FinishSound
<1>3. \A x \in Tid : st[x] # "SCHEDULED"
  BY <1>1, LeavingStatus
<1>4. /\ Promise!GiveCPU(B)
      /\ \A x \in Tid : Shown(ready', Settled')[x] = "blocked" <=> B[x] = "blocked"
  BY <1>3, PassGives
<1> HIDE DEF q
<1>5. AState = S /\ ATarget = Sought(ready, Settled, wait_tid)
  BY MappedNow DEF Mapped
<1>6. \A x \in Tid : x \in SuspendedOn(t) <=> S[x] = "blocked" /\ ATarget[x] = t
  <2>1. \A x \in Tid : S[x] = "blocked" => ATarget[x] = wait_tid[x]
    BY <1>5 DEF Sought
  <2> QED
    BY <1>1, <2>1, BlockedSuspended
<1>7. S[t] = "running" /\ B[t] = "done"
  BY <1>1, ShownLeaving
<1>8. ASSUME NEW x \in Tid \ {t}
      PROVE  B[x] = IF S[x] = "blocked" /\ ATarget[x] = t THEN "ready" ELSE S[x]
  <2>1. CASE x \in SuspendedOn(t)
    <3>1. Settled[x] = "STOPPED" /\ Settled[x] = st[x]
      BY <1>1, <2>1, LeavingStatus DEF Rest, Sound, Queued, SuspendedOn
    <3>2. B[x] = "ready"
      BY <1>2, <2>1, <3>1 DEF Shown
    <3> QED
      BY <1>6, <2>1, <3>2
  <2>2. CASE x \notin SuspendedOn(t)
    <3>1. B[x] = S[x]
      BY <1>1, <1>2, <2>2, ShownLeaving
    <3> QED
      BY <1>6, <2>2, <3>1
  <2> QED
    BY <2>1, <2>2
<1>9. B = [x \in Tid |->
             IF x = t THEN "done"
             ELSE IF S[x] = "blocked" /\ ATarget[x] = t THEN "ready"
             ELSE S[x]]
  <2>1. B = [x \in Tid |-> B[x]]
    BY DEF Shown
  <2> HIDE DEF S, B
  <2> QED
    BY <1>7, <1>8, <2>1
<1>10. ATarget' = [x \in Tid |-> IF ATarget[x] = t THEN NULL ELSE ATarget[x]]
  <2>1. ATarget' = [x \in Tid |-> IF B[x] = "blocked" THEN wait_tid[x] ELSE NULL]
    BY <1>4, TargetAfter
  <2>2. \A x \in Tid : ATarget[x] = IF S[x] = "blocked" THEN wait_tid[x] ELSE NULL
    BY <1>5 DEF Sought
  <2>3. t # NULL
    BY <1>1 DEF Tid, NULL
  <2> HIDE DEF S, B
  <2>4. ASSUME NEW x \in Tid
        PROVE  (IF B[x] = "blocked" THEN wait_tid[x] ELSE NULL)
                 = IF ATarget[x] = t THEN NULL ELSE ATarget[x]
    <3>1. CASE x = t
      BY <1>7, <2>2, <2>3, <3>1
    <3>2. CASE x # t
      BY <1>8, <2>2, <2>3, <3>2
    <3> QED
      BY <3>1, <3>2
  <2> QED
    BY <2>1, <2>4
<1> HIDE DEF S, B
<1>11. Promise!GiveCPU([x \in Tid |->
                          IF x = t THEN "done"
                          ELSE IF AState[x] = "blocked" /\ ATarget[x] = t THEN "ready"
                          ELSE AState[x]])
  BY <1>4, <1>5, <1>9
<1> QED
  BY <1>1, <1>10, <1>11 DEF Promise!Finish, AState, ATarget

LEMMA JoinMaps ==
  ASSUME IInv, IInv', NEW t, NEW st, NEW pl, Leaves(t, st), st[t] = "STOPPED",
         NEW u \in Tid, u = wait_tid[t], Settled[u] \notin Over, ~WaitsFor(u, t),
         PassResult(ready, st, pl, Joined(t, u), wait_tid),
         wait_tid' = wait_tid
  PROVE  Promise!Join(t, u)
<1> DEFINE S == Shown(ready, Settled)
           B == Shown(ready, st)
<1>1. TypeOK /\ Rest /\ Counted /\ t \in Tid /\ t = current_active
  BY DEF IInv, Leaves
<1>2. \A x \in Tid : st[x] # "SCHEDULED"
  BY <1>1, LeavingStatus
<1>3. /\ Promise!GiveCPU(B)
      /\ \A x \in Tid : Shown(ready', Settled')[x] = "blocked" <=> B[x] = "blocked"
  BY <1>2, PassGives
<1>4. AState = S /\ ATarget = Sought(ready, Settled, wait_tid)
  BY MappedNow DEF Mapped
<1>5. /\ \A x \in Tid \ {t} : B[x] = S[x]
      /\ S[t] = "running" /\ B[t] = "blocked"
  BY <1>1, RunningUnqueued, ShownLeaving
<1>6. S[u] \in {"ready", "blocked"}
  <2>1. u # t
    BY DEF WaitsFor
  <2>2. Settled[u] # "SCHEDULED"
    BY <1>1, <2>1, LeavingStatus
  <2> QED
    BY <2>2 DEF Shown, Over
<1>7. B = [S EXCEPT ![t] = "blocked"]
  BY <1>5 DEF Shown
<1>8. ATarget' = [ATarget EXCEPT ![t] = u]
  <2>1. ATarget' = [x \in Tid |-> IF B[x] = "blocked" THEN wait_tid[x] ELSE NULL]
    BY <1>3, TargetAfter
  <2>2. ATarget = [x \in Tid |-> IF S[x] = "blocked" THEN wait_tid[x] ELSE NULL]
    BY <1>4 DEF Sought
  <2> HIDE DEF S, B
  <2> QED
    BY <1>1, <1>5, <2>1, <2>2
<1> HIDE DEF S, B
<1>9. Promise!GiveCPU([AState EXCEPT ![t] = "blocked"])
  BY <1>3, <1>4, <1>7
<1> QED
  BY <1>1, <1>4, <1>6, <1>8, <1>9 DEF Promise!Join, AState, ATarget

LEMMA MainMaps ==
  ASSUME IInv, IInv', current_active = NULL,
         PassResult(ready, status, place, suspended_queue, wait_tid), wait_tid' = wait_tid
  PROVE  Promise!MainWaits
<1>1. Settled = status /\ \A t \in Tid : status[t] # "SCHEDULED"
  BY MainSound DEF IInv
<1>2. /\ Promise!GiveCPU(Shown(ready, Settled))
      /\ \A x \in Tid : Shown(ready', Settled')[x] = "blocked" <=> Shown(ready, Settled)[x] = "blocked"
  BY <1>1, PassGives
<1>3. AState = Shown(ready, Settled) /\ ATarget = Sought(ready, Settled, wait_tid)
  BY MappedNow DEF Mapped
<1>4. ATarget' = ATarget
  <2>1. ATarget' = [x \in Tid |-> IF Shown(ready, Settled)[x] = "blocked" THEN wait_tid[x] ELSE NULL]
    BY <1>2, TargetAfter
  <2> QED
    BY <1>3, <2>1 DEF Sought
<1>5. Promise!GiveCPU(AState)
  BY <1>2, <1>3
<1> QED
  BY <1>4, <1>5 DEF Promise!MainWaits, AState, ATarget

LEMMA CreateMaps ==
  ASSUME IInv, IInv', NEW p \in Priorities, thread_create(p)
  PROVE  Promise!Create(thread_count + 1)
<1> DEFINE n == thread_count + 1
           S == Shown(ready, Settled)
           B == Shown(ready', Settled')
<1>1. /\ n \in Tid /\ Settled[n] = "NONE"
      /\ Settled' = [Settled EXCEPT ![n] = "CREATED"]
      /\ \A x \in Tid : Within(ready', x) <=> Within(ready, x) \/ x = n
  BY CreateStep
<1>2. wait_tid' = wait_tid /\ current_active' = current_active
  BY DEF thread_create
<1> HIDE DEF n
<1>3. Settled'[n] = "CREATED" /\ \A x \in Tid \ {n} : Settled'[x] = Settled[x]
  BY <1>1, SettledStatus DEF IInv
<1>4. S[n] = "absent" /\ B[n] = "ready" /\ \A x \in Tid \ {n} : B[x] = S[x]
  BY <1>1, <1>3 DEF Shown
<1>5. AState = S /\ ATarget = Sought(ready, Settled, wait_tid) /\ AState' = B
  BY MappedNow, MappedNext DEF Mapped
<1>6. B = [S EXCEPT ![n] = "ready"]
  BY <1>1, <1>4 DEF Shown
<1>7. ATarget' = ATarget
  <2>1. ATarget' = [x \in Tid |-> IF B[x] = "blocked" THEN wait_tid[x] ELSE NULL]
    BY <1>2, TargetAfter
  <2>2. ATarget = [x \in Tid |-> IF S[x] = "blocked" THEN wait_tid[x] ELSE NULL]
    BY <1>5 DEF Sought
  <2> HIDE DEF S, B
  <2> QED
    BY <1>4, <2>1, <2>2
<1> HIDE DEF S, B
<1> QED
  BY <1>2, <1>4, <1>5, <1>6, <1>7 DEF Promise!Create, AState, ATarget, n

(* Everything up to a swapcontext, and what concerns the process, is no step. *)
LEMMA StutterMaps ==
  ASSUME IInv, IInv', Settled' = Settled,
         UNCHANGED <<ready, current_active>>,
         \A t \in Tid : t # current_active => wait_tid'[t] = wait_tid[t]
  PROVE  UNCHANGED <<AState, ATarget, current_active>>
<1>1. /\ AState = Shown(ready, Settled) /\ ATarget = Sought(ready, Settled, wait_tid)
      /\ AState' = Shown(ready', Settled') /\ ATarget' = Sought(ready', Settled', wait_tid')
  BY MappedNow, MappedNext DEF Mapped
<1>2. AState' = AState
  BY <1>1
<1>3. \A t \in Tid : t = current_active => Shown(ready, Settled)[t] = "running"
  BY SettledStatus DEF IInv, Shown
<1>4. Sought(ready, Settled, wait_tid') = Sought(ready, Settled, wait_tid)
  BY <1>3 DEF Sought
<1>5. ATarget' = ATarget
  BY <1>1, <1>4
<1> QED
  BY <1>2, <1>5

AStep == Promise!ANext \/ UNCHANGED <<AState, ATarget, current_active>>

LEMMA SwitchMaps ==
  ASSUME IInv, IInv', NEW t \in Tid, NEW lucky \in Lucky, Switch(t, lucky)
  PROVE  AStep
<1>1. /\ InCall(t) /\ wait_tid' = wait_tid
      /\ status[t] \in {"YIELD", "STOPPED", "FINISHED"}
  BY DEF Switch, callVars, threadVars, EndsAndWakes, Yields, Stops
<1>2. Leaves(t, status) /\ place \in [Tid -> Place]
      /\ \A x \in Tid : place[x] = "join" <=> status[x] = "STOPPED"
  BY <1>1, InCallLeaves
<1>3. CASE EndsAndWakes(t, lucky)
  <2>1. /\ status[t] = "FINISHED"
        /\ ScheduleFrom(EnqueueWaiters(ready, t), status, place, lucky)
    BY <1>3 DEF EndsAndWakes
  <2>2. Promise!Finish(t)
    BY <1>1, <1>2, <2>1, FinishPass, FinishMaps
  <2> QED
    BY <2>2 DEF AStep, Promise!ANext
<1>4. CASE Yields(t, lucky)
  <2>1. status[t] = "YIELD" /\ ScheduleFrom(Enqueue(ready, t), status, place, lucky)
    BY <1>4 DEF Yields
  <2>2. Promise!Yield(t)
    BY <1>1, <1>2, <2>1, YieldPass, YieldMaps
  <2> QED
    BY <2>2 DEF AStep, Promise!ANext
<1>5. CASE Stops(t, lucky)
  <2>1. status[t] = "STOPPED" /\ ScheduleFrom(ready, status, place, lucky)
    BY <1>5 DEF Stops
  <2>2. PICK u \in Tid : u = wait_tid[t] /\ Settled[u] \notin Over /\ ~WaitsFor(u, t)
    BY <1>2, <2>1 DEF IInv, PendingJoin, Leaves
  <2>3. PassResult(ready, status, place, Joined(t, u), wait_tid)
    BY <1>2, <2>1, <2>2, StopPass
  <2>4. Promise!Join(t, u)
    BY <1>1, <1>2, <2>1, <2>2, <2>3, JoinMaps
  <2>5. Promise!ANext
    BY <2>2, <2>4 DEF Promise!ANext
  <2> QED
    BY <2>5 DEF AStep
<1> QED
  BY <1>3, <1>4, <1>5 DEF Switch

LEMMA PreemptedMaps ==
  ASSUME IInv, IInv', NEW t \in Tid, NEW lucky \in Lucky,
         TickBeforeSwitch(t, lucky) \/ TickInScheduler(t, lucky)
  PROVE  AStep
<1>1. PICK p \in Odd : Preempted(t, p, lucky)
  BY TickedPlaces DEF TickBeforeSwitch, TickInScheduler, Odd
<1>2. Runs(t) /\ wait_tid' = wait_tid
  BY <1>1 DEF TickBeforeSwitch, TickInScheduler, Preempted, callVars, threadVars
<1>3. /\ Leaves(t, Yielded(t)) /\ Yielded(t)[t] = "YIELD"
      /\ PassResult(Enqueue(ready, t), Yielded(t), Hit(t, p), suspended_queue, wait_tid)
  BY <1>1, <1>2, PreemptedPass
<1>4. Promise!Yield(t)
  BY <1>2, <1>3, YieldMaps
<1> QED
  BY <1>4 DEF AStep, Promise!ANext

LEMMA NextMaps ==
  ASSUME IInv, [Next]_vars
  PROVE  AStep
<1>1. IInv'
  BY NextKeeps
<1>2. ASSUME NEW t \in Tid, Calls(t) \/ Tick(t) PROVE AStep
  <2>1. Settled' = Settled
    BY <1>2, CallsStep
  <2>2. /\ UNCHANGED <<ready, current_active>> /\ t = current_active
        /\ wait_tid' = wait_tid \/ \E u \in Tid : wait_tid' = [wait_tid EXCEPT ![t] = u]
    BY <1>2 DEF Calls, Tick, thread_yield, thread_returns, thread_join, Reaches, InOwnCode, Runs
  <2>3. \A x \in Tid : x # current_active => wait_tid'[x] = wait_tid[x]
    BY <2>2 DEF IInv, TypeOK
  <2> QED
    BY <1>1, <2>1, <2>2, <2>3, StutterMaps DEF AStep
<1>3. ASSUME \/ JoinUnknown
             \/ MainGoesOn
             \/ thread_libterminate
             \/ TickAfterEnd
             \/ \E t \in Tid : SwitchAgain(t) \/ FallsOff(t) \/ TickOnTheWayToMain(t)
             \/ UNCHANGED vars
      PROVE  AStep
  <2>1. Settled' = Settled
    BY <1>3, ProcessStep
  <2>2. UNCHANGED <<ready, current_active, wait_tid>>
    BY <1>3 DEF JoinUnknown, MainGoesOn, thread_libterminate, TickAfterEnd, SwitchAgain, FallsOff,
                TickOnTheWayToMain, vars, threadVars, callVars
  <2> QED
    BY <1>1, <2>1, <2>2, StutterMaps DEF AStep
<1>4. ASSUME NEW p \in Priorities, thread_create(p) PROVE AStep
  <2>1. Promise!Create(thread_count + 1) /\ thread_count + 1 \in Tid
    BY <1>1, <1>4, CreateMaps, CreateStep
  <2> QED
    BY <2>1 DEF AStep, Promise!ANext
<1>5. ASSUME NEW lucky \in Lucky, Pass(lucky) PROVE AStep
  <2>1. ASSUME NEW t \in Tid, Switch(t, lucky) PROVE AStep
    BY <1>1, <2>1, SwitchMaps
  <2>2. ASSUME NEW t \in Tid, TickBeforeSwitch(t, lucky) \/ TickInScheduler(t, lucky)
        PROVE  AStep
    BY <1>1, <2>2, PreemptedMaps
  <2>3. CASE MainSwitches(lucky) \/ MainTick(lucky)
    <3>1. /\ ScheduleFrom(ready, status, place, lucky)
          /\ current_active = NULL /\ wait_tid' = wait_tid
      BY <2>3 DEF MainSwitches, MainTick, GivesCPU, MainRuns, threadVars
    <3>2. Promise!MainWaits
      BY <1>1, <3>1, MainPass, MainMaps
    <3> QED
      BY <3>2 DEF AStep, Promise!ANext
  <2> QED
    BY <1>5, <2>1, <2>2, <2>3 DEF Pass
<1> QED
  BY <1>2, <1>3, <1>4, <1>5 DEF Next

LEMMA InitMaps == Init => Promise!AInit
<1> SUFFICES ASSUME Init PROVE Promise!AInit
  OBVIOUS
<1>1. \A t \in Tid : StateOf(t) = "absent"
  BY DEF Init, StateOf
<1> QED
  BY <1>1 DEF Init, Promise!AInit

-----------------------------------------------------------------------------
(* The theorems. *)

(* Every variable of the preemptive library has its type in every reachable state:
   in particular what the queues and current_active hold are tids handed out. *)
THEOREM TypeCorrect == Spec => []TypeOK
<1>1. IInv => TypeOK
  BY DEF IInv
<1> QED
  BY <1>1, Invariance, PTL

(* However many threads there are and wherever the ticks of the timer come, a thread
   is once in one ready queue, that of its priority, or once on one suspended_queue,
   or running, or finished. *)
THEOREM NobodyQueuedTwice == Spec => []QueuedOnce
<1>1. ASSUME IInv PROVE QueuedOnce
  <2>1. /\ \A p \in Priority : NoRepeat(ready[p]) /\ \A t \in ToSet(ready[p]) : priority[t] = p
        /\ \A u \in Tid : NoRepeat(suspended_queue[u])
    BY <1>1 DEF IInv, Rest, Orderly, Sound, Queued
  <2>2. TypeOK
    BY <1>1 DEF IInv
  <2>3. \A u \in Tid : SuspendedOn(u) \subseteq Tid
    BY <2>2 DEF TypeOK, SuspendedOn, ToSet
  <2>4. /\ \A t \in Tid : Within(ready, t) => Settled[t] \in Waiting
        /\ \A t, u \in Tid : t \in SuspendedOn(u) =>
             Settled[t] = "STOPPED" /\ wait_tid[t] = u /\ ~Within(ready, t)
    BY <1>1 DEF IInv, Rest, Sound, Queued, SuspendedOn
  <2>5. \A u, v \in Tid : u # v => SuspendedOn(u) \cap SuspendedOn(v) = {}
    BY <2>3, <2>4
  <2>6. \A t \in Tid : status[t] = "FINISHED" \/ t = current_active => Settled[t] \in {"FINISHED", "SCHEDULED"}
    BY <2>2, SettledStatus
  <2>7. \A t \in Tid : InReady(t) \/ status[t] = "FINISHED" \/ t = current_active =>
           \A u \in Tid : t \notin SuspendedOn(u)
    BY <2>4, <2>6, InReadyWithin
  <2>8. \A t \in Tid : status[t] = "FINISHED" \/ t = current_active => ~InReady(t)
    BY <2>4, <2>6, InReadyWithin DEF Waiting
  <2> QED
    BY <2>1, <2>5, <2>7, <2>8 DEF QueuedOnce, NoRepeat
<1> QED
  BY <1>1, Invariance, PTL

(* Whenever main goes on behind a call that has returned EXIT_SUCCESS, at first or sent
   back there by a tick, every thread there is has finished: what a tick makes main lose
   or repeat concerns no thread. *)
THEOREM MainIsToldAtTheEnd == Spec => []SuccessAtTheEnd
<1>1. ASSUME IInv PROVE SuccessAtTheEnd
  <2> SUFFICES ASSUME MainRuns, main_result = EXIT_SUCCESS, NEW t \in Created
               PROVE  status[t] = "FINISHED"
    BY DEF SuccessAtTheEnd
  <2>1. t \in Tid /\ ~(t > thread_count)
    BY <1>1, ConstantsAssumption DEF IInv, TypeOK, Created, Tid, ConstantsAssumption
  <2>2. status[t] \in Over /\ status[t] # "NONE"
    BY <1>1, <2>1 DEF IInv, MainTold, Counted, MainRuns
  <2> QED
    BY <2>2 DEF Over
<1> QED
  BY <1>1, Invariance, PTL

(* No tick, wherever it comes, lets a thread go on behind thread_join before the
   thread it joined has finished. *)
THEOREM JoinsAreKept == Spec => JoinReturnsAfterFinish
<1>1. IInv /\ [Next]_vars => [JoinStep]_vars
  BY NextKeeps
<1>2. Spec => [][JoinStep]_vars
  BY <1>1, Invariance, PTL DEF Spec
<1> QED
  BY <1>2 DEF JoinReturnsAfterFinish, JoinStep

(* The library under _PRIORITY implements CooperativeThreads, for every number of
   threads and with a tick of the timer at every point where SIGALRM is not blocked:
   main gets the CPU only when every thread is done, a join blocks until its target
   is done, the end of a thread frees all who wait for it, and each tick is a yield. *)
THEOREM PromiseKept == Spec => KeepsPromise
<1>1. IInv /\ [Next]_vars => [Promise!ANext]_(Promise!avars)
  <2> SUFFICES ASSUME IInv, [Next]_vars PROVE Promise!ANext \/ UNCHANGED Promise!avars
    OBVIOUS
  <2> QED
    BY NextMaps DEF AStep, AState, ATarget, Promise!avars
<1>2. Init => Promise!AInit
  BY InitMaps
<1>3. Spec => Promise!ASpec
  BY <1>1, <1>2, Invariance, PTL DEF Spec, Promise!ASpec
<1> QED
  BY <1>3 DEF KeepsPromise
=============================================================================
