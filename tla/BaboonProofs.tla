---------------------------- MODULE BaboonProofs ----------------------------
(***************************************************************************)
(* Theorems of Baboon39 and Baboon40, for every finite set of baboons.     *)
(* The inductive invariant IInv says where each lock, each counter and the *)
(* rope is, by the places of the baboons.  Every step of a baboon moves it *)
(* from one place to another: the lemmas on a move say which parts of IInv *)
(* it cannot disturb, and one lemma per kind of step does the rest.        *)
(* Baboon40 has the same steps in another order: IInv still holds, and the *)
(* turnstile lets one baboon at a time behind it.                          *)
(***************************************************************************)
EXTENDS Baboon40, FiniteSetTheorems, TLAPS

-----------------------------------------------------------------------------
(* The invariant. *)

(* All places of baboon39.c and baboon40.c. *)
Place == Steps \cup {"wait_starvation", "post_starvation"}

(* Places inside a critical section of directionLock. *)
Inside == {"load_up", "store_up", "test_up", "wait_rope", "on_rope",
           "load_down", "store_down", "test_down", "post_rope", "post_leave"}

(* Places behind the increment of the counter and before its decrement. *)
Passed == {"test_up", "wait_rope", "on_rope", "post_starvation", "cross", "wait_leave",
           "load_down", "store_down"}

(* Places at which the baboon's direction holds the rope. *)
Holding == {"on_rope", "post_starvation", "cross", "wait_leave", "load_down", "store_down",
            "test_down", "post_rope"}

Typed ==
  /\ parent \in {"forking", "waiting", "done", "failed"}
  /\ pc \in [Baboon -> Place]
  /\ dir \in [Baboon -> Direction]
  /\ register \in [Baboon -> Nat]
  /\ directionLock \in [Direction -> {0, 1}]
  /\ ropeLock \in {0, 1}
  /\ twoSideBaboons \in [Direction -> Nat]

(* A direction's lock is taken exactly when one baboon of it is inside. *)
Locks ==
  /\ \A b \in Baboon : pc[b] \in Inside => directionLock[dir[b]] = 0
  /\ \A b, c \in Baboon : pc[b] \in Inside /\ pc[c] \in Inside /\ dir[b] = dir[c] => b = c
  /\ \A d \in Direction :
       directionLock[d] = 0 => \E b \in Baboon : pc[b] \in Inside /\ dir[b] = d

In(d) == {b \in Baboon : dir[b] = d /\ pc[b] \in Passed}

(* The counters, and what those inside know of theirs. *)
Counters ==
  /\ \A d \in Direction : twoSideBaboons[d] = Cardinality(In(d))
  /\ \A b \in Baboon : pc[b] \in {"store_up", "store_down"} => register[b] = twoSideBaboons[dir[b]]
  /\ \A b \in Baboon : pc[b] = "wait_rope" => twoSideBaboons[dir[b]] = 1
  /\ \A b \in Baboon : pc[b] = "post_rope" => twoSideBaboons[dir[b]] = 0

(* The rope is held exactly when a baboon's direction holds it, and by one only. *)
Rope ==
  /\ ropeLock = 1 => \A b \in Baboon : pc[b] \notin Holding
  /\ ropeLock = 0 => \E b \in Baboon : pc[b] \in Holding
  /\ \A b, c \in Baboon : pc[b] \in Holding /\ pc[c] \in Holding => dir[b] = dir[c]

Ended == parent = "done" => \A b \in Baboon : pc[b] = "done"

IInv == Typed /\ Locks /\ Counters /\ Rope /\ Ended

-----------------------------------------------------------------------------
(* A baboon moves from its place to q. *)

Move(b, q) == pc' = [pc EXCEPT ![b] = q] /\ UNCHANGED <<parent, dir>>

LEMMA InFinite ==
  ASSUME NEW d
  PROVE  IsFiniteSet(In(d)) /\ Cardinality(In(d)) \in Nat
<1>1. In(d) \in SUBSET Baboon
  BY DEF In
<1> QED
  BY <1>1, BaboonAssumption, FS_Subset, FS_CardinalityType

(* Only the baboon that moves may leave or join the ones its counter counts. *)
LEMMA InAfter ==
  ASSUME Typed, NEW b \in Baboon, NEW q \in Place, Move(b, q), NEW d \in Direction
  PROVE  In(d)' = IF d # dir[b] THEN In(d)
                  ELSE IF q \in Passed THEN In(d) \cup {b} ELSE In(d) \ {b}
  BY DEF Typed, Move, In

LEMMA LocksKept ==
  ASSUME IInv, NEW b \in Baboon, NEW q \in Place, Move(b, q),
         UNCHANGED directionLock, pc[b] \in Inside <=> q \in Inside
  PROVE  Locks'
<1>1. \A c \in Baboon : pc'[c] \in Inside <=> pc[c] \in Inside
  BY DEF IInv, Typed, Move
<1> QED
  BY <1>1 DEF IInv, Locks, Move

LEMMA CountersKept ==
  ASSUME IInv, NEW b \in Baboon, NEW q \in Place, Move(b, q),
         UNCHANGED twoSideBaboons, pc[b] \in Passed <=> q \in Passed,
         \A c \in Baboon \ {b} : register'[c] = register[c],
         q \in {"store_up", "store_down"} => register'[b] = twoSideBaboons[dir[b]],
         q = "wait_rope" => twoSideBaboons[dir[b]] = 1,
         q = "post_rope" => twoSideBaboons[dir[b]] = 0
  PROVE  Counters'
<1>1. \A d \in Direction : In(d)' = In(d)
  BY InAfter DEF IInv, In, Typed
<1>2. \A c \in Baboon : pc'[c] = IF c = b THEN q ELSE pc[c]
  BY DEF IInv, Typed, Move
<1>3. \A d \in Direction : twoSideBaboons'[d] = Cardinality(In(d)')
  BY <1>1 DEF IInv, Counters
<1>4. \A c \in Baboon :
        /\ pc'[c] \in {"store_up", "store_down"} => register'[c] = twoSideBaboons'[dir'[c]]
        /\ pc'[c] = "wait_rope" => twoSideBaboons'[dir'[c]] = 1
        /\ pc'[c] = "post_rope" => twoSideBaboons'[dir'[c]] = 0
  BY <1>2 DEF IInv, Counters, Move
<1> QED
  BY <1>3, <1>4 DEF Counters

(* A baboon may join those that hold the rope if one of its direction does, and
   leave them if another stays. *)
LEMMA RopeKept ==
  ASSUME IInv, NEW b \in Baboon, NEW q \in Place, Move(b, q), UNCHANGED ropeLock,
         q \in Holding => \E c \in Baboon : pc[c] \in Holding /\ dir[c] = dir[b],
         pc[b] \in Holding /\ q \notin Holding => \E c \in Baboon \ {b} : pc[c] \in Holding
  PROVE  Rope'
<1>1. \A c \in Baboon : pc'[c] = IF c = b THEN q ELSE pc[c]
  BY DEF IInv, Typed, Move
<1>2. ropeLock' = 1 => \A c \in Baboon : pc'[c] \notin Holding
  BY <1>1 DEF IInv, Rope
<1>3. ropeLock' = 0 => \E c \in Baboon : pc'[c] \in Holding
  BY <1>1 DEF IInv, Rope
<1>4. \A x, y \in Baboon : pc'[x] \in Holding /\ pc'[y] \in Holding => dir'[x] = dir'[y]
  BY <1>1 DEF IInv, Rope, Move
<1> QED
  BY <1>2, <1>3, <1>4 DEF Rope

LEMMA EndedKept ==
  ASSUME IInv, NEW b \in Baboon, NEW q \in Place, Move(b, q), pc[b] # "done"
  PROVE  Ended'
  BY DEF IInv, Ended, Move

-----------------------------------------------------------------------------
(* Steps that change nothing but the place, or the register too. *)

LEMMA LocalStep ==
  ASSUME IInv, NEW b \in Baboon, NEW q \in Place, Move(b, q),
         UNCHANGED <<register, shared>>,
         pc[b] # "done",
         pc[b] \in Inside <=> q \in Inside,
         pc[b] \in Passed <=> q \in Passed,
         pc[b] \in Holding <=> q \in Holding,
         q \notin {"store_up", "store_down", "wait_rope", "post_rope"}
  PROVE  IInv'
<1>1. Typed'
  BY DEF IInv, Typed, Move, shared
<1>2. Locks'
  BY LocksKept DEF shared
<1>3. Counters'
  BY CountersKept DEF shared
<1>4. Rope'
  BY RopeKept DEF shared
<1>5. Ended'
  BY EndedKept
<1> QED
  BY <1>1, <1>2, <1>3, <1>4, <1>5 DEF IInv

LEMMA ArriveStep ==
  ASSUME IInv, NEW b \in Baboon, NEW next \in {"wait_direction", "wait_starvation"},
         Arrive(b, next)
  PROVE  IInv'
<1>1. next \in Place /\ Move(b, next) /\ pc[b] = "arriving" /\ UNCHANGED <<register, shared>>
  BY DEF Arrive, Goto, Move, Place, Steps
<1> QED
  BY <1>1, LocalStep DEF Inside, Passed, Holding

LEMMA CrossStep ==
  ASSUME IInv, NEW b \in Baboon, Cross(b)
  PROVE  IInv'
<1>1. /\ "wait_leave" \in Place /\ Move(b, "wait_leave") /\ pc[b] = "cross"
      /\ UNCHANGED <<register, shared>>
  BY DEF Cross, Goto, Move, Place, Steps
<1> QED
  BY <1>1, LocalStep DEF Inside, Passed, Holding

LEMMA LoadStep ==
  ASSUME IInv, NEW b \in Baboon, LoadUp(b) \/ LoadDown(b)
  PROVE  IInv'
<1> DEFINE up == pc[b] = "load_up"
           q == IF up THEN "store_up" ELSE "store_down"
<1>1. /\ q \in Place /\ Move(b, q) /\ pc[b] = (IF up THEN "load_up" ELSE "load_down")
      /\ register' = [register EXCEPT ![b] = twoSideBaboons[dir[b]]] /\ UNCHANGED shared
  BY DEF LoadUp, LoadDown, Load, Goto, Move, Place, Steps
<1>2. register'[b] = twoSideBaboons[dir[b]] /\ \A c \in Baboon \ {b} : register'[c] = register[c]
  BY <1>1 DEF IInv, Typed
<1>3. Typed'
  BY <1>1 DEF IInv, Typed, Move, shared
<1>4. Locks'
  BY <1>1, LocksKept DEF shared, Inside
<1>5. Counters'
  BY <1>1, <1>2, CountersKept DEF shared, Passed
<1>6. Rope'
  BY <1>1, RopeKept DEF shared, Holding
<1>7. Ended'
  BY <1>1, EndedKept
<1> QED
  BY <1>3, <1>4, <1>5, <1>6, <1>7 DEF IInv

-----------------------------------------------------------------------------
(* The locks. *)

LEMMA WaitStep ==
  ASSUME IInv, NEW b \in Baboon, WaitDirection(b) \/ WaitLeave(b)
  PROVE  IInv'
<1> DEFINE up == pc[b] = "wait_direction"
           q == IF up THEN "load_up" ELSE "load_down"
           d == dir[b]
<1>1. /\ q \in Place /\ Move(b, q) /\ pc[b] = (IF up THEN "wait_direction" ELSE "wait_leave")
      /\ directionLock[d] > 0 /\ directionLock' = [directionLock EXCEPT ![d] = @ - 1]
      /\ UNCHANGED <<register, ropeLock, twoSideBaboons>>
  BY DEF WaitDirection, WaitLeave, WaitLock, Goto, Move, Place, Steps
<1>2. /\ d \in Direction /\ directionLock[d] = 1 /\ directionLock'[d] = 0
      /\ \A e \in Direction \ {d} : directionLock'[e] = directionLock[e]
  BY <1>1 DEF IInv, Typed
<1>3. Typed'
  BY <1>1, <1>2 DEF IInv, Typed, Move
<1>4. Locks'
  <2>1. \A c \in Baboon : pc'[c] \in Inside <=> (c = b \/ pc[c] \in Inside)
    BY <1>1 DEF IInv, Typed, Move, Inside
  <2>2. \A c \in Baboon : dir[c] = d => pc[c] \notin Inside
    BY <1>2 DEF IInv, Locks
  <2>3. dir' = dir /\ \A c \in Baboon : dir[c] \in Direction
    BY <1>1 DEF Move, IInv, Typed
  <2> QED
    BY <1>2, <2>1, <2>2, <2>3 DEF IInv, Locks
<1>5. Counters'
  BY <1>1, CountersKept DEF Passed
<1>6. Rope'
  BY <1>1, RopeKept DEF Holding
<1>7. Ended'
  BY <1>1, EndedKept
<1> QED
  BY <1>3, <1>4, <1>5, <1>6, <1>7 DEF IInv

LEMMA PostStep ==
  ASSUME IInv, NEW b \in Baboon, NEW next \in {"cross", "post_starvation"},
         PostDirection(b, next) \/ PostLeave(b)
  PROVE  IInv'
<1> DEFINE up == pc[b] = "on_rope"
           q == IF up THEN next ELSE "done"
           d == dir[b]
<1>1. /\ q \in Place /\ Move(b, q) /\ pc[b] = (IF up THEN "on_rope" ELSE "post_leave")
      /\ directionLock' = [directionLock EXCEPT ![d] = @ + 1]
      /\ UNCHANGED <<register, ropeLock, twoSideBaboons>>
  BY DEF PostDirection, PostLeave, PostLock, Goto, Move, Place, Steps
<1>2. pc[b] \in Inside /\ q \notin Inside
  BY <1>1 DEF Inside
<1>3. /\ d \in Direction /\ directionLock[d] = 0 /\ directionLock'[d] = 1
      /\ \A e \in Direction \ {d} : directionLock'[e] = directionLock[e]
  BY <1>1, <1>2 DEF IInv, Typed, Locks
<1>4. Typed'
  BY <1>1, <1>3 DEF IInv, Typed, Move
<1>5. Locks'
  <2>1. \A c \in Baboon : pc'[c] \in Inside <=> (c # b /\ pc[c] \in Inside)
    BY <1>1, <1>2 DEF IInv, Typed, Move
  <2>2. \A c \in Baboon : dir[c] = d /\ pc[c] \in Inside => c = b
    BY <1>2 DEF IInv, Locks
  <2>3. dir' = dir /\ \A c \in Baboon : dir[c] \in Direction
    BY <1>1 DEF Move, IInv, Typed
  <2> QED
    BY <1>3, <2>1, <2>2, <2>3 DEF IInv, Locks
<1>6. Counters'
  BY <1>1, CountersKept DEF Passed
<1>7. Rope'
  BY <1>1, RopeKept DEF Holding
<1>8. Ended'
  BY <1>1, EndedKept
<1> QED
  BY <1>4, <1>5, <1>6, <1>7, <1>8 DEF IInv

-----------------------------------------------------------------------------
(* The counters. *)

LEMMA StoreUpStep ==
  ASSUME IInv, NEW b \in Baboon, StoreUp(b)
  PROVE  IInv'
<1> DEFINE d == dir[b]
<1>1. /\ "test_up" \in Place /\ Move(b, "test_up") /\ pc[b] = "store_up"
      /\ twoSideBaboons' = [twoSideBaboons EXCEPT ![d] = register[b] + 1]
      /\ UNCHANGED <<register, directionLock, ropeLock>>
  BY DEF StoreUp, Store, Goto, Move, Place, Steps
<1>2. d \in Direction /\ \A c \in Baboon : pc'[c] = IF c = b THEN "test_up" ELSE pc[c]
  BY <1>1 DEF IInv, Typed, Move
<1>3. /\ twoSideBaboons'[d] = twoSideBaboons[d] + 1
      /\ \A e \in Direction \ {d} : twoSideBaboons'[e] = twoSideBaboons[e]
  BY <1>1, <1>2 DEF IInv, Typed, Counters
<1>4. Typed'
  BY <1>1 DEF IInv, Typed, Move
<1>5. Locks'
  BY <1>1, LocksKept DEF Inside
<1>6. Counters'
  <2>1. \A e \in Direction : twoSideBaboons'[e] = Cardinality(In(e)')
    <3> SUFFICES ASSUME NEW e \in Direction PROVE twoSideBaboons'[e] = Cardinality(In(e)')
      OBVIOUS
    <3>1. CASE e # d
      BY <1>1, <1>3, <3>1, InAfter DEF IInv, Counters
    <3>2. CASE e = d
      <4>1. In(e)' = In(e) \cup {b}
        BY <1>1, <3>2, InAfter DEF IInv, Passed
      <4>2. b \notin In(e)
        BY <1>1 DEF In, Passed
      <4>3. Cardinality(In(e) \cup {b}) = Cardinality(In(e)) + 1
        BY <4>2, InFinite, FS_AddElement
      <4> QED
        BY <1>3, <3>2, <4>1, <4>3 DEF IInv, Counters
    <3> QED
      BY <3>1, <3>2
  <2>2. \A c \in Baboon : c # b /\ pc[c] \in Inside => dir[c] # d
    BY <1>1 DEF IInv, Locks, Inside
  <2>3. \A c \in Baboon :
          /\ pc'[c] \in {"store_up", "store_down"} => register'[c] = twoSideBaboons'[dir'[c]]
          /\ pc'[c] = "wait_rope" => twoSideBaboons'[dir'[c]] = 1
          /\ pc'[c] = "post_rope" => twoSideBaboons'[dir'[c]] = 0
    <3> SUFFICES ASSUME NEW c \in Baboon, c # b, pc[c] \in Inside
                 PROVE  twoSideBaboons'[dir'[c]] = twoSideBaboons[dir[c]]
      BY <1>1, <1>2 DEF IInv, Counters, Inside
    <3> QED
      BY <1>1, <1>3, <2>2 DEF Move, IInv, Typed
  <2> QED
    BY <2>1, <2>3 DEF Counters
<1>7. Rope'
  BY <1>1, RopeKept DEF Holding
<1>8. Ended'
  BY <1>1, EndedKept
<1> QED
  BY <1>4, <1>5, <1>6, <1>7, <1>8 DEF IInv

LEMMA StoreDownStep ==
  ASSUME IInv, NEW b \in Baboon, StoreDown(b)
  PROVE  IInv'
<1> DEFINE d == dir[b]
<1>1. /\ "test_down" \in Place /\ Move(b, "test_down") /\ pc[b] = "store_down"
      /\ twoSideBaboons' = [twoSideBaboons EXCEPT ![d] = register[b] - 1]
      /\ UNCHANGED <<register, directionLock, ropeLock>>
  BY DEF StoreDown, Store, Goto, Move, Place, Steps
<1>2. d \in Direction /\ \A c \in Baboon : pc'[c] = IF c = b THEN "test_down" ELSE pc[c]
  BY <1>1 DEF IInv, Typed, Move
<1>3. /\ twoSideBaboons'[d] = twoSideBaboons[d] - 1
      /\ \A e \in Direction \ {d} : twoSideBaboons'[e] = twoSideBaboons[e]
  BY <1>1, <1>2 DEF IInv, Typed, Counters
<1>4. Cardinality(In(d)) # 0
  <2>1. b \in In(d)
    BY <1>1 DEF In, Passed
  <2> QED
    BY <2>1, InFinite, FS_EmptySet
<1>5. Typed'
  <2>1. twoSideBaboons[d] - 1 \in Nat
    BY <1>2, <1>4, InFinite DEF IInv, Counters
  <2> QED
    BY <1>1, <1>2, <1>3, <2>1 DEF IInv, Typed, Move
<1>6. Locks'
  BY <1>1, LocksKept DEF Inside
<1>7. Counters'
  <2>1. \A e \in Direction : twoSideBaboons'[e] = Cardinality(In(e)')
    <3> SUFFICES ASSUME NEW e \in Direction PROVE twoSideBaboons'[e] = Cardinality(In(e)')
      OBVIOUS
    <3>1. CASE e # d
      BY <1>1, <1>3, <3>1, InAfter DEF IInv, Counters
    <3>2. CASE e = d
      <4>1. In(e)' = In(e) \ {b}
        BY <1>1, <3>2, InAfter DEF IInv, Passed
      <4>2. b \in In(e)
        BY <1>1, <3>2 DEF In, Passed
      <4>3. Cardinality(In(e) \ {b}) = Cardinality(In(e)) - 1
        BY <4>2, InFinite, FS_RemoveElement
      <4> QED
        BY <1>3, <3>2, <4>1, <4>3 DEF IInv, Counters
    <3> QED
      BY <3>1, <3>2
  <2>2. \A c \in Baboon : c # b /\ pc[c] \in Inside => dir[c] # d
    BY <1>1 DEF IInv, Locks, Inside
  <2>3. \A c \in Baboon :
          /\ pc'[c] \in {"store_up", "store_down"} => register'[c] = twoSideBaboons'[dir'[c]]
          /\ pc'[c] = "wait_rope" => twoSideBaboons'[dir'[c]] = 1
          /\ pc'[c] = "post_rope" => twoSideBaboons'[dir'[c]] = 0
    <3> SUFFICES ASSUME NEW c \in Baboon, c # b, pc[c] \in Inside
                 PROVE  twoSideBaboons'[dir'[c]] = twoSideBaboons[dir[c]]
      BY <1>1, <1>2 DEF IInv, Counters, Inside
    <3> QED
      BY <1>1, <1>3, <2>2 DEF Move, IInv, Typed
  <2> QED
    BY <2>1, <2>3 DEF Counters
<1>8. Rope'
  BY <1>1, RopeKept DEF Holding
<1>9. Ended'
  BY <1>1, EndedKept
<1> QED
  BY <1>5, <1>6, <1>7, <1>8, <1>9 DEF IInv

-----------------------------------------------------------------------------
(* The tests of the counters, and the rope. *)

(* Those a counter counts while b is inside have left the lock: they hold the rope. *)
LEMMA OthersHold ==
  ASSUME IInv, NEW b \in Baboon, pc[b] \in Inside,
         NEW c \in In(dir[b]), c # b
  PROVE  c \in Baboon /\ pc[c] \in Holding /\ dir[c] = dir[b]
  BY DEF IInv, Typed, Locks, In, Inside, Passed, Holding

LEMMA TestUpStep ==
  ASSUME IInv, NEW b \in Baboon, TestUp(b)
  PROVE  IInv'
<1> DEFINE d == dir[b]
           first == twoSideBaboons[d] = 1
           q == IF first THEN "wait_rope" ELSE "on_rope"
<1>1. /\ q \in Place /\ Move(b, q) /\ pc[b] = "test_up"
      /\ UNCHANGED <<register, shared>>
  BY DEF TestUp, Test, Goto, Move, Place, Steps
<1>2. d \in Direction /\ b \in In(d)
  BY <1>1 DEF IInv, Typed, In, Passed
<1>3. ~first => \E c \in Baboon : pc[c] \in Holding /\ dir[c] = dir[b]
  <2> SUFFICES ASSUME ~first PROVE \E c \in Baboon : pc[c] \in Holding /\ dir[c] = dir[b]
    OBVIOUS
  <2>1. In(d) # {b}
    <3>1. Cardinality(In(d)) # 1
      BY <1>2 DEF IInv, Counters
    <3>2. Cardinality({b}) = 1
      BY FS_Singleton
    <3> QED
      BY <3>1, <3>2
  <2>2. PICK c \in In(d) : c # b
    BY <1>2, <2>1
  <2> QED
    BY <1>1, <2>2, OthersHold DEF Inside
<1>4. Typed'
  BY <1>1 DEF IInv, Typed, Move, shared
<1>5. Locks'
  BY <1>1, LocksKept DEF shared, Inside
<1>6. Counters'
  BY <1>1, CountersKept DEF shared, Passed
<1>7. Rope'
  BY <1>1, <1>3, RopeKept DEF shared, Holding
<1>8. Ended'
  BY <1>1, EndedKept
<1> QED
  BY <1>4, <1>5, <1>6, <1>7, <1>8 DEF IInv

LEMMA TestDownStep ==
  ASSUME IInv, NEW b \in Baboon, TestDown(b)
  PROVE  IInv'
<1> DEFINE d == dir[b]
           last == twoSideBaboons[d] = 0
           q == IF last THEN "post_rope" ELSE "post_leave"
<1>1. /\ q \in Place /\ Move(b, q) /\ pc[b] = "test_down"
      /\ UNCHANGED <<register, shared>>
  BY DEF TestDown, Test, Goto, Move, Place, Steps
<1>2. d \in Direction /\ b \notin In(d)
  BY <1>1 DEF IInv, Typed, In, Passed
<1>3. ~last => \E c \in Baboon \ {b} : pc[c] \in Holding
  <2> SUFFICES ASSUME ~last PROVE \E c \in Baboon \ {b} : pc[c] \in Holding
    OBVIOUS
  <2>1. In(d) # {}
    BY <1>2, FS_EmptySet DEF IInv, Counters
  <2>2. PICK c \in In(d) : c # b
    BY <1>2, <2>1
  <2> QED
    BY <1>1, <2>2, OthersHold DEF Inside
<1>4. Typed'
  BY <1>1 DEF IInv, Typed, Move, shared
<1>5. Locks'
  BY <1>1, LocksKept DEF shared, Inside
<1>6. Counters'
  BY <1>1, CountersKept DEF shared, Passed
<1>7. Rope'
  BY <1>1, <1>3, RopeKept DEF shared, Holding
<1>8. Ended'
  BY <1>1, EndedKept
<1> QED
  BY <1>4, <1>5, <1>6, <1>7, <1>8 DEF IInv

LEMMA WaitRopeStep ==
  ASSUME IInv, NEW b \in Baboon, WaitRope(b)
  PROVE  IInv'
<1>1. /\ "on_rope" \in Place /\ Move(b, "on_rope") /\ pc[b] = "wait_rope"
      /\ ropeLock > 0 /\ ropeLock' = ropeLock - 1
      /\ UNCHANGED <<register, directionLock, twoSideBaboons>>
  BY DEF WaitRope, Goto, Move, Place, Steps
<1>2. ropeLock = 1 /\ ropeLock' = 0
  BY <1>1 DEF IInv, Typed
<1>3. Typed'
  BY <1>1, <1>2 DEF IInv, Typed, Move
<1>4. Locks'
  BY <1>1, LocksKept DEF Inside
<1>5. Counters'
  BY <1>1, CountersKept DEF Passed
<1>6. Rope'
  <2>1. \A c \in Baboon : pc'[c] \in Holding <=> c = b
    BY <1>1, <1>2 DEF IInv, Typed, Rope, Move, Holding
  <2> QED
    BY <1>2, <2>1 DEF Rope
<1>7. Ended'
  BY <1>1, EndedKept
<1> QED
  BY <1>3, <1>4, <1>5, <1>6, <1>7 DEF IInv

LEMMA PostRopeStep ==
  ASSUME IInv, NEW b \in Baboon, PostRope(b)
  PROVE  IInv'
<1> DEFINE d == dir[b]
<1>1. /\ "post_leave" \in Place /\ Move(b, "post_leave") /\ pc[b] = "post_rope"
      /\ ropeLock' = ropeLock + 1
      /\ UNCHANGED <<register, directionLock, twoSideBaboons>>
  BY DEF PostRope, Goto, Move, Place, Steps
<1>2. ropeLock = 0 /\ ropeLock' = 1
  BY <1>1 DEF IInv, Typed, Rope, Holding
<1>3. Typed'
  BY <1>1, <1>2 DEF IInv, Typed, Move
<1>4. Locks'
  BY <1>1, LocksKept DEF Inside
<1>5. Counters'
  BY <1>1, CountersKept DEF Passed
<1>6. Rope'
  <2>1. d \in Direction /\ In(d) = {}
    <3>1. d \in Direction /\ twoSideBaboons[d] = 0
      BY <1>1 DEF IInv, Typed, Counters
    <3> QED
      BY <3>1, InFinite, FS_EmptySet DEF IInv, Counters
  <2>2. ASSUME NEW c \in Baboon, c # b, pc[c] \in Holding PROVE FALSE
    <3>1. dir[c] = d
      BY <1>1, <2>2 DEF IInv, Rope, Holding
    <3>2. pc[c] \notin Inside
      BY <1>1, <2>2, <3>1 DEF IInv, Locks, Inside
    <3>3. c \in In(d)
      BY <2>2, <3>1, <3>2 DEF In, Holding, Inside, Passed
    <3> QED
      BY <2>1, <3>3
  <2>3. \A c \in Baboon : pc'[c] \notin Holding
    BY <1>1, <2>2 DEF IInv, Typed, Move, Holding
  <2> QED
    BY <1>2, <2>3 DEF Rope
<1>7. Ended'
  BY <1>1, EndedKept
<1> QED
  BY <1>3, <1>4, <1>5, <1>6, <1>7 DEF IInv

-----------------------------------------------------------------------------
(* The steps of main, and of the whole program. *)

(* main's own steps leave every place, lock and counter alone, except a fork. *)
LEMMA MainStep ==
  ASSUME IInv, Main
  PROVE  IInv'
<1>1. CASE \E b \in Baboon : Fork(b)
  <2> PICK b \in Baboon : Fork(b)
    BY <1>1
  <2>1. /\ "arriving" \in Place /\ Move(b, "arriving") /\ pc[b] = "unborn"
        /\ UNCHANGED <<register, shared>>
    BY DEF Fork, Goto, Move, Place, Steps
  <2> QED
    BY <2>1, LocalStep DEF Inside, Passed, Holding
<1>2. CASE ForkFails \/ AllForked \/ MissionComplete
  <2>1. UNCHANGED <<pc, dir, register, shared>>
    BY <1>2 DEF ForkFails, AllForked, MissionComplete
  <2>2. Typed'
    BY <1>2, <2>1 DEF IInv, Typed, shared, ForkFails, AllForked, MissionComplete
  <2>3. Locks' /\ Counters' /\ Rope'
    BY <2>1 DEF IInv, Locks, Counters, In, Rope, shared
  <2>4. Ended'
    BY <1>2 DEF Ended, ForkFails, AllForked, MissionComplete
  <2> QED
    BY <2>2, <2>3, <2>4 DEF IInv
<1> QED
  BY <1>1, <1>2 DEF Main

LEMMA StutterStep ==
  ASSUME IInv, UNCHANGED vars
  PROVE  IInv'
  BY DEF IInv, Typed, Locks, Counters, In, Rope, Ended, vars

LEMMA FlyStep ==
  ASSUME IInv, NEW b \in Baboon, Fly(b)
  PROVE  IInv'
  BY ArriveStep, WaitStep, LoadStep, StoreUpStep, TestUpStep, WaitRopeStep, PostStep,
     CrossStep, StoreDownStep, TestDownStep, PostRopeStep
  DEF Fly

LEMMA InitHolds ==
  ASSUME Init
  PROVE  IInv
<1>1. Typed
  BY DEF Init, Typed, Place, Steps, Direction
<1>2. Locks /\ Rope /\ Ended
  BY DEF Init, Locks, Rope, Ended, Inside, Holding
<1>3. Counters
  <2>1. \A d \in Direction : In(d) = {}
    BY DEF Init, In, Passed
  <2> QED
    BY <2>1, FS_EmptySet DEF Init, Counters
<1> QED
  BY <1>1, <1>2, <1>3 DEF IInv

(* The inductive invariant holds in every state of the crossing of baboon39.c. *)
THEOREM Inductive39 == Spec => []IInv
<1>1. Init => IInv
  BY InitHolds
<1>2. IInv /\ [Next]_vars => IInv'
  BY MainStep, FlyStep, StutterStep DEF Next, Over
<1> QED
  BY <1>1, <1>2, PTL DEF Spec

-----------------------------------------------------------------------------
(* What the invariant says of the properties. *)

LEMMA OneDirectionHolds ==
  ASSUME IInv
  PROVE  OneDirection
  BY DEF IInv, Rope, Holding, OneDirection, OnRope

(* With both locks free nobody is inside, so that the counted ones are In(d). *)
LEMMA CounterExactHolds ==
  ASSUME IInv
  PROVE  CounterExact
<1> SUFFICES ASSUME \A d \in Direction : directionLock[d] = 1
             PROVE  /\ \A d \in Direction : twoSideBaboons[d] = Cardinality(Counted(d))
                    /\ ropeLock = 1 <=> \A d \in Direction : twoSideBaboons[d] = 0
  BY DEF CounterExact
<1>1. \A b \in Baboon : pc[b] \notin Inside
  BY DEF IInv, Typed, Locks
<1>2. ASSUME NEW d \in Direction PROVE Counted(d) = In(d)
  BY <1>1 DEF Counted, In, OnRope, Passed, Inside
<1>3. \A d \in Direction : twoSideBaboons[d] = Cardinality(Counted(d))
  BY <1>2 DEF IInv, Counters
<1>4. \A b \in Baboon : pc[b] \in Holding <=> pc[b] \in Passed
  BY <1>1 DEF Holding, Passed, Inside
<1>5. ASSUME ropeLock = 1, NEW d \in Direction PROVE twoSideBaboons[d] = 0
  <2>1. In(d) = {}
    BY <1>4, <1>5 DEF IInv, Rope, In
  <2> QED
    BY <2>1, FS_EmptySet DEF IInv, Counters
<1>6. ASSUME \A d \in Direction : twoSideBaboons[d] = 0 PROVE ropeLock = 1
  <2>1. ASSUME NEW b \in Baboon, pc[b] \in Holding PROVE FALSE
    <3>1. dir[b] \in Direction /\ b \in In(dir[b])
      BY <1>4, <2>1 DEF IInv, Typed, In
    <3>2. Cardinality(In(dir[b])) = 0
      BY <1>6, <3>1 DEF IInv, Counters
    <3> QED
      BY <3>1, <3>2, InFinite, FS_EmptySet
  <2> QED
    BY <2>1 DEF IInv, Typed, Rope
<1> QED
  BY <1>3, <1>5, <1>6

LEMMA CompleteMeansCleanHolds ==
  ASSUME IInv
  PROVE  CompleteMeansClean
<1> SUFFICES ASSUME parent = "done"
             PROVE  /\ \A b \in Baboon : pc[b] = "done"
                    /\ ropeLock = 1
                    /\ \A d \in Direction : directionLock[d] = 1 /\ twoSideBaboons[d] = 0
  BY DEF CompleteMeansClean
<1>1. \A b \in Baboon : pc[b] = "done"
  BY DEF IInv, Ended
<1>2. ropeLock = 1
  BY <1>1 DEF IInv, Typed, Rope, Holding
<1>3. \A d \in Direction : directionLock[d] = 1
  BY <1>1 DEF IInv, Typed, Locks, Inside
<1>4. \A d \in Direction : In(d) = {}
  BY <1>1 DEF In, Passed
<1>5. \A d \in Direction : twoSideBaboons[d] = 0
  BY <1>4, FS_EmptySet DEF IInv, Counters
<1> QED
  BY <1>1, <1>2, <1>3, <1>5

-----------------------------------------------------------------------------
(* The theorems. *)

Places == pc \in [Baboon -> Steps]

(* Every variable of baboon39.c keeps its type; no semaphore exceeds 1. *)
THEOREM Baboon39Typed == Spec => []TypeOK39
<1>1. Init => Places
  BY DEF Init, Places, Steps
<1>2. Places /\ [Next]_vars => Places'
  <2> SUFFICES ASSUME Places, [Next]_vars PROVE Places'
    OBVIOUS
  <2>1. pc' = pc \/ \E b \in Baboon, q \in Steps : pc' = [pc EXCEPT ![b] = q]
    <3>1. CASE Main \/ Over \/ UNCHANGED vars
      BY <3>1 DEF Main, Over, vars, Fork, ForkFails, AllForked, MissionComplete, Goto, Steps
    <3>2. CASE \E b \in Baboon : Fly(b)
      BY <3>2 DEF Fly, Arrive, WaitDirection, LoadUp, StoreUp, TestUp, WaitRope,
           PostDirection, Cross, WaitLeave, LoadDown, StoreDown, TestDown, PostRope,
           PostLeave, WaitLock, PostLock, Load, Store, Test, Goto, Steps
    <3> QED
      BY <3>1, <3>2 DEF Next
  <2> QED
    BY <2>1 DEF Places
<1>3. IInv /\ Places => TypeOK39
  BY DEF Places, IInv, Typed, TypeOK39
<1> QED
  BY <1>1, <1>2, <1>3, Inductive39, PTL DEF Spec

(* Baboons on the rope go the same way, however many there are. *)
THEOREM Baboon39OneDirection == Spec => []OneDirection
  BY Inductive39, OneDirectionHolds, PTL

(* Outside the critical sections the counters count, and the rope is held
   exactly if one of them is not 0. *)
THEOREM Baboon39CounterExact == Spec => []CounterExact
  BY Inductive39, CounterExactHolds, PTL

(* "Mission Complete!" leaves every semaphore and counter as it was at first. *)
THEOREM Baboon39CompleteMeansClean == Spec => []CompleteMeansClean
  BY Inductive39, CompleteMeansCleanHolds, PTL

-----------------------------------------------------------------------------
(* The turnstile. *)

(* Places behind the turnstile: starvation is taken and not yet given back. *)
BehindPlaces ==
  {"wait_direction", "load_up", "store_up", "test_up", "wait_rope", "on_rope",
   "post_starvation"}

(* The turnstile is taken exactly when a baboon is behind it, and by one only. *)
Turnstile ==
  /\ starvation \in {0, 1}
  /\ starvation = 1 => \A b \in Baboon : pc[b] \notin BehindPlaces
  /\ starvation = 0 => \E b \in Baboon : pc[b] \in BehindPlaces
  /\ \A b, c \in Baboon : pc[b] \in BehindPlaces /\ pc[c] \in BehindPlaces => b = c

IInv40 == IInv /\ Turnstile

-----------------------------------------------------------------------------
(* The crossing's invariant. *)

LEMMA Shared40Step ==
  ASSUME IInv, NEW b \in Baboon, Shared40(b)
  PROVE  IInv'
  BY ArriveStep, WaitStep, LoadStep, StoreUpStep, TestUpStep, WaitRopeStep, PostStep,
     CrossStep, StoreDownStep, TestDownStep, PostRopeStep
  DEF Shared40

LEMMA TurnstileStep ==
  ASSUME IInv, NEW b \in Baboon, WaitStarvation(b) \/ PostStarvation(b)
  PROVE  IInv'
<1> DEFINE q == IF pc[b] = "wait_starvation" THEN "wait_direction" ELSE "cross"
<1>1. /\ q \in Place /\ Move(b, q)
      /\ pc[b] = (IF pc[b] = "wait_starvation" THEN "wait_starvation" ELSE "post_starvation")
      /\ UNCHANGED <<register, shared>>
  BY DEF WaitStarvation, PostStarvation, Goto, Move, Place, Steps
<1> QED
  BY <1>1, LocalStep DEF Inside, Passed, Holding

-----------------------------------------------------------------------------
(* The turnstile. *)

(* A baboon that takes none of the turnstile's steps stays on its side of it. *)
LEMMA SharedSide ==
  ASSUME IInv, NEW b \in Baboon, Shared40(b)
  PROVE  \A c \in Baboon : pc'[c] \in BehindPlaces <=> pc[c] \in BehindPlaces
<1>1. PICK q \in Place : /\ pc' = [pc EXCEPT ![b] = q]
                         /\ pc[b] \in BehindPlaces <=> q \in BehindPlaces
  BY DEF Shared40, Arrive, WaitDirection, LoadUp, StoreUp, TestUp, WaitRope,
     PostDirection, Cross, WaitLeave, LoadDown, StoreDown, TestDown, PostRope,
     PostLeave, WaitLock, PostLock, Load, Store, Test, Goto, BehindPlaces, Place, Steps
<1> QED
  BY <1>1 DEF IInv, Typed

LEMMA MainSide ==
  ASSUME IInv, Main \/ UNCHANGED vars
  PROVE  \A c \in Baboon : pc'[c] \in BehindPlaces <=> pc[c] \in BehindPlaces
<1>1. \/ pc' = pc
      \/ \E b \in Baboon : pc[b] = "unborn" /\ pc' = [pc EXCEPT ![b] = "arriving"]
  BY DEF Main, Fork, ForkFails, AllForked, MissionComplete, Goto, vars
<1> QED
  BY <1>1 DEF IInv, Typed, BehindPlaces

LEMMA SameSide ==
  ASSUME Turnstile, UNCHANGED starvation,
         \A c \in Baboon : pc'[c] \in BehindPlaces <=> pc[c] \in BehindPlaces
  PROVE  Turnstile'
  BY DEF Turnstile

LEMMA TakeTurn ==
  ASSUME IInv40, NEW b \in Baboon, WaitStarvation(b)
  PROVE  Turnstile'
<1>1. starvation = 1 /\ starvation' = 0
  BY DEF IInv40, Turnstile, WaitStarvation
<1>2. \A c \in Baboon : pc'[c] \in BehindPlaces <=> c = b
  BY <1>1 DEF IInv40, IInv, Typed, Turnstile, WaitStarvation, Goto, BehindPlaces
<1> QED
  BY <1>1, <1>2 DEF Turnstile

LEMMA GiveTurn ==
  ASSUME IInv40, NEW b \in Baboon, PostStarvation(b)
  PROVE  Turnstile'
<1>1. pc[b] \in BehindPlaces
  BY DEF PostStarvation, Goto, BehindPlaces
<1>2. starvation = 0 /\ starvation' = 1
  BY <1>1 DEF IInv40, Turnstile, PostStarvation
<1>3. \A c \in Baboon : pc'[c] \notin BehindPlaces
  BY <1>1 DEF IInv40, IInv, Typed, Turnstile, PostStarvation, Goto, BehindPlaces
<1> QED
  BY <1>2, <1>3 DEF Turnstile

-----------------------------------------------------------------------------
(* The inductive invariant holds in every state of the crossing of baboon40.c. *)
THEOREM Inductive40 == Spec40 => []IInv40
<1>1. Init40 => IInv40
  BY InitHolds DEF Init40, Init, IInv40, Turnstile, BehindPlaces
<1>2. IInv40 /\ [Next40]_vars40 => IInv40'
  <2> SUFFICES ASSUME IInv40, [Next40]_vars40 PROVE IInv40'
    OBVIOUS
  <2>1. CASE Main40 \/ (Over /\ UNCHANGED starvation) \/ UNCHANGED vars40
    <3>1. (Main \/ UNCHANGED vars) /\ UNCHANGED starvation
      BY <2>1 DEF Main40, Over, vars40
    <3> QED
      BY <3>1, MainStep, StutterStep, MainSide, SameSide DEF IInv40
  <2>2. ASSUME NEW b \in Baboon, Fly40(b) PROVE IInv40'
    <3>1. CASE Shared40(b) /\ UNCHANGED starvation
      BY <3>1, Shared40Step, SharedSide, SameSide DEF IInv40
    <3>2. CASE WaitStarvation(b)
      BY <3>2, TurnstileStep, TakeTurn DEF IInv40
    <3>3. CASE PostStarvation(b)
      BY <3>3, TurnstileStep, GiveTurn DEF IInv40
    <3> QED
      BY <2>2, <3>1, <3>2, <3>3 DEF Fly40
  <2> QED
    BY <2>1, <2>2 DEF Next40
<1> QED
  BY <1>1, <1>2, PTL DEF Spec40

(* The turnstile does not disturb the rope: baboons on it go the same way. *)
THEOREM Baboon40OneDirection == Spec40 => []OneDirection
<1>1. IInv40 => OneDirection
  BY OneDirectionHolds DEF IInv40
<1> QED
  BY <1>1, Inductive40, PTL

(* "Mission Complete!" leaves the turnstile open, and all else as it was. *)
THEOREM Baboon40CompleteMeansClean == Spec40 => []CompleteMeansClean40
<1>1. IInv40 => CompleteMeansClean40
  BY CompleteMeansCleanHolds
  DEF IInv40, IInv, Ended, Turnstile, CompleteMeansClean40, BehindPlaces
<1> QED
  BY <1>1, Inductive40, PTL

-----------------------------------------------------------------------------
(* A baboon steps on the rope from behind the turnstile only. *)
LEMMA StepsOnFromBehind ==
  ASSUME IInv40, [Next40]_vars40, NEW c \in Baboon, ~OnRope(c), OnRope(c)'
  PROVE  pc[c] \in BehindPlaces
<1>1. CASE Main \/ UNCHANGED vars
  BY <1>1 DEF Main, Fork, ForkFails, AllForked, MissionComplete, Goto, vars, OnRope,
     IInv40, IInv, Typed
<1>2. ASSUME NEW b \in Baboon, Fly40(b) PROVE pc[c] \in BehindPlaces
  <2>1. PICK q \in Place :
          /\ pc' = [pc EXCEPT ![b] = q]
          /\ q \in {"on_rope", "post_starvation", "cross"} => pc[b] \in BehindPlaces
    BY <1>2 DEF Fly40, WaitStarvation, PostStarvation, Shared40, Arrive, WaitDirection,
       LoadUp, StoreUp, TestUp, WaitRope, PostDirection, Cross, WaitLeave, LoadDown,
       StoreDown, TestDown, PostRope, PostLeave, WaitLock, PostLock, Load, Store, Test,
       Goto, BehindPlaces, Place, Steps
  <2> QED
    BY <2>1 DEF OnRope, IInv40, IInv, Typed
<1> QED
  BY <1>1, <1>2 DEF Next40, Main40, Over, vars40

(* No baboon steps on the rope past one that waits behind the turnstile: the one
   that does is behind it itself, and only one can be. *)
THEOREM Baboon40NoOvertaking == Spec40 => NoOvertaking
<1> DEFINE Kept ==
      \A b, c \in Baboon :
        (b # c /\ NextToCross(b) /\ ~OnRope(c) /\ OnRope(c)') => ~NextToCross(b)'
<1>1. IInv40 /\ [Next40]_vars40 => Kept
  <2> SUFFICES ASSUME IInv40, [Next40]_vars40, NEW b \in Baboon, NEW c \in Baboon,
                      b # c, NextToCross(b), ~OnRope(c), OnRope(c)'
               PROVE  FALSE
    OBVIOUS
  <2>1. pc[b] \in BehindPlaces
    BY DEF NextToCross, BehindPlaces
  <2>2. pc[c] \in BehindPlaces
    BY StepsOnFromBehind
  <2> QED
    BY <2>1, <2>2 DEF IInv40, Turnstile
<1> QED
  BY <1>1, Inductive40, PTL DEF Spec40, NoOvertaking
=============================================================================
