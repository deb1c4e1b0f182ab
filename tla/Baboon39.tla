------------------------------ MODULE Baboon39 ------------------------------
(***************************************************************************)
(* hw3/baboon39.c: a parent forks one process per baboon; each baboon      *)
(* crosses the rope once, east or west.  Per direction a counter in shared *)
(* memory, under a semaphore directionLock, counts the baboons that cross; *)
(* the first of a direction takes ropeLock and the last gives it back.     *)
(*                                                                         *)
(* The counter's increment and decrement are a load and a store, so that   *)
(* what directionLock protects can go wrong.  A sem_wait has no queue: any *)
(* waiter may be the next.                                                 *)
(***************************************************************************)
EXTENDS Naturals, FiniteSets

CONSTANT Baboon   \* the NUMBABOON processes the parent forks
ASSUME BaboonAssumption == IsFiniteSet(Baboon)

Direction == {"EAST", "WEST"}

VARIABLES
  parent,          \* where main is
  pc,              \* where each baboon is in fly_Baboons_Fly
  dir,             \* its direction
  register,        \* the value of the counter it loaded last
  directionLock,   \* the two semaphores
  ropeLock,
  twoSideBaboons   \* the two counters in shared memory
vars == <<parent, pc, dir, register, directionLock, ropeLock, twoSideBaboons>>
shared == <<directionLock, ropeLock, twoSideBaboons>>

Steps ==
  {"unborn", "arriving", "wait_direction", "load_up", "store_up", "test_up",
   "wait_rope", "on_rope", "cross", "wait_leave", "load_down", "store_down",
   "test_down", "post_rope", "post_leave", "done"}

TypeOK39 ==
  /\ parent \in {"forking", "waiting", "done", "failed"}
  /\ pc \in [Baboon -> Steps]
  /\ dir \in [Baboon -> Direction]
  /\ register \in [Baboon -> Nat]
  /\ directionLock \in [Direction -> {0, 1}]
  /\ ropeLock \in {0, 1}
  /\ twoSideBaboons \in [Direction -> Nat]

-----------------------------------------------------------------------------
(* main *)

Init ==
  /\ parent = "forking"
  /\ pc = [b \in Baboon |-> "unborn"]
  /\ dir \in [Baboon -> Direction]      \* rand() % 2, drawn before arrive
  /\ register = [b \in Baboon |-> 0]
  /\ directionLock = [d \in Direction |-> 1]
  /\ ropeLock = 1
  /\ twoSideBaboons = [d \in Direction |-> 0]

Goto(b, from, to) ==
  /\ pc[b] = from
  /\ pc' = [pc EXCEPT ![b] = to]

Fork(b) ==
  /\ parent = "forking"
  /\ Goto(b, "unborn", "arriving")
  /\ UNCHANGED <<parent, dir, register, shared>>

(* fork() < 0: the parent exits at once, its children go on. *)
ForkFails ==
  /\ parent = "forking"
  /\ \E b \in Baboon : pc[b] = "unborn"
  /\ parent' = "failed"
  /\ UNCHANGED <<pc, dir, register, shared>>

AllForked ==
  /\ parent = "forking"
  /\ \A b \in Baboon : pc[b] # "unborn"
  /\ parent' = "waiting"
  /\ UNCHANGED <<pc, dir, register, shared>>

(* waitpid until ECHILD, "Mission Complete!", sem_unlink. *)
MissionComplete ==
  /\ parent = "waiting"
  /\ \A b \in Baboon : pc[b] = "done"
  /\ parent' = "done"
  /\ UNCHANGED <<pc, dir, register, shared>>

-----------------------------------------------------------------------------
(* fly_Baboons_Fly, one action per access to what the processes share. *)

Arrive(b, next) ==
  /\ Goto(b, "arriving", next)
  /\ UNCHANGED <<parent, dir, register, shared>>

(* sem_wait and sem_post of the baboon's directionLock. *)
WaitLock(b, from, to) ==
  /\ Goto(b, from, to)
  /\ directionLock[dir[b]] > 0
  /\ directionLock' = [directionLock EXCEPT ![dir[b]] = @ - 1]
  /\ UNCHANGED <<parent, dir, register, ropeLock, twoSideBaboons>>

PostLock(b, from, to) ==
  /\ Goto(b, from, to)
  /\ directionLock' = [directionLock EXCEPT ![dir[b]] = @ + 1]
  /\ UNCHANGED <<parent, dir, register, ropeLock, twoSideBaboons>>

Load(b, from, to) ==
  /\ Goto(b, from, to)
  /\ register' = [register EXCEPT ![b] = twoSideBaboons[dir[b]]]
  /\ UNCHANGED <<parent, dir, shared>>

Store(b, from, to, value) ==
  /\ Goto(b, from, to)
  /\ twoSideBaboons' = [twoSideBaboons EXCEPT ![dir[b]] = value]
  /\ UNCHANGED <<parent, dir, register, directionLock, ropeLock>>

Test(b, from, value, equal, differ) ==
  /\ Goto(b, from, IF twoSideBaboons[dir[b]] = value THEN equal ELSE differ)
  /\ UNCHANGED <<parent, dir, register, shared>>

(* Mutants: directionLock is not waited for; the second baboon takes the rope in
   place of the first; the last one keeps it; it is given back twice. *)
WaitDirectionUnlocked(b) ==
  Goto(b, "wait_direction", "load_up") /\ UNCHANGED <<parent, dir, register, shared>>
TestUpOffByOne(b) == Test(b, "test_up", 2, "wait_rope", "on_rope")
TestDownSkips(b) ==
  Goto(b, "test_down", "post_leave") /\ UNCHANGED <<parent, dir, register, shared>>
PostRopeTwice(b) ==
  /\ Goto(b, "post_rope", "post_leave")
  /\ ropeLock' = ropeLock + 2
  /\ UNCHANGED <<parent, dir, register, directionLock, twoSideBaboons>>

WaitDirection(b) == WaitLock(b, "wait_direction", "load_up")
LoadUp(b) == Load(b, "load_up", "store_up")
StoreUp(b) == Store(b, "store_up", "test_up", register[b] + 1)
TestUp(b) == Test(b, "test_up", 1, "wait_rope", "on_rope")

WaitRope(b) ==
  /\ Goto(b, "wait_rope", "on_rope")
  /\ ropeLock > 0
  /\ ropeLock' = ropeLock - 1
  /\ UNCHANGED <<parent, dir, register, directionLock, twoSideBaboons>>

PostDirection(b, next) == PostLock(b, "on_rope", next)

Cross(b) ==
  /\ Goto(b, "cross", "wait_leave")
  /\ UNCHANGED <<parent, dir, register, shared>>

WaitLeave(b) == WaitLock(b, "wait_leave", "load_down")
LoadDown(b) == Load(b, "load_down", "store_down")

(* The counter is at least 1 here: the baboon itself is counted. *)
StoreDown(b) == Store(b, "store_down", "test_down", register[b] - 1)
TestDown(b) == Test(b, "test_down", 0, "post_rope", "post_leave")

PostRope(b) ==
  /\ Goto(b, "post_rope", "post_leave")
  /\ ropeLock' = ropeLock + 1
  /\ UNCHANGED <<parent, dir, register, directionLock, twoSideBaboons>>

PostLeave(b) == PostLock(b, "post_leave", "done")

-----------------------------------------------------------------------------
Fly(b) ==
  \/ Arrive(b, "wait_direction")
  \/ WaitDirection(b) \/ LoadUp(b) \/ StoreUp(b) \/ TestUp(b) \/ WaitRope(b)
  \/ PostDirection(b, "cross")
  \/ Cross(b)
  \/ WaitLeave(b) \/ LoadDown(b) \/ StoreDown(b) \/ TestDown(b) \/ PostRope(b)
  \/ PostLeave(b)

Main == ForkFails \/ AllForked \/ MissionComplete \/ \E b \in Baboon : Fork(b)

(* The program is over, whether the parent forked every baboon or not. *)
Over ==
  /\ parent \in {"done", "failed"}
  /\ \A b \in Baboon : pc[b] \in {"unborn", "done"}
  /\ UNCHANGED vars

Next == Main \/ Over \/ \E b \in Baboon : Fly(b)

Spec == Init /\ [][Next]_vars

(* The operating system runs every process that can run. *)
FairSpec == Spec /\ WF_vars(Main) /\ \A b \in Baboon : WF_vars(Fly(b))

-----------------------------------------------------------------------------
(* A baboon is on the rope from onRope to the end of cross. *)
OnRope(b) == pc[b] \in {"on_rope", "post_starvation", "cross"}

(* Baboons on the rope go the same way: the point of the program.  A lost
   update of a counter, or a test of it outside its lock, lets a second
   direction in while the first is still crossing. *)
OneDirection ==
  \A b, c \in Baboon : OnRope(b) /\ OnRope(c) => dir[b] = dir[c]

(* Whenever nobody is inside a direction's critical section, its counter is the
   number of baboons between their increment and their decrement, and the rope
   is held exactly if some counter is not 0. *)
Counted(d) ==
  {b \in Baboon : dir[b] = d /\ (OnRope(b) \/ pc[b] = "wait_leave")}
CounterExact ==
  (\A d \in Direction : directionLock[d] = 1) =>
     /\ \A d \in Direction : twoSideBaboons[d] = Cardinality(Counted(d))
     /\ ropeLock = 1 <=> \A d \in Direction : twoSideBaboons[d] = 0

(* When the parent reports "Mission Complete!" no baboon is left, and every
   semaphore and counter is as it was: no post is missing or doubled. *)
CompleteMeansClean ==
  parent = "done" =>
    /\ \A b \in Baboon : pc[b] = "done"
    /\ ropeLock = 1
    /\ \A d \in Direction : directionLock[d] = 1 /\ twoSideBaboons[d] = 0

(* Every baboon that is forked crosses, even when its parent failed to fork the
   others and exited: no two of them wait for each other. *)
EveryBaboonCrosses ==
  \A b \in Baboon : (pc[b] = "arriving") ~> (pc[b] = "done")
=============================================================================
