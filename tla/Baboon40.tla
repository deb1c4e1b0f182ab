------------------------------ MODULE Baboon40 ------------------------------
(***************************************************************************)
(* hw3/baboon40.c: the crossing of baboon39.c behind a turnstile.  A       *)
(* baboon takes the semaphore starvation when it arrives and gives it back *)
(* only once it is on the rope, so that a baboon that waits for the rope   *)
(* is not overtaken by later ones that go the other way.                   *)
(***************************************************************************)
EXTENDS Baboon39

VARIABLE starvation
vars40 == <<vars, starvation>>

Init40 == Init /\ starvation = 1

-----------------------------------------------------------------------------
(* Mutants: the turnstile is not waited for; it is not given back. *)
WaitStarvationOpen(b) ==
  /\ Goto(b, "wait_starvation", "wait_direction")
  /\ UNCHANGED <<parent, dir, register, shared, starvation>>
PostStarvationNever(b) ==
  /\ Goto(b, "post_starvation", "cross")
  /\ UNCHANGED <<parent, dir, register, shared, starvation>>

WaitStarvation(b) ==
  /\ Goto(b, "wait_starvation", "wait_direction")
  /\ starvation > 0
  /\ starvation' = starvation - 1
  /\ UNCHANGED <<parent, dir, register, shared>>

PostStarvation(b) ==
  /\ Goto(b, "post_starvation", "cross")
  /\ starvation' = starvation + 1
  /\ UNCHANGED <<parent, dir, register, shared>>

(* The steps fly_Baboons_Fly shares with baboon39.c, in its new order. *)
Shared40(b) ==
  \/ Arrive(b, "wait_starvation")
  \/ WaitDirection(b) \/ LoadUp(b) \/ StoreUp(b) \/ TestUp(b) \/ WaitRope(b)
  \/ PostDirection(b, "post_starvation")
  \/ Cross(b)
  \/ WaitLeave(b) \/ LoadDown(b) \/ StoreDown(b) \/ TestDown(b) \/ PostRope(b)
  \/ PostLeave(b)

Fly40(b) ==
  \/ Shared40(b) /\ UNCHANGED starvation
  \/ WaitStarvation(b)
  \/ PostStarvation(b)

Main40 == Main /\ UNCHANGED starvation

Next40 == Main40 \/ (Over /\ UNCHANGED starvation) \/ \E b \in Baboon : Fly40(b)

Spec40 == Init40 /\ [][Next40]_vars40

FairSpec40 == Spec40 /\ WF_vars40(Main40) /\ \A b \in Baboon : WF_vars40(Fly40(b))

-----------------------------------------------------------------------------
(* The turnstile is back too when the mission is complete. *)
CompleteMeansClean40 == CompleteMeansClean /\ (parent = "done" => starvation = 1)

(* A baboon behind the turnstile, on its way to the rope. *)
NextToCross(b) ==
  pc[b] \in {"wait_direction", "load_up", "store_up", "test_up", "wait_rope"}

(* No baboon steps on the rope past one that waits behind the turnstile: that
   is what the semaphore starvation is for.  Without it a stream of baboons of
   one direction keeps the other waiting. *)
NoOvertaking ==
  [][\A b, c \in Baboon :
       (b # c /\ NextToCross(b) /\ ~OnRope(c) /\ OnRope(c)') => ~NextToCross(b)']_vars40
=============================================================================
