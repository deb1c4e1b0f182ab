------------------------- MODULE CooperativeThreads -------------------------
(***************************************************************************)
(* What the thread library promises a program that joins as the README of  *)
(* hw4 allows, with no queue, context or status: one thread at a time has  *)
(* the CPU, a thread that joins another waits until that one is done, the  *)
(* end of a thread frees everyone who waits for it, and the main program,  *)
(* once it has given the CPU away, gets it back when all threads are done. *)
(***************************************************************************)
CONSTANTS
  Thread,
  Main     \* the main program, not one of Thread

VARIABLES
  state,   \* of each thread
  target,  \* the thread a blocked thread waits for, Main for no thread
  cpu      \* who runs
avars == <<state, target, cpu>>

States == {"absent", "ready", "running", "blocked", "done"}

ATypeOK ==
  /\ state \in [Thread -> States]
  /\ target \in [Thread -> Thread \cup {Main}]
  /\ cpu \in Thread \cup {Main}

AInit ==
  /\ state = [t \in Thread |-> "absent"]
  /\ target = [t \in Thread |-> Main]
  /\ cpu = Main

(* With the threads in states s, one that is ready goes on, or main does when
   every thread is done. *)
GiveCPU(s) ==
  \/ \E t \in Thread :
       /\ s[t] = "ready"
       /\ state' = [x \in Thread |-> IF x = t THEN "running" ELSE s[x]]
       /\ cpu' = t
  \/ /\ \A t \in Thread : s[t] \in {"absent", "done"}
     /\ state' = s
     /\ cpu' = Main

Create(t) ==
  /\ state[t] = "absent"
  /\ state' = [state EXCEPT ![t] = "ready"]
  /\ UNCHANGED <<target, cpu>>

MainWaits == cpu = Main /\ GiveCPU(state) /\ UNCHANGED target

Yield(t) ==
  /\ cpu = t
  /\ GiveCPU([state EXCEPT ![t] = "ready"])
  /\ UNCHANGED target

Join(t, u) ==
  /\ cpu = t
  /\ state[u] \in {"ready", "blocked"}
  /\ target' = [target EXCEPT ![t] = u]
  /\ GiveCPU([state EXCEPT ![t] = "blocked"])

Finish(t) ==
  /\ cpu = t
  /\ GiveCPU([x \in Thread |->
                IF x = t THEN "done"
                ELSE IF state[x] = "blocked" /\ target[x] = t THEN "ready"
                ELSE state[x]])
  /\ target' = [x \in Thread |-> IF target[x] = t THEN Main ELSE target[x]]

EndSession ==
  /\ cpu = Main
  /\ state' = [t \in Thread |-> "absent"]
  /\ target' = [t \in Thread |-> Main]
  /\ UNCHANGED cpu

ANext ==
  \/ MainWaits
  \/ EndSession
  \/ \E t \in Thread : Create(t) \/ Yield(t) \/ Finish(t) \/ \E u \in Thread : Join(t, u)

ASpec == AInit /\ [][ANext]_avars
=============================================================================
