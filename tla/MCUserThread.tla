---------------------------- MODULE MCUserThread ----------------------------
(* UserThread on a small instance: the tids are handed out in order and tell
   the threads apart, so there is no symmetry to use. *)
EXTENDS UserThread

OnlyFIFO == {"FIFO"}
OnlySJF == {"SJF"}
BothPolicies == {"FIFO", "SJF"}

(* One estimate, a new thread's priority: nothing reads it with _FIFO, and with
   _SJF every entry is then a least one, so that any order can come. *)
OneEstimate == {50}

(* A run time below and one above a new thread's priority of 50. *)
ShortAndLong == {25, 200}
=============================================================================
