--------------------------- MODULE BoundedHistory ---------------------------
(***************************************************************************)
(* What the history of hw2/shell_hist.c promises, without its linked list: *)
(* the commands run last, oldest first, at most Size of them.  A command   *)
(* is entered anew or taken from the history, and is then the newest.      *)
(***************************************************************************)
EXTENDS Integers, Sequences

CONSTANTS Size, Command

VARIABLES
  log,     \* the commands remembered, oldest first
  called,  \* the command entered last
  open     \* the shell has not been told to end

logVars == <<log, called, open>>

Init == log = <<>> /\ called \in Command /\ open = TRUE

Newest(s) == IF Len(s) <= Size THEN s ELSE SubSeq(s, Len(s) - Size + 1, Len(s))

Enter(c) ==
  /\ open
  /\ log' = Newest(Append(log, c))
  /\ called' = c
  /\ UNCHANGED open

Recall(i) == Enter(log[i])

Close == log' = <<>> /\ open' = FALSE /\ UNCHANGED called

Next ==
  \/ \E c \in Command : Enter(c) /\ \A i \in DOMAIN log : log[i] # c
  \/ \E i \in DOMAIN log : Recall(i)
  \/ Close

Spec == Init /\ [][Next]_logVars
=============================================================================
