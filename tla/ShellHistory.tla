---------------------------- MODULE ShellHistory ----------------------------
(***************************************************************************)
(* The shell with history of hw2/shell_hist.c: a doubly linked list of the *)
(* commands run, between two sentinels.  A command entered as "!!", "!n"   *)
(* or "!-n" gets a node of its own that shares the args and command of the *)
(* node it recalls, and its commandId.  The two allocations behind args    *)
(* and command are made and freed together: one block for each commandId.  *)
(***************************************************************************)
EXTENDS Integers, Sequences, FiniteSets

CONSTANTS
  HISTSIZE,     \* the environment variable, or 50; not negative
  MaxCommands,  \* bound: commands entered anew
  RecallsOldest \* TRUE: the user may recall the entry that has to make room

ASSUME HistoryAssumption ==
  /\ HISTSIZE \in Nat
  /\ MaxCommands \in Nat \ {0}
  /\ RecallsOldest \in BOOLEAN

head == 0
tail == -1
NULL == -2
Node == 1 .. HISTSIZE + 2        \* enough for a full list and the node being added
Sentinel == {head, tail}
Id == 0 .. MaxCommands - 1
Kind == {"run", "history", "exit"}

VARIABLES
  next, prev,      \* links of the nodes and of the sentinels
  idOf,            \* commandId of each node
  deleted,         \* its field delete is DELETED
  allocated,       \* the nodes malloc has given out and free not taken back
  freed,           \* how often each commandId's block has been freed
  kind,            \* what each command is, by commandId
  numHist, commandId,
  newHist,         \* the node main passes to callChild
  pc

listVars == <<next, prev, idOf, deleted, allocated, freed, numHist>>
vars == <<listVars, kind, commandId, newHist, pc>>

TypeOK ==
  /\ next \in [Node \cup Sentinel -> Node \cup Sentinel \cup {NULL}]
  /\ prev \in [Node \cup Sentinel -> Node \cup Sentinel \cup {NULL}]
  /\ idOf \in [Node -> Id]
  /\ deleted \in [Node -> BOOLEAN]
  /\ allocated \subseteq Node
  /\ freed \in [Id -> 0 .. 1]
  /\ kind \in [Id -> Kind]
  /\ numHist \in 0 .. HISTSIZE + 1
  /\ commandId \in 0 .. MaxCommands
  /\ newHist \in Node \cup {NULL}
  /\ pc \in {"prompt", "call new", "call again", "clear", "ended"}

Calling == pc \in {"call new", "call again"}
Running == pc = "prompt" \/ Calling

-----------------------------------------------------------------------------
(* Walks over the list. *)

(* The n-th node after head, tail once the list has ended. *)
after[n \in Nat] ==
  IF n = 0 THEN head
  ELSE IF after[n - 1] \in {tail, NULL} THEN tail ELSE next[after[n - 1]]

(* The n-th node before tail. *)
before[n \in Nat] ==
  IF n = 0 THEN tail
  ELSE IF before[n - 1] \in {head, NULL} THEN head ELSE prev[before[n - 1]]

(* The nodes from head to tail, in order. *)
Listed ==
  LET length == CHOOSE n \in 0 .. Cardinality(Node) + 1 :
                  /\ after[n + 1] = tail
                  /\ \A m \in 0 .. n : after[m] # tail
  IN [n \in 1 .. length |-> after[n]]

ListedNodes == {Listed[n] : n \in DOMAIN Listed}

(* Mutant: the loop back starts at one. *)
findLastNFromOne(n) == before[IF n = 1 THEN 1 ELSE n - 1]

(* findFirstN and findLastN; larger n, and negative n, which are compared as
   unsigned numbers, find nothing. *)
findFirstN(n) == after[n]
findLastN(n) == before[n]

-----------------------------------------------------------------------------
(* addToTail and popFront. *)

(* Mutant: tail's link back is forgotten. *)
linkLastForward(nx, pv, n) ==
  /\ next' = [nx EXCEPT ![pv[tail]] = n, ![n] = tail]
  /\ prev' = [pv EXCEPT ![n] = pv[tail]]

(* Link n between the last node and tail, in the list nx, pv. *)
linkLast(nx, pv, n) ==
  /\ next' = [nx EXCEPT ![pv[tail]] = n, ![n] = tail]
  /\ prev' = [pv EXCEPT ![n] = pv[tail], ![tail] = n]

first == next[head]

(* Mutants: the search for a node that shares the block misses the last one;
   or finds the first node itself. *)
sharedButByLast == \E m \in ListedNodes \ {first, prev[tail]} : idOf[m] = idOf[first]
sharedAlways == \E m \in ListedNodes : idOf[m] = idOf[first]

(* Another node of the list has the first one's commandId. *)
shared == \E m \in ListedNodes \ {first} : idOf[m] = idOf[first]

(* Mutant: the list is full one node too early. *)
fullEarly == numHist >= HISTSIZE

full == numHist > HISTSIZE

(* addToTail(n): a full list loses its first node before n is linked in, so
   that n itself does not count as sharing that node's block.  The list is not
   empty then, and popFront's cases for an empty one do not arise. *)
addToTail(n) ==
  IF ~full
  THEN /\ linkLast(next, prev, n)
       /\ numHist' = numHist + 1
       /\ allocated' = allocated \cup {n}
       /\ UNCHANGED freed
  ELSE /\ linkLast([next EXCEPT ![head] = next[first]],
                   [prev EXCEPT ![next[first]] = head], n)
       /\ UNCHANGED numHist
       /\ allocated' = (allocated \ {first}) \cup {n}
       /\ freed' = IF shared THEN freed ELSE [freed EXCEPT ![idOf[first]] = @ + 1]

-----------------------------------------------------------------------------
(* The lines main reads. *)

(* createNode, addToTail; callChild comes next. *)
Enter(id, step) ==
  \E n \in Node \ allocated :
    /\ idOf' = [idOf EXCEPT ![n] = id]
    /\ deleted' = [deleted EXCEPT ![n] = FALSE]
    /\ addToTail(n)
    /\ newHist' = n
    /\ pc' = step

NewCommand(k) ==
  /\ pc = "prompt"
  /\ commandId < MaxCommands
  /\ Enter(commandId, "call new")
  /\ commandId' = commandId + 1
  /\ kind' = [kind EXCEPT ![commandId] = k]

(* Node m is the one that has to make room, and nothing else shares its block. *)
MakesRoom(m) == full /\ m = first /\ ~shared

Recall(m) ==
  /\ pc = "prompt"
  /\ RecallsOldest \/ ~MakesRoom(m)
  /\ Enter(idOf[m], "call again")
  /\ UNCHANGED <<commandId, kind>>

(* "!-n", and "!!" for n = 1. *)
RecallLast(n) == n \in 1 .. numHist /\ Recall(findLastN(n))

(* "!n". *)
RecallFirst(n) == n \in 1 .. numHist /\ Recall(findFirstN(n))

(* The end of the input at the prompt. *)
EndOfInput ==
  /\ pc = "prompt"
  /\ pc' = "clear"
  /\ UNCHANGED <<listVars, kind, commandId, newHist>>

-----------------------------------------------------------------------------
(* callChild and clearList. *)

(* A command that runs to its end in a child process, or history. *)
CallReturns ==
  /\ Calling
  /\ kind[idOf[newHist]] # "exit"
  /\ pc' = "prompt"
  /\ UNCHANGED <<listVars, kind, commandId, newHist>>

(* fork fails: the line's args and commandLine, which are the node's own if the
   command is new, are freed and the shell ends as it is. *)
ForkFails ==
  /\ Calling
  /\ kind[idOf[newHist]] = "run"
  /\ pc' = "ended"
  /\ freed' = IF pc = "call new" THEN [freed EXCEPT ![idOf[newHist]] = @ + 1] ELSE freed
  /\ UNCHANGED <<next, prev, idOf, deleted, allocated, numHist, kind, commandId, newHist>>

CallExit ==
  /\ Calling
  /\ kind[idOf[newHist]] = "exit"
  /\ pc' = "clear"
  /\ UNCHANGED <<listVars, kind, commandId, newHist>>

(* Mutant: the nodes that share the block are not told. *)
MarkNone(t) == UNCHANGED deleted

(* destroyNode tells the nodes after t that their block is gone. *)
MarkSharers(t) ==
  deleted' = [m \in Node |->
                deleted[m] \/ (m \in ListedNodes \ {t} /\ idOf[m] = idOf[t])]

(* One turn of clearList's loop: the first node is unlinked and destroyed.  Only
   the link forward is kept up. *)
ClearFirst ==
  /\ pc = "clear"
  /\ first # tail
  /\ next' = [next EXCEPT ![head] = next[first]]
  /\ allocated' = allocated \ {first}
  /\ IF deleted[first]
     THEN UNCHANGED <<deleted, freed>>
     ELSE MarkSharers(first) /\ freed' = [freed EXCEPT ![idOf[first]] = @ + 1]
  /\ UNCHANGED <<prev, idOf, numHist, kind, commandId, newHist, pc>>

ClearEnd ==
  /\ pc = "clear"
  /\ first = tail
  /\ pc' = "ended"
  /\ UNCHANGED <<listVars, kind, commandId, newHist>>

-----------------------------------------------------------------------------
Init ==
  /\ next = [n \in Node \cup Sentinel |-> IF n = head THEN tail ELSE NULL]
  /\ prev = [n \in Node \cup Sentinel |-> IF n = tail THEN head ELSE NULL]
  /\ idOf = [n \in Node |-> 0]
  /\ deleted = [n \in Node |-> FALSE]
  /\ allocated = {}
  /\ freed = [id \in Id |-> 0]
  /\ kind = [id \in Id |-> "run"]
  /\ numHist = 0
  /\ commandId = 0
  /\ newHist = NULL
  /\ pc = "prompt"

Over == pc = "ended" /\ UNCHANGED vars

Next ==
  \/ \E k \in Kind : NewCommand(k)
  \/ \E n \in 1 .. HISTSIZE + 1 : RecallLast(n) \/ RecallFirst(n)
  \/ EndOfInput
  \/ CallReturns \/ ForkFails \/ CallExit
  \/ ClearFirst \/ ClearEnd
  \/ Over

Spec == Init /\ [][Next]_vars

-----------------------------------------------------------------------------
(* Properties. *)

(* The links back mirror the links forward and numHist counts the nodes: no
   entry or removal at either end leaves the list broken for the next walk from
   the other. *)
ListLinked ==
  Running =>
    /\ Len(Listed) = numHist
    /\ \A n \in 0 .. numHist : prev[after[n + 1]] = after[n]
    /\ allocated = ListedNodes

(* What the list can still show or run has not been freed: popFront frees a
   block only when its last node goes. *)
ListedLive == Running => \A m \in ListedNodes : freed[idOf[m]] = 0

(* callChild is called with args that have not been freed: "!n" runs the command
   it names. *)
CalledLive == Calling => freed[idOf[newHist]] = 0

(* When the shell ends through clearList, every node has been freed and every
   block exactly once, whichever mixture of popFront and destroyNode did it. *)
NothingLeaks ==
  (pc = "ended" /\ first = tail) =>
    /\ allocated = {}
    /\ \A id \in Id : freed[id] = (IF id < commandId THEN 1 ELSE 0)

(* "!-n" recalls the n-th command from the newest of the list read from its
   other end. *)
RecallsNth ==
  [][\A n \in 1 .. numHist :
       RecallLast(n) => idOf'[newHist'] = idOf[Listed[numHist + 1 - n]]]_vars

-----------------------------------------------------------------------------
(* Refinement. *)

Log == INSTANCE BoundedHistory WITH
  Size    <- HISTSIZE + 1,
  Command <- Id \cup {NULL},
  log     <- IF Running THEN [n \in DOMAIN Listed |-> idOf[Listed[n]]] ELSE <<>>,
  called  <- IF newHist = NULL THEN NULL ELSE idOf[newHist],
  open    <- Running

(* The linked list implements the bounded history, one entry longer than
   HISTSIZE says: numHist is compared before the new node is counted. *)
KeepsLog == Log!Spec
=============================================================================
