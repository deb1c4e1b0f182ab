----------------------------- MODULE MatrixSum -----------------------------
(***************************************************************************)
(* hw2/matrix.c: main fills two N x N matrices, multiplies them and finds  *)
(* the largest row sum of the product, in three rounds.  In each round it  *)
(* creates threads one after the other, N * N or, in the last, N, and then *)
(* joins them all.                                                         *)
(*                                                                         *)
(* assignNumber and multiply touch only their own cell and what no thread  *)
(* of their round writes: each is one action.  maxRowSum reads             *)
(* MAX_ROW_SUM before it takes the lock, and again under it.               *)
(***************************************************************************)
EXTENDS Integers

CONSTANTS
  N,         \* the size of the matrices
  DigitsA,   \* what rand_r() % 10 gives, for A and for B
  DigitsB

ASSUME MatrixAssumption ==
  /\ N \in Nat \ {0}
  /\ DigitsA \subseteq 0 .. 9 /\ DigitsA # {}
  /\ DigitsB \subseteq 0 .. 9 /\ DigitsB # {}

Index == 0 .. N - 1
Thread == 0 .. N * N - 1       \* in the order main creates them
Row(t) == t \div N             \* seed->xLoc and seed->yLoc
Col(t) == t % N
FREE == -1

Round == {"assign", "multiply", "sum"}
Size(r) == IF r = "sum" THEN N ELSE N * N

VARIABLES
  round,        \* the round main is in, or how main ended
  created,      \* the threads of this round main has created
  pc,           \* where each round's threads are
  A, B, C,
  MAX_ROW_SUM,
  lock,         \* the thread that holds it
  sum,          \* maxRowSum's local variable
  register      \* the value of MAX_ROW_SUM that MAX_ROW_SUM -= sum loads
matrices == <<A, B, C>>
vars == <<round, created, pc, matrices, MAX_ROW_SUM, lock, sum, register>>

Zero == [i \in Index |-> [j \in Index |-> 0]]

Init ==
  /\ round = "assign"
  /\ created = 0
  /\ pc = [r \in Round |-> [t \in Thread |-> "none"]]
  /\ A = Zero /\ B = Zero /\ C = Zero
  /\ MAX_ROW_SUM = 0
  /\ lock = FREE
  /\ sum = [i \in Index |-> 0]
  /\ register = [i \in Index |-> 0]

-----------------------------------------------------------------------------
(* main *)

Create ==
  /\ round \in Round
  /\ created < Size(round)
  /\ created' = created + 1
  /\ pc' = [pc EXCEPT ![round][created] = "start"]
  /\ UNCHANGED <<round, matrices, MAX_ROW_SUM, lock, sum, register>>

(* exit(1): every thread ends with the process. *)
CreateFails ==
  /\ round \in Round
  /\ created < Size(round)
  /\ round' = "failed"
  /\ UNCHANGED <<created, pc, matrices, MAX_ROW_SUM, lock, sum, register>>

(* Mutant: the last thread is not joined. *)
JoinedButLast == \A t \in 0 .. Size(round) - 2 : pc[round][t] = "ended"

(* Every pthread_join of the round has returned. *)
Joined == \A t \in 0 .. Size(round) - 1 : pc[round][t] = "ended"

(* The joins return in main's order, which nothing sees; a join of a thread
   main created and has not joined yet does not fail. *)
EndRound ==
  /\ round \in Round
  /\ created = Size(round)
  /\ Joined
  /\ round' = CASE round = "assign"   -> "multiply"
                [] round = "multiply" -> "sum"
                [] round = "sum"      -> "report"
  /\ created' = 0
  /\ UNCHANGED <<pc, matrices, MAX_ROW_SUM, lock, sum, register>>

Main == Create \/ CreateFails \/ EndRound

-----------------------------------------------------------------------------
(* The threads. *)

Moves(r, t, from, to) ==
  /\ round \in Round          \* the process has not exited
  /\ pc[r][t] = from
  /\ pc' = [pc EXCEPT ![r][t] = to]
  /\ UNCHANGED <<round, created>>

assignNumber(t) ==
  /\ Moves("assign", t, "start", "ended")
  /\ \E a \in DigitsA, b \in DigitsB :
       /\ A' = [A EXCEPT ![Row(t)][Col(t)] = a]
       /\ B' = [B EXCEPT ![Row(t)][Col(t)] = b]
  /\ UNCHANGED <<C, MAX_ROW_SUM, lock, sum, register>>

(* The loops of multiply and maxRowSum, which add N numbers in their order.  (A
   recursive function, so that its value can be proved to be an integer.) *)
SumOf(f) ==
  LET s[n \in 0 .. N] == IF n = 0 THEN 0 ELSE s[n - 1] + f[n - 1]
  IN  s[N]

Product(i, j) == SumOf([x \in Index |-> A[i][x] * B[x][j]])

multiply(t) ==
  /\ Moves("multiply", t, "start", "ended")
  /\ C' = [C EXCEPT ![Row(t)][Col(t)] = Product(Row(t), Col(t))]
  /\ UNCHANGED <<A, B, MAX_ROW_SUM, lock, sum, register>>

RowSum(i) == SumOf(C[i])

(* maxRowSum of row i: sum is what is missing from MAX_ROW_SUM, negated. *)
ReadMax(i) ==
  /\ Moves("sum", i, "start", "wait")
  /\ sum' = [sum EXCEPT ![i] = MAX_ROW_SUM - RowSum(i)]
  /\ UNCHANGED <<matrices, MAX_ROW_SUM, lock, register>>

(* Mutant: the lock is not waited for. *)
LockOpen(i) ==
  /\ Moves("sum", i, "wait", "test")
  /\ lock' = i
  /\ UNCHANGED <<matrices, MAX_ROW_SUM, sum, register>>

Lock(i) ==
  /\ lock = FREE
  /\ Moves("sum", i, "wait", "test")
  /\ lock' = i
  /\ UNCHANGED <<matrices, MAX_ROW_SUM, sum, register>>

TestAndLoad(i) ==
  /\ IF sum[i] < 0
     THEN /\ Moves("sum", i, "test", "store")
          /\ register' = [register EXCEPT ![i] = MAX_ROW_SUM]
     ELSE Moves("sum", i, "test", "unlock") /\ UNCHANGED register
  /\ UNCHANGED <<matrices, MAX_ROW_SUM, lock, sum>>

StoreMax(i) ==
  /\ Moves("sum", i, "store", "unlock")
  /\ MAX_ROW_SUM' = register[i] - sum[i]
  /\ UNCHANGED <<matrices, lock, sum, register>>

(* Mutant: the lock is kept. *)
UnlockNever(i) ==
  /\ Moves("sum", i, "unlock", "ended")
  /\ UNCHANGED <<matrices, MAX_ROW_SUM, lock, sum, register>>

Unlock(i) ==
  /\ Moves("sum", i, "unlock", "ended")
  /\ lock' = FREE
  /\ UNCHANGED <<matrices, MAX_ROW_SUM, sum, register>>

maxRowSum(i) == ReadMax(i) \/ Lock(i) \/ TestAndLoad(i) \/ StoreMax(i) \/ Unlock(i)

-----------------------------------------------------------------------------
Over == round \in {"report", "failed"} /\ UNCHANGED vars

Next ==
  \/ Main
  \/ Over
  \/ \E t \in Thread : assignNumber(t) \/ multiply(t)
  \/ \E i \in Index : maxRowSum(i)

Spec == Init /\ [][Next]_vars

(* The operating system runs every thread that can run.  A thread takes the
   lock once, so weak fairness is enough for those that wait for it. *)
FairSpec ==
  /\ Spec
  /\ WF_vars(Main)
  /\ \A t \in Thread :
       WF_vars(assignNumber(t) \/ multiply(t) \/ (t \in Index /\ maxRowSum(t)))

-----------------------------------------------------------------------------
(* From the third round on C is the product of A and B: no thread of a round
   reads what an unfinished one of the round before is still to write. *)
ProductExact ==
  round \in {"sum", "report"} => \A i, j \in Index : C[i][j] = Product(i, j)

(* Once a row's thread has ended, MAX_ROW_SUM is at least that row's sum, and it
   stays so, although the sum was compared with a value of MAX_ROW_SUM read
   before the lock was taken.  (It may be more than every row's sum: two threads
   that both read it before either writes add up their sums.) *)
MaxCoversRows ==
  \A i \in Index : pc["sum"][i] = "ended" => RowSum(i) <= MAX_ROW_SUM

(* main ends, with an answer or a failed pthread_create: the lock is given back
   by everyone who takes it. *)
MainEnds == <>(round \in {"report", "failed"})
=============================================================================
