-------------------------- MODULE MatrixSumProofs --------------------------
(***************************************************************************)
(* Theorems of MatrixSum, for matrices of any size and any digits.         *)
(*                                                                         *)
(* That the sums are integers needs an induction: it is done with the      *)
(* least number of a set (LeastOf), which needs no operator as parameter.  *)
(***************************************************************************)
EXTENDS MatrixSum, WellFoundedInduction, TLAPS

-----------------------------------------------------------------------------
(* Numbers. *)

LEMMA LeastOf ==
  ASSUME NEW T, T \subseteq Nat, T # {}
  PROVE  \E n \in T : \A m \in T : ~(m < n)
<1> DEFINE R == {ss \in Nat \X Nat : ss[1] < ss[2]}
<1>1. IsWellFoundedOn(R, Nat)
  BY NatLessThanWellFounded DEF OpToRel
<1> HIDE DEF R
<1>2. \E x \in T : \A y \in T : ~ (<<y, x>> \in R)
  BY <1>1, WFMin
<1> QED
  BY <1>2 DEF R

(* The partial sums that SumOf names exist and are integers. *)
LEMMA PartialSums ==
  ASSUME NEW f \in [Index -> Int], NEW K \in 0 .. N
  PROVE  \E s \in [0 .. K -> Int] :
           s = [n \in 0 .. K |-> IF n = 0 THEN 0 ELSE s[n - 1] + f[n - 1]]
<1> DEFINE Adds(k, s) == s = [n \in 0 .. k |-> IF n = 0 THEN 0 ELSE s[n - 1] + f[n - 1]]
           T == {k \in 0 .. N : ~ \E s \in [0 .. k -> Int] : Adds(k, s)}
<1>1. N \in Nat
  BY MatrixAssumption
<1>2. SUFFICES ASSUME T # {} PROVE FALSE
  OBVIOUS
<1>3. PICK k \in T : \A m \in T : ~(m < k)
  <2>1. T \subseteq Nat
    BY <1>1
  <2> HIDE DEF T
  <2> QED
    BY <1>2, <2>1, LeastOf
<1>4. k \in 0 .. N /\ ~ \E s \in [0 .. k -> Int] : Adds(k, s)
  BY <1>3
<1>5. CASE k = 0
  <2> DEFINE s == [n \in 0 .. k |-> 0]
  <2>1. s \in [0 .. k -> Int] /\ Adds(k, s)
    BY <1>5
  <2> QED
    BY <1>4, <2>1
<1>6. CASE k # 0
  <2>1. k - 1 \in 0 .. N /\ k - 1 < k
    BY <1>1, <1>4, <1>6
  <2>2. k - 1 \notin T
    <3> HIDE DEF T
    <3> QED
      BY <1>3, <2>1
  <2>3. PICK s \in [0 .. k - 1 -> Int] : Adds(k - 1, s)
    BY <2>1, <2>2
  <2> DEFINE t == [n \in 0 .. k |-> IF n < k THEN s[n] ELSE s[k - 1] + f[k - 1]]
  <2>4. k - 1 \in Index
    BY <1>1, <1>4, <1>6 DEF Index
  <2>5. t \in [0 .. k -> Int]
    BY <1>1, <1>4, <1>6, <2>4
  <2>6. ASSUME NEW n \in 0 .. k PROVE t[n] = IF n = 0 THEN 0 ELSE t[n - 1] + f[n - 1]
    <3>1. CASE n = k
      BY <1>1, <1>4, <1>6, <3>1
    <3>2. CASE n # k
      <4>1. n \in 0 .. k - 1 /\ n < k /\ (n # 0 => n - 1 \in 0 .. k /\ n - 1 < k)
        BY <1>1, <1>4, <1>6, <3>2
      <4>2. s[n] = IF n = 0 THEN 0 ELSE s[n - 1] + f[n - 1]
        BY <2>3, <4>1
      <4> QED
        BY <4>1, <4>2
    <3> QED
      BY <3>1, <3>2
  <2>7. Adds(k, t)
    BY <2>6
  <2> QED
    BY <1>4, <2>5, <2>7
<1> QED
  BY <1>5, <1>6

(* The sum of N integers is an integer. *)
LEMMA SumIsInt ==
  ASSUME NEW f \in [Index -> Int]
  PROVE  SumOf(f) \in Int
<1> DEFINE S == CHOOSE s : s = [n \in 0 .. N |-> IF n = 0 THEN 0 ELSE s[n - 1] + f[n - 1]]
<1>1. N \in Nat
  BY MatrixAssumption
<1>2. S = [n \in 0 .. N |-> IF n = 0 THEN 0 ELSE S[n - 1] + f[n - 1]]
  <2>1. N \in 0 .. N
    BY <1>1
  <2>2. \E s : s = [n \in 0 .. N |-> IF n = 0 THEN 0 ELSE s[n - 1] + f[n - 1]]
    BY <2>1, PartialSums
  <2> QED
    BY <2>2
<1> HIDE DEF S
<1> DEFINE T == {n \in 0 .. N : S[n] \notin Int}
<1>3. T = {}
  <2> SUFFICES ASSUME T # {} PROVE FALSE
    OBVIOUS
  <2>1. PICK n \in T : \A m \in T : ~(m < n)
    <3>1. T \subseteq Nat
      BY <1>1
    <3> HIDE DEF T
    <3> QED
      BY <3>1, LeastOf
  <2>2. S[n] = IF n = 0 THEN 0 ELSE S[n - 1] + f[n - 1]
    BY <1>2, <2>1
  <2>3. n # 0 => n - 1 \in 0 .. N /\ n - 1 < n /\ n - 1 \in Index
    BY <1>1, <2>1 DEF Index
  <2> QED
    BY <2>1, <2>2, <2>3
<1>4. S[N] \in Int
  BY <1>1, <1>3
<1>5. SumOf(f) = S[N]
  BY DEF SumOf, S
<1> QED
  BY <1>4, <1>5

-----------------------------------------------------------------------------
(* Cells and threads. *)

(* Each thread has a cell, each cell a thread. *)
LEMMA CellOf ==
  ASSUME NEW t \in Thread
  PROVE  Row(t) \in Index /\ Col(t) \in Index
<1>1. N \in Nat /\ N > 0 /\ N * N \in Nat /\ t \in Nat /\ t < N * N
  BY MatrixAssumption DEF Thread
<1>2. Col(t) \in Index
  BY <1>1 DEF Col, Index
<1>3. Row(t) \in Nat /\ t = N * Row(t) + Col(t)
  BY <1>1 DEF Row, Col
<1>4. ASSUME Row(t) >= N PROVE FALSE
  <2>1. N * Row(t) >= N * N
    BY <1>1, <1>3, <1>4
  <2> QED
    BY <1>1, <1>2, <1>3, <2>1 DEF Index
<1> QED
  BY <1>1, <1>2, <1>3, <1>4 DEF Index

LEMMA ThreadOf ==
  ASSUME NEW i \in Index, NEW j \in Index
  PROVE  \E t \in Thread : Row(t) = i /\ Col(t) = j
<1> DEFINE t == i * N + j
<1>1. N \in Nat /\ N > 0 /\ i \in Nat /\ j \in Nat /\ i <= N - 1 /\ j < N
  BY MatrixAssumption DEF Index
<1>2. i * N \in Nat /\ i * N <= (N - 1) * N
  BY <1>1
<1>3. (N - 1) * N = N * N - N /\ N * N \in Nat
  BY <1>1
<1>4. t \in Thread
  BY <1>1, <1>2, <1>3 DEF Thread
<1>5. t \div N = i
  BY <1>1
<1>6. t % N = j
  BY <1>1
<1> QED
  BY <1>4, <1>5, <1>6 DEF Row, Col

LEMMA RowThreads == Index \subseteq Thread
<1>1. N \in Nat /\ N > 0 /\ N <= N * N /\ N * N \in Nat
  BY MatrixAssumption
<1> QED
  BY <1>1 DEF Index, Thread

-----------------------------------------------------------------------------
(* The invariant. *)

Typed ==
  /\ round \in Round \cup {"report", "failed"}
  /\ created \in Nat
  /\ pc \in [Round -> [Thread -> {"none", "start", "wait", "test", "store", "unlock", "ended"}]]
  /\ A \in [Index -> [Index -> Int]]
  /\ B \in [Index -> [Index -> Int]]
  /\ C \in [Index -> [Index -> Int]]
  /\ MAX_ROW_SUM \in Int
  /\ lock \in Index \cup {FREE}
  /\ sum \in [Index -> Int]
  /\ register \in [Index -> Int]

(* What the joins establish: the threads of a round run in it only. *)
Rounds ==
  /\ round = "assign" =>
       \A t \in Thread : pc["multiply"][t] = "none" /\ pc["sum"][t] = "none"
  /\ round = "multiply" =>
       \A t \in Thread : pc["assign"][t] = "ended" /\ pc["sum"][t] = "none"
  /\ round \in {"sum", "report"} =>
       \A t \in Thread : pc["assign"][t] = "ended" /\ pc["multiply"][t] = "ended"

Cells ==
  round \in {"multiply", "sum", "report"} =>
    \A t \in Thread :
      pc["multiply"][t] = "ended" => C[Row(t)][Col(t)] = Product(Row(t), Col(t))

(* What maxRowSum of a row knows: MAX_ROW_SUM only grows, so that the comparison
   it made before it had the lock is still good; under the lock nobody writes. *)
Sums ==
  \A i \in Index :
    /\ pc["sum"][i] \in {"wait", "test", "store"} => RowSum(i) <= MAX_ROW_SUM - sum[i]
    /\ pc["sum"][i] = "store" => register[i] = MAX_ROW_SUM /\ sum[i] < 0
    /\ pc["sum"][i] \in {"unlock", "ended"} => RowSum(i) <= MAX_ROW_SUM
    /\ pc["sum"][i] \in {"test", "store", "unlock"} => lock = i

IInv == Typed /\ Rounds /\ Cells /\ Sums

LEMMA ProductIsInt ==
  ASSUME Typed, NEW i \in Index, NEW j \in Index
  PROVE  Product(i, j) \in Int
<1>1. [x \in Index |-> A[i][x] * B[x][j]] \in [Index -> Int]
  BY DEF Typed
<1> QED
  BY <1>1, SumIsInt DEF Product

LEMMA RowSumIsInt ==
  ASSUME Typed, NEW i \in Index
  PROVE  RowSum(i) \in Int
  BY SumIsInt DEF Typed, RowSum

LEMMA ProductKept ==
  ASSUME UNCHANGED <<A, B>>, NEW i, NEW j
  PROVE  Product(i, j)' = Product(i, j)
  BY DEF Product

LEMMA RowSumKept ==
  ASSUME UNCHANGED C, NEW i
  PROVE  RowSum(i)' = RowSum(i)
  BY DEF RowSum

LEMMA InitHolds ==
  ASSUME Init
  PROVE  IInv
<1>1. Typed
  BY DEF Init, Typed, Round, Zero
<1>2. Rounds /\ Cells
  BY DEF Init, Rounds, Cells, Round
<1>3. Sums
  BY RowThreads DEF Init, Sums, Round
<1> QED
  BY <1>1, <1>2, <1>3 DEF IInv

-----------------------------------------------------------------------------
(* The steps. *)

LEMMA StutterStep ==
  ASSUME IInv, UNCHANGED vars
  PROVE  IInv'
<1>1. Typed' /\ Rounds'
  BY DEF IInv, Typed, Rounds, vars, matrices
<1>2. Cells'
  BY ProductKept DEF IInv, Cells, vars, matrices
<1>3. Sums'
  BY RowSumKept DEF IInv, Sums, vars, matrices
<1> QED
  BY <1>1, <1>2, <1>3 DEF IInv

(* A step that writes no matrix, and moves nothing in the first two rounds' threads. *)
LEMMA CellsKept ==
  ASSUME IInv, UNCHANGED matrices, round' \in {"multiply", "sum", "report"} => round = round',
         \A t \in Thread : pc'["multiply"][t] = "ended" => pc["multiply"][t] = "ended"
  PROVE  Cells'
<1>1. A' = A /\ B' = B /\ C' = C
  BY DEF matrices
<1> QED
  BY <1>1, ProductKept DEF IInv, Cells

LEMMA CreateStep ==
  ASSUME IInv, Create
  PROVE  IInv'
<1>1. created \in Thread /\ created' \in Nat
  <2>1. Size(round) \in Nat /\ N * N \in Nat /\ Size(round) <= N * N
    BY MatrixAssumption DEF Size
  <2>2. created \in Nat /\ created < Size(round) /\ created' = created + 1
    BY DEF IInv, Typed, Create
  <2> QED
    BY <2>1, <2>2 DEF Thread
<1>2. /\ \A r \in Round, t \in Thread :
           pc'[r][t] = IF r = round /\ t = created THEN "start" ELSE pc[r][t]
      /\ round \in Round
  BY <1>1 DEF IInv, Typed, Create
<1>3. Typed'
  BY <1>1 DEF IInv, Typed, Create, matrices
<1>4. Rounds'
  BY <1>2 DEF IInv, Rounds, Create, Round
<1>5. Cells'
  BY <1>2, CellsKept DEF Create, Round
<1>6. Sums'
  <2>1. C' = C /\ UNCHANGED <<MAX_ROW_SUM, lock, sum, register>>
    BY DEF Create, matrices
  <2>2. \A i \in Index : pc'["sum"][i] \in {"start", pc["sum"][i]}
    BY <1>2, RowThreads DEF Round
  <2> QED
    BY <2>1, <2>2, RowSumKept DEF IInv, Sums
<1> QED
  BY <1>3, <1>4, <1>5, <1>6 DEF IInv

LEMMA CreateFailsStep ==
  ASSUME IInv, CreateFails
  PROVE  IInv'
<1>1. Typed' /\ Rounds' /\ Cells'
  BY DEF IInv, Typed, Rounds, Cells, CreateFails, matrices
<1>2. Sums'
  BY RowSumKept DEF IInv, Sums, CreateFails, matrices
<1> QED
  BY <1>1, <1>2 DEF IInv

(* The joins are why the next round finds every thread of this one ended. *)
LEMMA EndRoundStep ==
  ASSUME IInv, EndRound
  PROVE  IInv'
<1>1. /\ UNCHANGED <<pc, A, B, C, MAX_ROW_SUM, lock, sum, register>>
      /\ \/ round = "assign" /\ round' = "multiply"
         \/ round = "multiply" /\ round' = "sum"
         \/ round = "sum" /\ round' = "report"
  BY DEF EndRound, Round, matrices
<1>2. round # "sum" => \A t \in Thread : pc[round][t] = "ended"
  BY DEF EndRound, Joined, Size, Thread
<1>3. Typed'
  BY <1>1 DEF IInv, Typed, EndRound, Round
<1>4. Rounds'
  BY <1>1, <1>2 DEF IInv, Rounds
<1>5. Cells'
  BY <1>1, ProductKept DEF IInv, Cells, Rounds
<1>6. Sums'
  BY <1>1, RowSumKept DEF IInv, Sums
<1> QED
  BY <1>3, <1>4, <1>5, <1>6 DEF IInv

LEMMA AssignStep ==
  ASSUME IInv, NEW t \in Thread, assignNumber(t)
  PROVE  IInv'
<1>1. round = "assign" /\ round' = round
  BY DEF IInv, Rounds, assignNumber, Moves, Round
<1>2. \A u \in Thread : pc'["sum"][u] = "none" /\ pc'["multiply"][u] = "none"
  BY <1>1 DEF IInv, Typed, Rounds, assignNumber, Moves, Round
<1>3. Typed'
  <2>1. Row(t) \in Index /\ Col(t) \in Index
    BY CellOf
  <2>2. DigitsA \subseteq Int /\ DigitsB \subseteq Int
    BY MatrixAssumption
  <2>3. A' \in [Index -> [Index -> Int]] /\ B' \in [Index -> [Index -> Int]]
    BY <2>1, <2>2 DEF IInv, Typed, assignNumber
  <2> QED
    BY <2>3 DEF IInv, Typed, assignNumber, Moves
<1>4. Rounds' /\ Cells'
  BY <1>1, <1>2 DEF Rounds, Cells
<1>5. Sums'
  BY <1>2, RowThreads DEF Sums
<1> QED
  BY <1>3, <1>4, <1>5 DEF IInv

(* The cells other threads wrote stay; one written twice would get the same value. *)
LEMMA MultiplyStep ==
  ASSUME IInv, NEW t \in Thread, multiply(t)
  PROVE  IInv'
<1>1. round = "multiply" /\ round' = round
  BY DEF IInv, Rounds, multiply, Moves, Round
<1>2. \A u \in Thread : /\ pc'["sum"][u] = "none"
                        /\ pc'["assign"][u] = "ended"
                        /\ pc'["multiply"][u] = IF u = t THEN "ended" ELSE pc["multiply"][u]
  BY <1>1 DEF IInv, Typed, Rounds, multiply, Moves, Round
<1>3. Row(t) \in Index /\ Col(t) \in Index /\ Product(Row(t), Col(t)) \in Int
  BY CellOf, ProductIsInt DEF IInv
<1>4. Typed'
  BY <1>3 DEF IInv, Typed, multiply, Moves
<1>5. Rounds'
  BY <1>1, <1>2 DEF Rounds
<1>6. Cells'
  <2>1. A' = A /\ B' = B
    BY DEF multiply
  <2>2. \A i, j \in Index :
          C'[i][j] = IF i = Row(t) /\ j = Col(t) THEN Product(i, j) ELSE C[i][j]
    BY <1>3 DEF IInv, Typed, multiply
  <2> QED
    BY <1>1, <1>2, <2>1, <2>2, CellOf, ProductKept DEF IInv, Cells
<1>7. Sums'
  BY <1>2, RowThreads DEF Sums
<1> QED
  BY <1>4, <1>5, <1>6, <1>7 DEF IInv

(* A step of maxRowSum: what it may do to the others, and to its own row. *)
LEMMA MaxStep ==
  ASSUME IInv, NEW i \in Index, maxRowSum(i)
  PROVE  IInv'
<1>1. PICK from \in {"start", "wait", "test", "store", "unlock"},
           to \in {"wait", "test", "store", "unlock", "ended"} :
        Moves("sum", i, from, to)
  BY DEF maxRowSum, ReadMax, Lock, TestAndLoad, StoreMax, Unlock
<1>2. i \in Thread
  BY RowThreads
<1>3. round = "sum" /\ round' = round /\ UNCHANGED <<A, B, C>>
  BY <1>1, <1>2 DEF IInv, Rounds, Moves, Round, maxRowSum, ReadMax, Lock, TestAndLoad,
     StoreMax, Unlock, matrices
<1>4. \A t \in Thread : /\ pc'["assign"][t] = "ended" /\ pc'["multiply"][t] = "ended"
                        /\ pc'["sum"][t] = IF t = i THEN to ELSE pc["sum"][t]
  BY <1>1, <1>3 DEF IInv, Typed, Rounds, Moves, Round
<1>5. RowSum(i) \in Int /\ MAX_ROW_SUM \in Int /\ sum[i] \in Int
  BY RowSumIsInt DEF IInv, Typed
<1>6. Typed'
  <2>1. /\ MAX_ROW_SUM' \in Int /\ lock' \in Index \cup {FREE}
        /\ sum' \in [Index -> Int] /\ register' \in [Index -> Int]
    BY <1>5 DEF IInv, Typed, maxRowSum, ReadMax, Lock, TestAndLoad, StoreMax, Unlock
  <2>2. pc' = [pc EXCEPT !["sum"][i] = to] /\ created' = created
    BY <1>1 DEF Moves
  <2>3. pc' \in [Round -> [Thread -> {"none", "start", "wait", "test", "store", "unlock", "ended"}]]
    BY <1>2, <2>2 DEF IInv, Typed
  <2> QED
    BY <1>3, <2>1, <2>2, <2>3 DEF IInv, Typed
<1>7. Rounds'
  BY <1>3, <1>4 DEF Rounds
<1>8. Cells'
  BY <1>3, <1>4, CellsKept DEF IInv, Rounds, matrices
<1>9. Sums'
  <2>1. MAX_ROW_SUM' >= MAX_ROW_SUM
    BY <1>2, <1>5 DEF IInv, Sums, Typed, Moves, maxRowSum, ReadMax, Lock, TestAndLoad, StoreMax,
       Unlock
  <2>2. \A k \in Index \ {i} : sum'[k] = sum[k] /\ register'[k] = register[k]
    BY DEF IInv, Typed, maxRowSum, ReadMax, Lock, TestAndLoad, StoreMax, Unlock
  <2>3. ASSUME NEW k \in Index, k # i, pc["sum"][k] \in {"test", "store", "unlock"}
        PROVE  lock' = lock /\ MAX_ROW_SUM' = MAX_ROW_SUM
    <3>1. lock = k /\ k # FREE
      BY <2>3, MatrixAssumption DEF IInv, Sums, Index, FREE
    <3>2. pc["sum"][i] \notin {"test", "store", "unlock"}
      BY <2>3, <3>1 DEF IInv, Sums
    <3> QED
      BY <3>1, <3>2, <1>2 DEF maxRowSum, ReadMax, Lock, TestAndLoad, StoreMax, Unlock, Moves
  <2>4. ASSUME NEW k \in Index, k # i
        PROVE  /\ pc'["sum"][k] \in {"wait", "test", "store"} =>
                    RowSum(k) <= MAX_ROW_SUM' - sum'[k]
               /\ pc'["sum"][k] = "store" => register'[k] = MAX_ROW_SUM' /\ sum'[k] < 0
               /\ pc'["sum"][k] \in {"unlock", "ended"} => RowSum(k) <= MAX_ROW_SUM'
               /\ pc'["sum"][k] \in {"test", "store", "unlock"} => lock' = k
    <3>1. /\ k \in Thread /\ pc'["sum"][k] = pc["sum"][k] /\ RowSum(k) \in Int
          /\ sum[k] \in Int /\ MAX_ROW_SUM' \in Int
      BY <1>4, <1>6, <2>4, RowThreads, RowSumIsInt DEF IInv, Typed
    <3> QED
      BY <1>5, <2>1, <2>2, <2>3, <2>4, <3>1 DEF IInv, Sums
  <2>5. /\ pc'["sum"][i] \in {"wait", "test", "store"} =>
             RowSum(i) <= MAX_ROW_SUM' - sum'[i]
        /\ pc'["sum"][i] = "store" => register'[i] = MAX_ROW_SUM' /\ sum'[i] < 0
        /\ pc'["sum"][i] \in {"unlock", "ended"} => RowSum(i) <= MAX_ROW_SUM'
        /\ pc'["sum"][i] \in {"test", "store", "unlock"} => lock' = i
    <3>1. pc'["sum"][i] = to /\ pc["sum"][i] = from
      BY <1>1, <1>2, <1>4 DEF Moves
    <3>2. CASE ReadMax(i)
      <4>1. to = "wait" /\ sum'[i] = MAX_ROW_SUM - RowSum(i) /\ MAX_ROW_SUM' = MAX_ROW_SUM
        BY <1>2, <1>4, <3>1, <3>2 DEF ReadMax, Moves, IInv, Typed, Round
      <4> QED
        BY <1>5, <3>1, <4>1
    <3>3. CASE Lock(i)
      BY <1>2, <1>4, <3>1, <3>3 DEF Lock, Moves, IInv, Typed, Round, Sums
    <3>4. CASE TestAndLoad(i)
      BY <1>2, <1>4, <1>5, <3>1, <3>4 DEF TestAndLoad, Moves, IInv, Typed, Round, Sums
    <3>5. CASE StoreMax(i)
      BY <1>2, <1>4, <1>5, <3>1, <3>5 DEF StoreMax, Moves, IInv, Typed, Round, Sums
    <3>6. CASE Unlock(i)
      BY <1>2, <1>4, <3>1, <3>6 DEF Unlock, Moves, IInv, Typed, Round, Sums
    <3> QED
      BY <3>2, <3>3, <3>4, <3>5, <3>6 DEF maxRowSum
  <2>6. \A k \in Index : RowSum(k)' = RowSum(k)
    BY <1>3, RowSumKept
  <2> QED
    BY <2>4, <2>5, <2>6 DEF Sums
<1> QED
  BY <1>6, <1>7, <1>8, <1>9 DEF IInv

-----------------------------------------------------------------------------
(* The inductive invariant holds in every state of the program. *)
THEOREM Inductive == Spec => []IInv
<1>1. Init => IInv
  BY InitHolds
<1>2. IInv /\ [Next]_vars => IInv'
  BY CreateStep, CreateFailsStep, EndRoundStep, AssignStep, MultiplyStep, MaxStep, StutterStep
  DEF Next, Main, Over
<1> QED
  BY <1>1, <1>2, PTL DEF Spec

(* From the third round on C is the product of A and B, for every N. *)
THEOREM ProductIsExact == Spec => []ProductExact
<1>1. IInv => ProductExact
  BY ThreadOf DEF IInv, Rounds, Cells, ProductExact
<1> QED
  BY <1>1, Inductive, PTL

(* MAX_ROW_SUM covers the rows whose threads have ended, for every N. *)
THEOREM MaxCovers == Spec => []MaxCoversRows
<1>1. IInv => MaxCoversRows
  BY DEF IInv, Sums, MaxCoversRows
<1> QED
  BY <1>1, Inductive, PTL

=============================================================================
