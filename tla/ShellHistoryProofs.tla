-------------------------- MODULE ShellHistoryProofs --------------------------
(***************************************************************************)
(* Theorems of ShellHistory, for every HISTSIZE and every number of        *)
(* commands.  The argument has two parts.  The list is a chain: a sequence *)
(* of nodes between head and tail that the links forward follow and, until *)
(* the list is cleared, the links back mirror; the walks of the code read  *)
(* it off.  And a block is freed exactly when the last node of its         *)
(* commandId has gone, which needs that the entry that has to make room is *)
(* not recalled (RecallsOldest = FALSE).                                   *)
(***************************************************************************)
EXTENDS ShellHistory, FiniteSetTheorems, SequenceTheorems, WellFoundedInduction, TLAPS

OldestStays == RecallsOldest = FALSE

-----------------------------------------------------------------------------
(* Chains. *)

Ends == Node \cup Sentinel
Links == [Ends -> Ends \cup {NULL}]

(* c is head, k nodes, tail. *)
Chain(k, c) ==
  /\ k \in 0 .. HISTSIZE + 1
  /\ c \in [0 .. k + 1 -> Ends]
  /\ c[0] = head /\ c[k + 1] = tail
  /\ \A i \in 1 .. k : c[i] \in Node
  /\ \A i, j \in 1 .. k : c[i] = c[j] => i = j

Forward(nx, k, c) == \A i \in 0 .. k : nx[c[i]] = c[i + 1]
Back(pv, k, c) == \A i \in 0 .. k : pv[c[i + 1]] = c[i]
NodesOf(k, c) == {c[i] : i \in 1 .. k}

LEMMA LeastOf ==
  ASSUME NEW T, T \subseteq Nat, T # {}
  PROVE  \E n \in T : \A m \in T : ~(m < n)
<1> DEFINE R == {ss \in Nat \X Nat : ss[1] < ss[2]}
<1>1. IsWellFoundedOn(R, Nat)
  BY NatLessThanWellFounded DEF OpToRel
<1> HIDE DEF R
<1>2. \E x \in T : \A y \in T : ~ (<<y, x>> \in R)
  BY <1>1, WFMin
<1> QED
  BY <1>2 DEF R

LEMMA NodeType ==
  /\ HISTSIZE \in Nat
  /\ \A n \in Node : n \in Nat /\ n # head /\ n # tail /\ n # NULL
  /\ head # tail /\ head # NULL /\ tail # NULL
  /\ head \in Ends /\ tail \in Ends /\ Node \subseteq Ends
BY HistoryAssumption DEF HistoryAssumption, Node, head, tail, NULL, Ends, Sentinel

(* Where a chain goes: only its last element is tail, only its first head. *)
LEMMA ChainPlaces ==
  ASSUME NEW k, NEW c, Chain(k, c)
  PROVE  /\ k \in Nat /\ k <= HISTSIZE + 1
         /\ \A i \in 0 .. k : c[i] \in {head} \cup Node /\ c[i] # tail /\ c[i] # NULL
         /\ \A i \in 1 .. k + 1 : c[i] \in {tail} \cup Node /\ c[i] # head /\ c[i] # NULL
         /\ \A i, j \in 0 .. k : c[i] = c[j] => i = j
         /\ \A i, j \in 1 .. k + 1 : c[i] = c[j] => i = j
         /\ NodesOf(k, c) \subseteq Node
<1>1. /\ k \in Nat /\ k <= HISTSIZE + 1
      /\ c[0] = head /\ c[k + 1] = tail
      /\ \A i \in 1 .. k : c[i] \in Node
      /\ \A i, j \in 1 .. k : c[i] = c[j] => i = j
  BY NodeType DEF Chain
<1>2. \A i \in 0 .. k : i = 0 \/ i \in 1 .. k
  BY <1>1
<1>3. \A i \in 1 .. k + 1 : i = k + 1 \/ i \in 1 .. k
  BY <1>1
<1>4. NodesOf(k, c) \subseteq Node
  BY <1>1 DEF NodesOf
<1>5. \A i \in 0 .. k : c[i] \in {head} \cup Node /\ c[i] # tail /\ c[i] # NULL
  BY <1>1, <1>2, NodeType
<1>6. \A i \in 1 .. k + 1 : c[i] \in {tail} \cup Node /\ c[i] # head /\ c[i] # NULL
  BY <1>1, <1>3, NodeType
<1>7. \A i, j \in 0 .. k : c[i] = c[j] => i = j
  BY <1>1, <1>2, NodeType
<1>8. \A i, j \in 1 .. k + 1 : c[i] = c[j] => i = j
  BY <1>1, <1>3, NodeType
<1> QED
  BY <1>1, <1>4, <1>5, <1>6, <1>7, <1>8

-----------------------------------------------------------------------------
(* The walks. *)

(* w walks along the links nx from a until it comes to z. *)
IsWalk(w, nx, a, z) ==
  w = [n \in Nat |-> IF n = 0 THEN a
                     ELSE IF w[n - 1] \in {z, NULL} THEN z ELSE nx[w[n - 1]]]

WalkOf(nx, a, z) == CHOOSE w : IsWalk(w, nx, a, z)

(* Links that go through the k + 2 places of c give the walk. *)
Leads(nx, a, z, k, c) ==
  /\ k \in Nat
  /\ c[0] = a /\ c[k + 1] = z
  /\ \A i \in 0 .. k : c[i] \notin {z, NULL} /\ nx[c[i]] = c[i + 1]

LEMMA WalkExists ==
  ASSUME NEW nx, NEW a, NEW z, NEW k, NEW c, Leads(nx, a, z, k, c)
  PROVE  IsWalk(WalkOf(nx, a, z), nx, a, z)
<1> DEFINE f == [n \in Nat |-> IF n <= k + 1 THEN c[n] ELSE z]
<1>1. ASSUME NEW n \in Nat
      PROVE  f[n] = IF n = 0 THEN a ELSE IF f[n - 1] \in {z, NULL} THEN z ELSE nx[f[n - 1]]
  <2>1. CASE n = 0
    BY <2>1 DEF Leads
  <2>2. CASE n # 0 /\ n <= k + 1
    <3>1. n - 1 \in 0 .. k /\ n - 1 <= k + 1 /\ (n - 1) + 1 = n /\ n - 1 \in Nat
      BY <2>2 DEF Leads
    <3>2. f[n - 1] = c[n - 1] /\ f[n] = c[n]
      BY <2>2, <3>1
    <3>3. c[n - 1] \notin {z, NULL} /\ nx[c[n - 1]] = c[n]
      BY <3>1 DEF Leads
    <3> QED
      BY <2>2, <3>2, <3>3
  <2>3. CASE n > k + 1
    <3>1. n # 0 /\ f[n] = z
      BY <2>3 DEF Leads
    <3>2. f[n - 1] = z
      <4>1. CASE n = k + 2
        BY <4>1 DEF Leads
      <4>2. CASE n # k + 2
        <5>1. n - 1 \in Nat /\ ~(n - 1 <= k + 1)
          BY <2>3, <4>2 DEF Leads
        <5> QED
          BY <5>1
      <4> QED
        BY <4>1, <4>2
    <3> QED
      BY <3>1, <3>2
  <2> QED
    BY <2>1, <2>2, <2>3 DEF Leads
<1>2. f = [n \in Nat |-> IF n = 0 THEN a
                        ELSE IF f[n - 1] \in {z, NULL} THEN z ELSE nx[f[n - 1]]]
  <2>1. f = [n \in Nat |-> f[n]]
    OBVIOUS
  <2> HIDE DEF f
  <2> QED
    BY <1>1, <2>1
<1> HIDE DEF f
<1>3. IsWalk(f, nx, a, z)
  BY <1>2 DEF IsWalk
<1> QED
  BY <1>3 DEF WalkOf

LEMMA WalkIs ==
  ASSUME NEW nx, NEW a, NEW z, NEW k, NEW c, Leads(nx, a, z, k, c)
  PROVE  \A n \in 0 .. k + 1 : WalkOf(nx, a, z)[n] = c[n]
<1> DEFINE w == WalkOf(nx, a, z)
           T == {n \in 0 .. k + 1 : w[n] # c[n]}
<1>1. IsWalk(w, nx, a, z)
  BY WalkExists
<1> HIDE DEF w
<1>2. w[0] = a /\ \A n \in Nat \ {0} : w[n] = IF w[n - 1] \in {z, NULL} THEN z ELSE nx[w[n - 1]]
  <2>1. \A n \in Nat : w[n] = IF n = 0 THEN a
                               ELSE IF w[n - 1] \in {z, NULL} THEN z ELSE nx[w[n - 1]]
    BY <1>1 DEF IsWalk
  <2> QED
    BY <2>1
<1>3. SUFFICES ASSUME T # {} PROVE FALSE
  BY DEF w
<1>4. PICK n \in T : \A m \in T : ~(m < n)
  <2>1. T \subseteq Nat
    BY DEF Leads
  <2> HIDE DEF T
  <2> QED
    BY <1>3, <2>1, LeastOf
<1>5. n \in 0 .. k + 1 /\ w[n] # c[n] /\ k \in Nat
  BY <1>4 DEF Leads
<1>6. n # 0
  BY <1>2, <1>5 DEF Leads
<1>7. n - 1 \in 0 .. k /\ n - 1 \in 0 .. k + 1 /\ n - 1 < n /\ (n - 1) + 1 = n /\ n \in Nat \ {0}
  BY <1>5, <1>6
<1>8. w[n - 1] = c[n - 1]
  BY <1>4, <1>7
<1>9. c[n - 1] \notin {z, NULL} /\ nx[c[n - 1]] = c[n]
  BY <1>7 DEF Leads
<1> QED
  BY <1>2, <1>5, <1>7, <1>8, <1>9

AfterOf(nx) == WalkOf(nx, head, tail)
BeforeOf(pv) == WalkOf(pv, tail, head)

LEMMA AfterBefore == after = AfterOf(next) /\ before = BeforeOf(prev)
BY DEF after, before, AfterOf, BeforeOf, WalkOf, IsWalk

LEMMA AfterIs ==
  ASSUME NEW nx, NEW k, NEW c, Chain(k, c), Forward(nx, k, c)
  PROVE  \A n \in 0 .. k + 1 : AfterOf(nx)[n] = c[n]
<1>1. Leads(nx, head, tail, k, c)
  BY ChainPlaces DEF Leads, Forward, Chain
<1> QED
  BY <1>1, WalkIs DEF AfterOf

LEMMA BeforeIs ==
  ASSUME NEW pv, NEW k, NEW c, Chain(k, c), Back(pv, k, c)
  PROVE  \A n \in 0 .. k + 1 : BeforeOf(pv)[n] = c[k + 1 - n]
<1> DEFINE r == [n \in 0 .. k + 1 |-> c[k + 1 - n]]
<1>1. k \in Nat /\ c[0] = head /\ c[k + 1] = tail
  BY ChainPlaces DEF Chain
<1>2. r[0] = tail /\ r[k + 1] = head
  BY <1>1
<1>3. ASSUME NEW i \in 0 .. k PROVE r[i] \notin {head, NULL} /\ pv[r[i]] = r[i + 1]
  <2>1. /\ k + 1 - i \in 1 .. k + 1 /\ k - i \in 0 .. k /\ (k - i) + 1 = k + 1 - i
        /\ k + 1 - (i + 1) = k - i /\ i \in 0 .. k + 1 /\ i + 1 \in 0 .. k + 1
    BY <1>1
  <2>2. r[i] = c[k + 1 - i] /\ r[i + 1] = c[k - i]
    BY <2>1
  <2>3. pv[c[k + 1 - i]] = c[k - i]
    BY <2>1 DEF Back
  <2> QED
    BY <2>1, <2>2, <2>3, ChainPlaces
<1>4. Leads(pv, tail, head, k, r)
  <2> HIDE DEF r
  <2> QED
    BY <1>1, <1>2, <1>3 DEF Leads
<1>5. \A n \in 0 .. k + 1 : BeforeOf(pv)[n] = r[n]
  <2> HIDE DEF r
  <2> QED
    BY <1>4, WalkIs DEF BeforeOf
<1> QED
  BY <1>5

-----------------------------------------------------------------------------
(* The nodes a walk finds. *)

ListedOf(nx) ==
  LET length == CHOOSE n \in 0 .. Cardinality(Node) + 1 :
                  /\ AfterOf(nx)[n + 1] = tail
                  /\ \A m \in 0 .. n : AfterOf(nx)[m] # tail
  IN [n \in 1 .. length |-> AfterOf(nx)[n]]

LEMMA ListedNow == Listed = ListedOf(next) /\ ListedNodes = {Listed[n] : n \in DOMAIN Listed}
BY AfterBefore DEF Listed, ListedOf, ListedNodes

LEMMA ListedNext == Listed' = ListedOf(next') /\ ListedNodes' = {Listed'[n] : n \in DOMAIN Listed'}
BY DEF Listed, ListedOf, ListedNodes, after, AfterOf, WalkOf, IsWalk

LEMMA ListedIs ==
  ASSUME NEW nx, NEW k, NEW c, Chain(k, c), Forward(nx, k, c)
  PROVE  ListedOf(nx) = [n \in 1 .. k |-> c[n]]
<1> DEFINE Here(n) == /\ AfterOf(nx)[n + 1] = tail
                      /\ \A m \in 0 .. n : AfterOf(nx)[m] # tail
<1>1. Cardinality(Node) = HISTSIZE + 2
  BY NodeType, FS_Interval DEF Node
<1>2. /\ k \in Nat /\ k <= HISTSIZE + 1 /\ c[k + 1] = tail
      /\ \A i \in 0 .. k : c[i] # tail
      /\ \A n \in 0 .. k + 1 : AfterOf(nx)[n] = c[n]
  <2>1. \A n \in 0 .. k + 1 : AfterOf(nx)[n] = c[n]
    BY AfterIs
  <2>2. c[k + 1] = tail
    BY DEF Chain
  <2> QED
    BY <2>1, <2>2, ChainPlaces
<1>3. k \in 0 .. Cardinality(Node) + 1 /\ Here(k)
  BY <1>1, <1>2, NodeType
<1>4. ASSUME NEW n \in 0 .. Cardinality(Node) + 1, Here(n) PROVE n = k
  <2>1. n \in Nat
    BY <1>1, NodeType
  <2>2. ~(n < k)
    <3> SUFFICES ASSUME n < k PROVE FALSE
      OBVIOUS
    <3>1. n + 1 \in 0 .. k /\ n + 1 \in 0 .. k + 1
      BY <1>2, <2>1
    <3> QED
      BY <1>2, <1>4, <3>1
  <2>3. ~(n > k)
    <3> SUFFICES ASSUME n > k PROVE FALSE
      OBVIOUS
    <3>1. k + 1 \in 0 .. n /\ k + 1 \in 0 .. k + 1
      BY <1>2, <2>1
    <3> QED
      BY <1>2, <1>4, <3>1
  <2> QED
    BY <1>2, <2>1, <2>2, <2>3
<1> HIDE DEF Here
<1>5. (CHOOSE n \in 0 .. Cardinality(Node) + 1 : Here(n)) = k
  BY <1>3, <1>4
<1>6. ListedOf(nx) = [n \in 1 .. k |-> AfterOf(nx)[n]]
  BY <1>5 DEF ListedOf, Here
<1>7. \A n \in 1 .. k : AfterOf(nx)[n] = c[n]
  BY <1>2
<1> QED
  BY <1>6, <1>7

-----------------------------------------------------------------------------
(* addToTail and popFront on chains. *)

PushNext(nx, pv, n) == [nx EXCEPT ![pv[tail]] = n, ![n] = tail]
PushPrev(pv, n) == [pv EXCEPT ![n] = pv[tail], ![tail] = n]
Pushed(k, c, n) == [i \in 0 .. k + 2 |-> IF i <= k THEN c[i] ELSE IF i = k + 1 THEN n ELSE tail]

LEMMA PushChain ==
  ASSUME NEW nx \in Links, NEW pv \in Links, NEW k, NEW c,
         Chain(k, c), Forward(nx, k, c), Back(pv, k, c), k <= HISTSIZE,
         NEW n \in Node, n \notin NodesOf(k, c)
  PROVE  /\ PushNext(nx, pv, n) \in Links /\ PushPrev(pv, n) \in Links
         /\ Chain(k + 1, Pushed(k, c, n))
         /\ Forward(PushNext(nx, pv, n), k + 1, Pushed(k, c, n))
         /\ Back(PushPrev(pv, n), k + 1, Pushed(k, c, n))
         /\ NodesOf(k + 1, Pushed(k, c, n)) = NodesOf(k, c) \cup {n}
<1> DEFINE d == Pushed(k, c, n)
           nx2 == PushNext(nx, pv, n)
           pv2 == PushPrev(pv, n)
<1>1. /\ k \in Nat /\ k + 1 \in 0 .. HISTSIZE + 1
      /\ c \in [0 .. k + 1 -> Ends] /\ c[0] = head /\ c[k + 1] = tail
      /\ \A i \in 1 .. k : c[i] \in Node
  BY ChainPlaces, NodeType DEF Chain
<1>2. /\ d[k + 1] = n /\ d[k + 2] = tail
      /\ \A i \in 0 .. k : d[i] = c[i]
      /\ d[0] = head
  BY <1>1 DEF Pushed
<1>3. d \in [0 .. k + 2 -> Ends]
  <2>1. \A i \in 0 .. k + 2 : i <= k => i \in 0 .. k + 1
    BY <1>1
  <2> QED
    BY <1>1, <2>1, NodeType DEF Pushed
<1>4. pv[tail] = c[k] /\ c[k] \in Ends /\ c[k] # n /\ c[k] # tail
  <2>1. k \in 0 .. k /\ pv[c[k + 1]] = c[k]
    BY <1>1 DEF Back
  <2>2. c[k] # n
    <3>1. CASE k = 0
      BY <1>1, <3>1, NodeType
    <3>2. CASE k # 0
      BY <1>1, <3>2 DEF NodesOf
    <3> QED
      BY <3>1, <3>2
  <2> QED
    BY <1>1, <2>1, <2>2, ChainPlaces
<1>5. n \in Ends /\ tail \in Ends /\ n # tail /\ n # head
  BY NodeType
<1>6. /\ nx2 \in Links /\ nx2[c[k]] = n /\ nx2[n] = tail
      /\ \A x \in Ends \ {c[k], n} : nx2[x] = nx[x]
  BY <1>4, <1>5 DEF PushNext, Links
<1>7. /\ pv2 \in Links /\ pv2[n] = c[k] /\ pv2[tail] = n
      /\ \A x \in Ends \ {n, tail} : pv2[x] = pv[x]
  BY <1>4, <1>5 DEF PushPrev, Links
<1>8. \A i \in 1 .. k + 1 : i = k + 1 \/ i \in 1 .. k
  BY <1>1
<1>9. \A i \in 1 .. k : c[i] \in NodesOf(k, c) /\ i \in 0 .. k
  BY <1>1 DEF NodesOf
<1> HIDE DEF d, nx2, pv2
<1>10. \A i \in 1 .. k : d[i] = c[i]
  BY <1>2, <1>9
<1>11. \A i \in 1 .. k + 1 : d[i] \in Node
  BY <1>1, <1>2, <1>8, <1>10
<1>12. \A i, j \in 1 .. k + 1 : d[i] = d[j] => i = j
  <2>1. \A i, j \in 1 .. k : c[i] = c[j] => i = j
    BY DEF Chain
  <2>2. \A i \in 1 .. k : d[i] # n
    BY <1>9, <1>10
  <2> QED
    BY <1>2, <1>8, <1>10, <2>1, <2>2
<1>13. Chain(k + 1, d)
  <2>1. (k + 1) + 1 = k + 2
    BY <1>1
  <2> QED
    BY <1>1, <1>2, <1>3, <1>11, <1>12, <2>1 DEF Chain
<1>14. Forward(nx2, k + 1, d)
  <2> SUFFICES ASSUME NEW i \in 0 .. k + 1 PROVE nx2[d[i]] = d[i + 1]
    BY DEF Forward
  <2>1. CASE i = k + 1
    BY <1>1, <1>2, <1>6, <2>1
  <2>2. CASE i = k
    BY <1>1, <1>2, <1>6, <2>2
  <2>3. CASE i < k
    <3>1. i \in 0 .. k /\ i + 1 \in 0 .. k /\ k \in 0 .. k /\ i # k
      BY <1>1, <2>3
    <3>2. c[i] \in Ends /\ c[i] # c[k] /\ c[i] # n
      <4>1. c[i] # n
        <5>1. CASE i = 0
          BY <1>1, <1>5, <5>1
        <5>2. CASE i # 0
          BY <1>1, <1>9, <3>1, <5>2
        <5> QED
          BY <5>1, <5>2
      <4> QED
        BY <3>1, <4>1, ChainPlaces, NodeType
    <3> QED
      BY <1>2, <1>6, <3>1, <3>2 DEF Forward
  <2> QED
    BY <1>1, <2>1, <2>2, <2>3
<1>15. Back(pv2, k + 1, d)
  <2> SUFFICES ASSUME NEW i \in 0 .. k + 1 PROVE pv2[d[i + 1]] = d[i]
    BY DEF Back
  <2>1. CASE i = k + 1
    BY <1>1, <1>2, <1>7, <2>1
  <2>2. CASE i = k
    BY <1>1, <1>2, <1>7, <2>2
  <2>3. CASE i < k
    <3>1. i \in 0 .. k /\ i + 1 \in 0 .. k /\ i + 1 \in 1 .. k
      BY <1>1, <2>3
    <3>2. c[i + 1] \in Ends \ {n, tail}
      BY <1>9, <3>1, ChainPlaces, NodeType
    <3> QED
      BY <1>2, <1>7, <3>1, <3>2 DEF Back
  <2> QED
    BY <1>1, <2>1, <2>2, <2>3
<1>16. NodesOf(k + 1, d) = NodesOf(k, c) \cup {n}
  <2>1. k + 1 \in 1 .. k + 1 /\ \A i \in 1 .. k : i \in 1 .. k + 1
    BY <1>1
  <2> QED
    BY <1>2, <1>8, <1>10, <2>1 DEF NodesOf
<1> QED
  BY <1>6, <1>7, <1>13, <1>14, <1>15, <1>16 DEF d, nx2, pv2

DropNext(nx) == [nx EXCEPT ![head] = nx[nx[head]]]
DropPrev(nx, pv) == [pv EXCEPT ![nx[nx[head]]] = head]
Dropped(k, c) == [i \in 0 .. k |-> IF i = 0 THEN head ELSE c[i + 1]]

LEMMA DropChain ==
  ASSUME NEW nx \in Links, NEW k, NEW c, Chain(k, c), Forward(nx, k, c), k # 0
  PROVE  /\ nx[head] = c[1] /\ c[1] \in NodesOf(k, c) /\ nx[c[1]] = c[2]
         /\ DropNext(nx) \in Links
         /\ Chain(k - 1, Dropped(k, c))
         /\ Forward(DropNext(nx), k - 1, Dropped(k, c))
         /\ NodesOf(k - 1, Dropped(k, c)) = NodesOf(k, c) \ {c[1]}
         /\ \A pv \in Links : /\ DropPrev(nx, pv) \in Links
                              /\ Back(pv, k, c) => Back(DropPrev(nx, pv), k - 1, Dropped(k, c))
<1> DEFINE d == Dropped(k, c)
           nx2 == DropNext(nx)
<1>1. /\ k \in Nat /\ k >= 1 /\ k <= HISTSIZE + 1
      /\ c \in [0 .. k + 1 -> Ends] /\ c[0] = head /\ c[k + 1] = tail
      /\ \A i \in 1 .. k : c[i] \in Node
  BY ChainPlaces, NodeType DEF Chain
<1>2. 0 \in 0 .. k /\ 1 \in 0 .. k /\ 1 \in 1 .. k /\ 2 \in 1 .. k + 1 /\ 2 \in 0 .. k + 1
  BY <1>1
<1>3. nx[head] = c[1] /\ nx[c[1]] = c[2] /\ c[1] \in NodesOf(k, c) /\ c[2] \in Ends
  BY <1>1, <1>2 DEF Forward, NodesOf
<1>4. /\ nx2 \in Links /\ nx2[head] = c[2] /\ \A x \in Ends \ {head} : nx2[x] = nx[x]
  BY <1>3, NodeType DEF DropNext, Links
<1>5. d[0] = head /\ \A i \in 1 .. k : d[i] = c[i + 1]
  BY <1>1 DEF Dropped
<1>6. d \in [0 .. k -> Ends]
  <2>1. \A i \in 0 .. k : i + 1 \in 0 .. k + 1
    BY <1>1
  <2> QED
    BY <1>1, <2>1, NodeType DEF Dropped
<1> HIDE DEF d, nx2
<1>7. \A i \in 1 .. k - 1 : i + 1 \in 1 .. k /\ i \in 1 .. k
  BY <1>1
<1>8. Chain(k - 1, d)
  <2>1. k - 1 \in 0 .. HISTSIZE + 1 /\ (k - 1) + 1 = k /\ k \in 1 .. k
    BY <1>1, NodeType
  <2>2. \A i \in 1 .. k - 1 : d[i] \in Node
    BY <1>1, <1>5, <1>7
  <2>3. \A i, j \in 1 .. k - 1 : d[i] = d[j] => i = j
    <3> SUFFICES ASSUME NEW i \in 1 .. k - 1, NEW j \in 1 .. k - 1, d[i] = d[j] PROVE i = j
      OBVIOUS
    <3>1. i + 1 = j + 1
      BY <1>5, <1>7 DEF Chain
    <3> QED
      BY <1>1, <3>1
  <2> QED
    BY <1>1, <1>5, <1>6, <2>1, <2>2, <2>3 DEF Chain
<1>9. Forward(nx2, k - 1, d)
  <2> SUFFICES ASSUME NEW i \in 0 .. k - 1 PROVE nx2[d[i]] = d[i + 1]
    BY DEF Forward
  <2>1. CASE i = 0
    BY <1>1, <1>2, <1>4, <1>5, <2>1
  <2>2. CASE i # 0
    <3>1. i \in 1 .. k /\ i + 1 \in 1 .. k /\ i + 1 \in 0 .. k /\ i + 1 \in 1 .. k + 1
      BY <1>1, <2>2
    <3>2. c[i + 1] \in Ends \ {head}
      BY <3>1, ChainPlaces, NodeType
    <3> QED
      BY <1>4, <1>5, <3>1, <3>2 DEF Forward
  <2> QED
    BY <2>1, <2>2
<1>10. NodesOf(k - 1, d) = NodesOf(k, c) \ {c[1]}
  <2>1. \A i \in 1 .. k : i = 1 \/ (i - 1 \in 1 .. k - 1 /\ (i - 1) + 1 = i)
    BY <1>1
  <2>2. \A i \in 1 .. k - 1 : d[i] = c[i + 1] /\ c[i + 1] # c[1]
    <3> SUFFICES ASSUME NEW i \in 1 .. k - 1 PROVE d[i] = c[i + 1] /\ c[i + 1] # c[1]
      OBVIOUS
    <3>1. i + 1 # 1
      BY <1>1
    <3> QED
      BY <1>2, <1>5, <1>7, <3>1 DEF Chain
  <2>3. NodesOf(k - 1, d) \subseteq NodesOf(k, c) \ {c[1]}
    BY <1>7, <2>2 DEF NodesOf
  <2>4. NodesOf(k, c) \ {c[1]} \subseteq NodesOf(k - 1, d)
    <3> SUFFICES ASSUME NEW i \in 1 .. k, i # 1 PROVE c[i] \in NodesOf(k - 1, d)
      BY DEF NodesOf
    <3>1. i - 1 \in 1 .. k - 1 /\ d[i - 1] = c[i]
      BY <2>1, <2>2
    <3> QED
      BY <3>1 DEF NodesOf
  <2> QED
    BY <2>3, <2>4
<1>11. ASSUME NEW pv \in Links
       PROVE  /\ DropPrev(nx, pv) \in Links
              /\ Back(pv, k, c) => Back(DropPrev(nx, pv), k - 1, d)
  <2> DEFINE pv2 == DropPrev(nx, pv)
  <2>1. /\ pv2 \in Links /\ pv2[c[2]] = head /\ \A x \in Ends \ {c[2]} : pv2[x] = pv[x]
    BY <1>3, NodeType DEF DropPrev, Links
  <2> HIDE DEF pv2
  <2>2. ASSUME Back(pv, k, c), NEW i \in 0 .. k - 1 PROVE pv2[d[i + 1]] = d[i]
    <3>1. CASE i = 0
      BY <1>1, <1>2, <1>5, <2>1, <3>1
    <3>2. CASE i # 0
      <4>1. /\ i \in 1 .. k /\ i + 1 \in 1 .. k /\ i + 1 \in 0 .. k
            /\ (i + 1) + 1 \in 1 .. k + 1 /\ (i + 1) + 1 # 2
        BY <1>1, <3>2
      <4>2. c[(i + 1) + 1] \in Ends \ {c[2]}
        BY <1>2, <4>1, ChainPlaces, NodeType
      <4>3. pv[c[(i + 1) + 1]] = c[i + 1]
        BY <2>2, <4>1 DEF Back
      <4> QED
        BY <1>5, <2>1, <4>1, <4>2, <4>3
    <3> QED
      BY <3>1, <3>2
  <2> QED
    BY <2>1, <2>2 DEF Back, pv2
<1> QED
  BY <1>3, <1>4, <1>8, <1>9, <1>10, <1>11 DEF d, nx2

-----------------------------------------------------------------------------
(* The first inductive invariant: the list is a chain. *)

LinkType ==
  /\ next \in Links /\ prev \in Links
  /\ idOf \in [Node -> Id]
  /\ kind \in [Id -> Kind]
  /\ numHist \in 0 .. HISTSIZE + 1
  /\ commandId \in 0 .. MaxCommands
  /\ newHist \in Node \cup {NULL}
  /\ pc \in {"prompt", "call new", "call again", "clear", "ended"}

(* What malloc has given out is the chain; clearList lets the links back go. *)
ListOf(k, c) ==
  /\ Chain(k, c) /\ Forward(next, k, c)
  /\ allocated = NodesOf(k, c)
  /\ Running => k = numHist /\ Back(prev, k, c)

Linked == \E k \in 0 .. HISTSIZE + 1 : \E c \in [0 .. k + 1 -> Ends] : ListOf(k, c)

Entered ==
  /\ \A m \in allocated : idOf[m] < commandId
  /\ Calling => newHist \in allocated

LinkInv == LinkType /\ Linked /\ Entered

(* What the walks of the code find. *)
LEMMA ListKnown ==
  ASSUME NEW k, NEW c, ListOf(k, c)
  PROVE  /\ Listed = [n \in 1 .. k |-> c[n]]
         /\ ListedNodes = allocated
         /\ \A n \in 0 .. k + 1 : after[n] = c[n]
         /\ Running => \A n \in 0 .. k + 1 : before[n] = c[k + 1 - n]
<1>1. Chain(k, c) /\ Forward(next, k, c) /\ allocated = NodesOf(k, c)
  BY DEF ListOf
<1>2. Listed = [n \in 1 .. k |-> c[n]]
  BY <1>1, ListedIs, ListedNow
<1>3. ListedNodes = allocated
  BY <1>1, <1>2, ListedNow DEF NodesOf
<1>4. \A n \in 0 .. k + 1 : after[n] = c[n]
  BY <1>1, AfterIs, AfterBefore
<1>5. Running => \A n \in 0 .. k + 1 : before[n] = c[k + 1 - n]
  BY <1>1, BeforeIs, AfterBefore DEF ListOf
<1> QED
  BY <1>2, <1>3, <1>4, <1>5

LEMMA FirstKnown ==
  ASSUME NEW k, NEW c, ListOf(k, c)
  PROVE  /\ k = 0 => first = tail /\ allocated = {}
         /\ k # 0 => first = c[1] /\ first \in allocated /\ first # tail
<1>1. k \in Nat /\ 0 \in 0 .. k /\ c[0] = head /\ c[k + 1] = tail /\ first = c[1]
  <2>1. k \in Nat /\ 0 \in 0 .. k /\ c[0] = head /\ c[k + 1] = tail
    BY ChainPlaces DEF ListOf, Chain
  <2> QED
    BY <2>1 DEF ListOf, Forward, first
<1>2. ASSUME k = 0 PROVE first = tail /\ allocated = {}
  BY <1>1, <1>2 DEF ListOf, NodesOf
<1>3. ASSUME k # 0 PROVE first \in allocated /\ first # tail
  <2>1. 1 \in 1 .. k /\ 1 \in 0 .. k
    BY <1>1, <1>3
  <2> QED
    BY <1>1, <2>1, ChainPlaces DEF ListOf, NodesOf
<1> QED
  BY <1>1, <1>2, <1>3

(* The chain addToTail(n) makes. *)
GrownLength(k) == IF full THEN k ELSE k + 1
Grown(k, c, n) == IF full THEN Pushed(k - 1, Dropped(k, c), n) ELSE Pushed(k, c, n)
Left == IF full THEN allocated \ {first} ELSE allocated

LEMMA AddStep ==
  ASSUME LinkInv, Running, NEW k, NEW c, ListOf(k, c),
         NEW n \in Node \ allocated, addToTail(n)
  PROVE  /\ next' \in Links /\ prev' \in Links
         /\ Chain(GrownLength(k), Grown(k, c, n))
         /\ Forward(next', GrownLength(k), Grown(k, c, n))
         /\ Back(prev', GrownLength(k), Grown(k, c, n))
         /\ numHist' = GrownLength(k)
         /\ allocated' = NodesOf(GrownLength(k), Grown(k, c, n))
         /\ allocated' = Left \cup {n}
         /\ full => first \in allocated
<1>1. /\ Chain(k, c) /\ Forward(next, k, c) /\ Back(prev, k, c)
      /\ k = numHist /\ allocated = NodesOf(k, c)
      /\ next \in Links /\ prev \in Links
  BY DEF ListOf, LinkInv, LinkType
<1>2. k \in Nat /\ k <= HISTSIZE + 1 /\ HISTSIZE \in Nat
  BY <1>1, ChainPlaces, NodeType
<1>3. CASE ~full
  <2>1. /\ next' = PushNext(next, prev, n) /\ prev' = PushPrev(prev, n)
        /\ numHist' = k + 1 /\ allocated' = allocated \cup {n}
    BY <1>1, <1>3 DEF addToTail, linkLast, PushNext, PushPrev
  <2>2. k <= HISTSIZE
    BY <1>1, <1>2, <1>3 DEF full
  <2> QED
    BY <1>1, <1>3, <2>1, <2>2, PushChain DEF GrownLength, Grown, Left
<1>4. CASE full
  <2> DEFINE nx == DropNext(next)
             pv == DropPrev(next, prev)
             d == Dropped(k, c)
  <2>1. k # 0 /\ k - 1 <= HISTSIZE /\ (k - 1) + 1 = k
    BY <1>1, <1>2, <1>4 DEF full
  <2>2. first \in allocated /\ first = c[1]
    BY <2>1, FirstKnown
  <2>3. /\ nx \in Links /\ pv \in Links
        /\ Chain(k - 1, d) /\ Forward(nx, k - 1, d) /\ Back(pv, k - 1, d)
        /\ NodesOf(k - 1, d) = allocated \ {first}
    BY <1>1, <2>1, <2>2, DropChain
  <2>4. /\ next' = PushNext(nx, pv, n) /\ prev' = PushPrev(pv, n)
        /\ numHist' = k /\ allocated' = (allocated \ {first}) \cup {n}
    BY <1>1, <1>4 DEF addToTail, linkLast, PushNext, PushPrev, DropNext, DropPrev, first
  <2>5. n \notin NodesOf(k - 1, d)
    BY <2>3
  <2> HIDE DEF nx, pv, d
  <2>6. /\ next' \in Links /\ prev' \in Links
        /\ Chain((k - 1) + 1, Pushed(k - 1, d, n))
        /\ Forward(next', (k - 1) + 1, Pushed(k - 1, d, n))
        /\ Back(prev', (k - 1) + 1, Pushed(k - 1, d, n))
        /\ NodesOf((k - 1) + 1, Pushed(k - 1, d, n)) = NodesOf(k - 1, d) \cup {n}
    BY <2>1, <2>3, <2>4, <2>5, PushChain
  <2> QED
    BY <1>4, <2>1, <2>2, <2>3, <2>4, <2>6 DEF GrownLength, Grown, Left, d
<1> QED
  BY <1>3, <1>4

LEMMA IdType ==
  /\ MaxCommands \in Nat \ {0}
  /\ \A i \in Id : i \in Nat
  /\ \A i \in 0 .. MaxCommands : i \in Nat
BY HistoryAssumption DEF HistoryAssumption, Id

LEMMA LinkedIs ==
  ASSUME NEW k, NEW c, ListOf(k, c)
  PROVE  Linked
BY DEF ListOf, Chain, Linked

LEMMA LinkedNext ==
  ASSUME NEW k, NEW c, Chain(k, c), Forward(next', k, c), allocated' = NodesOf(k, c),
         Running' => k = numHist' /\ Back(prev', k, c)
  PROVE  Linked'
BY DEF ListOf, Chain, Linked

LEMMA KnownChain ==
  ASSUME LinkInv
  PROVE  /\ \E k, c : ListOf(k, c)
         /\ allocated \subseteq Node
<1>1. PICK k \in 0 .. HISTSIZE + 1 : \E c \in [0 .. k + 1 -> Ends] : ListOf(k, c)
  BY DEF LinkInv, Linked
<1>2. PICK c : ListOf(k, c)
  BY <1>1
<1> QED
  BY <1>2, ChainPlaces DEF ListOf

(* Enter, of a new command or of one recalled. *)
Enters(id) ==
  \E n \in Node \ allocated :
    /\ idOf' = [idOf EXCEPT ![n] = id]
    /\ deleted' = [deleted EXCEPT ![n] = FALSE]
    /\ addToTail(n)
    /\ newHist' = n
    /\ pc' \in {"call new", "call again"}

LEMMA EnterKeeps ==
  ASSUME LinkInv, Running, NEW id \in Id, Enters(id), id < commandId',
         commandId' \in 0 .. MaxCommands, commandId' \in Nat, commandId \in Nat,
         commandId <= commandId',
         kind' \in [Id -> Kind]
  PROVE  LinkInv'
<1>1. PICK k, c : ListOf(k, c)
  BY KnownChain
<1>2. PICK n \in Node \ allocated :
        /\ idOf' = [idOf EXCEPT ![n] = id]
        /\ addToTail(n)
        /\ newHist' = n
        /\ pc' \in {"call new", "call again"}
  BY DEF Enters
<1>3. Running
  OBVIOUS
<1> DEFINE K == GrownLength(k)
           C == Grown(k, c, n)
<1>4. /\ next' \in Links /\ prev' \in Links
      /\ Chain(K, C) /\ Forward(next', K, C) /\ Back(prev', K, C)
      /\ numHist' = K /\ allocated' = NodesOf(K, C)
      /\ allocated' = Left \cup {n}
  BY <1>1, <1>2, <1>3, AddStep
<1> HIDE DEF K, C
<1>5. Linked'
  BY <1>4, LinkedNext
<1>6. LinkType'
  <2>1. numHist' \in 0 .. HISTSIZE + 1
    BY <1>4 DEF Chain
  <2> QED
    BY <1>2, <1>4, <2>1 DEF LinkInv, LinkType
<1>7. Entered'
  <2>1. Left \subseteq allocated /\ allocated \subseteq Node
    BY KnownChain DEF Left
  <2>2. idOf'[n] = id /\ \A m \in allocated : idOf'[m] = idOf[m] /\ idOf[m] \in Nat
    <3>1. idOf \in [Node -> Id]
      BY DEF LinkInv, LinkType
    <3> QED
      BY <1>2, <2>1, <3>1, IdType
  <2>3. \A m \in allocated : idOf[m] < commandId
    BY DEF LinkInv, Entered
  <2>4. \A m \in allocated : idOf[m] < commandId'
    BY <2>2, <2>3
  <2>5. \A m \in allocated' : idOf'[m] < commandId'
    BY <1>4, <2>1, <2>2, <2>4
  <2> QED
    BY <1>2, <1>4, <2>5 DEF Entered
<1> QED
  BY <1>5, <1>6, <1>7 DEF LinkInv

(* The commandId of a node recalled, found from either end. *)
LEMMA Found ==
  ASSUME LinkInv, Running, NEW n \in 1 .. numHist
  PROVE  /\ findFirstN(n) \in allocated /\ findLastN(n) \in allocated
         /\ findFirstN(n) = Listed[n] /\ findLastN(n) = Listed[numHist + 1 - n]
         /\ DOMAIN Listed = 1 .. numHist /\ numHist \in Nat
<1>1. PICK k, c : ListOf(k, c)
  BY KnownChain
<1>2. /\ numHist = k /\ k \in Nat /\ n \in 1 .. k /\ n \in 0 .. k + 1
      /\ k + 1 - n \in 1 .. k
  BY <1>1, ChainPlaces DEF ListOf
<1>3. c[n] \in allocated /\ c[k + 1 - n] \in allocated
  BY <1>1, <1>2 DEF ListOf, NodesOf
<1>4. after[n] = c[n] /\ before[n] = c[k + 1 - n] /\ Listed = [i \in 1 .. k |-> c[i]]
  BY <1>1, <1>2, ListKnown
<1> QED
  BY <1>2, <1>3, <1>4 DEF findFirstN, findLastN

LEMMA NewKeeps ==
  ASSUME LinkInv, NEW k \in Kind, NewCommand(k)
  PROVE  LinkInv'
<1>1. /\ Running /\ commandId < MaxCommands /\ Enters(commandId)
      /\ commandId' = commandId + 1 /\ kind' = [kind EXCEPT ![commandId] = k]
  BY DEF NewCommand, Enter, Enters, Running
<1>2. commandId \in 0 .. MaxCommands /\ kind \in [Id -> Kind] /\ MaxCommands \in Nat
  BY HistoryAssumption DEF LinkInv, LinkType, HistoryAssumption
<1>3. /\ commandId \in Id /\ commandId < commandId' /\ commandId' \in 0 .. MaxCommands
      /\ commandId \in Nat /\ commandId' \in Nat /\ commandId <= commandId'
      /\ kind' \in [Id -> Kind]
  <2>1. commandId \in Id /\ kind' \in [Id -> Kind]
    BY <1>1, <1>2 DEF Id
  <2>2. commandId \in Nat /\ commandId' \in Nat /\ commandId < commandId' /\ commandId <= commandId'
    BY <1>1, <1>2
  <2>3. commandId' \in 0 .. MaxCommands
    BY <1>1, <1>2
  <2> QED
    BY <2>1, <2>2, <2>3
<1> QED
  BY <1>1, <1>3, EnterKeeps

(* What the recalls have in common: a node of the list, entered again. *)
Recalls == \E m \in allocated : Recall(m)

LEMMA RecallOfListed ==
  ASSUME LinkInv, NEW n, RecallLast(n) \/ RecallFirst(n)
  PROVE  Recalls
<1>1. Running /\ n \in 1 .. numHist
  BY DEF RecallLast, RecallFirst, Recall, Running
<1>2. findFirstN(n) \in allocated /\ findLastN(n) \in allocated
  BY <1>1, Found
<1> QED
  BY <1>2 DEF Recalls, RecallLast, RecallFirst

LEMMA RecallKeeps ==
  ASSUME LinkInv, Recalls
  PROVE  LinkInv'
<1>1. PICK m \in allocated : Recall(m)
  BY DEF Recalls
<1>2. /\ Running /\ Enters(idOf[m])
      /\ commandId' = commandId /\ kind' = kind
  BY <1>1 DEF Recall, Enter, Enters, Running
<1>3. m \in Node /\ idOf[m] \in Id /\ idOf[m] < commandId
  BY <1>1, KnownChain DEF LinkInv, LinkType, Entered
<1>4. /\ commandId' \in 0 .. MaxCommands /\ kind' \in [Id -> Kind]
      /\ commandId \in Nat /\ commandId' \in Nat /\ commandId <= commandId'
  <2>1. commandId \in 0 .. MaxCommands /\ kind \in [Id -> Kind]
    BY DEF LinkInv, LinkType
  <2>2. commandId \in Nat
    BY <2>1, IdType
  <2>3. commandId <= commandId
    BY <2>2
  <2> QED
    BY <1>2, <2>1, <2>2, <2>3
<1> QED
  BY <1>2, <1>3, <1>4, EnterKeeps

(* Steps that leave the list as it is. *)
LEMMA SameList ==
  ASSUME LinkInv, UNCHANGED <<next, prev, idOf, allocated, numHist, kind, commandId, newHist>>,
         pc' \in {"prompt", "clear", "ended", pc}, Running' => Running
  PROVE  LinkInv'
<1>1. PICK k, c : ListOf(k, c)
  BY KnownChain
<1>2. Linked'
  BY <1>1, LinkedNext DEF ListOf
<1>3. LinkType'
  BY DEF LinkInv, LinkType
<1>4. Entered'
  BY DEF LinkInv, Entered, Calling
<1> QED
  BY <1>2, <1>3, <1>4 DEF LinkInv

LEMMA ClearKeeps ==
  ASSUME LinkInv, ClearFirst
  PROVE  /\ LinkInv'
         /\ first \in allocated /\ ListedNodes = allocated
<1>1. PICK k, c : ListOf(k, c)
  BY KnownChain
<1>2. /\ pc = "clear" /\ first # tail /\ next' = DropNext(next)
      /\ allocated' = allocated \ {first}
      /\ UNCHANGED <<prev, idOf, numHist, kind, commandId, newHist, pc>>
  BY DEF ClearFirst, DropNext, first
<1>3. k # 0 /\ first = c[1] /\ first \in allocated /\ ListedNodes = allocated
  BY <1>1, <1>2, FirstKnown, ListKnown
<1>4. Chain(k, c) /\ Forward(next, k, c) /\ allocated = NodesOf(k, c) /\ next \in Links
  BY <1>1 DEF ListOf, LinkInv, LinkType
<1>5. /\ next' \in Links
      /\ Chain(k - 1, Dropped(k, c)) /\ Forward(next', k - 1, Dropped(k, c))
      /\ NodesOf(k - 1, Dropped(k, c)) = allocated'
  BY <1>2, <1>3, <1>4, DropChain
<1>6. ~Running' /\ ~Calling'
  BY <1>2 DEF Running, Calling
<1>7. Linked'
  BY <1>5, <1>6, LinkedNext
<1>8. LinkType' /\ Entered'
  BY <1>2, <1>5, <1>6 DEF LinkInv, LinkType, Entered
<1> QED
  BY <1>3, <1>7, <1>8 DEF LinkInv

LEMMA InitLinked == Init => LinkInv
<1> SUFFICES ASSUME Init PROVE LinkInv
  OBVIOUS
<1> DEFINE c == [i \in 0 .. 1 |-> IF i = 0 THEN head ELSE tail]
<1>1. HISTSIZE \in Nat /\ MaxCommands \in Nat \ {0}
  BY HistoryAssumption DEF HistoryAssumption
<1>2. LinkType
  <2>1. next \in Links /\ prev \in Links
    BY NodeType DEF Init, Links, Ends
  <2>2. idOf \in [Node -> Id] /\ kind \in [Id -> Kind]
    BY <1>1 DEF Init, Id, Kind
  <2> QED
    BY <1>1, <2>1, <2>2 DEF Init, LinkType
<1>3. c[0] = head /\ c[1] = tail /\ c \in [0 .. 0 + 1 -> Ends]
  BY NodeType
<1>4. next[head] = tail /\ prev[tail] = head /\ allocated = {} /\ numHist = 0
  BY NodeType DEF Init, Ends
<1> HIDE DEF c
<1>5. Chain(0, c)
  BY <1>1, <1>3 DEF Chain
<1>6. Forward(next, 0, c) /\ Back(prev, 0, c) /\ allocated = NodesOf(0, c)
  BY <1>3, <1>4 DEF Forward, Back, NodesOf
<1>7. Linked
  <2>1. ListOf(0, c)
    BY <1>4, <1>5, <1>6 DEF ListOf
  <2> QED
    BY <2>1, LinkedIs
<1>8. Entered
  BY DEF Init, Entered, Calling
<1> QED
  BY <1>2, <1>7, <1>8 DEF LinkInv

LEMMA NextLinked ==
  ASSUME LinkInv, [Next]_vars
  PROVE  LinkInv'
<1>1. CASE \E k \in Kind : NewCommand(k)
  BY <1>1, NewKeeps
<1>2. ASSUME NEW n \in 1 .. HISTSIZE + 1, RecallLast(n) \/ RecallFirst(n) PROVE LinkInv'
  BY <1>2, RecallOfListed, RecallKeeps
<1>3. CASE EndOfInput \/ CallReturns \/ ForkFails \/ CallExit \/ ClearEnd \/ Over \/ UNCHANGED vars
  <2>1. UNCHANGED <<next, prev, idOf, allocated, numHist, kind, commandId, newHist>>
    BY <1>3 DEF EndOfInput, CallReturns, ForkFails, CallExit, ClearEnd, Over, vars, listVars
  <2>2. pc' \in {"prompt", "clear", "ended", pc} /\ (Running' => Running)
    BY <1>3 DEF EndOfInput, CallReturns, ForkFails, CallExit, ClearEnd, Over, vars,
                Running, Calling
  <2> QED
    BY <2>1, <2>2, SameList
<1>4. CASE ClearFirst
  BY <1>4, ClearKeeps
<1> QED
  BY <1>1, <1>2, <1>3, <1>4 DEF Next

LEMMA LinkInvariance == Spec => []LinkInv
<1>1. LinkInv /\ [Next]_vars => LinkInv'
  BY NextLinked
<1> QED
  BY InitLinked, <1>1, PTL DEF Spec

-----------------------------------------------------------------------------
(* The second inductive invariant: the blocks. *)

Unused(id) == \A m \in allocated : idOf[m] # id

(* A block no node has any more has been freed, once; that of a node has not,
   unless clearList freed it with an earlier node and told this one. *)
Blocks ==
  /\ \A id \in Id : Unused(id) => freed[id] = IF id < commandId THEN 1 ELSE 0
  /\ \A m \in allocated : freed[idOf[m]] = IF deleted[m] THEN 1 ELSE 0
  /\ Running => \A m \in allocated : ~deleted[m]

(* A shell that ends because fork fails leaves its list and the blocks alone. *)
Abandoned == pc = "ended" /\ first # tail

BlockInv ==
  /\ deleted \in [Node -> BOOLEAN]
  /\ freed \in [Id -> 0 .. 1]
  /\ ~Abandoned => Blocks

(* The block of a node that is entered is not freed, not even by the entry that
   has to make room for it. *)
Spared(id) ==
  /\ freed[id] = 0
  /\ full => idOf[first] # id \/ shared

LEMMA EnterBlocks ==
  ASSUME LinkInv, BlockInv, Running, NEW id \in Id, Enters(id), Spared(id), id < commandId',
         \/ commandId' = commandId
         \/ id = commandId /\ commandId' = commandId + 1
  PROVE  BlockInv'
<1>1. PICK k, c : ListOf(k, c)
  BY KnownChain
<1>2. PICK n \in Node \ allocated :
        /\ idOf' = [idOf EXCEPT ![n] = id]
        /\ deleted' = [deleted EXCEPT ![n] = FALSE]
        /\ addToTail(n)
        /\ newHist' = n
        /\ pc' \in {"call new", "call again"}
  BY DEF Enters
<1>3. allocated' = Left \cup {n} /\ (full => first \in allocated) /\ ListedNodes = allocated
  BY <1>1, <1>2, AddStep, ListKnown
<1>4. /\ Blocks /\ deleted \in [Node -> BOOLEAN] /\ freed \in [Id -> 0 .. 1]
      /\ idOf \in [Node -> Id] /\ allocated \subseteq Node /\ Left \subseteq allocated
      /\ commandId \in Nat
  BY KnownChain, IdType DEF BlockInv, Abandoned, Running, Calling, LinkInv, LinkType, Left
<1>5. /\ idOf'[n] = id /\ deleted'[n] = FALSE
      /\ \A m \in allocated : idOf'[m] = idOf[m] /\ deleted'[m] = deleted[m]
      /\ deleted' \in [Node -> BOOLEAN]
  BY <1>2, <1>4
<1>6. \A m \in allocated : ~deleted[m] /\ freed[idOf[m]] = 0
  BY <1>4 DEF Blocks
<1>7. ASSUME NEW x \in Id PROVE x < commandId' <=> (x < commandId \/ x = id)
  BY <1>4, <1>7, IdType
<1>8. CASE ~full \/ shared
  <2>1. freed' = freed
    BY <1>2, <1>8 DEF addToTail
  <2>2. ASSUME NEW x \in Id, \A m \in allocated' : idOf'[m] # x
        PROVE  freed[x] = IF x < commandId' THEN 1 ELSE 0
    <3>1. x # id
      BY <1>3, <1>5, <2>2
    <3>2. \A m \in allocated : idOf[m] # x
      <4>1. \A m \in Left : idOf[m] # x
        BY <1>3, <1>4, <1>5, <2>2
      <4>2. full => idOf[first] # x
        <5>1. full => \E m \in allocated \ {first} : idOf[m] = idOf[first]
          BY <1>3, <1>8 DEF shared
        <5> QED
          BY <4>1, <5>1 DEF Left
      <4> QED
        BY <4>1, <4>2 DEF Left
    <3>3. freed[x] = IF x < commandId THEN 1 ELSE 0
      BY <1>4, <3>2 DEF Blocks, Unused
    <3> QED
      BY <1>7, <3>1, <3>3
  <2>3. \A m \in allocated' : ~deleted'[m] /\ freed[idOf'[m]] = 0
    BY <1>3, <1>4, <1>5, <1>6 DEF Spared
  <2> QED
    BY <1>4, <1>5, <2>1, <2>2, <2>3 DEF BlockInv, Blocks, Unused
<1>9. CASE full /\ ~shared
  <2> DEFINE f == idOf[first]
  <2>1. /\ freed' = [freed EXCEPT ![f] = @ + 1] /\ f # id /\ first \in allocated /\ f \in Id
        /\ \A m \in allocated \ {first} : idOf[m] # f
        /\ freed[f] = 0 /\ f < commandId
    BY <1>2, <1>3, <1>4, <1>6, <1>9 DEF addToTail, Spared, shared, LinkInv, Entered
  <2> HIDE DEF f
  <2>2. freed'[f] = 1 /\ (\A x \in Id \ {f} : freed'[x] = freed[x]) /\ freed' \in [Id -> 0 .. 1]
    BY <1>4, <2>1
  <2>3. ASSUME NEW x \in Id, \A m \in allocated' : idOf'[m] # x
        PROVE  freed'[x] = IF x < commandId' THEN 1 ELSE 0
    <3>1. CASE x = f
      BY <1>7, <2>1, <2>2, <3>1
    <3>2. CASE x # f
      <4>1. x # id
        BY <1>3, <1>5, <2>3
      <4>2. \A m \in allocated : idOf[m] # x
        BY <1>3, <1>4, <1>5, <1>9, <2>3, <3>2 DEF Left, f
      <4>3. freed[x] = IF x < commandId THEN 1 ELSE 0
        BY <1>4, <4>2 DEF Blocks, Unused
      <4> QED
        BY <1>7, <2>2, <3>2, <4>1, <4>3
    <3> QED
      BY <3>1, <3>2
  <2>4. \A m \in allocated' : ~deleted'[m] /\ freed'[idOf'[m]] = 0
    <3>1. ASSUME NEW m \in allocated' PROVE ~deleted'[m] /\ freed'[idOf'[m]] = 0
      <4>1. CASE m = n
        BY <1>5, <2>1, <2>2, <4>1 DEF Spared
      <4>2. CASE m # n
        <5>1. m \in allocated \ {first} /\ idOf[m] \in Id
          BY <1>3, <1>4, <1>9, <4>2 DEF Left
        <5> QED
          BY <1>5, <1>6, <2>1, <2>2, <5>1
      <4> QED
        BY <4>1, <4>2
    <3> QED
      BY <3>1
  <2> QED
    BY <1>5, <2>2, <2>3, <2>4 DEF BlockInv, Blocks, Unused
<1> QED
  BY <1>8, <1>9

LEMMA AddsFirst ==
  ASSUME LinkInv, Running, full
  PROVE  first \in allocated
<1>1. PICK k, c : ListOf(k, c)
  BY KnownChain
<1>2. k # 0
  BY <1>1, NodeType DEF ListOf, full
<1> QED
  BY <1>1, <1>2, FirstKnown

LEMMA NewBlocks ==
  ASSUME LinkInv, BlockInv, NEW k \in Kind, NewCommand(k)
  PROVE  BlockInv'
<1>1. /\ Running /\ commandId < MaxCommands /\ Enters(commandId)
      /\ commandId' = commandId + 1
  BY DEF NewCommand, Enter, Enters, Running
<1>2. commandId \in 0 .. MaxCommands
  BY DEF LinkInv, LinkType
<1>3. commandId \in Id /\ commandId < commandId' /\ ~(commandId < commandId)
  BY <1>1, <1>2, IdType DEF Id
<1>4. \A m \in allocated : idOf[m] # commandId
  BY <1>3 DEF LinkInv, Entered
<1>5. freed[commandId] = 0
  BY <1>1, <1>3, <1>4 DEF BlockInv, Blocks, Unused, Abandoned, Running, Calling
<1>6. full => first \in allocated
  BY <1>1, AddsFirst
<1> QED
  BY <1>1, <1>3, <1>4, <1>5, <1>6, EnterBlocks DEF Spared

LEMMA RecallBlocks ==
  ASSUME OldestStays, LinkInv, BlockInv, Recalls
  PROVE  BlockInv'
<1>1. PICK m \in allocated : Recall(m)
  BY DEF Recalls
<1>2. /\ Running /\ Enters(idOf[m]) /\ commandId' = commandId /\ ~MakesRoom(m)
  BY <1>1 DEF Recall, Enter, Enters, Running, OldestStays
<1>3. idOf[m] \in Id /\ idOf[m] < commandId
  BY <1>1, KnownChain DEF LinkInv, LinkType, Entered
<1>4. freed[idOf[m]] = 0
  BY <1>1, <1>2 DEF BlockInv, Blocks, Abandoned, Running, Calling
<1>5. full => idOf[first] # idOf[m] \/ shared
  <2>1. ListedNodes = allocated
    BY KnownChain, ListKnown
  <2> QED
    BY <1>1, <1>2, <2>1 DEF MakesRoom, shared
<1> QED
  BY <1>2, <1>3, <1>4, <1>5, EnterBlocks DEF Spared

(* Steps that neither free nor delete. *)
LEMMA SameBlocks ==
  ASSUME BlockInv, UNCHANGED <<next, idOf, deleted, allocated, freed, commandId>>,
         Running' => Running, Abandoned => Abandoned'
  PROVE  BlockInv'
BY DEF BlockInv, Blocks, Unused

LEMMA ForkBlocks ==
  ASSUME LinkInv, BlockInv, ForkFails
  PROVE  BlockInv'
<1>1. /\ Calling /\ pc' = "ended" /\ UNCHANGED <<next, deleted>>
      /\ freed' = IF pc = "call new" THEN [freed EXCEPT ![idOf[newHist]] = @ + 1] ELSE freed
  BY DEF ForkFails
<1>2. PICK k, c : ListOf(k, c)
  BY KnownChain
<1>3. newHist \in allocated
  BY <1>1 DEF LinkInv, Entered
<1>4. first # tail
  BY <1>2, <1>3, FirstKnown
<1>5. Abandoned'
  BY <1>1, <1>4 DEF Abandoned, first
<1>6. idOf[newHist] \in Id /\ freed[idOf[newHist]] = 0
  BY <1>1, <1>3, KnownChain
  DEF BlockInv, Blocks, Abandoned, Running, Calling, LinkInv, LinkType
<1>7. freed' \in [Id -> 0 .. 1]
  <2> DEFINE f == idOf[newHist]
  <2>1. freed \in [Id -> 0 .. 1] /\ f \in Id /\ freed[f] + 1 = 1
    BY <1>6 DEF BlockInv
  <2>2. freed' = freed \/ freed' = [freed EXCEPT ![f] = @ + 1]
    BY <1>1
  <2> HIDE DEF f
  <2> QED
    BY <2>1, <2>2
<1> QED
  BY <1>1, <1>5, <1>7 DEF BlockInv

LEMMA ClearBlocks ==
  ASSUME LinkInv, BlockInv, ClearFirst
  PROVE  BlockInv'
<1>1. /\ pc = "clear" /\ pc' = "clear"
      /\ allocated' = allocated \ {first}
      /\ UNCHANGED <<idOf, commandId>>
  BY DEF ClearFirst
<1>2. first \in allocated /\ ListedNodes = allocated /\ allocated \subseteq Node
  BY ClearKeeps, KnownChain
<1>3. /\ Blocks /\ deleted \in [Node -> BOOLEAN] /\ freed \in [Id -> 0 .. 1]
      /\ idOf \in [Node -> Id]
  BY <1>1 DEF BlockInv, Abandoned, LinkInv, LinkType
<1> DEFINE f == idOf[first]
<1>4. f \in Id /\ f < commandId
  BY <1>2, <1>3 DEF LinkInv, Entered
<1>5. ~Running'
  BY <1>1 DEF Running, Calling
<1>6. \A x \in Id : x # f /\ (\A m \in allocated' : idOf'[m] # x) => Unused(x)
  BY <1>1 DEF Unused
<1>7. CASE deleted[first]
  <2>1. UNCHANGED <<deleted, freed>> /\ freed[f] = 1
    BY <1>2, <1>3, <1>7 DEF ClearFirst, Blocks
  <2>2. \A x \in Id : (\A m \in allocated' : idOf'[m] # x) =>
          freed'[x] = IF x < commandId' THEN 1 ELSE 0
    BY <1>1, <1>3, <1>4, <1>6, <2>1 DEF Blocks
  <2>3. \A m \in allocated' : freed'[idOf'[m]] = IF deleted'[m] THEN 1 ELSE 0
    BY <1>1, <1>3, <2>1 DEF Blocks
  <2> QED
    BY <1>3, <1>5, <2>1, <2>2, <2>3 DEF BlockInv, Blocks, Unused
<1>8. CASE ~deleted[first]
  <2>1. MarkSharers(first) /\ freed' = [freed EXCEPT ![f] = @ + 1] /\ freed[f] = 0
    BY <1>2, <1>3, <1>8 DEF ClearFirst, Blocks
  <2> HIDE DEF f
  <2>2. /\ freed' \in [Id -> 0 .. 1] /\ freed'[f] = 1
        /\ \A x \in Id \ {f} : freed'[x] = freed[x]
    BY <1>3, <1>4, <2>1
  <2>3. deleted' = [m \in Node |-> deleted[m] \/ (m \in allocated \ {first} /\ idOf[m] = f)]
    BY <1>2, <2>1 DEF MarkSharers, f
  <2>4. deleted' \in [Node -> BOOLEAN]
    BY <1>3, <2>3
  <2>5. \A x \in Id : (\A m \in allocated' : idOf'[m] # x) =>
          freed'[x] = IF x < commandId' THEN 1 ELSE 0
    BY <1>1, <1>3, <1>4, <1>6, <2>2 DEF Blocks
  <2>6. ASSUME NEW m \in allocated' PROVE freed'[idOf'[m]] = IF deleted'[m] THEN 1 ELSE 0
    <3>1. m \in allocated \ {first} /\ m \in Node /\ idOf'[m] = idOf[m] /\ idOf[m] \in Id
      BY <1>1, <1>2, <1>3
    <3>2. CASE idOf[m] = f
      BY <2>2, <2>3, <3>1, <3>2
    <3>3. CASE idOf[m] # f
      <4>1. deleted'[m] = deleted[m]
        BY <1>3, <2>3, <3>1, <3>3
      <4>2. freed[idOf[m]] = IF deleted[m] THEN 1 ELSE 0
        BY <1>3, <3>1 DEF Blocks
      <4> QED
        BY <2>2, <3>1, <3>3, <4>1, <4>2
    <3> QED
      BY <3>2, <3>3
  <2> QED
    BY <1>5, <2>2, <2>4, <2>5, <2>6 DEF BlockInv, Blocks, Unused
<1> QED
  BY <1>7, <1>8

LEMMA InitBlocks == Init => BlockInv
<1> SUFFICES ASSUME Init PROVE BlockInv
  OBVIOUS
<1>1. /\ allocated = {} /\ commandId = 0
      /\ deleted = [n \in Node |-> FALSE] /\ freed = [id \in Id |-> 0]
  BY DEF Init
<1>2. \A id \in Id : ~(id < 0)
  BY IdType
<1> QED
  BY <1>1, <1>2 DEF BlockInv, Blocks, Unused

LEMMA NextBlocks ==
  ASSUME OldestStays, LinkInv, BlockInv, [Next]_vars
  PROVE  BlockInv'
<1>1. CASE \E k \in Kind : NewCommand(k)
  BY <1>1, NewBlocks
<1>2. ASSUME NEW n \in 1 .. HISTSIZE + 1, RecallLast(n) \/ RecallFirst(n) PROVE BlockInv'
  BY <1>2, RecallOfListed, RecallBlocks
<1>3. CASE EndOfInput \/ CallReturns \/ CallExit \/ ClearEnd \/ Over \/ UNCHANGED vars
  <2>1. UNCHANGED <<next, idOf, deleted, allocated, freed, commandId>>
    BY <1>3 DEF EndOfInput, CallReturns, CallExit, ClearEnd, Over, vars, listVars
  <2>2. (Running' => Running) /\ (Abandoned => Abandoned')
    BY <1>3 DEF EndOfInput, CallReturns, CallExit, ClearEnd, Over, vars, listVars,
                Running, Calling, Abandoned, first
  <2> QED
    BY <2>1, <2>2, SameBlocks
<1>4. CASE ForkFails
  BY <1>4, ForkBlocks
<1>5. CASE ClearFirst
  BY <1>5, ClearBlocks
<1> QED
  BY <1>1, <1>2, <1>3, <1>4, <1>5 DEF Next

LEMMA BlockInvariance == ASSUME OldestStays PROVE Spec => []BlockInv
<1>1. LinkInv /\ BlockInv /\ [Next]_vars => BlockInv'
  BY NextBlocks
<1> QED
  BY InitBlocks, LinkInvariance, <1>1, PTL DEF Spec

-----------------------------------------------------------------------------
(* The theorems about the list and the blocks. *)

(* However commands are entered, recalled and dropped, the doubly linked list of
   shell_hist.c reads the same from both ends, numHist counts it, and its nodes
   are those malloc has given out: for every HISTSIZE, and even where main
   recalls the entry that has to make room. *)
THEOREM ListStaysLinked == Spec => []ListLinked
<1>1. ASSUME LinkInv PROVE ListLinked
  <2> SUFFICES ASSUME Running
               PROVE  /\ Len(Listed) = numHist
                      /\ \A n \in 0 .. numHist : prev[after[n + 1]] = after[n]
                      /\ allocated = ListedNodes
    BY DEF ListLinked
  <2>1. PICK k, c : ListOf(k, c)
    BY <1>1, KnownChain
  <2>2. k = numHist /\ k \in Nat /\ Back(prev, k, c)
    BY <2>1, ChainPlaces DEF ListOf
  <2>3. /\ Listed = [n \in 1 .. k |-> c[n]] /\ ListedNodes = allocated
        /\ \A n \in 0 .. k + 1 : after[n] = c[n]
    BY <2>1, ListKnown
  <2>4. Len(Listed) = numHist
    BY <2>2, <2>3
  <2>5. \A n \in 0 .. numHist : prev[after[n + 1]] = after[n]
    BY <2>2, <2>3 DEF Back
  <2> QED
    BY <2>3, <2>4, <2>5
<1> QED
  BY <1>1, LinkInvariance, PTL

(* Every variable has its type, as long as the oldest entry is not recalled: no
   block is ever freed twice, whichever of popFront, destroyNode and callChild
   frees it. *)
THEOREM TypeCorrect == ASSUME OldestStays PROVE Spec => []TypeOK
<1>1. ASSUME LinkInv, BlockInv PROVE TypeOK
  <2>1. allocated \subseteq Node
    BY <1>1, KnownChain
  <2>2. next \in Links /\ prev \in Links
    BY <1>1 DEF LinkInv, LinkType
  <2> QED
    BY <1>1, <2>1, <2>2 DEF LinkInv, LinkType, BlockInv, TypeOK, Links, Ends
<1> QED
  BY <1>1, LinkInvariance, BlockInvariance, PTL

(* What the list can still show or run has not been freed, for every HISTSIZE:
   popFront frees the args and command of a node only with the last node that
   shares them. *)
THEOREM ListedStaysLive == ASSUME OldestStays PROVE Spec => []ListedLive
<1>1. ASSUME LinkInv, BlockInv PROVE ListedLive
  <2>1. ListedNodes = allocated
    BY <1>1, KnownChain, ListKnown
  <2> QED
    BY <1>1, <2>1 DEF ListedLive, BlockInv, Blocks, Abandoned, Running, Calling
<1> QED
  BY <1>1, LinkInvariance, BlockInvariance, PTL

(* callChild never gets args that have been freed unless the entry that has to
   make room is recalled: the recall of the oldest entry is the only way. *)
THEOREM OnlyTheOldestIsLost == ASSUME OldestStays PROVE Spec => []CalledLive
<1>1. ASSUME LinkInv, BlockInv PROVE CalledLive
  BY <1>1 DEF CalledLive, BlockInv, Blocks, Abandoned, Running, Calling, LinkInv, Entered
<1> QED
  BY <1>1, LinkInvariance, BlockInvariance, PTL

(* A shell that ends through clearList has freed every node, and the block of
   every command entered exactly once, whichever mixture of popFront and
   destroyNode did it. *)
THEOREM AllIsFreedOnce == ASSUME OldestStays PROVE Spec => []NothingLeaks
<1>1. ASSUME LinkInv, BlockInv PROVE NothingLeaks
  <2> SUFFICES ASSUME pc = "ended", first = tail
               PROVE  /\ allocated = {}
                      /\ \A id \in Id : freed[id] = (IF id < commandId THEN 1 ELSE 0)
    BY DEF NothingLeaks
  <2>1. allocated = {}
    BY <1>1, KnownChain, FirstKnown
  <2> QED
    BY <1>1, <2>1 DEF BlockInv, Blocks, Unused, Abandoned
<1> QED
  BY <1>1, LinkInvariance, BlockInvariance, PTL

(* "!-n", found by walking the links back, enters the command that is n-th from
   the newest in the list as the links forward have it. *)
NthRecalled ==
  \A n \in 1 .. numHist :
    RecallLast(n) => idOf'[newHist'] = idOf[Listed[numHist + 1 - n]]

THEOREM RecallsTheNth == Spec => RecallsNth
<1>1. ASSUME LinkInv PROVE NthRecalled
  <2> SUFFICES ASSUME NEW n \in 1 .. numHist, RecallLast(n)
               PROVE  idOf'[newHist'] = idOf[Listed[numHist + 1 - n]]
    BY DEF NthRecalled
  <2>1. Running /\ Enters(idOf[findLastN(n)])
    BY DEF RecallLast, Recall, Enter, Enters, Running
  <2>2. findLastN(n) = Listed[numHist + 1 - n]
    BY <1>1, <2>1, Found
  <2>3. idOf \in [Node -> Id]
    BY <1>1 DEF LinkInv, LinkType
  <2> QED
    BY <2>1, <2>2, <2>3 DEF Enters
<1>2. LinkInv /\ [Next]_vars => [NthRecalled]_vars
  BY <1>1
<1>3. Spec => [][NthRecalled]_vars
  BY <1>2, LinkInvariance, PTL DEF Spec
<1> QED
  BY <1>3 DEF RecallsNth, NthRecalled

-----------------------------------------------------------------------------
(* Refinement: the list read from its head is the bounded history. *)

LogNow == IF Running THEN [n \in DOMAIN Listed |-> idOf[Listed[n]]] ELSE <<>>
CalledNow == IF newHist = NULL THEN NULL ELSE idOf[newHist]

(* The commandIds of the k nodes of c. *)
LogOf(k, c, id) == [n \in 1 .. k |-> id[c[n]]]

LEMMA LogIs ==
  ASSUME Running, NEW k, NEW c, ListOf(k, c)
  PROVE  LogNow = LogOf(k, c, idOf)
<1>1. Listed = [n \in 1 .. k |-> c[n]]
  BY ListKnown
<1>2. DOMAIN Listed = 1 .. k /\ \A n \in 1 .. k : Listed[n] = c[n]
  BY <1>1
<1> QED
  BY <1>2 DEF LogNow, LogOf

LEMMA LogNext ==
  ASSUME Running', NEW k, NEW c, Chain(k, c), Forward(next', k, c)
  PROVE  LogNow' = LogOf(k, c, idOf')
<1>1. Listed' = [n \in 1 .. k |-> c[n]]
  BY ListedIs, ListedNext
<1>2. DOMAIN Listed' = 1 .. k /\ \A n \in 1 .. k : Listed'[n] = c[n]
  BY <1>1
<1> QED
  BY <1>2 DEF LogNow, LogOf

LEMMA FunctionIsSeq ==
  ASSUME NEW S, NEW n \in Nat, NEW f \in [1 .. n -> S]
  PROVE  f \in Seq(S) /\ Len(f) = n
  OBVIOUS

(* One command more: all are kept, or the oldest goes. *)
LEMMA NewestOfFew ==
  ASSUME NEW k \in Nat, k <= HISTSIZE, NEW s \in [1 .. k -> Id], NEW id \in Id,
         NEW new \in [1 .. k + 1 -> Id], new[k + 1] = id, \A i \in 1 .. k : new[i] = s[i]
  PROVE  Log!Newest(Append(s, id)) = new
<1> DEFINE a == Append(s, id)
<1>1. s \in Seq(Id) /\ Len(s) = k /\ new \in Seq(Id) /\ Len(new) = k + 1
  BY FunctionIsSeq
<1>2. /\ a \in Seq(Id) /\ Len(a) = k + 1 /\ a[k + 1] = id
      /\ \A i \in 1 .. k : a[i] = s[i]
  BY <1>1, AppendProperties
<1> HIDE DEF a
<1>3. \A i \in 1 .. k + 1 : i \in 1 .. k \/ i = k + 1
  OBVIOUS
<1>4. \A i \in 1 .. k + 1 : new[i] = a[i]
  BY <1>2, <1>3
<1>5. new = a
  BY <1>1, <1>2, <1>4, SeqEqual
<1>6. Log!Newest(a) = a
  BY <1>2, NodeType DEF Log!Newest
<1> QED
  BY <1>5, <1>6 DEF a

LEMMA NewestOfFull ==
  ASSUME NEW k \in Nat, k = HISTSIZE + 1, NEW s \in [1 .. k -> Id], NEW id \in Id,
         NEW new \in [1 .. k -> Id], new[k] = id, \A i \in 1 .. k - 1 : new[i] = s[i + 1]
  PROVE  Log!Newest(Append(s, id)) = new
<1> DEFINE a == Append(s, id)
           b == SubSeq(a, 2, k + 1)
<1>1. s \in Seq(Id) /\ Len(s) = k /\ new \in Seq(Id) /\ Len(new) = k
  BY FunctionIsSeq
<1>2. /\ a \in Seq(Id) /\ Len(a) = k + 1 /\ a[k + 1] = id
      /\ \A i \in 1 .. k : a[i] = s[i]
  BY <1>1, AppendProperties
<1> HIDE DEF a
<1>3. \A i \in 2 .. k + 1 : a[i] \in Id
  BY <1>2, ElementOfSeq
<1>4. b \in Seq(Id) /\ Len(b) = k /\ \A i \in 1 .. k : b[i] = a[i + 1]
  <2>1. (k + 1) - 2 + 1 = k /\ 2 <= k + 1 /\ 2 \in Int /\ k + 1 \in Int
    BY NodeType
  <2>2. \A i \in 1 .. k : 2 + i - 1 = i + 1
    OBVIOUS
  <2>3. /\ b \in Seq(Id) /\ Len(b) = IF 2 <= k + 1 THEN (k + 1) - 2 + 1 ELSE 0
        /\ \A i \in 1 .. (k + 1) - 2 + 1 : b[i] = a[2 + i - 1]
    BY <1>3, <2>1, SubSeqProperties
  <2> HIDE DEF b
  <2> QED
    BY <2>1, <2>2, <2>3
<1> HIDE DEF b
<1>5. ASSUME NEW i \in 1 .. k PROVE new[i] = b[i]
  <2>1. CASE i = k
    BY <1>2, <1>4, <2>1
  <2>2. CASE i # k
    <3>1. i \in 1 .. k - 1 /\ i + 1 \in 1 .. k
      BY <2>2
    <3> QED
      BY <1>2, <1>4, <3>1
  <2> QED
    BY <2>1, <2>2
<1>6. new = b
  BY <1>1, <1>4, <1>5, SeqEqual
<1>7. Log!Newest(a) = b
  <2>1. HISTSIZE \in Nat /\ ~(k + 1 <= HISTSIZE + 1) /\ (k + 1) - (HISTSIZE + 1) + 1 = 2
    BY NodeType
  <2> QED
    BY <1>2, <2>1 DEF Log!Newest, b
<1> QED
  BY <1>6, <1>7 DEF a

(* Entering the commandId id makes it the newest of the log. *)
LEMMA EnterLog ==
  ASSUME LinkInv, Running, NEW id \in Id, Enters(id)
  PROVE  /\ LogNow' = Log!Newest(Append(LogNow, id))
         /\ CalledNow' = id
         /\ Running'
<1>1. PICK k, c : ListOf(k, c)
  BY KnownChain
<1>2. PICK n \in Node \ allocated :
        /\ idOf' = [idOf EXCEPT ![n] = id]
        /\ addToTail(n)
        /\ newHist' = n
        /\ pc' \in {"call new", "call again"}
  BY DEF Enters
<1> DEFINE K == GrownLength(k)
           C == Grown(k, c, n)
<1>3. Chain(K, C) /\ Forward(next', K, C)
  BY <1>1, <1>2, AddStep
<1>4. Running'
  BY <1>2 DEF Running, Calling
<1> HIDE DEF K, C
<1>5. LogNow' = LogOf(K, C, idOf') /\ LogNow = LogOf(k, c, idOf)
  BY <1>1, <1>3, <1>4, LogIs, LogNext
<1>6. /\ k \in Nat /\ k <= HISTSIZE + 1 /\ k = numHist /\ HISTSIZE \in Nat
      /\ allocated = NodesOf(k, c) /\ allocated \subseteq Node
      /\ \A i \in 1 .. k : c[i] \in allocated
      /\ idOf \in [Node -> Id]
  BY <1>1, ChainPlaces, NodeType DEF ListOf, NodesOf, LinkInv, LinkType
<1>7. idOf'[n] = id /\ \A m \in allocated : idOf'[m] = idOf[m]
  BY <1>2, <1>6
<1>8. full <=> k > HISTSIZE
  BY <1>6 DEF full
<1>9. K = IF k > HISTSIZE THEN k ELSE k + 1
  BY <1>8 DEF K, GrownLength
<1>10. ASSUME k <= HISTSIZE
       PROVE  C[k + 1] = n /\ \A i \in 1 .. k : C[i] = c[i]
  <2>1. ~full
    BY <1>6, <1>8, <1>10
  <2>2. C = Pushed(k, c, n)
    BY <2>1 DEF C, Grown
  <2> QED
    BY <1>6, <2>2 DEF Pushed
<1>11. ASSUME k > HISTSIZE
       PROVE  C[k] = n /\ \A i \in 1 .. k - 1 : C[i] = c[i + 1] /\ i + 1 \in 1 .. k
  <2>1. C = Pushed(k - 1, Dropped(k, c), n)
    BY <1>8, <1>11 DEF C, Grown
  <2>2. k - 1 \in Nat /\ (k - 1) + 1 = k /\ (k - 1) + 2 = k + 1
    BY <1>6, <1>11
  <2>3. \A i \in 1 .. k - 1 : Dropped(k, c)[i] = c[i + 1] /\ i + 1 \in 1 .. k
    BY <1>6 DEF Dropped
  <2>4. C[k] = n /\ \A i \in 1 .. k - 1 : C[i] = Dropped(k, c)[i]
    BY <1>6, <2>1, <2>2 DEF Pushed
  <2> QED
    BY <2>3, <2>4
<1> DEFINE s == LogOf(k, c, idOf)
           new == LogOf(K, C, idOf')
<1>12. /\ s \in [1 .. k -> Id]
       /\ \A i \in 1 .. k : s[i] = idOf[c[i]] /\ s[i] = idOf'[c[i]]
  BY <1>6, <1>7 DEF LogOf
<1>13. \A i \in 1 .. K : new[i] = idOf'[C[i]]
  BY DEF LogOf
<1>14. new \in [1 .. K -> Id]
  <2>1. new = [i \in 1 .. K |-> idOf'[C[i]]]
    BY DEF LogOf
  <2>2. idOf' \in [Node -> Id] /\ \A i \in 1 .. K : C[i] \in Node
    BY <1>2, <1>3, <1>6 DEF Chain
  <2> QED
    BY <2>1, <2>2
<1> HIDE DEF s, new
<1>15. Log!Newest(Append(s, id)) = new
  <2>1. CASE k <= HISTSIZE
    <3>1. K = k + 1 /\ k + 1 \in 1 .. K /\ \A i \in 1 .. k : i \in 1 .. K
      BY <1>6, <1>9, <2>1
    <3>2. new[k + 1] = id /\ \A i \in 1 .. k : new[i] = s[i]
      BY <1>7, <1>10, <1>12, <1>13, <2>1, <3>1
    <3> QED
      BY <1>6, <1>12, <1>14, <2>1, <3>1, <3>2, NewestOfFew
  <2>2. CASE k > HISTSIZE
    <3>1. K = k /\ k = HISTSIZE + 1 /\ k \in 1 .. K /\ \A i \in 1 .. k - 1 : i \in 1 .. K
      BY <1>6, <1>9, <2>2
    <3>2. new[k] = id /\ \A i \in 1 .. k - 1 : new[i] = s[i + 1]
      BY <1>7, <1>11, <1>12, <1>13, <2>2, <3>1
    <3> QED
      BY <1>6, <1>12, <1>14, <3>1, <3>2, NewestOfFull
  <2> QED
    BY <1>6, <2>1, <2>2
<1>16. CalledNow' = id
  <2>1. n # NULL
    BY NodeType
  <2> QED
    BY <1>2, <1>7, <2>1 DEF CalledNow
<1> QED
  BY <1>4, <1>5, <1>15, <1>16 DEF s, new

LEMMA NewLogs ==
  ASSUME LinkInv, NEW k \in Kind, NewCommand(k)
  PROVE  Log!Next
<1>1. Running /\ Enters(commandId) /\ commandId < MaxCommands
  BY DEF NewCommand, Enter, Enters, Running
<1>2. commandId \in Id
  <2>1. commandId \in 0 .. MaxCommands
    BY DEF LinkInv, LinkType
  <2> QED
    BY <1>1, <2>1, IdType DEF Id
<1>3. PICK n, c : ListOf(n, c)
  BY KnownChain
<1>4. LogNow = LogOf(n, c, idOf) /\ \A i \in 1 .. n : idOf[c[i]] < commandId
  BY <1>1, <1>3, LogIs DEF ListOf, NodesOf, LinkInv, Entered
<1>5. PICK id \in Id : id = commandId
  BY <1>2
<1>6. \A i \in DOMAIN LogNow : LogNow[i] # id
  BY <1>4, <1>5, IdType DEF LogOf
<1>7. LogNow' = Log!Newest(Append(LogNow, id)) /\ CalledNow' = id /\ Running'
  <2>1. Enters(id)
    BY <1>1, <1>5
  <2> QED
    BY <1>1, <2>1, EnterLog
<1>8. Log!Enter(id)
  BY <1>1, <1>7 DEF Log!Enter, LogNow, CalledNow
<1>9. \E e \in Id \cup {NULL} : Log!Enter(e) /\ \A i \in DOMAIN LogNow : LogNow[i] # e
  BY <1>6, <1>8
<1> QED
  BY <1>9 DEF Log!Next, LogNow

LEMMA RecallLogs ==
  ASSUME LinkInv, Recalls
  PROVE  Log!Next
<1>1. PICK m \in allocated : Recall(m)
  BY DEF Recalls
<1>2. Running /\ Enters(idOf[m])
  BY <1>1 DEF Recall, Enter, Enters, Running
<1>3. idOf[m] \in Id
  BY <1>1, KnownChain DEF LinkInv, LinkType
<1>4. PICK k, c : ListOf(k, c)
  BY KnownChain
<1>5. LogNow = LogOf(k, c, idOf)
  BY <1>2, <1>4, LogIs
<1>6. PICK i \in 1 .. k : c[i] = m
  BY <1>1, <1>4 DEF ListOf, NodesOf
<1>7. i \in DOMAIN LogNow /\ LogNow[i] = idOf[m]
  BY <1>5, <1>6 DEF LogOf
<1>8. LogNow' = Log!Newest(Append(LogNow, LogNow[i])) /\ CalledNow' = LogNow[i] /\ Running'
  BY <1>2, <1>3, <1>7, EnterLog
<1>9. Log!Enter(LogNow[i])
  BY <1>2, <1>8 DEF Log!Enter, LogNow, CalledNow
<1>10. Log!Recall(i)
  BY <1>9 DEF Log!Recall, LogNow
<1> QED
  BY <1>7, <1>10 DEF Log!Next, LogNow

(* The shell is told to end, or ends because fork fails. *)
LEMMA CloseLogs ==
  ASSUME UNCHANGED <<idOf, newHist>>, ~Running'
  PROVE  Log!Close
BY DEF Log!Close

LEMMA SameLog ==
  ASSUME UNCHANGED <<next, idOf, newHist>>, Running' = Running
  PROVE  UNCHANGED Log!logVars
<1>1. Listed' = Listed
  BY ListedNow, ListedNext
<1> QED
  BY <1>1 DEF Log!logVars

LEMMA NextLogs ==
  ASSUME LinkInv, [Next]_vars
  PROVE  Log!Next \/ UNCHANGED Log!logVars
<1>1. CASE \E k \in Kind : NewCommand(k)
  BY <1>1, NewLogs
<1>2. ASSUME NEW n \in 1 .. HISTSIZE + 1, RecallLast(n) \/ RecallFirst(n) PROVE Log!Next
  BY <1>2, RecallOfListed, RecallLogs
<1>3. CASE EndOfInput \/ CallExit \/ ForkFails
  <2>1. UNCHANGED <<idOf, newHist>> /\ ~Running'
    BY <1>3 DEF EndOfInput, CallExit, ForkFails, Running, Calling, listVars
  <2> QED
    BY <2>1, CloseLogs DEF Log!Next
<1>4. CASE CallReturns \/ ClearEnd \/ Over \/ UNCHANGED vars
  <2>1. UNCHANGED <<next, idOf, newHist>> /\ Running' = Running
    BY <1>4 DEF CallReturns, ClearEnd, Over, Running, Calling, vars, listVars
  <2> QED
    BY <2>1, SameLog
<1>5. CASE ClearFirst
  <2>1. UNCHANGED <<idOf, newHist>> /\ Running = FALSE /\ Running' = FALSE
    BY <1>5 DEF ClearFirst, Running, Calling
  <2> QED
    BY <2>1 DEF Log!logVars
<1> QED
  BY <1>1, <1>2, <1>3, <1>4, <1>5 DEF Next

LEMMA InitLogs == Init => Log!Init
<1> SUFFICES ASSUME Init PROVE Log!Init
  OBVIOUS
<1>1. PICK k, c : ListOf(k, c)
  BY InitLinked, KnownChain
<1>2. Running /\ numHist = 0 /\ newHist = NULL
  BY DEF Init, Running
<1>3. k = 0
  BY <1>1, <1>2 DEF ListOf
<1>4. LogNow = LogOf(0, c, idOf)
  BY <1>1, <1>2, <1>3, LogIs
<1>5. LogNow = <<>>
  BY <1>4 DEF LogOf
<1> QED
  BY <1>2, <1>5 DEF Log!Init, LogNow

(* The linked list, its sentinels and its shared blocks implement BoundedHistory
   for every HISTSIZE: what head leads to is the last HISTSIZE + 1 commands in the
   order they were entered, a recall enters one of them again, and only the end of
   the shell empties it. *)
THEOREM LogKept == Spec => KeepsLog
<1>1. LinkInv /\ [Next]_vars => [Log!Next]_(Log!logVars)
  BY NextLogs
<1>2. Spec => Log!Spec
  BY <1>1, InitLogs, LinkInvariance, PTL DEF Spec, Log!Spec
<1> QED
  BY <1>2 DEF KeepsLog
=============================================================================
