------------------------------ MODULE MemProofs ------------------------------
(***************************************************************************)
(* Theorems of Mem, for every size of the region, every set of sizes and   *)
(* every number of calls.                                                  *)
(***************************************************************************)
EXTENDS Mem, WellFoundedInduction, TLAPS

(* Sizes are not 0. *)
LEMMA Constants == Regions \subseteq Nat \ {0} /\ Sizes \subseteq Nat \ {0} /\ MaxCalls \in Nat
  BY MemAssumption DEF MemAssumption

-----------------------------------------------------------------------------
(* Walks. *)

(* A set of naturals has a least one: the form in which every induction below is done. *)
LEMMA LeastOf ==
  ASSUME NEW T, T \subseteq Nat, T # {}
  PROVE  \E n \in T : \A m \in T : ~(m < n)
<1> DEFINE R == {ss \in Nat \X Nat : ss[1] < ss[2]}
<1>1. IsWellFoundedOn(R, Nat)
  BY NatLessThanWellFounded DEF OpToRel
<1> HIDE DEF R
<1>2. \E x \in T : \A y \in T : ~ (<<y, x>> \in R)
  BY <1>1, WFMin
<1> QED
  BY <1>2 DEF R

(* at holds the first k pointers after p along link. *)
IsPath(at, link, p, k) == at = [i \in 0 .. k |-> IF i = 0 THEN p ELSE Step(link, at[i - 1])]

(* A path follows the link. *)
LEMMA PathStep ==
  ASSUME NEW link, NEW p, NEW k \in Nat, NEW at, IsPath(at, link, p, k)
  PROVE  at[0] = p /\ \A i \in 1 .. k : at[i] = Step(link, at[i - 1])
<1>1. \A i \in 0 .. k : at[i] = IF i = 0 THEN p ELSE Step(link, at[i - 1])
  BY DEF IsPath
<1> QED
  BY <1>1

(* There is a path of every length. *)
LEMMA PathExists ==
  ASSUME NEW link, NEW p, NEW k \in Nat
  PROVE  \E at : IsPath(at, link, p, k)
<1> DEFINE T == {n \in Nat : ~ \E at : IsPath(at, link, p, n)}
<1>1. SUFFICES ASSUME T # {} PROVE FALSE
  OBVIOUS
<1>2. PICK n \in T : \A m \in T : ~(m < n)
  <2>1. T \subseteq Nat
    OBVIOUS
  <2> HIDE DEF T
  <2> QED
    BY <1>1, <2>1, LeastOf
<1>3. CASE n = 0
  <2> DEFINE at == [i \in 0 .. n |-> p]
  <2>1. at = [i \in 0 .. n |-> IF i = 0 THEN p ELSE Step(link, at[i - 1])]
    BY <1>3
  <2> HIDE DEF at
  <2>2. IsPath(at, link, p, n)
    BY <2>1 DEF IsPath
  <2> QED
    BY <1>2, <2>2
<1>4. CASE n # 0
  <2>1. n - 1 \in Nat /\ n - 1 < n
    BY <1>4
  <2>2. PICK b : IsPath(b, link, p, n - 1)
    BY <1>2, <2>1
  <2> DEFINE at == [i \in 0 .. n |-> IF i <= n - 1 THEN b[i] ELSE Step(link, b[n - 1])]
  <2>3. b[0] = p /\ \A i \in 1 .. n - 1 : b[i] = Step(link, b[i - 1])
    BY <2>1, <2>2, PathStep
  <2>4. ASSUME NEW i \in 0 .. n
        PROVE  at[i] = IF i = 0 THEN p ELSE Step(link, at[i - 1])
    <3>1. CASE i = 0
      BY <2>1, <2>3, <3>1
    <3>2. CASE i # 0 /\ i <= n - 1
      <4>1. i - 1 \in 0 .. n /\ i - 1 <= n - 1 /\ i \in 1 .. n - 1
        BY <2>1, <3>2
      <4> QED
        BY <2>3, <3>2, <4>1
    <3>3. CASE i = n
      <4>1. i - 1 \in 0 .. n /\ i - 1 <= n - 1 /\ ~(i <= n - 1)
        BY <2>1, <3>3
      <4> QED
        BY <1>4, <3>3, <4>1
    <3> QED
      BY <2>1, <3>1, <3>2, <3>3
  <2>5. at = [i \in 0 .. n |-> at[i]]
    OBVIOUS
  <2> HIDE DEF at
  <2>6. IsPath(at, link, p, n)
    BY <2>4, <2>5 DEF IsPath
  <2> QED
    BY <1>2, <2>6
<1> QED
  BY <1>3, <1>4

(* Along is the end of a path: one pointer more is one step more. *)
LEMMA AlongStep ==
  ASSUME NEW link, NEW p
  PROVE  /\ Along(link, p, 0) = p
         /\ \A k \in Nat : Along(link, p, k + 1) = Step(link, Along(link, p, k))
<1> DEFINE P(k) == CHOOSE at : IsPath(at, link, p, k)
<1>1. \A k \in Nat : Along(link, p, k) = P(k)[k]
  BY DEF Along, IsPath
<1>2. \A k \in Nat : IsPath(P(k), link, p, k)
  BY PathExists
<1> HIDE DEF P
<1>3. \A k \in Nat : P(k)[0] = p /\ \A i \in 1 .. k : P(k)[i] = Step(link, P(k)[i - 1])
  <2> TAKE k \in Nat
  <2>1. PICK at : at = P(k)
    OBVIOUS
  <2>2. IsPath(at, link, p, k)
    BY <1>2, <2>1
  <2>3. at[0] = p /\ \A i \in 1 .. k : at[i] = Step(link, at[i - 1])
    BY <2>2, PathStep
  <2> QED
    BY <2>1, <2>3
<1>4. ASSUME NEW k \in Nat PROVE P(k + 1)[k] = P(k)[k]
  <2> DEFINE T == {n \in 0 .. k : P(k + 1)[n] # P(k)[n]}
  <2>1. SUFFICES ASSUME T # {} PROVE FALSE
    OBVIOUS
  <2>2. PICK n \in T : \A m \in T : ~(m < n)
    <3>1. T \subseteq Nat
      OBVIOUS
    <3> HIDE DEF T
    <3> QED
      BY <2>1, <3>1, LeastOf
  <2>3. n # 0 /\ k + 1 \in Nat
    BY <1>3, <2>2
  <2>4. n - 1 \in 0 .. k /\ n - 1 < n /\ n \in 1 .. k /\ n \in 1 .. k + 1
    BY <2>2, <2>3
  <2>5. P(k + 1)[n - 1] = P(k)[n - 1]
    BY <2>2, <2>4
  <2> QED
    BY <1>3, <2>2, <2>3, <2>4, <2>5
<1>5. ASSUME NEW k \in Nat PROVE Along(link, p, k + 1) = Step(link, Along(link, p, k))
  <2>1. k + 1 \in Nat /\ k + 1 \in 1 .. k + 1 /\ (k + 1) - 1 = k
    OBVIOUS
  <2> QED
    BY <1>1, <1>3, <1>4, <2>1
<1> QED
  BY <1>1, <1>3, <1>5

(* c leads along link from p to NULL, in k steps. *)
Trail(link, p, k, c) ==
  /\ k \in Nat
  /\ c[1] = p /\ c[k + 1] = NULL
  /\ \A i \in 1 .. k : c[i] # NULL /\ link[c[i]] = c[i + 1]

(* Along a trail the i-th pointer is the trail's. *)
LEMMA AlongTrail ==
  ASSUME NEW link, NEW p, NEW k, NEW c, Trail(link, p, k, c)
  PROVE  \A i \in 0 .. k : Along(link, p, i) = c[i + 1]
<1> DEFINE T == {n \in 0 .. k : Along(link, p, n) # c[n + 1]}
<1>1. SUFFICES ASSUME T # {} PROVE FALSE
  OBVIOUS
<1>2. PICK n \in T : \A m \in T : ~(m < n)
  <2>1. T \subseteq Nat
    BY DEF Trail
  <2> HIDE DEF T
  <2> QED
    BY <1>1, <2>1, LeastOf
<1>3. k \in Nat /\ n \in 0 .. k /\ n # 0
  BY <1>2, AlongStep DEF Trail
<1>4. n - 1 \in Nat /\ n - 1 \in 0 .. k /\ n - 1 < n /\ (n - 1) + 1 = n /\ n \in 1 .. k
  BY <1>3
<1>5. Along(link, p, n - 1) = c[n]
  BY <1>2, <1>4
<1>6. Along(link, p, n) = Step(link, c[n])
  <2>1. PICK m \in Nat : m = n - 1
    BY <1>4
  <2>2. Along(link, p, m + 1) = Step(link, Along(link, p, m))
    BY AlongStep
  <2>3. m + 1 = n
    BY <1>3, <2>1
  <2> QED
    BY <1>5, <2>1, <2>2, <2>3
<1> QED
  BY <1>2, <1>4, <1>6 DEF Trail, Step

(* A trail that fits in the bound is what Walk returns. *)
LEMMA WalkOfTrail ==
  ASSUME NEW link, NEW p, NEW k, NEW c, Trail(link, p, k, c), k <= MaxCalls + 1
  PROVE  /\ Ends(link, p)
         /\ Walk(link, p) = [i \in 1 .. k |-> c[i]]
<1>1. MaxCalls \in Nat /\ k \in Nat
  BY Constants DEF Trail
<1>2. \A i \in 0 .. k : Along(link, p, i) = c[i + 1]
  BY AlongTrail
<1>3. ASSUME NEW i \in 0 .. k - 1 PROVE Along(link, p, i) # NULL
  <2>1. i \in 0 .. k /\ i + 1 \in 1 .. k
    BY <1>1
  <2> QED
    BY <1>2, <2>1 DEF Trail
<1>4. k \in Length(link, p)
  <2>1. Along(link, p, k) = NULL
    BY <1>1, <1>2 DEF Trail
  <2> QED
    BY <1>1, <1>3, <2>1 DEF Length
<1>5. ASSUME NEW n \in Length(link, p) PROVE n = k
  <2>1. n \in Nat /\ Along(link, p, n) = NULL /\ \A j \in 0 .. n - 1 : Along(link, p, j) # NULL
    BY <1>1 DEF Length
  <2>2. ~(n < k)
    BY <1>1, <1>3, <2>1
  <2>3. ~(k < n)
    <3> SUFFICES ASSUME k < n PROVE FALSE
      OBVIOUS
    <3>1. k \in 0 .. n - 1
      BY <1>1, <2>1
    <3> QED
      BY <1>4, <2>1, <3>1 DEF Length
  <2> QED
    BY <1>1, <2>1, <2>2, <2>3
<1>6. (CHOOSE n \in Length(link, p) : TRUE) = k
  BY <1>4, <1>5
<1>7. Walk(link, p) = [i \in 1 .. k |-> Along(link, p, i - 1)]
  BY <1>6 DEF Walk
<1>8. \A i \in 1 .. k : Along(link, p, i - 1) = c[i]
  BY <1>1, <1>2
<1> QED
  BY <1>4, <1>7, <1>8 DEF Ends

-----------------------------------------------------------------------------
(* Numbers and addresses. *)

Ptr == Addr \cup {NULL}

(* round_to gives the next multiple of 8. *)
LEMMA Rounding ==
  ASSUME NEW asked \in Nat \ {0}
  PROVE  \E b \in Nat : /\ round_to(asked, BLOCK_SIZE) = 8 * b
                        /\ asked <= 8 * b /\ b >= 1
<1>1. (asked - 1) \div 8 \in Nat /\ asked - 1 < ((asked - 1) \div 8) * 8 + 8
  OBVIOUS
<1> DEFINE b == (asked - 1) \div 8 + 1
<1>2. b \in Nat /\ b >= 1 /\ round_to(asked, BLOCK_SIZE) = 8 * b
  BY <1>1 DEF round_to, BLOCK_SIZE
<1>3. asked <= 8 * b
  BY <1>1
<1> QED
  BY <1>2, <1>3

(* Addresses are multiples of 8. *)
LEMMA AddrType ==
  ASSUME NEW a \in Addr
  PROVE  a \in Nat /\ a # NULL /\ \E n \in Nat : a = 8 * n
<1>1. PICK n \in UNION {0 .. RegionEnd(s) \div BLOCK_SIZE : s \in Regions} : a = 8 * n
  BY DEF Addr, BLOCK_SIZE
<1>2. n \in Nat
  BY <1>1
<1> QED
  BY <1>1, <1>2 DEF NULL

(* Every multiple of 8 inside the region is an address. *)
LEMMA AddrOf ==
  ASSUME NEW s \in Regions, NEW n \in Nat, 8 * n <= RegionEnd(s)
  PROVE  8 * n \in Addr
<1>1. PICK b \in Nat : round_to(s, BLOCK_SIZE) = 8 * b
  BY Constants, Rounding
<1>2. RegionEnd(s) = 40 * b
  BY <1>1 DEF RegionEnd, BLOCK_SIZE, BLOCK_HEADER
<1>3. RegionEnd(s) \div BLOCK_SIZE = 5 * b
  BY <1>2 DEF BLOCK_SIZE
<1>4. n \in 0 .. RegionEnd(s) \div BLOCK_SIZE
  BY <1>2, <1>3
<1> QED
  BY <1>4 DEF Addr, BLOCK_SIZE

-----------------------------------------------------------------------------
(* The invariant.  h is a heap, c its headers in the order of their addresses,
   k how many. *)

Heaps ==
  [next : [Addr -> Ptr], prev : [Addr -> Ptr], next_free : [Addr -> Ptr],
   status : [Addr -> {"FREE", "ALLOCATED"}], head_free : Ptr, largest : Ptr,
   second_largest : Ptr, region_end : {RegionEnd(s) : s \in Regions},
   remaining_size : Int, last_block_size : Int, size_of_last_allocate : Int,
   need_global_coalesce : BOOLEAN]

Headers(k, c) == {c[i] : i \in 1 .. k}

Chain(h, k, c) ==
  /\ k \in Nat \ {0}
  /\ c \in [0 .. k + 1 -> Ptr]
  /\ c[0] = NULL /\ c[1] = 0 /\ c[k + 1] = NULL
  /\ \A i \in 1 .. k : c[i] \in Addr
  /\ \A i, j \in 1 .. k : i < j => c[i] + BLOCK_HEADER + BLOCK_SIZE <= c[j]
  /\ \A i \in 1 .. k : h.next[c[i]] = c[i + 1] /\ h.prev[c[i]] = c[i - 1]

(* Every pointer the library follows leads to a header. *)
Closed(h, k, c) ==
  /\ \A p \in Headers(k, c) : h.next_free[p] \in Headers(k, c) \cup {NULL}
  /\ {h.head_free, h.largest, h.second_largest} \subseteq Headers(k, c) \cup {NULL}

(* q is the first free block behind the i-th. *)
Follows(h, k, c, i, q) ==
  \/ q = NULL /\ \A j \in i + 1 .. k : h.status[c[j]] # "FREE"
  \/ \E j \in i + 1 .. k :
       /\ q = c[j] /\ h.status[c[j]] = "FREE"
       /\ \A l \in i + 1 .. j - 1 : h.status[c[l]] # "FREE"

FreeLinked(h, k, c) ==
  /\ Follows(h, k, c, 0, h.head_free)
  /\ \A i \in 1 .. k : h.status[c[i]] = "FREE" => Follows(h, k, c, i, h.next_free[c[i]])

(* largest, where it is taken without a search. *)
RankedFree(h) == h.largest # NULL /\ h.second_largest # NULL => h.status[h.largest] = "FREE"

Fits(h, p, asked) ==
  \/ asked <= (IF h.next[p] = NULL THEN h.region_end ELSE h.next[p]) - (p + BLOCK_HEADER)
  \/ h.next[p] = NULL /\ h.size_of_last_allocate > h.last_block_size

(* What the client holds. *)
Held(h, k, c, l) ==
  \A p \in Addr : l[p] # 0 => p \in Headers(k, c) /\ h.status[p] = "ALLOCATED" /\ Fits(h, p, l[p])

(* Before the first Mem_Free only the last block can be free, and there is room for
   all the headers that blocks of last_block_size bytes can need. *)
Packed(h, k, c) ==
  /\ \A i \in 1 .. k - 1 : h.status[c[i]] = "ALLOCATED"
  /\ h.last_block_size >= BLOCK_SIZE
  /\ c[k] + 5 * h.last_block_size <= h.region_end
  /\ h.largest # NULL /\ h.second_largest # NULL => h.largest = c[k]

(* Headers of a chain are different addresses, none of them NULL. *)
LEMMA ChainFacts ==
  ASSUME NEW h, NEW k, NEW c, Chain(h, k, c)
  PROVE  /\ k \in Nat /\ k >= 1 /\ c[k] \in Headers(k, c) /\ 0 \in Headers(k, c)
         /\ Headers(k, c) \subseteq Addr
         /\ \A i \in 1 .. k : c[i] \in Headers(k, c) /\ c[i] \in Nat /\ c[i] # NULL
         /\ \A i, j \in 1 .. k : c[i] = c[j] => i = j
<1>1. k \in Nat /\ k >= 1 /\ 1 \in 1 .. k /\ k \in 1 .. k
  BY DEF Chain
<1>2. Headers(k, c) \subseteq Addr
  BY DEF Chain, Headers
<1>3. \A i \in 1 .. k : c[i] \in Headers(k, c) /\ c[i] \in Nat /\ c[i] # NULL
  BY AddrType DEF Chain, Headers
<1>4. ASSUME NEW i \in 1 .. k, NEW j \in 1 .. k, c[i] = c[j] PROVE i = j
  <2>1. ~(i < j) /\ ~(j < i)
    <3>1. \A a, b \in 1 .. k : a < b => c[a] + BLOCK_HEADER + BLOCK_SIZE <= c[b]
      BY DEF Chain
    <3>2. PICK n \in Nat : c[i] = n /\ c[j] = n
      BY <1>3, <1>4
    <3>3. ~(n + BLOCK_HEADER + BLOCK_SIZE <= n)
      BY DEF BLOCK_HEADER, BLOCK_SIZE
    <3>4. /\ i < j => n + BLOCK_HEADER + BLOCK_SIZE <= n
          /\ j < i => n + BLOCK_HEADER + BLOCK_SIZE <= n
      BY <3>1, <3>2
    <3> QED
      BY <3>3, <3>4
  <2> QED
    BY <1>1, <2>1
<1>5. c[1] = 0
  BY DEF Chain
<1> QED
  BY <1>1, <1>2, <1>3, <1>4, <1>5

(* The headers are the ones the library walks over. *)
LEMMA BlocksOfChain ==
  ASSUME NEW h, NEW k, NEW c, Chain(h, k, c), k <= MaxCalls + 1
  PROVE  Ends(h.next, 0) /\ Blocks(h) = [i \in 1 .. k |-> c[i]]
<1>1. k \in Nat
  BY ChainFacts
<1>2. \A i \in 1 .. k : c[i] # NULL
  BY ChainFacts
<1>3. PICK link, p : link = h.next /\ p = 0
  OBVIOUS
<1>4. Ends(link, p) /\ Walk(link, p) = [i \in 1 .. k |-> c[i]]
  <2>1. Trail(link, p, k, c)
    BY <1>1, <1>2, <1>3 DEF Trail, Chain
  <2> QED
    BY <2>1, WalkOfTrail
<1>5. Blocks(h) = Walk(link, p)
  BY <1>3 DEF Blocks
<1> QED
  BY <1>3, <1>4, <1>5

(* The walk back from a header passes all headers before it. *)
LEMMA BackOfChain ==
  ASSUME NEW h, NEW k, NEW c, Chain(h, k, c), k <= MaxCalls + 1, NEW n \in 1 .. k
  PROVE  Walk(h.prev, c[n]) = [i \in 1 .. n |-> c[n + 1 - i]]
<1> DEFINE d == [i \in 1 .. n + 1 |-> c[n + 1 - i]]
<1>1. k \in Nat /\ n \in Nat /\ MaxCalls \in Nat /\ n >= 1 /\ n <= k
  BY ChainFacts, Constants
<1>2. d[1] = c[n] /\ d[n + 1] = NULL
  BY <1>1 DEF Chain
<1>3. ASSUME NEW i \in 1 .. n PROVE d[i] # NULL /\ h.prev[d[i]] = d[i + 1]
  <2>1. i \in 1 .. n + 1 /\ i + 1 \in 1 .. n + 1 /\ n + 1 - i \in 1 .. k
    BY <1>1
  <2>2. d[i] = c[n + 1 - i] /\ d[i + 1] = c[(n + 1 - i) - 1]
    BY <2>1
  <2>3. c[n + 1 - i] # NULL
    BY <2>1, ChainFacts
  <2> QED
    BY <2>1, <2>2, <2>3 DEF Chain
<1>4. \A i \in 1 .. n : d[i] = c[n + 1 - i]
  BY <1>1
<1> HIDE DEF d
<1>5. Trail(h.prev, c[n], n, d)
  BY <1>1, <1>2, <1>3 DEF Trail
<1>6. Walk(h.prev, c[n]) = [i \in 1 .. n |-> d[i]]
  BY <1>1, <1>5, WalkOfTrail
<1> QED
  BY <1>4, <1>6

(* What Mem_Free looks for. *)
LEMMA PrevFree ==
  ASSUME NEW h, NEW k, NEW c, Chain(h, k, c), k <= MaxCalls + 1, NEW n \in 1 .. k
  PROVE  \/ prevFree(h, c[n]) = NULL /\ \A j \in 1 .. n - 1 : h.status[c[j]] # "FREE"
         \/ \E b \in 1 .. n - 1 :
              /\ prevFree(h, c[n]) = c[b] /\ h.status[c[b]] = "FREE"
              /\ \A j \in b + 1 .. n - 1 : h.status[c[j]] # "FREE"
<1> DEFINE back == Walk(h.prev, c[n])
           free == {i \in 2 .. Len(back) : h.status[back[i]] = "FREE"}
<1>1. k \in Nat /\ n \in Nat /\ n >= 1 /\ n <= k
  BY ChainFacts
<1>2. Len(back) = n /\ \A i \in 1 .. n : back[i] = c[n + 1 - i]
  <2>1. back = [i \in 1 .. n |-> c[n + 1 - i]]
    BY BackOfChain
  <2> HIDE DEF back
  <2> QED
    BY <1>1, <2>1
<1>5. prevFree(h, c[n]) = IF free = {} THEN NULL ELSE back[CHOOSE i \in free : \A j \in free : i <= j]
  BY DEF prevFree
<1> HIDE DEF back
<1>3. \A i \in Nat : i \in free <=> i \in 2 .. n /\ h.status[c[n + 1 - i]] = "FREE"
  BY <1>1, <1>2
<1>4. free \subseteq Nat
  BY <1>1, <1>2
<1> HIDE DEF free
<1>6. CASE free = {}
  <2>1. ASSUME NEW j \in 1 .. n - 1 PROVE h.status[c[j]] # "FREE"
    <3>1. n + 1 - j \in 2 .. n /\ n + 1 - j \in Nat /\ n + 1 - (n + 1 - j) = j
      BY <1>1
    <3> QED
      BY <1>3, <1>6, <3>1
  <2> QED
    BY <1>5, <1>6, <2>1
<1>7. CASE free # {}
  <2>1. PICK m \in free : \A j \in free : ~(j < m)
    BY <1>4, <1>7, LeastOf
  <2>2. \A j \in free : m <= j
    BY <1>4, <2>1
  <2>3. PICK i \in free : /\ i = CHOOSE x \in free : \A j \in free : x <= j
                          /\ \A j \in free : i <= j
    BY <2>2
  <2>4. i \in 2 .. n /\ i \in Nat /\ i \in 1 .. n /\ h.status[c[n + 1 - i]] = "FREE"
    BY <1>1, <1>3, <1>4
  <2> DEFINE b == n + 1 - i
  <2>5. b \in 1 .. n - 1 /\ prevFree(h, c[n]) = c[b]
    BY <1>1, <1>2, <1>5, <1>7, <2>3, <2>4
  <2>6. ASSUME NEW j \in b + 1 .. n - 1 PROVE h.status[c[j]] # "FREE"
    <3>1. n + 1 - j \in 2 .. n /\ n + 1 - j \in Nat /\ n + 1 - (n + 1 - j) = j /\ ~(i <= n + 1 - j)
      BY <1>1, <2>4
    <3> QED
      BY <1>3, <2>3, <3>1
  <2> QED
    BY <2>4, <2>5, <2>6
<1> QED
  BY <1>6, <1>7

(* f lists the n free blocks behind the i-th header, the first of which is q. *)
Listing(h, k, c, i, q, n, f) ==
  /\ Trail(h.next_free, q, n, f)
  /\ \A x \in 1 .. n : \E l \in i + 1 .. k : f[x] = c[l] /\ h.status[c[l]] = "FREE"
  /\ \A l \in i + 1 .. k : h.status[c[l]] = "FREE" => \E x \in 1 .. n : f[x] = c[l]
  /\ \A x, y \in 1 .. n : x < y => f[x] < f[y]

(* One more free block in front. *)
LEMMA ListingCons ==
  ASSUME NEW h, NEW k, NEW c, Chain(h, k, c), NEW i \in 1 .. k, h.status[c[i]] = "FREE",
         NEW n \in 0 .. k, NEW f, Listing(h, k, c, i, h.next_free[c[i]], n, f)
  PROVE  \E g : Listing(h, k, c, i - 1, c[i], n + 1, g)
<1> DEFINE g == [x \in 1 .. n + 2 |-> IF x = 1 THEN c[i] ELSE f[x - 1]]
<1>1. k \in Nat /\ i \in Nat /\ n \in Nat /\ (i - 1) + 1 = i /\ i >= 1 /\ i <= k
  BY ChainFacts
<1>2. g[1] = c[i] /\ \A x \in 1 .. n + 1 : g[x + 1] = f[x]
  BY <1>1
<1> HIDE DEF g
<1>3. c[i] # NULL /\ \A l \in 1 .. k : c[l] \in Nat
  BY ChainFacts
<1>4. ASSUME NEW x \in 1 .. n + 1, x # 1 PROVE x - 1 \in 1 .. n /\ g[x] = f[x - 1] /\ (x - 1) + 1 = x
  <2>1. x - 1 \in 1 .. n /\ x - 1 \in 1 .. n + 1 /\ (x - 1) + 1 = x
    BY <1>1, <1>4
  <2> QED
    BY <1>2, <2>1
<1>5. Trail(h.next_free, c[i], n + 1, g)
  <2>1. n + 1 \in Nat /\ n + 1 \in 1 .. n + 1 /\ g[(n + 1) + 1] = NULL /\ 1 \in 1 .. n + 1
        /\ f[1] = h.next_free[c[i]]
    BY <1>1, <1>2 DEF Listing, Trail
  <2>2. ASSUME NEW x \in 1 .. n + 1 PROVE g[x] # NULL /\ h.next_free[g[x]] = g[x + 1]
    <3>1. CASE x = 1
      BY <1>2, <1>3, <2>1, <3>1
    <3>2. CASE x # 1
      <4>1. x - 1 \in 1 .. n /\ g[x] = f[x - 1] /\ (x - 1) + 1 = x /\ g[x + 1] = f[x]
        BY <1>2, <1>4, <3>2
      <4> QED
        BY <4>1 DEF Listing, Trail
    <3> QED
      BY <3>1, <3>2
  <2> QED
    BY <1>2, <2>1, <2>2 DEF Trail
<1>6. ASSUME NEW x \in 1 .. n + 1
      PROVE  \E l \in (i - 1) + 1 .. k : g[x] = c[l] /\ h.status[c[l]] = "FREE"
  <2>1. CASE x = 1
    <3>1. i \in (i - 1) + 1 .. k
      BY <1>1
    <3> QED
      BY <1>2, <2>1, <3>1
  <2>2. CASE x # 1
    <3>1. x - 1 \in 1 .. n /\ g[x] = f[x - 1]
      BY <1>4, <2>2
    <3>2. PICK l \in i + 1 .. k : f[x - 1] = c[l] /\ h.status[c[l]] = "FREE"
      BY <3>1 DEF Listing
    <3>3. l \in (i - 1) + 1 .. k
      BY <1>1
    <3> QED
      BY <3>1, <3>2, <3>3
  <2> QED
    BY <2>1, <2>2
<1>7. ASSUME NEW l \in (i - 1) + 1 .. k, h.status[c[l]] = "FREE"
      PROVE  \E x \in 1 .. n + 1 : g[x] = c[l]
  <2>1. CASE l = i
    BY <1>1, <1>2, <2>1
  <2>2. CASE l # i
    <3>1. l \in i + 1 .. k
      BY <1>1, <2>2
    <3>2. PICK x \in 1 .. n : f[x] = c[l]
      BY <1>7, <3>1 DEF Listing
    <3>3. x \in 1 .. n + 1 /\ x + 1 \in 1 .. n + 1
      BY <1>1
    <3> QED
      BY <1>2, <3>2, <3>3
  <2> QED
    BY <2>1, <2>2
<1>8. ASSUME NEW x \in 1 .. n + 1, NEW y \in 1 .. n + 1, x < y PROVE g[x] < g[y]
  <2>1. y # 1 /\ y - 1 \in 1 .. n /\ g[y] = f[y - 1]
    BY <1>1, <1>4, <1>8
  <2>2. CASE x = 1
    <3>1. PICK l \in i + 1 .. k : f[y - 1] = c[l]
      BY <2>1 DEF Listing
    <3>2. i < l /\ l \in 1 .. k
      BY <1>1
    <3>3. c[i] + BLOCK_HEADER + BLOCK_SIZE <= c[l]
      BY <3>2 DEF Chain
    <3>4. c[i] < c[l]
      BY <1>3, <3>2, <3>3 DEF BLOCK_HEADER, BLOCK_SIZE
    <3> QED
      BY <1>2, <2>1, <2>2, <3>1, <3>4
  <2>3. CASE x # 1
    <3>1. x - 1 \in 1 .. n /\ g[x] = f[x - 1] /\ x - 1 < y - 1
      BY <1>1, <1>4, <1>8, <2>3
    <3> QED
      BY <2>1, <3>1 DEF Listing
  <2> QED
    BY <2>2, <2>3
<1> QED
  BY <1>5, <1>6, <1>7, <1>8 DEF Listing

(* From every free header on, the free list is the listing of the free headers behind it. *)
LEMMA ListingExists ==
  ASSUME NEW h, NEW k, NEW c, Chain(h, k, c), FreeLinked(h, k, c)
  PROVE  \E n \in 0 .. k : \E f : Listing(h, k, c, 0, h.head_free, n, f)
<1> DEFINE Lists(d) == \A q : Follows(h, k, c, k - d, q) =>
                         \E n \in 0 .. d : \E f : Listing(h, k, c, k - d, q, n, f)
           T == {d \in 0 .. k : ~ Lists(d)}
<1>1. k \in Nat
  BY ChainFacts
<1>2. T = {}
  <2>1. SUFFICES ASSUME T # {} PROVE FALSE
    OBVIOUS
  <2>2. PICK d \in T : \A e \in T : ~(e < d)
    <3>1. T \subseteq Nat
      BY <1>1
    <3> HIDE DEF T
    <3> QED
      BY <2>1, <3>1, LeastOf
  <2>3. d \in 0 .. k /\ d \in Nat /\ d <= k
    BY <1>1
  <2>4. PICK q : Follows(h, k, c, k - d, q) /\ ~ \E n \in 0 .. d : \E f : Listing(h, k, c, k - d, q, n, f)
    OBVIOUS
  <2>5. CASE d = 0
    <3>1. k - d = k /\ \A l \in k + 1 .. k : FALSE
      BY <1>1, <2>5
    <3>2. q = NULL
      BY <2>4, <3>1 DEF Follows
    <3>3. PICK f : f = [x \in 1 .. 1 |-> NULL]
      OBVIOUS
    <3>4. f[1] = NULL /\ \A x \in 1 .. 0 : FALSE
      BY <3>3
    <3>5. Listing(h, k, c, k - d, q, 0, f)
      BY <3>1, <3>2, <3>4 DEF Listing, Trail
    <3> QED
      BY <2>4, <2>5, <3>5
  <2>6. CASE d # 0
    <3> DEFINE i == k - d + 1
    <3>1. d - 1 \in 0 .. k /\ d - 1 < d /\ i \in 1 .. k /\ k - (d - 1) = i /\ i - 1 = k - d /\ d - 1 \in Nat
      BY <1>1, <2>3, <2>6
    <3>2. Lists(d - 1)
      BY <2>2, <3>1
    <3>3. \A p : Follows(h, k, c, i, p) => \E n \in 0 .. d - 1 : \E f : Listing(h, k, c, i, p, n, f)
      BY <3>1, <3>2
    <3> HIDE DEF i
    <3>4. CASE h.status[c[i]] = "FREE"
      <4>1. Follows(h, k, c, i, h.next_free[c[i]])
        BY <3>1, <3>4 DEF FreeLinked
      <4>2a. PICK n \in 0 .. d - 1 : \E f : Listing(h, k, c, i, h.next_free[c[i]], n, f)
        BY <3>3, <4>1
      <4>2. PICK f : Listing(h, k, c, i, h.next_free[c[i]], n, f)
        BY <4>2a
      <4>3. q = c[i]
        <5>1. i \in (k - d) + 1 .. k /\ (k - d) + 1 = i
          BY <1>1, <2>3, <3>1
        <5>2. ASSUME NEW j \in (k - d) + 1 .. k, j # i PROVE i \in (k - d) + 1 .. j - 1
          BY <1>1, <2>3, <3>1, <5>1, <5>2
        <5> QED
          BY <2>4, <3>4, <5>1, <5>2 DEF Follows
      <4>4. n \in 0 .. k /\ n + 1 \in 0 .. d
        BY <1>1, <2>3, <3>1
      <4>5. \E g : Listing(h, k, c, i - 1, c[i], n + 1, g)
        BY <3>1, <3>4, <4>2, <4>4, ListingCons
      <4> QED
        BY <2>4, <3>1, <4>3, <4>4, <4>5
    <3>5. CASE h.status[c[i]] # "FREE"
      <4>1. i \in Nat /\ i <= k /\ (k - d) + 1 = i
        BY <1>1, <2>3, <3>1
      <4>2. ASSUME NEW j \in i .. k, j # i PROVE j \in i + 1 .. k
        BY <1>1, <4>1, <4>2
      <4>3. Follows(h, k, c, i, q)
        <5>1. CASE q = NULL /\ \A j \in i .. k : h.status[c[j]] # "FREE"
          <6>1. \A j \in i + 1 .. k : j \in i .. k
            BY <1>1, <4>1
          <6> QED
            BY <5>1, <6>1 DEF Follows
        <5>2. ASSUME NEW j \in i .. k, q = c[j], h.status[c[j]] = "FREE",
                     \A l \in i .. j - 1 : h.status[c[l]] # "FREE"
              PROVE  Follows(h, k, c, i, q)
          <6>1. j \in i + 1 .. k
            BY <3>5, <4>2, <5>2
          <6>2. \A l \in i + 1 .. j - 1 : l \in i .. j - 1
            BY <1>1, <4>1
          <6> QED
            BY <5>2, <6>1, <6>2 DEF Follows
        <5> QED
          BY <2>4, <4>1, <5>1, <5>2 DEF Follows
      <4>4a. PICK n \in 0 .. d - 1 : \E f : Listing(h, k, c, i, q, n, f)
        BY <3>3, <4>3
      <4>4. PICK f : Listing(h, k, c, i, q, n, f)
        BY <4>4a
      <4>5. n \in 0 .. d
        BY <2>3, <3>1
      <4>6. Listing(h, k, c, k - d, q, n, f)
        <5>1. \A x \in 1 .. n : \E l \in i .. k : f[x] = c[l] /\ h.status[c[l]] = "FREE"
          <6>1. \A l \in i + 1 .. k : l \in i .. k
            BY <1>1, <4>1
          <6> QED
            BY <4>4, <6>1 DEF Listing
        <5>2. \A l \in i .. k : h.status[c[l]] = "FREE" => \E x \in 1 .. n : f[x] = c[l]
          BY <3>5, <4>2, <4>4 DEF Listing
        <5> QED
          BY <4>1, <4>4, <5>1, <5>2 DEF Listing
      <4> QED
        BY <2>4, <4>5, <4>6
    <3> QED
      BY <3>4, <3>5
  <2> QED
    BY <2>5, <2>6
<1>3. Lists(k)
  BY <1>1, <1>2
<1>4. k - k = 0
  BY <1>1
<1>5. \A q : Follows(h, k, c, 0, q) => \E n \in 0 .. k : \E f : Listing(h, k, c, 0, q, n, f)
  BY <1>3, <1>4
<1> QED
  BY <1>5 DEF FreeLinked

(* Linked free headers are the free list. *)
LEMMA FreeListOfChain ==
  ASSUME NEW h, NEW k, NEW c, Chain(h, k, c), FreeLinked(h, k, c), k <= MaxCalls + 1
  PROVE  /\ Ends(h.next_free, h.head_free)
         /\ ToSet(FreeList(h)) = {p \in Headers(k, c) : h.status[p] = "FREE"}
         /\ \A i, j \in DOMAIN FreeList(h) : i < j => FreeList(h)[i] < FreeList(h)[j]
<1>1a. PICK n \in 0 .. k : \E f : Listing(h, k, c, 0, h.head_free, n, f)
  BY ListingExists
<1>1. PICK f : Listing(h, k, c, 0, h.head_free, n, f)
  BY <1>1a
<1>2. k \in Nat /\ n \in Nat /\ n <= k /\ MaxCalls \in Nat
  BY ChainFacts, Constants
<1>3. Ends(h.next_free, h.head_free) /\ FreeList(h) = [i \in 1 .. n |-> f[i]]
  <2>1. Trail(h.next_free, h.head_free, n, f) /\ n <= MaxCalls + 1
    BY <1>1, <1>2 DEF Listing
  <2> QED
    BY <2>1, WalkOfTrail DEF FreeList
<1>4. DOMAIN FreeList(h) = 1 .. n /\ \A i \in 1 .. n : FreeList(h)[i] = f[i]
  BY <1>3
<1>5. ToSet(FreeList(h)) = {f[i] : i \in 1 .. n}
  BY <1>4 DEF ToSet
<1>6. \A x \in 1 .. n : \E l \in 1 .. k : f[x] = c[l] /\ h.status[c[l]] = "FREE"
  BY <1>1 DEF Listing
<1>7. \A l \in 1 .. k : h.status[c[l]] = "FREE" => \E x \in 1 .. n : f[x] = c[l]
  BY <1>1 DEF Listing
<1>8. {f[i] : i \in 1 .. n} = {p \in Headers(k, c) : h.status[p] = "FREE"}
  BY <1>6, <1>7 DEF Headers
<1>9. \A i, j \in 1 .. n : i < j => f[i] < f[j]
  BY <1>1 DEF Listing
<1> QED
  BY <1>3, <1>4, <1>5, <1>8, <1>9

-----------------------------------------------------------------------------
(* What the operations do to the fields of a heap. *)

SplitNext(h, p, m) == [h.next EXCEPT ![m] = h.next[p], ![p] = m]
SplitPrev(h, p, m) ==
  IF h.next[p] = NULL THEN [h.prev EXCEPT ![m] = p]
  ELSE [h.prev EXCEPT ![m] = p, ![h.next[p]] = m]
SplitStatus(h, m) == [h.status EXCEPT ![m] = "FREE"]
SplitNextFree(h, p, before, m) ==
  IF before = NULL THEN [h.next_free EXCEPT ![m] = h.next_free[p]]
  ELSE [h.next_free EXCEPT ![m] = h.next_free[p], ![before] = m]

(* Every field after Split. *)
LEMMA SplitDoes ==
  ASSUME NEW h \in Heaps, NEW p \in Addr, NEW before \in Ptr, NEW size \in Nat, NEW m \in Addr,
         m = p + BLOCK_HEADER + size, m # p, NEW g, g = Split(h, p, before, size)
  PROVE  /\ g \in Heaps
         /\ g.next = SplitNext(h, p, m) /\ g.prev = SplitPrev(h, p, m)
         /\ g.status = SplitStatus(h, m)
         /\ g.next_free = SplitNextFree(h, p, before, m)
         /\ g.head_free = (IF before = NULL THEN m ELSE h.head_free)
         /\ \/ g.largest = m /\ g.second_largest = h.second_largest
            \/ g.largest = h.second_largest /\ g.second_largest = NULL
         /\ g.last_block_size = (IF h.next[p] = NULL THEN h.last_block_size - size
                                 ELSE h.last_block_size)
         /\ g.region_end = h.region_end
         /\ g.size_of_last_allocate = h.size_of_last_allocate
<1> DEFINE made == [h EXCEPT !.next[m] = h.next[p], !.prev[m] = p, !.next[p] = m,
                             !.status[m] = "FREE", !.next_free[m] = h.next_free[p]]
           linked == setPrev(made, h.next[p], m)
           listed == Relink(linked, before, m)
           ranked == IF get_block_size(listed, m) > get_block_size(listed, listed.second_largest)
                     THEN [listed EXCEPT !.largest = m]
                     ELSE [listed EXCEPT !.largest = listed.second_largest,
                                         !.second_largest = NULL]
<1>1. g = GrowLast(ranked, m, -size)
  BY DEF Split
<1>a. PICK nx, pv, ss, nf : /\ nx = [h.next EXCEPT ![m] = h.next[p], ![p] = m]
                            /\ pv = [h.prev EXCEPT ![m] = p]
                            /\ ss = [h.status EXCEPT ![m] = "FREE"]
                            /\ nf = [h.next_free EXCEPT ![m] = h.next_free[p]]
  OBVIOUS
<1>b. /\ h.next \in [Addr -> Ptr] /\ h.prev \in [Addr -> Ptr] /\ h.next_free \in [Addr -> Ptr]
      /\ h.status \in [Addr -> {"FREE", "ALLOCATED"}]
  BY DEF Heaps
<1>c. /\ nx \in [Addr -> Ptr] /\ pv \in [Addr -> Ptr] /\ nf \in [Addr -> Ptr]
      /\ ss \in [Addr -> {"FREE", "ALLOCATED"}]
  BY <1>a, <1>b DEF Ptr
<1>d. made = [h EXCEPT !.next = nx, !.prev = pv, !.status = ss, !.next_free = nf]
  BY <1>a DEF Heaps
<1> HIDE DEF made
<1>2. /\ made \in Heaps
      /\ made.next = [h.next EXCEPT ![m] = h.next[p], ![p] = m]
      /\ made.prev = [h.prev EXCEPT ![m] = p]
      /\ made.status = [h.status EXCEPT ![m] = "FREE"]
      /\ made.next_free = [h.next_free EXCEPT ![m] = h.next_free[p]]
      /\ made.head_free = h.head_free /\ made.largest = h.largest
      /\ made.second_largest = h.second_largest /\ made.region_end = h.region_end
      /\ made.last_block_size = h.last_block_size
      /\ made.size_of_last_allocate = h.size_of_last_allocate
  <2>1. /\ made \in Heaps
        /\ made.next = nx /\ made.prev = pv /\ made.status = ss /\ made.next_free = nf
        /\ made.head_free = h.head_free /\ made.largest = h.largest
        /\ made.second_largest = h.second_largest /\ made.region_end = h.region_end
        /\ made.last_block_size = h.last_block_size
        /\ made.size_of_last_allocate = h.size_of_last_allocate
    BY <1>c, <1>d DEF Heaps
  <2> QED
    BY <1>a, <2>1
<1>3. h.next[p] \in Ptr /\ h.next_free[p] \in Ptr
  BY DEF Heaps
<1>4. /\ linked \in Heaps
      /\ linked.next = made.next /\ linked.status = made.status
      /\ linked.prev = (IF h.next[p] = NULL THEN made.prev ELSE [made.prev EXCEPT ![h.next[p]] = m])
      /\ linked.next_free = made.next_free
      /\ linked.head_free = h.head_free /\ linked.largest = h.largest
      /\ linked.second_largest = h.second_largest /\ linked.region_end = h.region_end
      /\ linked.last_block_size = h.last_block_size
      /\ linked.size_of_last_allocate = h.size_of_last_allocate
  <2>1. CASE h.next[p] = NULL
    BY <1>2, <2>1 DEF setPrev
  <2>2. CASE h.next[p] # NULL
    <3>1. PICK q \in Addr : q = h.next[p]
      BY <1>3, <2>2 DEF Ptr
    <3>2. linked = [made EXCEPT !.prev[q] = m]
      BY <2>2, <3>1 DEF setPrev
    <3> QED
      BY <1>2, <2>2, <3>1, <3>2 DEF Heaps, Ptr
  <2> QED
    BY <2>1, <2>2
<1> HIDE DEF linked
<1>5. /\ listed \in Heaps
      /\ listed.next = made.next /\ listed.status = made.status /\ listed.prev = linked.prev
      /\ listed.next_free = (IF before = NULL THEN made.next_free
                             ELSE [made.next_free EXCEPT ![before] = m])
      /\ listed.head_free = (IF before = NULL THEN m ELSE h.head_free)
      /\ listed.largest = h.largest
      /\ listed.second_largest = h.second_largest /\ listed.region_end = h.region_end
      /\ listed.last_block_size = h.last_block_size
      /\ listed.size_of_last_allocate = h.size_of_last_allocate
  <2>1. CASE before = NULL
    <3>1. listed = [linked EXCEPT !.head_free = m]
      BY <2>1 DEF Relink
    <3> QED
      BY <1>4, <2>1, <3>1 DEF Heaps, Ptr
  <2>2. CASE before # NULL
    <3>1. listed = [linked EXCEPT !.next_free[before] = m] /\ before \in Addr
      BY <2>2 DEF Relink, Ptr
    <3> QED
      BY <1>4, <2>2, <3>1 DEF Heaps, Ptr
  <2> QED
    BY <2>1, <2>2
<1> HIDE DEF listed
<1>6. /\ ranked \in Heaps
      /\ ranked.next = made.next /\ ranked.status = made.status /\ ranked.prev = linked.prev
      /\ ranked.next_free = listed.next_free /\ ranked.head_free = listed.head_free
      /\ \/ ranked.largest = m /\ ranked.second_largest = h.second_largest
         \/ ranked.largest = h.second_largest /\ ranked.second_largest = NULL
      /\ ranked.region_end = h.region_end
      /\ ranked.last_block_size = h.last_block_size
      /\ ranked.size_of_last_allocate = h.size_of_last_allocate
  <2>1. CASE ranked = [listed EXCEPT !.largest = m]
    BY <1>5, <2>1 DEF Heaps, Ptr
  <2>2. CASE ranked = [listed EXCEPT !.largest = listed.second_largest, !.second_largest = NULL]
    BY <1>5, <2>2 DEF Heaps, Ptr
  <2> QED
    BY <2>1, <2>2
<1> HIDE DEF ranked
<1>7. ranked.next[m] = h.next[p]
  BY <1>2, <1>6 DEF Heaps
<1>8. /\ g \in Heaps
      /\ g.next = made.next /\ g.status = made.status /\ g.prev = linked.prev
      /\ g.next_free = listed.next_free /\ g.head_free = listed.head_free
      /\ g.largest = ranked.largest /\ g.second_largest = ranked.second_largest
      /\ g.region_end = h.region_end
      /\ g.last_block_size = (IF h.next[p] = NULL THEN h.last_block_size - size ELSE h.last_block_size)
      /\ g.size_of_last_allocate = h.size_of_last_allocate
  <2>1. CASE h.next[p] = NULL
    <3>1. g = [ranked EXCEPT !.last_block_size = @ + (-size)]
      BY <1>1, <1>7, <2>1 DEF GrowLast
    <3> QED
      BY <1>6, <2>1, <3>1 DEF Heaps
  <2>2. CASE h.next[p] # NULL
    <3>1. g = ranked
      BY <1>1, <1>7, <2>2 DEF GrowLast
    <3> QED
      BY <1>6, <2>2, <3>1
  <2> QED
    BY <2>1, <2>2
<1>9. g.prev = SplitPrev(h, p, m)
  BY <1>2, <1>4, <1>8 DEF SplitPrev
<1>10. g.next_free = SplitNextFree(h, p, before, m)
  BY <1>2, <1>5, <1>8 DEF SplitNextFree
<1>11. g.next = SplitNext(h, p, m) /\ g.status = SplitStatus(h, m)
  BY <1>2, <1>8 DEF SplitNext, SplitStatus
<1> QED
  BY <1>5, <1>6, <1>8, <1>9, <1>10, <1>11

(* Every field after TakeWhole. *)
LEMMA TakeWholeDoes ==
  ASSUME NEW h \in Heaps, NEW p \in Addr, NEW before \in Ptr, NEW size \in Nat,
         NEW g, g = TakeWhole(h, p, before, size)
  PROVE  /\ g \in Heaps
         /\ g.next = h.next /\ g.prev = h.prev /\ g.status = h.status /\ g.next_free = h.next_free
         /\ g.head_free = (IF before = NULL THEN h.next_free[p] ELSE h.head_free)
         /\ g.largest = h.second_largest /\ g.second_largest = NULL
         /\ g.last_block_size = h.last_block_size /\ g.region_end = h.region_end
         /\ g.size_of_last_allocate = (IF h.next[p] = NULL THEN size ELSE h.size_of_last_allocate)
<1>1. PICK e : e = (IF before = NULL THEN h.next_free[p] ELSE h.head_free)
  OBVIOUS
<1>2. PICK n : n = (IF h.next[p] = NULL THEN size ELSE h.size_of_last_allocate)
  OBVIOUS
<1>0. PICK l : l = h.second_largest
  OBVIOUS
<1>3. e \in Ptr /\ n \in Int /\ l \in Ptr /\ NULL \in Ptr
  BY <1>0, <1>1, <1>2 DEF Heaps, Ptr
<1>4. g = [h EXCEPT !.head_free = e, !.size_of_last_allocate = n,
                    !.largest = l, !.second_largest = NULL]
  BY <1>0, <1>1, <1>2 DEF TakeWhole
<1>5. /\ g \in Heaps
      /\ g.next = h.next /\ g.prev = h.prev /\ g.status = h.status /\ g.next_free = h.next_free
      /\ g.head_free = e /\ g.largest = l /\ g.second_largest = NULL
      /\ g.last_block_size = h.last_block_size /\ g.region_end = h.region_end
      /\ g.size_of_last_allocate = n
  BY <1>3, <1>4 DEF Heaps
<1> QED
  BY <1>0, <1>1, <1>2, <1>5

(* What Allocate does after it has placed the block. *)
Taken(h, p, asked) ==
  [h EXCEPT !.next_free[p] = NULL, !.status[p] = "ALLOCATED", !.remaining_size = @ - asked]

TakenStatus(h, p) == [h.status EXCEPT ![p] = "ALLOCATED"]
TakenNextFree(h, p) == [h.next_free EXCEPT ![p] = NULL]

(* Every field after the assignments at the end of Mem_Alloc. *)
LEMMA TakenDoes ==
  ASSUME NEW h \in Heaps, NEW p \in Addr, NEW asked \in Nat, NEW g, g = Taken(h, p, asked)
  PROVE  /\ g \in Heaps
         /\ g.next = h.next /\ g.prev = h.prev
         /\ g.status = TakenStatus(h, p) /\ g.next_free = TakenNextFree(h, p)
         /\ g.head_free = h.head_free /\ g.largest = h.largest
         /\ g.second_largest = h.second_largest
         /\ g.last_block_size = h.last_block_size /\ g.region_end = h.region_end
         /\ g.size_of_last_allocate = h.size_of_last_allocate
<1>1. /\ h.next_free \in [Addr -> Ptr] /\ h.status \in [Addr -> {"FREE", "ALLOCATED"}]
      /\ h.remaining_size \in Int
  BY DEF Heaps
<1>2. PICK f, s, n : /\ f = [h.next_free EXCEPT ![p] = NULL]
                     /\ s = [h.status EXCEPT ![p] = "ALLOCATED"]
                     /\ n = h.remaining_size - asked
  OBVIOUS
<1>3. f \in [Addr -> Ptr] /\ s \in [Addr -> {"FREE", "ALLOCATED"}] /\ n \in Int
  BY <1>1, <1>2 DEF Ptr
<1>4. g = [h EXCEPT !.next_free = f, !.status = s, !.remaining_size = n]
  BY <1>2 DEF Taken
<1> QED
  BY <1>2, <1>3, <1>4 DEF Heaps, TakenStatus, TakenNextFree

(* r is h but for the two blocks the search ranks. *)
SameButRanks(h, r) ==
  /\ r \in Heaps
  /\ r.next = h.next /\ r.prev = h.prev /\ r.status = h.status /\ r.next_free = h.next_free
  /\ r.head_free = h.head_free
  /\ r.last_block_size = h.last_block_size /\ r.region_end = h.region_end
  /\ r.size_of_last_allocate = h.size_of_last_allocate

(* Ranking a block changes largest and second_largest only. *)
LEMMA RankDoes ==
  ASSUME NEW h \in Heaps, NEW p \in Ptr
  PROVE  /\ SameButRanks(h, Rank(h, p))
         /\ Rank(h, p).largest \in {h.largest, p}
         /\ Rank(h, p).second_largest \in {h.largest, h.second_largest, p}
<1>1. CASE Rank(h, p) = [h EXCEPT !.second_largest = h.largest, !.largest = p]
  BY <1>1 DEF Heaps, SameButRanks
<1>2. CASE Rank(h, p) = [h EXCEPT !.second_largest = p]
  BY <1>2 DEF Heaps, SameButRanks
<1>3. CASE Rank(h, p) = h
  BY <1>3 DEF Heaps, SameButRanks
<1> QED
  BY <1>1, <1>2, <1>3 DEF Rank

(* r are the heaps of the search's first n turns. *)
IsRanking(r, start, list, n) ==
  r = [i \in 0 .. n |-> IF i = 0 THEN start ELSE Rank(r[i - 1], list[i])]

(* A ranking goes from block to block. *)
LEMMA RankingStep ==
  ASSUME NEW start, NEW list, NEW n \in Nat, NEW r, IsRanking(r, start, list, n)
  PROVE  r[0] = start /\ \A i \in 1 .. n : r[i] = Rank(r[i - 1], list[i])
<1>1. \A i \in 0 .. n : r[i] = IF i = 0 THEN start ELSE Rank(r[i - 1], list[i])
  BY DEF IsRanking
<1> QED
  BY <1>1

(* There is a ranking of every length. *)
LEMMA RankingExists ==
  ASSUME NEW start, NEW list, NEW k \in Nat
  PROVE  \E r : IsRanking(r, start, list, k)
<1> DEFINE T == {n \in Nat : ~ \E r : IsRanking(r, start, list, n)}
<1>1. SUFFICES ASSUME T # {} PROVE FALSE
  OBVIOUS
<1>2. PICK n \in T : \A m \in T : ~(m < n)
  <2>1. T \subseteq Nat
    OBVIOUS
  <2> HIDE DEF T
  <2> QED
    BY <1>1, <2>1, LeastOf
<1>3. CASE n = 0
  <2> DEFINE r == [i \in 0 .. n |-> start]
  <2>1. r = [i \in 0 .. n |-> IF i = 0 THEN start ELSE Rank(r[i - 1], list[i])]
    BY <1>3
  <2> HIDE DEF r
  <2>2. IsRanking(r, start, list, n)
    BY <2>1 DEF IsRanking
  <2> QED
    BY <1>2, <2>2
<1>4. CASE n # 0
  <2>1. n - 1 \in Nat /\ n - 1 < n
    BY <1>4
  <2>2. PICK b : IsRanking(b, start, list, n - 1)
    BY <1>2, <2>1
  <2> DEFINE r == [i \in 0 .. n |-> IF i <= n - 1 THEN b[i] ELSE Rank(b[n - 1], list[n])]
  <2>3. b[0] = start /\ \A i \in 1 .. n - 1 : b[i] = Rank(b[i - 1], list[i])
    <3>1. PICK m \in Nat : m = n - 1
      BY <2>1
    <3>2. IsRanking(b, start, list, m)
      BY <2>2, <3>1
    <3>3. b[0] = start /\ \A i \in 1 .. m : b[i] = Rank(b[i - 1], list[i])
      BY <3>2, RankingStep
    <3> QED
      BY <3>1, <3>3
  <2>4. ASSUME NEW i \in 0 .. n
        PROVE  r[i] = IF i = 0 THEN start ELSE Rank(r[i - 1], list[i])
    <3>1. CASE i = 0
      BY <2>1, <2>3, <3>1
    <3>2. CASE i # 0 /\ i <= n - 1
      <4>1. i - 1 \in 0 .. n /\ i - 1 <= n - 1 /\ i \in 1 .. n - 1
        BY <2>1, <3>2
      <4> QED
        BY <2>3, <3>2, <4>1
    <3>3. CASE i = n
      <4>1. i - 1 \in 0 .. n /\ i - 1 <= n - 1 /\ ~(i <= n - 1)
        BY <2>1, <3>3
      <4> QED
        BY <1>4, <3>3, <4>1
    <3> QED
      BY <2>1, <3>1, <3>2, <3>3
  <2>5. r = [i \in 0 .. n |-> r[i]]
    OBVIOUS
  <2> HIDE DEF r
  <2>6. IsRanking(r, start, list, n)
    BY <2>4, <2>5 DEF IsRanking
  <2> QED
    BY <1>2, <2>6
<1> QED
  BY <1>3, <1>4

RankStart(h) ==
  IF h.largest # NULL /\ h.second_largest # NULL THEN h
  ELSE [h EXCEPT !.largest = h.head_free, !.second_largest = h.head_free]

(* Ranked is the end of a ranking of the free list. *)
LEMMA RankedByTurns ==
  ASSUME NEW h, Len(FreeList(h)) \in Nat
  PROVE  \E r : /\ r[0] = RankStart(h)
                /\ \A i \in 1 .. Len(FreeList(h)) : r[i] = Rank(r[i - 1], FreeList(h)[i])
                /\ Ranked(h) = r[Len(FreeList(h))]
<1> DEFINE r == CHOOSE x : IsRanking(x, RankStart(h), FreeList(h), Len(FreeList(h)))
<1>1. Ranked(h) = r[Len(FreeList(h))]
  BY DEF Ranked, RankStart, IsRanking
<1>2. IsRanking(r, RankStart(h), FreeList(h), Len(FreeList(h)))
  BY RankingExists
<1> HIDE DEF r
<1>3. PICK start, list, x : start = RankStart(h) /\ list = FreeList(h) /\ x = r
  OBVIOUS
<1>4. PICK n \in Nat : n = Len(FreeList(h))
  OBVIOUS
<1>5. IsRanking(x, start, list, n)
  BY <1>2, <1>3, <1>4 DEF IsRanking
<1>6. x[0] = start /\ \A i \in 1 .. n : x[i] = Rank(x[i - 1], list[i])
  <2>1. \A i \in 0 .. n : x[i] = IF i = 0 THEN start ELSE Rank(x[i - 1], list[i])
    BY <1>5 DEF IsRanking
  <2> QED
    BY <2>1
<1> QED
  BY <1>1, <1>3, <1>4, <1>6

-----------------------------------------------------------------------------
(* The search. *)

(* Links that stay among the headers lead to headers. *)
LEMMA AlongClosed ==
  ASSUME NEW link, NEW p, NEW S, p \in S \cup {NULL}, \A a \in S : link[a] \in S \cup {NULL}
  PROVE  \A i \in Nat : Along(link, p, i) \in S \cup {NULL}
<1>0. \A j \in Nat : Along(link, p, j + 1) = Step(link, Along(link, p, j))
  BY AlongStep
<1> DEFINE T == {n \in Nat : Along(link, p, n) \notin S \cup {NULL}}
<1>1. SUFFICES ASSUME T # {} PROVE FALSE
  OBVIOUS
<1>2. PICK n \in T : \A m \in T : ~(m < n)
  <2>1. T \subseteq Nat
    OBVIOUS
  <2> HIDE DEF T
  <2> QED
    BY <1>1, <2>1, LeastOf
<1>3. n \in Nat /\ n # 0
  BY <1>2, AlongStep
<1>4. PICK m \in Nat : m + 1 = n /\ m < n
  <2>1. n - 1 \in Nat /\ (n - 1) + 1 = n /\ n - 1 < n
    BY <1>3
  <2> QED
    BY <2>1
<1>5. Along(link, p, m) \in S \cup {NULL}
  BY <1>2, <1>4
<1>6. Along(link, p, n) = Step(link, Along(link, p, m))
  <2>1. Along(link, p, m + 1) = Step(link, Along(link, p, m))
    BY <1>4, <1>0
  <2> QED
    BY <1>4, <2>1
<1> QED
  BY <1>2, <1>5, <1>6 DEF Step

(* So the free list holds headers, where it ends. *)
LEMMA FreeListClosed ==
  ASSUME NEW h, NEW k, NEW c, Closed(h, k, c), Ends(h.next_free, h.head_free)
  PROVE  /\ Len(FreeList(h)) \in Nat /\ DOMAIN FreeList(h) = 1 .. Len(FreeList(h))
         /\ \A i \in 1 .. Len(FreeList(h)) : FreeList(h)[i] \in Headers(k, c)
<1>1. PICK link, p, S : link = h.next_free /\ p = h.head_free /\ S = Headers(k, c)
  OBVIOUS
<1>2. \A i \in Nat : Along(link, p, i) \in S \cup {NULL}
  <2>1. p \in S \cup {NULL} /\ \A a \in S : link[a] \in S \cup {NULL}
    BY <1>1 DEF Closed
  <2> QED
    BY <2>1, AlongClosed
<1>3. PICK n \in Length(link, p) : n = CHOOSE m \in Length(link, p) : TRUE
  BY <1>1 DEF Ends
<1>4. n \in Nat /\ \A j \in 0 .. n - 1 : Along(link, p, j) # NULL
  <2>1. n \in 0 .. MaxCalls + 1 /\ \A j \in 0 .. n - 1 : Along(link, p, j) # NULL
    BY DEF Length
  <2> QED
    BY <2>1, Constants
<1>5. FreeList(h) = [i \in 1 .. n |-> Along(link, p, i - 1)]
  BY <1>1, <1>3 DEF FreeList, Walk
<1>6. ASSUME NEW i \in 1 .. n PROVE FreeList(h)[i] \in S
  <2>1. i - 1 \in Nat /\ i - 1 \in 0 .. n - 1
    BY <1>4
  <2> QED
    BY <1>2, <1>4, <1>5, <2>1
<1>7. Len(FreeList(h)) = n /\ DOMAIN FreeList(h) = 1 .. n
  BY <1>4, <1>5
<1> QED
  BY <1>1, <1>4, <1>6, <1>7

(* And the search leaves headers in largest and second_largest, and changes nothing else. *)
LEMMA RankedDoes ==
  ASSUME NEW h \in Heaps, NEW k, NEW c, Chain(h, k, c), Closed(h, k, c),
         Ends(h.next_free, h.head_free)
  PROVE  /\ SameButRanks(h, Ranked(h))
         /\ {Ranked(h).largest, Ranked(h).second_largest} \subseteq Headers(k, c) \cup {NULL}
<1> DEFINE n == Len(FreeList(h))
           list == FreeList(h)
<1>1. n \in Nat /\ \A i \in 1 .. n : list[i] \in Headers(k, c)
  BY FreeListClosed
<1>2. PICK r : /\ r[0] = RankStart(h)
               /\ \A i \in 1 .. n : r[i] = Rank(r[i - 1], list[i])
               /\ Ranked(h) = r[n]
  BY <1>1, RankedByTurns
<1> HIDE DEF n, list
<1> DEFINE Good(g) == /\ SameButRanks(h, g)
                      /\ {g.largest, g.second_largest} \subseteq Headers(k, c) \cup {NULL}
           T == {i \in 0 .. n : ~ Good(r[i])}
<1>3. Headers(k, c) \subseteq Ptr
  BY ChainFacts DEF Ptr
<1>4. Good(RankStart(h))
  <2>1. CASE h.largest # NULL /\ h.second_largest # NULL
    BY <2>1 DEF RankStart, Closed, SameButRanks
  <2>2. CASE ~(h.largest # NULL /\ h.second_largest # NULL)
    BY <2>2 DEF RankStart, Closed, SameButRanks, Heaps
  <2> QED
    BY <2>1, <2>2
<1>5. ASSUME NEW g, Good(g), NEW p \in Headers(k, c) PROVE Good(Rank(g, p))
  <2>1. g \in Heaps /\ p \in Ptr
    BY <1>3, <1>5 DEF SameButRanks
  <2>2. /\ SameButRanks(g, Rank(g, p))
        /\ Rank(g, p).largest \in {g.largest, p}
        /\ Rank(g, p).second_largest \in {g.largest, g.second_largest, p}
    BY <2>1, RankDoes
  <2> QED
    BY <1>5, <2>2 DEF SameButRanks
<1> HIDE DEF Good
<1>6. T = {}
  <2>1. SUFFICES ASSUME T # {} PROVE FALSE
    OBVIOUS
  <2>2. PICK i \in T : \A j \in T : ~(j < i)
    <3>1. T \subseteq Nat
      BY <1>1
    <3> HIDE DEF T
    <3> QED
      BY <2>1, <3>1, LeastOf
  <2>3. i \in 1 .. n /\ i - 1 \in 0 .. n /\ i - 1 < i
    BY <1>1, <1>2, <1>4
  <2>4. Good(r[i - 1])
    BY <2>2, <2>3
  <2> QED
    BY <1>1, <1>2, <1>5, <2>3, <2>4
<1>7. Good(Ranked(h))
  BY <1>1, <1>2, <1>6
<1> QED
  BY <1>7 DEF Good

(* The nearest free block before a header is a header. *)
LEMMA PrevFreeIn ==
  ASSUME NEW h, NEW k, NEW c, Chain(h, k, c), k <= MaxCalls + 1, NEW p \in Headers(k, c)
  PROVE  prevFree(h, p) \in Headers(k, c) \cup {NULL}
<1>1. PICK n \in 1 .. k : p = c[n]
  BY DEF Headers
<1>2. k \in Nat
  BY ChainFacts
<1>3. \/ prevFree(h, c[n]) = NULL
      \/ \E b \in 1 .. n - 1 : prevFree(h, c[n]) = c[b]
  BY PrevFree
<1>4. \A b \in 1 .. n - 1 : b \in 1 .. k
  BY <1>2
<1> QED
  BY <1>1, <1>3, <1>4 DEF Headers

(* The block that Mem_Alloc chooses is a header. *)
LEMMA CandidatesIn ==
  ASSUME NEW h, NEW k, NEW c, Chain(h, k, c), Closed(h, k, c), k <= MaxCalls + 1, NEW size,
         TakesLargest(h) \/ Ends(h.next_free, h.head_free), NEW x \in Candidates(h, size)
  PROVE  /\ x = [at |-> x.at, before |-> x.before]
         /\ x.at \in Headers(k, c) /\ x.before \in Headers(k, c) \cup {NULL}
<1>1. CASE TakesLargest(h)
  <2>1. x = [at |-> h.largest, before |-> prevFree(h, h.largest)]
    BY <1>1 DEF Candidates
  <2>2. h.largest \in Headers(k, c)
    BY <1>1 DEF TakesLargest, Closed
  <2> QED
    BY <2>1, <2>2, PrevFreeIn
<1>2. CASE ~TakesLargest(h)
  <2>1. PICK i \in Worst(h, size) :
          x = [at |-> FreeList(h)[i], before |-> IF i = 1 THEN NULL ELSE FreeList(h)[i - 1]]
    BY <1>2 DEF Candidates
  <2>2. /\ Len(FreeList(h)) \in Nat /\ i \in 1 .. Len(FreeList(h))
        /\ \A j \in 1 .. Len(FreeList(h)) : FreeList(h)[j] \in Headers(k, c)
    BY <1>2, FreeListClosed DEF Worst
  <2>3. i # 1 => i - 1 \in 1 .. Len(FreeList(h))
    BY <2>2
  <2> QED
    BY <2>1, <2>2, <2>3
<1> QED
  BY <1>1, <1>2

-----------------------------------------------------------------------------
(* The invariant, put together: what holds until the client asks for coalescing;
   until it allocates what it has freed; and until it frees. *)

Sound(h, k, c, l) ==
  /\ h \in Heaps /\ Chain(h, k, c) /\ Closed(h, k, c)
  /\ l \in [Addr -> Nat]
  /\ \A p \in Addr : l[p] # 0 => p \in Headers(k, c)

Exact(h, k, c, l) == FreeLinked(h, k, c) /\ RankedFree(h) /\ Held(h, k, c, l)

(* A chain is a matter of next and prev. *)
LEMMA ChainSame ==
  ASSUME NEW h, NEW k, NEW c, Chain(h, k, c), NEW g, g.next = h.next, g.prev = h.prev
  PROVE  Chain(g, k, c)
BY DEF Chain

(* m is put into c behind the i-th of k headers. *)
Inserted(c, k, i, m) ==
  [j \in 0 .. k + 2 |-> IF j <= i THEN c[j] ELSE IF j = i + 1 THEN m ELSE c[j - 1]]

(* The chain with one header more, between its i-th and the next. *)
LEMMA InsertedFacts ==
  ASSUME NEW h, NEW k, NEW c, Chain(h, k, c), NEW i \in 1 .. k, NEW m \in Addr,
         NEW d, d = Inserted(c, k, i, m)
  PROVE  /\ \A j \in 0 .. i : d[j] = c[j]
         /\ d[i + 1] = m
         /\ \A j \in i + 1 .. k + 1 : d[j + 1] = c[j]
         /\ d \in [0 .. (k + 1) + 1 -> Ptr]
         /\ Headers(k + 1, d) = Headers(k, c) \cup {m}
<1>1. k \in Nat /\ i \in Nat /\ i >= 1 /\ i <= k /\ (k + 1) + 1 = k + 2
  BY ChainFacts
<1>2. d = [j \in 0 .. k + 2 |-> IF j <= i THEN c[j] ELSE IF j = i + 1 THEN m ELSE c[j - 1]]
  BY DEF Inserted
<1>3. \A j \in 0 .. k + 2 : d[j] = IF j <= i THEN c[j] ELSE IF j = i + 1 THEN m ELSE c[j - 1]
  BY <1>2
<1>4. \A j \in 0 .. i : d[j] = c[j]
  BY <1>1, <1>3
<1>5. d[i + 1] = m
  BY <1>1, <1>3
<1>6. ASSUME NEW j \in i + 1 .. k + 1 PROVE d[j + 1] = c[j]
  <2>1. j + 1 \in 0 .. k + 2 /\ ~(j + 1 <= i) /\ j + 1 # i + 1 /\ (j + 1) - 1 = j
    BY <1>1
  <2> QED
    BY <1>3, <2>1
<1>7. \A j \in 0 .. k + 1 : c[j] \in Ptr
  BY DEF Chain
<1>8. ASSUME NEW j \in 0 .. k + 2 PROVE d[j] \in Ptr
  <2>1. j <= i => j \in 0 .. k + 1
    BY <1>1
  <2>2. ~(j <= i) /\ j # i + 1 => j - 1 \in 0 .. k + 1
    BY <1>1
  <2> QED
    BY <1>3, <1>7, <2>1, <2>2 DEF Ptr
<1>9. d \in [0 .. (k + 1) + 1 -> Ptr]
  BY <1>1, <1>2, <1>8
<1>10. ASSUME NEW j \in 1 .. k + 1 PROVE d[j] \in Headers(k, c) \cup {m}
  <2>1. CASE j <= i
    <3>1. j \in 0 .. i /\ j \in 1 .. k
      BY <1>1, <2>1
    <3> QED
      BY <1>4, <3>1 DEF Headers
  <2>2. CASE j = i + 1
    BY <1>5, <2>2
  <2>3. CASE j > i + 1
    <3>1. j - 1 \in 1 .. k /\ j \in 0 .. k + 2 /\ ~(j <= i) /\ j # i + 1
      BY <1>1, <2>3
    <3> QED
      BY <1>3, <3>1 DEF Headers
  <2> QED
    BY <1>1, <2>1, <2>2, <2>3
<1>11. ASSUME NEW j \in 1 .. k PROVE c[j] \in Headers(k + 1, d)
  <2>1. CASE j <= i
    <3>1. j \in 0 .. i /\ j \in 1 .. k + 1
      BY <1>1, <2>1
    <3> QED
      BY <1>4, <3>1 DEF Headers
  <2>2. CASE j > i
    <3>1. j \in i + 1 .. k + 1 /\ j + 1 \in 1 .. k + 1
      BY <1>1, <2>2
    <3> QED
      BY <1>6, <3>1 DEF Headers
  <2> QED
    BY <1>1, <2>1, <2>2
<1>12. m \in Headers(k + 1, d)
  <2>1. i + 1 \in 1 .. k + 1
    BY <1>1
  <2> QED
    BY <1>5, <2>1 DEF Headers
<1>13. Headers(k + 1, d) = Headers(k, c) \cup {m}
  BY <1>10, <1>11, <1>12 DEF Headers
<1> QED
  BY <1>4, <1>5, <1>6, <1>9, <1>13

(* A split puts the new header into the chain. *)
LEMMA SplitChain ==
  ASSUME NEW h \in Heaps, NEW k, NEW c, Chain(h, k, c), NEW i \in 1 .. k, NEW m \in Addr,
         c[i] + BLOCK_HEADER + BLOCK_SIZE <= m,
         i < k => m + BLOCK_HEADER + BLOCK_SIZE <= c[i + 1],
         NEW g, g.next = SplitNext(h, c[i], m), g.prev = SplitPrev(h, c[i], m)
  PROVE  /\ m \notin Headers(k, c)
         /\ Chain(g, k + 1, Inserted(c, k, i, m))
<1>1. PICK d : d = Inserted(c, k, i, m)
  OBVIOUS
<1>2. k \in Nat /\ i \in Nat /\ i >= 1 /\ i <= k /\ (k + 1) + 1 = k + 2
  BY ChainFacts
<1>3. /\ \A j \in 0 .. i : d[j] = c[j]
      /\ d[i + 1] = m
      /\ \A j \in i + 1 .. k + 1 : d[j + 1] = c[j]
      /\ d \in [0 .. (k + 1) + 1 -> Ptr]
  BY <1>1, InsertedFacts
<1>4. \A j \in 1 .. k : c[j] \in Addr /\ c[j] \in Nat /\ c[j] # NULL
  <2>1. \A j \in 1 .. k : c[j] \in Addr
    BY DEF Chain
  <2> QED
    BY <2>1, ChainFacts
<1>5. m \in Nat /\ m # NULL
  BY AddrType
<1>6. \A a, b \in 1 .. k : a < b => c[a] + 40 <= c[b]
  <2>1. \A a, b \in 1 .. k : a < b => c[a] + BLOCK_HEADER + BLOCK_SIZE <= c[b]
    BY DEF Chain
  <2> QED
    BY <1>4, <2>1 DEF BLOCK_HEADER, BLOCK_SIZE
<1>7. ASSUME NEW j \in 1 .. k
      PROVE  IF j <= i THEN c[j] + 40 <= m ELSE m + 40 <= c[j]
  <2>1. c[i] + 40 <= m /\ (i < k => m + 40 <= c[i + 1])
    BY <1>4, <1>5 DEF BLOCK_HEADER, BLOCK_SIZE
  <2>2. CASE j < i
    <3>1. c[j] + 40 <= c[i]
      BY <1>6, <2>2
    <3> QED
      BY <1>2, <1>4, <1>5, <2>1, <2>2, <3>1
  <2>3. CASE j = i
    BY <2>1, <2>3
  <2>4. CASE j = i + 1
    BY <1>2, <2>1, <2>4
  <2>5. CASE j > i + 1
    <3>1. i + 1 \in 1 .. k /\ i < k /\ i + 1 < j
      BY <1>2, <2>5
    <3>2. c[i + 1] + 40 <= c[j]
      BY <1>6, <3>1
    <3> QED
      BY <1>2, <1>4, <1>5, <2>1, <2>5, <3>1, <3>2
  <2> QED
    BY <1>2, <2>2, <2>3, <2>4, <2>5
<1>8. \A j \in 1 .. k : c[j] # m
  BY <1>4, <1>5, <1>7
<1>9. m \notin Headers(k, c)
  BY <1>8 DEF Headers
<1>10. /\ c[0] = NULL /\ c[1] = 0 /\ c[k + 1] = NULL
       /\ \A j \in 1 .. k : h.next[c[j]] = c[j + 1] /\ h.prev[c[j]] = c[j - 1]
       /\ \A a, b \in 1 .. k : c[a] = c[b] => a = b
  <2>1. \A a, b \in 1 .. k : c[a] = c[b] => a = b
    BY ChainFacts
  <2> QED
    BY <2>1 DEF Chain
<1>11. \A j \in 1 .. i : d[j] = c[j]
  BY <1>3
<1>12. ASSUME NEW j \in 1 .. k + 1, j > i + 1 PROVE d[j] = c[j - 1] /\ j - 1 \in 1 .. k /\ j - 1 > i
  <2>1. j - 1 \in i + 1 .. k + 1 /\ (j - 1) + 1 = j /\ j - 1 \in 1 .. k /\ j - 1 > i
    BY <1>2, <1>12
  <2> QED
    BY <1>3, <2>1
<1>13. ASSUME NEW j \in 1 .. k + 1 PROVE d[j] \in Addr
  <2>1. CASE j <= i
    <3>1. j \in 1 .. i /\ j \in 1 .. k
      BY <1>2, <2>1
    <3> QED
      BY <1>4, <1>11, <3>1
  <2>2. CASE j = i + 1
    BY <1>3, <2>2
  <2>3. CASE j > i + 1
    BY <1>4, <1>12, <2>3
  <2> QED
    BY <1>2, <2>1, <2>2, <2>3
<1>14. ASSUME NEW a \in 1 .. k + 1, NEW b \in 1 .. k + 1, a < b PROVE d[a] + 40 <= d[b]
  <2>1. CASE b <= i
    <3>1. a \in 1 .. i /\ b \in 1 .. i /\ a \in 1 .. k /\ b \in 1 .. k
      BY <1>2, <1>14, <2>1
    <3> QED
      BY <1>6, <1>11, <1>14, <3>1
  <2>2. CASE b = i + 1
    <3>1. a \in 1 .. i /\ a \in 1 .. k /\ a <= i
      BY <1>2, <1>14, <2>2
    <3> QED
      BY <1>3, <1>7, <1>11, <2>2, <3>1
  <2>3. CASE b > i + 1
    <3>1. d[b] = c[b - 1] /\ b - 1 \in 1 .. k /\ b - 1 > i /\ ~(b - 1 <= i)
      BY <1>2, <1>12, <2>3
    <3>2. CASE a <= i
      <4>1. a \in 1 .. i /\ a \in 1 .. k /\ a < b - 1
        BY <1>2, <3>1, <3>2
      <4> QED
        BY <1>6, <1>11, <3>1, <4>1
    <3>3. CASE a = i + 1
      BY <1>3, <1>7, <3>1, <3>3
    <3>4. CASE a > i + 1
      <4>1. d[a] = c[a - 1] /\ a - 1 \in 1 .. k /\ a - 1 < b - 1
        BY <1>2, <1>12, <1>14, <3>4
      <4> QED
        BY <1>6, <3>1, <4>1
    <3> QED
      BY <1>2, <3>2, <3>3, <3>4
  <2> QED
    BY <1>2, <2>1, <2>2, <2>3
<1>15. h.next \in [Addr -> Ptr] /\ h.prev \in [Addr -> Ptr] /\ c[i] \in Addr /\ h.next[c[i]] = c[i + 1]
  BY <1>4, <1>10 DEF Heaps
<1>fields. /\ g.next = [h.next EXCEPT ![m] = h.next[c[i]], ![c[i]] = m]
       /\ g.prev = (IF h.next[c[i]] = NULL THEN [h.prev EXCEPT ![m] = c[i]]
                    ELSE [h.prev EXCEPT ![m] = c[i], ![h.next[c[i]]] = m])
  BY DEF SplitNext, SplitPrev
<1>16. ASSUME NEW j \in 1 .. k + 1 PROVE g.next[d[j]] = d[j + 1] /\ g.prev[d[j]] = d[j - 1]
  <2>1. CASE j < i
    <3>1. j \in 1 .. i /\ j \in 1 .. k /\ j + 1 \in 0 .. i /\ j - 1 \in 0 .. i /\ j # i
      BY <1>2, <2>1
    <3>2. d[j] = c[j] /\ d[j + 1] = c[j + 1] /\ d[j - 1] = c[j - 1]
      BY <1>3, <1>11, <3>1
    <3>3. c[j] # c[i] /\ c[j] # m
      BY <1>8, <1>10, <3>1
    <3>4. c[i + 1] # NULL => c[j] # c[i + 1]
      <4>1. CASE i = k
        BY <1>10, <4>1
      <4>2. CASE i # k
        <5>1. i + 1 \in 1 .. k /\ j # i + 1
          BY <1>2, <2>1, <4>2
        <5> QED
          BY <1>10, <3>1, <5>1
      <4> QED
        BY <4>1, <4>2
    <3>5. g.next[c[j]] = h.next[c[j]]
      BY <1>4, <1>15, <1>fields, <3>1, <3>3
    <3>6. g.prev[c[j]] = h.prev[c[j]]
      BY <1>4, <1>15, <1>fields, <3>1, <3>3, <3>4
    <3> QED
      BY <1>10, <3>1, <3>2, <3>5, <3>6
  <2>2. CASE j = i
    <3>1. d[j] = c[i] /\ d[j + 1] = m /\ d[j - 1] = c[i - 1]
      <4>1. i \in 1 .. i /\ i - 1 \in 0 .. i
        BY <1>2
      <4> QED
        BY <1>3, <1>11, <2>2, <4>1
    <3>2. c[i] # m
      BY <1>8
    <3>3. c[i + 1] # NULL => c[i] # c[i + 1]
      <4>1. CASE i = k
        BY <1>10, <4>1
      <4>2. CASE i # k
        <5>1. i + 1 \in 1 .. k /\ i # i + 1
          BY <1>2, <4>2
        <5> QED
          BY <1>10, <5>1
      <4> QED
        BY <4>1, <4>2
    <3>4. g.next[c[i]] = m
      BY <1>15, <1>fields
    <3>5. g.prev[c[i]] = h.prev[c[i]]
      BY <1>15, <1>fields, <3>2, <3>3
    <3> QED
      BY <1>10, <3>1, <3>4, <3>5
  <2>3. CASE j = i + 1
    <3>1. d[j] = m /\ d[j - 1] = c[i] /\ d[j + 1] = c[i + 1]
      <4>1. i \in 1 .. i /\ i + 1 \in i + 1 .. k + 1 /\ j - 1 = i
        BY <1>2, <2>3
      <4> QED
        BY <1>3, <1>11, <2>3, <4>1
    <3>2. c[i] # m
      BY <1>8
    <3>3. c[i + 1] # m
      <4>1. CASE i = k
        BY <1>5, <1>10, <4>1
      <4>2. CASE i # k
        <5>1. i + 1 \in 1 .. k
          BY <1>2, <4>2
        <5> QED
          BY <1>8, <5>1
      <4> QED
        BY <4>1, <4>2
    <3>4. g.next[m] = c[i + 1]
      BY <1>15, <1>fields, <3>2
    <3>5. g.prev[m] = c[i]
      BY <1>15, <1>fields, <3>3
    <3> QED
      BY <3>1, <3>4, <3>5
  <2>4. CASE j > i + 1
    <3>1. d[j] = c[j - 1] /\ j - 1 \in 1 .. k /\ j - 1 > i /\ j - 1 # i /\ (j - 1) + 1 = j
      BY <1>2, <1>12, <2>4
    <3>2. d[j + 1] = c[j]
      <4>1. j \in i + 1 .. k + 1
        BY <1>2, <2>4
      <4> QED
        BY <1>3, <4>1
    <3>3. c[j - 1] # c[i] /\ c[j - 1] # m /\ c[j - 1] \in Addr
      BY <1>4, <1>8, <1>10, <3>1
    <3>4. g.next[c[j - 1]] = c[j]
      <4>1. g.next[c[j - 1]] = h.next[c[j - 1]]
        BY <1>15, <1>fields, <3>3
      <4> QED
        BY <1>10, <3>1, <4>1
    <3>5. CASE j = i + 2
      <4>1. c[j - 1] = c[i + 1] /\ d[j - 1] = m /\ c[i + 1] # NULL
        <5>1. j - 1 = i + 1
          BY <1>2, <3>5
        <5> QED
          BY <1>3, <1>4, <3>1, <5>1
      <4>2. g.prev[c[i + 1]] = m
        BY <1>15, <1>fields, <3>3, <4>1
      <4> QED
        BY <3>1, <3>2, <3>4, <4>1, <4>2
    <3>6. CASE j # i + 2
      <4>1. i + 1 \in 1 .. k /\ j - 1 # i + 1
        BY <1>2, <2>4, <3>6
      <4>2. c[j - 1] # c[i + 1]
        BY <1>10, <3>1, <4>1
      <4>3. g.prev[c[j - 1]] = c[(j - 1) - 1]
        <5>1. g.prev[c[j - 1]] = h.prev[c[j - 1]]
          BY <1>15, <1>fields, <3>3, <4>2
        <5> QED
          BY <1>10, <3>1, <5>1
      <4>4. j - 1 \in 1 .. k + 1 /\ j - 1 > i + 1
        BY <1>2, <2>4, <3>6
      <4>5. d[j - 1] = c[(j - 1) - 1]
        BY <1>12, <4>4
      <4> QED
        BY <3>1, <3>2, <3>4, <4>3, <4>5
    <3> QED
      BY <3>5, <3>6
  <2> QED
    BY <1>2, <2>1, <2>2, <2>3, <2>4
<1>17. d[0] = NULL /\ d[1] = 0 /\ d[(k + 1) + 1] = NULL
  <2>1. 0 \in 0 .. i /\ 1 \in 0 .. i /\ k + 1 \in i + 1 .. k + 1
    BY <1>2
  <2> QED
    BY <1>3, <1>10, <2>1
<1>18. k + 1 \in Nat \ {0}
  BY <1>2
<1>19. \A a, b \in 1 .. k + 1 : a < b => d[a] + BLOCK_HEADER + BLOCK_SIZE <= d[b]
  <2>1. \A a \in 1 .. k + 1 : d[a] \in Nat
    BY <1>13, AddrType
  <2> QED
    BY <1>14, <2>1 DEF BLOCK_HEADER, BLOCK_SIZE
<1>20. Chain(g, k + 1, d)
  BY <1>3, <1>13, <1>16, <1>17, <1>18, <1>19 DEF Chain
<1> QED
  BY <1>1, <1>9, <1>20

(* The client's blocks afterwards. *)
Given(l, p, asked) == [l EXCEPT ![p] = asked]

(* Sound outlasts a split. *)
LEMMA SplitSound ==
  ASSUME NEW h, NEW k, NEW c, NEW l, Sound(h, k, c, l), NEW i \in 1 .. k, NEW p, c[i] = p,
         NEW before \in Headers(k, c) \cup {NULL}, NEW size \in Nat, size >= BLOCK_SIZE,
         NEW m \in Addr, m = p + BLOCK_HEADER + size,
         i < k => m + BLOCK_HEADER + BLOCK_SIZE <= c[i + 1],
         NEW asked \in Nat, NEW s, s = Split(h, p, before, size), NEW g, g = Taken(s, p, asked)
  PROVE  Sound(g, k + 1, Inserted(c, k, i, m), Given(l, p, asked))
<1> DEFINE d == Inserted(c, k, i, m)
<1>1. h \in Heaps /\ Chain(h, k, c) /\ Closed(h, k, c)
  BY DEF Sound
<1>2. Headers(k, c) \subseteq Addr /\ p \in Headers(k, c) /\ p \in Addr /\ p \in Nat
  BY <1>1, ChainFacts
<1>3. before \in Ptr /\ m \in Nat /\ m # p /\ p + BLOCK_HEADER + BLOCK_SIZE <= m
  BY <1>2, AddrType DEF Ptr, BLOCK_HEADER, BLOCK_SIZE
<1>4. /\ s \in Heaps
      /\ s.next = SplitNext(h, p, m) /\ s.prev = SplitPrev(h, p, m)
      /\ s.next_free = SplitNextFree(h, p, before, m)
      /\ s.head_free = (IF before = NULL THEN m ELSE h.head_free)
      /\ \/ s.largest = m /\ s.second_largest = h.second_largest
         \/ s.largest = h.second_largest /\ s.second_largest = NULL
  BY <1>1, <1>2, <1>3, SplitDoes
<1>5. /\ g \in Heaps
      /\ g.next = s.next /\ g.prev = s.prev
      /\ g.next_free = TakenNextFree(s, p)
      /\ g.head_free = s.head_free /\ g.largest = s.largest
      /\ g.second_largest = s.second_largest
  BY <1>2, <1>4, TakenDoes
<1>6. m \notin Headers(k, c) /\ Chain(s, k + 1, d)
  <2>1. /\ s.next = SplitNext(h, c[i], m) /\ s.prev = SplitPrev(h, c[i], m)
        /\ c[i] + BLOCK_HEADER + BLOCK_SIZE <= m
    BY <1>3, <1>4
  <2> QED
    BY <1>1, <2>1, SplitChain
<1>7. Headers(k + 1, d) = Headers(k, c) \cup {m}
  <2>1. PICK e : e = d
    OBVIOUS
  <2>2. Headers(k + 1, e) = Headers(k, c) \cup {m}
    BY <1>1, <2>1, InsertedFacts
  <2> QED
    BY <2>1, <2>2
<1> HIDE DEF d
<1>8. Chain(g, k + 1, d)
  BY <1>5, <1>6, ChainSame
<1>9. Closed(g, k + 1, d)
  <2>1. ASSUME NEW a \in Headers(k + 1, d)
        PROVE  g.next_free[a] \in Headers(k + 1, d) \cup {NULL}
    <3>1. h.next_free[p] \in Headers(k, c) \cup {NULL}
      BY <1>1, <1>2 DEF Closed
    <3>2. h.next_free \in [Addr -> Ptr] /\ s.next_free \in [Addr -> Ptr] /\ a \in Addr
      BY <1>1, <1>2, <1>4, <1>7 DEF Heaps
    <3>3. CASE a = p
      BY <1>5, <3>2, <3>3 DEF TakenNextFree
    <3>4. CASE a # p /\ a = m
      <4>1. g.next_free[a] = s.next_free[a] /\ before # m
        <5>1. m # NULL
          BY AddrType
        <5> QED
          BY <1>5, <1>6, <3>2, <3>4, <5>1 DEF TakenNextFree
      <4>2. s.next_free[a] = h.next_free[p]
        BY <1>4, <3>2, <3>4, <4>1 DEF SplitNextFree
      <4> QED
        BY <1>7, <3>1, <4>1, <4>2
    <3>5. CASE a # p /\ a # m
      <4>1. a \in Headers(k, c)
        BY <1>7, <3>5
      <4>2. h.next_free[a] \in Headers(k, c) \cup {NULL}
        BY <1>1, <4>1 DEF Closed
      <4>3. g.next_free[a] = s.next_free[a]
        BY <1>5, <3>2, <3>5 DEF TakenNextFree
      <4>4. s.next_free[a] = h.next_free[a] \/ s.next_free[a] = m
        BY <1>4, <3>2, <3>5 DEF SplitNextFree
      <4> QED
        BY <1>7, <4>2, <4>3, <4>4
    <3> QED
      BY <3>3, <3>4, <3>5
  <2>2. {g.head_free, g.largest, g.second_largest} \subseteq Headers(k + 1, d) \cup {NULL}
    BY <1>1, <1>4, <1>5, <1>7 DEF Closed
  <2> QED
    BY <2>1, <2>2 DEF Closed
<1>10. PICK n : n = [l EXCEPT ![p] = asked] /\ n = Given(l, p, asked)
  BY DEF Given
<1>11. n \in [Addr -> Nat] /\ \A q \in Addr : n[q] # 0 => q \in Headers(k + 1, d)
  BY <1>2, <1>7, <1>10 DEF Sound
<1> QED
  BY <1>5, <1>8, <1>9, <1>10, <1>11 DEF Sound, d

(* Sound outlasts a block taken whole. *)
LEMMA TakeWholeSound ==
  ASSUME NEW h, NEW k, NEW c, NEW l, Sound(h, k, c, l), NEW p \in Headers(k, c),
         NEW before \in Headers(k, c) \cup {NULL}, NEW size \in Nat,
         NEW asked \in Nat, NEW s, s = TakeWhole(h, p, before, size), NEW g, g = Taken(s, p, asked)
  PROVE  Sound(g, k, c, Given(l, p, asked))
<1>1. h \in Heaps /\ Chain(h, k, c) /\ Closed(h, k, c)
  BY DEF Sound
<1>2. Headers(k, c) \subseteq Addr /\ p \in Addr /\ before \in Ptr
  BY <1>1, ChainFacts DEF Ptr
<1>3. /\ s \in Heaps
      /\ s.next = h.next /\ s.prev = h.prev /\ s.next_free = h.next_free
      /\ s.head_free = (IF before = NULL THEN h.next_free[p] ELSE h.head_free)
      /\ s.largest = h.second_largest /\ s.second_largest = NULL
  BY <1>1, <1>2, TakeWholeDoes
<1>4. /\ g \in Heaps
      /\ g.next = s.next /\ g.prev = s.prev
      /\ g.next_free = TakenNextFree(s, p)
      /\ g.head_free = s.head_free /\ g.largest = s.largest
      /\ g.second_largest = s.second_largest
  BY <1>2, <1>3, TakenDoes
<1>5. Chain(g, k, c)
  BY <1>1, <1>3, <1>4, ChainSame
<1>6. Closed(g, k, c)
  <2>1. ASSUME NEW a \in Headers(k, c) PROVE g.next_free[a] \in Headers(k, c) \cup {NULL}
    <3>1. h.next_free \in [Addr -> Ptr] /\ a \in Addr /\ h.next_free[a] \in Headers(k, c) \cup {NULL}
      BY <1>1, <1>2 DEF Heaps, Closed
    <3> QED
      BY <1>3, <1>4, <3>1 DEF TakenNextFree
  <2>2. {g.head_free, g.largest, g.second_largest} \subseteq Headers(k, c) \cup {NULL}
    BY <1>1, <1>3, <1>4 DEF Closed
  <2> QED
    BY <2>1, <2>2 DEF Closed
<1>7. PICK n : n = [l EXCEPT ![p] = asked] /\ n = Given(l, p, asked)
  BY DEF Given
<1>8. n \in [Addr -> Nat] /\ \A q \in Addr : n[q] # 0 => q \in Headers(k, c)
  BY <1>2, <1>7 DEF Sound
<1> QED
  BY <1>4, <1>5, <1>6, <1>7, <1>8 DEF Sound

(* Sound outlasts the ranking. *)
LEMMA RanksSound ==
  ASSUME NEW h, NEW k, NEW c, NEW l, Sound(h, k, c, l), NEW r, SameButRanks(h, r),
         {r.largest, r.second_largest} \subseteq Headers(k, c) \cup {NULL}
  PROVE  Sound(r, k, c, l)
<1>1. Chain(r, k, c)
  BY ChainSame DEF Sound, SameButRanks
<1>2. Closed(r, k, c)
  BY DEF Sound, SameButRanks, Closed
<1> QED
  BY <1>1, <1>2 DEF Sound, SameButRanks

(* Before the first Mem_Free the free list has the last block or none. *)
LEMMA PackedFreeList ==
  ASSUME NEW h, NEW k, NEW c, Chain(h, k, c), FreeLinked(h, k, c), Packed(h, k, c)
  PROVE  \/ /\ h.status[c[k]] = "FREE" /\ h.head_free = c[k] /\ h.next_free[c[k]] = NULL
            /\ FreeList(h) = <<c[k]>>
         \/ /\ h.status[c[k]] # "FREE" /\ h.head_free = NULL /\ FreeList(h) = << >>
<1>1. k \in Nat /\ k >= 1 /\ k \in 1 .. k /\ c[k] # NULL
  BY ChainFacts
<1>2. \A j \in 1 .. k : h.status[c[j]] = "FREE" => j = k
  <2>1. \A j \in 1 .. k : j # k => j \in 1 .. k - 1
    BY <1>1
  <2> QED
    BY <2>1 DEF Packed
<1>3. 0 \in Nat /\ 1 \in Nat /\ 1 <= MaxCalls + 1 /\ 0 <= MaxCalls + 1
  BY Constants
<1>4. PICK link, p : link = h.next_free /\ p = h.head_free
  OBVIOUS
<1>5. CASE h.status[c[k]] = "FREE"
  <2>1. h.head_free = c[k]
    <3>1. Follows(h, k, c, 0, h.head_free)
      BY DEF FreeLinked
    <3> QED
      BY <1>1, <1>2, <1>5, <3>1 DEF Follows
  <2>2. h.next_free[c[k]] = NULL
    <3>1. Follows(h, k, c, k, h.next_free[c[k]])
      BY <1>1, <1>5 DEF FreeLinked
    <3>2. \A j \in k + 1 .. k : FALSE
      BY <1>1
    <3> QED
      BY <3>1, <3>2 DEF Follows
  <2>3. PICK f : f = [i \in 1 .. 2 |-> IF i = 1 THEN c[k] ELSE NULL]
    OBVIOUS
  <2>4. f[1] = c[k] /\ f[2] = NULL
    BY <2>3
  <2>5. PICK n \in Nat : n = 1
    OBVIOUS
  <2>6. Walk(link, p) = [i \in 1 .. n |-> f[i]]
    <3>1. Trail(link, p, n, f) /\ n <= MaxCalls + 1
      BY <1>1, <1>3, <1>4, <2>1, <2>2, <2>4, <2>5 DEF Trail
    <3> QED
      BY <3>1, WalkOfTrail
  <2>7. [i \in 1 .. 1 |-> f[i]] = <<c[k]>>
    BY <2>4
  <2> QED
    BY <1>4, <1>5, <2>1, <2>2, <2>5, <2>6, <2>7 DEF FreeList
<1>6. CASE h.status[c[k]] # "FREE"
  <2>1. h.head_free = NULL
    <3>1. Follows(h, k, c, 0, h.head_free)
      BY DEF FreeLinked
    <3> QED
      BY <1>1, <1>2, <1>6, <3>1 DEF Follows
  <2>2. PICK f : f = [i \in 1 .. 1 |-> NULL]
    OBVIOUS
  <2>3. f[1] = NULL /\ \A i \in 1 .. 0 : FALSE
    BY <2>2
  <2>4. Trail(link, p, 0, f)
    BY <1>4, <2>1, <2>3 DEF Trail
  <2>5. Walk(link, p) = [i \in 1 .. 0 |-> f[i]]
    BY <1>3, <2>4, WalkOfTrail
  <2>6. [i \in 1 .. 0 |-> f[i]] = << >>
    OBVIOUS
  <2> QED
    BY <1>4, <1>6, <2>1, <2>5, <2>6 DEF FreeList
<1> QED
  BY <1>5, <1>6

(* It is all the search can choose. *)
LEMMA PackedCandidates ==
  ASSUME NEW h, NEW k, NEW c, Chain(h, k, c), k <= MaxCalls + 1, FreeLinked(h, k, c),
         RankedFree(h), Packed(h, k, c), NEW size, NEW x \in Candidates(h, size)
  PROVE  x.at = c[k] /\ x.before = NULL /\ h.status[c[k]] = "FREE"
<1>1. k \in Nat /\ k \in 1 .. k
  BY ChainFacts
<1>2. CASE TakesLargest(h)
  <2>1. x = [at |-> h.largest, before |-> prevFree(h, h.largest)]
    BY <1>2 DEF Candidates
  <2>2. h.largest = c[k] /\ h.status[c[k]] = "FREE"
    BY <1>2 DEF TakesLargest, Packed, RankedFree
  <2>3. prevFree(h, c[k]) = NULL
    <3>1. \A b \in 1 .. k - 1 : h.status[c[b]] # "FREE"
      BY DEF Packed
    <3> QED
      BY <1>1, <3>1, PrevFree
  <2> QED
    BY <2>1, <2>2, <2>3
<1>3. CASE ~TakesLargest(h)
  <2>1. PICK i \in Worst(h, size) :
          x = [at |-> FreeList(h)[i], before |-> IF i = 1 THEN NULL ELSE FreeList(h)[i - 1]]
    BY <1>3 DEF Candidates
  <2>2. i \in DOMAIN FreeList(h)
    BY DEF Worst
  <2>3. FreeList(h) # << >>
    BY <2>2
  <2>4. FreeList(h) = <<c[k]>> /\ h.status[c[k]] = "FREE"
    BY <2>3, PackedFreeList
  <2>5. i = 1
    BY <2>2, <2>4
  <2> QED
    BY <2>1, <2>4, <2>5
<1> QED
  BY <1>2, <1>3

(* A search leaves it ranked. *)
LEMMA PackedRanks ==
  ASSUME NEW h \in Heaps, NEW k, NEW c, Chain(h, k, c), Closed(h, k, c), FreeLinked(h, k, c),
         RankedFree(h), Packed(h, k, c), NEW r, r = Ranked(h)
  PROVE  r.largest # NULL /\ r.second_largest # NULL =>
           r.largest = c[k] /\ h.status[c[k]] = "FREE"
<1>1. CASE h.status[c[k]] = "FREE" /\ h.head_free = c[k] /\ FreeList(h) = <<c[k]>>
  <2>1. Len(FreeList(h)) = 1 /\ FreeList(h)[1] = c[k] /\ 1 \in 1 .. 1 /\ 1 \in Nat
    BY <1>1
  <2>2. PICK g : g[0] = RankStart(h) /\ g[1] = Rank(g[0], c[k]) /\ r = g[1]
    <3>1. PICK g : /\ g[0] = RankStart(h)
                   /\ \A i \in 1 .. Len(FreeList(h)) : g[i] = Rank(g[i - 1], FreeList(h)[i])
                   /\ Ranked(h) = g[Len(FreeList(h))]
      BY <2>1, RankedByTurns
    <3>2. g[1] = Rank(g[1 - 1], FreeList(h)[1])
      BY <2>1, <3>1
    <3> QED
      BY <2>1, <3>1, <3>2
  <2>3. PICK s : s = RankStart(h)
    OBVIOUS
  <2>4. s.largest = c[k] /\ s \in Heaps
    <3>1. CASE h.largest # NULL /\ h.second_largest # NULL
      BY <2>3, <3>1 DEF RankStart, Packed
    <3>2. CASE ~(h.largest # NULL /\ h.second_largest # NULL)
      BY <1>1, <2>3, <3>2 DEF RankStart, Heaps
    <3> QED
      BY <3>1, <3>2
  <2>5. Rank(s, c[k]).largest = c[k]
    <3>1. SameButRanks(s, Rank(s, c[k])) /\ Rank(s, c[k]).largest \in {s.largest, c[k]}
      <4>1. c[k] \in Ptr
        BY <1>1 DEF Heaps
      <4> QED
        BY <2>4, <4>1, RankDoes
    <3> QED
      BY <2>4, <3>1
  <2> QED
    BY <1>1, <2>2, <2>3, <2>5
<1>2. CASE h.status[c[k]] # "FREE" /\ h.head_free = NULL /\ FreeList(h) = << >>
  <2>1. Len(FreeList(h)) = 0 /\ 0 \in Nat
    BY <1>2
  <2>2. r = RankStart(h)
    BY <2>1, RankedByTurns
  <2>3. CASE h.largest # NULL /\ h.second_largest # NULL
    BY <1>2, <2>3 DEF Packed, RankedFree
  <2>4. CASE ~(h.largest # NULL /\ h.second_largest # NULL)
    BY <1>2, <2>2, <2>4 DEF RankStart, Heaps
  <2> QED
    BY <2>3, <2>4
<1> QED
  BY <1>1, <1>2, PackedFreeList

(* Before the first Mem_Free, Exact and Packed outlast a split. *)
LEMMA SplitExact ==
  ASSUME NEW h, NEW k, NEW c, NEW l, Sound(h, k, c, l), Exact(h, k, c, l), Packed(h, k, c),
         NEW p, c[k] = p, h.status[p] = "FREE", NEW before, before = NULL,
         NEW size \in Nat, size >= BLOCK_SIZE, h.last_block_size >= size + BLOCK_SIZE,
         NEW m \in Addr, m = p + BLOCK_HEADER + size, NEW asked \in Nat, asked <= size,
         NEW s, s = Split(h, p, before, size), NEW g, g = Taken(s, p, asked),
         NEW d, d = Inserted(c, k, k, m), NEW n, n = Given(l, p, asked)
  PROVE  Exact(g, k + 1, d, n) /\ Packed(g, k + 1, d)
<1>1. h \in Heaps /\ Chain(h, k, c) /\ l \in [Addr -> Nat]
  BY DEF Sound
<1>2. k \in Nat /\ k \in 1 .. k /\ p \in Addr /\ p \in Nat /\ p \in Headers(k, c)
  BY <1>1, ChainFacts
<1>3. m \in Nat /\ m # NULL /\ m # p /\ NULL \in Ptr
  BY <1>2, AddrType DEF Ptr, BLOCK_HEADER, BLOCK_SIZE
<1>4. h.next[p] = NULL /\ \A j \in 1 .. k - 1 : h.next[c[j]] # NULL
  <2>1. c[k + 1] = NULL /\ \A j \in 1 .. k : h.next[c[j]] = c[j + 1]
    BY <1>1 DEF Chain
  <2>2. \A j \in 1 .. k - 1 : j \in 1 .. k /\ j + 1 \in 1 .. k
    BY <1>2
  <2>3. \A j \in 1 .. k : c[j] # NULL
    BY <1>1, ChainFacts
  <2> QED
    BY <1>2, <2>1, <2>2, <2>3
<1>5. /\ s \in Heaps
      /\ s.next = SplitNext(h, p, m) /\ s.status = SplitStatus(h, m)
      /\ s.next_free = SplitNextFree(h, p, before, m)
      /\ s.head_free = m
      /\ \/ s.largest = m
         \/ s.second_largest = NULL
      /\ s.last_block_size = h.last_block_size - size
      /\ s.region_end = h.region_end
      /\ s.size_of_last_allocate = h.size_of_last_allocate
  BY <1>1, <1>2, <1>3, <1>4, SplitDoes
<1>6. /\ g \in Heaps
      /\ g.next = s.next /\ g.status = TakenStatus(s, p) /\ g.next_free = TakenNextFree(s, p)
      /\ g.head_free = s.head_free /\ g.largest = s.largest
      /\ g.second_largest = s.second_largest
      /\ g.last_block_size = s.last_block_size /\ g.region_end = s.region_end
      /\ g.size_of_last_allocate = s.size_of_last_allocate
  <2>1. s \in Heaps /\ p \in Addr
    BY <1>2, <1>5
  <2> QED
    BY <2>1, TakenDoes, Z3
<1>7. /\ \A j \in 0 .. k : d[j] = c[j]
      /\ d[k + 1] = m
      /\ Headers(k + 1, d) = Headers(k, c) \cup {m}
  BY <1>1, <1>2, InsertedFacts
<1>8. m \notin Headers(k, c)
  <2>1. c[k] + BLOCK_HEADER + BLOCK_SIZE <= m /\ ~(k < k)
    BY <1>2, <1>3 DEF BLOCK_HEADER, BLOCK_SIZE
  <2>2. PICK f : f = [h EXCEPT !.next = SplitNext(h, c[k], m), !.prev = SplitPrev(h, c[k], m)]
    OBVIOUS
  <2>3. f.next = SplitNext(h, c[k], m) /\ f.prev = SplitPrev(h, c[k], m)
    BY <1>1, <2>2 DEF Heaps
  <2> QED
    BY <1>1, <1>2, <2>1, <2>3, SplitChain
<1>9. /\ h.next \in [Addr -> Ptr] /\ h.next_free \in [Addr -> Ptr]
      /\ h.status \in [Addr -> {"FREE", "ALLOCATED"}]
      /\ h.last_block_size \in Int
  BY <1>1 DEF Heaps
<1>10. /\ \A q \in Addr : q # p /\ q # m => g.next[q] = h.next[q] /\ g.status[q] = h.status[q]
       /\ g.next[p] = m /\ g.status[p] = "ALLOCATED" /\ g.status[m] = "FREE"
       /\ g.next_free[m] = NULL
  <2>1. h.next_free[p] = NULL
    BY <1>1, PackedFreeList DEF Exact
  <2>2. s.next_free[m] = NULL
    BY <1>5, <1>9, <2>1 DEF SplitNextFree
  <2>3. g.next_free[m] = NULL
    <3>1. s.next_free \in [Addr -> Ptr]
      BY <1>5 DEF Heaps
    <3> QED
      BY <1>3, <1>6, <2>2, <3>1 DEF TakenNextFree
  <2>4. /\ \A q \in Addr : q # p /\ q # m => g.next[q] = h.next[q]
        /\ g.next[p] = m
    BY <1>2, <1>3, <1>5, <1>6, <1>9 DEF SplitNext
  <2>5. /\ \A q \in Addr : q # p /\ q # m => g.status[q] = h.status[q]
        /\ g.status[p] = "ALLOCATED" /\ g.status[m] = "FREE"
    BY <1>2, <1>3, <1>5, <1>6, <1>9 DEF SplitStatus, TakenStatus
  <2> QED
    BY <2>3, <2>4, <2>5
<1>11. ASSUME NEW j \in 1 .. k PROVE g.status[d[j]] = "ALLOCATED"
  <2>1. d[j] = c[j] /\ c[j] \in Addr /\ c[j] # m
    <3>1. j \in 0 .. k
      BY <1>2
    <3>2. c[j] \in Headers(k, c)
      BY DEF Headers
    <3> QED
      BY <1>1, <1>7, <1>8, <3>1, <3>2 DEF Chain
  <2>2. CASE j = k
    BY <1>10, <2>1, <2>2
  <2>3. CASE j # k
    <3>1. j \in 1 .. k - 1 /\ c[j] # p
      BY <1>1, <1>2, <2>3, ChainFacts
    <3>2. h.status[c[j]] = "ALLOCATED"
      BY <3>1 DEF Packed
    <3> QED
      BY <1>10, <2>1, <3>1, <3>2
  <2> QED
    BY <2>2, <2>3
<1>12. FreeLinked(g, k + 1, d)
  <2>1. Follows(g, k + 1, d, 0, g.head_free)
    <3>1. k + 1 \in 0 + 1 .. k + 1 /\ \A j \in 0 + 1 .. (k + 1) - 1 : j \in 1 .. k
      BY <1>2
    <3> QED
      BY <1>5, <1>6, <1>7, <1>10, <1>11, <3>1 DEF Follows
  <2>2. ASSUME NEW j \in 1 .. k + 1, g.status[d[j]] = "FREE"
        PROVE  Follows(g, k + 1, d, j, g.next_free[d[j]])
    <3>1. j = k + 1
      <4>1. j # k + 1 => j \in 1 .. k
        BY <1>2
      <4> QED
        BY <1>11, <2>2, <4>1
    <3>2. \A i \in j + 1 .. k + 1 : FALSE
      BY <1>2, <3>1
    <3> QED
      BY <1>7, <1>10, <3>1, <3>2 DEF Follows
  <2> QED
    BY <2>1, <2>2 DEF FreeLinked
<1>13. RankedFree(g)
  BY <1>5, <1>6, <1>10 DEF RankedFree
<1>14. ASSUME NEW q \in Addr, n[q] # 0
       PROVE  q \in Headers(k + 1, d) /\ g.status[q] = "ALLOCATED" /\ Fits(g, q, n[q])
  <2>1. CASE q = p
    <3>1. n[q] = asked /\ q \in Headers(k + 1, d) /\ g.status[q] = "ALLOCATED" /\ g.next[q] = m
      BY <1>1, <1>2, <1>7, <1>10, <2>1 DEF Given
    <3>2. asked <= m - (q + BLOCK_HEADER)
      BY <1>2, <1>3, <2>1 DEF BLOCK_HEADER
    <3> QED
      BY <1>3, <3>1, <3>2 DEF Fits
  <2>2. CASE q # p
    <3>1. n[q] = l[q] /\ l[q] # 0
      BY <1>1, <1>14, <2>2 DEF Given
    <3>2. q \in Headers(k, c) /\ h.status[q] = "ALLOCATED" /\ Fits(h, q, l[q])
      BY <3>1 DEF Exact, Held
    <3>3. PICK j \in 1 .. k : q = c[j]
      BY <3>2 DEF Headers
    <3>4. j \in 1 .. k - 1
      BY <1>2, <2>2, <3>3
    <3>5. q # m /\ g.next[q] = h.next[q] /\ h.next[q] # NULL
      BY <1>4, <1>8, <1>10, <2>2, <3>2, <3>3, <3>4
    <3>6. Fits(g, q, n[q])
      BY <3>1, <3>2, <3>5 DEF Fits
    <3>7. g.status[q] = "ALLOCATED" /\ q \in Headers(k + 1, d)
      BY <1>7, <1>10, <2>2, <3>2, <3>5
    <3> QED
      BY <3>6, <3>7
  <2> QED
    BY <2>1, <2>2
<1>15. Held(g, k + 1, d, n)
  BY <1>14 DEF Held
<1>16. Packed(g, k + 1, d)
  <2>1. \A j \in 1 .. (k + 1) - 1 : g.status[d[j]] = "ALLOCATED"
    <3>1. (k + 1) - 1 = k
      BY <1>2
    <3> QED
      BY <1>11, <3>1
  <2>2. g.last_block_size >= BLOCK_SIZE
    BY <1>5, <1>6, <1>9 DEF BLOCK_SIZE
  <2>3. d[k + 1] + 5 * g.last_block_size <= g.region_end
    <3>1. p + 5 * h.last_block_size <= h.region_end
      BY DEF Packed
    <3>2. h.region_end \in Int
      <4>1. PICK r \in Regions : h.region_end = RegionEnd(r)
        BY <1>1 DEF Heaps
      <4>2. r \in Nat \ {0}
        BY Constants
      <4>3. \E b \in Nat : round_to(r, BLOCK_SIZE) = 8 * b
        BY <4>2, Rounding
      <4> QED
        BY <4>1, <4>3 DEF RegionEnd, BLOCK_SIZE, BLOCK_HEADER
    <3> QED
      BY <1>2, <1>3, <1>5, <1>6, <1>7, <1>9, <3>1, <3>2 DEF BLOCK_HEADER, BLOCK_SIZE
  <2>4. g.largest # NULL /\ g.second_largest # NULL => g.largest = d[k + 1]
    BY <1>5, <1>6, <1>7
  <2> QED
    BY <2>1, <2>2, <2>3, <2>4 DEF Packed
<1> QED
  BY <1>12, <1>13, <1>15, <1>16 DEF Exact

(* Before the first Mem_Free, they outlast a block taken whole: it is the last one, and
   the free list empty behind it. *)
LEMMA TakeWholeExact ==
  ASSUME NEW h, NEW k, NEW c, NEW l, Sound(h, k, c, l), Exact(h, k, c, l), Packed(h, k, c),
         NEW p, c[k] = p, h.status[p] = "FREE", NEW before, before = NULL,
         NEW size \in Nat, h.last_block_size < size + BLOCK_SIZE,
         NEW asked \in Nat, asked <= size,
         NEW s, s = TakeWhole(h, p, before, size), NEW g, g = Taken(s, p, asked),
         NEW n, n = Given(l, p, asked)
  PROVE  Exact(g, k, c, n) /\ Packed(g, k, c)
<1>1. h \in Heaps /\ Chain(h, k, c) /\ l \in [Addr -> Nat]
  BY DEF Sound
<1>2. k \in Nat /\ k \in 1 .. k /\ p \in Addr /\ p \in Nat /\ p \in Headers(k, c) /\ before \in Ptr
  BY <1>1, ChainFacts DEF Ptr
<1>3. h.next[p] = NULL /\ \A j \in 1 .. k - 1 : h.next[c[j]] # NULL
  <2>1. c[k + 1] = NULL /\ \A j \in 1 .. k : h.next[c[j]] = c[j + 1]
    BY <1>1 DEF Chain
  <2>2. \A j \in 1 .. k - 1 : j \in 1 .. k /\ j + 1 \in 1 .. k
    BY <1>2
  <2>3. \A j \in 1 .. k : c[j] # NULL
    BY <1>1, ChainFacts
  <2> QED
    BY <1>2, <2>1, <2>2, <2>3
<1>4. /\ s \in Heaps
      /\ s.next = h.next /\ s.status = h.status /\ s.next_free = h.next_free
      /\ s.head_free = h.next_free[p]
      /\ s.second_largest = NULL
      /\ s.last_block_size = h.last_block_size /\ s.region_end = h.region_end
      /\ s.size_of_last_allocate = size
  BY <1>1, <1>2, <1>3, TakeWholeDoes, Z3
<1>5. /\ g \in Heaps
      /\ g.next = s.next /\ g.status = TakenStatus(s, p) /\ g.next_free = TakenNextFree(s, p)
      /\ g.head_free = s.head_free
      /\ g.second_largest = s.second_largest
      /\ g.last_block_size = s.last_block_size /\ g.region_end = s.region_end
      /\ g.size_of_last_allocate = s.size_of_last_allocate
  <2>1. s \in Heaps /\ p \in Addr
    BY <1>2, <1>4
  <2> QED
    BY <2>1, TakenDoes
<1>6. /\ h.status \in [Addr -> {"FREE", "ALLOCATED"}]
      /\ h.last_block_size \in Int
  BY <1>1 DEF Heaps
<1>7. /\ g.next = h.next /\ g.head_free = NULL
      /\ \A q \in Addr : q # p => g.status[q] = h.status[q]
      /\ g.status[p] = "ALLOCATED"
  <2>1. h.next_free[p] = NULL
    BY <1>1, PackedFreeList DEF Exact
  <2>2. /\ \A q \in Addr : q # p => g.status[q] = h.status[q]
        /\ g.status[p] = "ALLOCATED"
    BY <1>2, <1>4, <1>5, <1>6 DEF TakenStatus
  <2> QED
    BY <1>4, <1>5, <2>1, <2>2
<1>8. ASSUME NEW j \in 1 .. k PROVE g.status[c[j]] = "ALLOCATED"
  <2>1. c[j] \in Addr
    BY <1>1 DEF Chain
  <2>2. CASE j = k
    BY <1>7, <2>2
  <2>3. CASE j # k
    <3>1. j \in 1 .. k - 1 /\ c[j] # p
      BY <1>1, <1>2, <2>3, ChainFacts
    <3>2. h.status[c[j]] = "ALLOCATED"
      BY <3>1 DEF Packed
    <3> QED
      BY <1>7, <2>1, <3>1, <3>2
  <2> QED
    BY <2>2, <2>3
<1>9. FreeLinked(g, k, c)
  <2>1. \A j \in 0 + 1 .. k : j \in 1 .. k
    OBVIOUS
  <2> QED
    BY <1>7, <1>8, <2>1 DEF FreeLinked, Follows
<1>10. RankedFree(g)
  BY <1>4, <1>5 DEF RankedFree
<1>11. h.region_end \in Int /\ p + 5 * h.last_block_size <= h.region_end /\ h.last_block_size >= 8
  <2>1. PICK r \in Regions : h.region_end = RegionEnd(r)
    BY <1>1 DEF Heaps
  <2>2. r \in Nat \ {0}
    BY Constants
  <2>3. \E b \in Nat : round_to(r, BLOCK_SIZE) = 8 * b
    BY <2>2, Rounding
  <2>4. h.region_end \in Int
    BY <2>1, <2>3 DEF RegionEnd, BLOCK_SIZE, BLOCK_HEADER
  <2> QED
    BY <2>4 DEF Packed, BLOCK_SIZE
<1>12. ASSUME NEW q \in Addr, n[q] # 0
       PROVE  q \in Headers(k, c) /\ g.status[q] = "ALLOCATED" /\ Fits(g, q, n[q])
  <2>1. CASE q = p
    <3>1. n[q] = asked /\ q \in Headers(k, c) /\ g.status[q] = "ALLOCATED" /\ g.next[q] = NULL
      BY <1>1, <1>2, <1>3, <1>7, <2>1 DEF Given
    <3>2. asked <= g.region_end - (q + BLOCK_HEADER) \/ g.size_of_last_allocate > g.last_block_size
      BY <1>2, <1>4, <1>5, <1>6, <1>11, <2>1 DEF BLOCK_HEADER
    <3> QED
      BY <3>1, <3>2 DEF Fits
  <2>2. CASE q # p
    <3>1. n[q] = l[q] /\ l[q] # 0
      BY <1>1, <1>12, <2>2 DEF Given
    <3>2. q \in Headers(k, c) /\ h.status[q] = "ALLOCATED" /\ Fits(h, q, l[q])
      BY <3>1 DEF Exact, Held
    <3>3. PICK j \in 1 .. k : q = c[j]
      BY <3>2 DEF Headers
    <3>4. j \in 1 .. k - 1
      BY <1>2, <2>2, <3>3
    <3>5. g.next[q] = h.next[q] /\ h.next[q] # NULL
      BY <1>3, <1>7, <3>3, <3>4
    <3>6. Fits(g, q, n[q])
      BY <3>1, <3>2, <3>5 DEF Fits
    <3>7. g.status[q] = "ALLOCATED"
      BY <1>7, <2>2, <3>2
    <3> QED
      BY <3>2, <3>6, <3>7
  <2> QED
    BY <2>1, <2>2
<1>13. Held(g, k, c, n)
  BY <1>12 DEF Held
<1>14. Packed(g, k, c)
  <2>1. \A j \in 1 .. k - 1 : j \in 1 .. k
    BY <1>2
  <2> QED
    BY <1>4, <1>5, <1>8, <2>1 DEF Packed
<1> QED
  BY <1>9, <1>10, <1>13, <1>14 DEF Exact

(* Before the first Mem_Free, they outlast the ranking. *)
LEMMA RanksExact ==
  ASSUME NEW h, NEW k, NEW c, NEW l, Sound(h, k, c, l), Exact(h, k, c, l), Packed(h, k, c),
         NEW r, r = Ranked(h), SameButRanks(h, r)
  PROVE  Exact(r, k, c, l) /\ Packed(r, k, c)
<1>1. r.largest # NULL /\ r.second_largest # NULL => r.largest = c[k] /\ h.status[c[k]] = "FREE"
  BY PackedRanks DEF Sound, Exact
<1>2. FreeLinked(r, k, c)
  BY DEF Exact, SameButRanks, FreeLinked, Follows
<1>3. RankedFree(r)
  BY <1>1 DEF SameButRanks, RankedFree
<1>4. Held(r, k, c, l)
  BY DEF Exact, SameButRanks, Held, Fits
<1>5. Packed(r, k, c)
  BY <1>1 DEF SameButRanks, Packed
<1> QED
  BY <1>2, <1>3, <1>4, <1>5 DEF Exact

(* The end of the region is a number. *)
LEMMA RegionEndInt ==
  ASSUME NEW h \in Heaps
  PROVE  h.region_end \in Int
<1>1. PICK r \in Regions : h.region_end = RegionEnd(r)
  BY DEF Heaps
<1>2. r \in Nat \ {0}
  BY Constants
<1>3. \E b \in Nat : round_to(r, BLOCK_SIZE) = 8 * b
  BY <1>2, Rounding
<1> QED
  BY <1>1, <1>3 DEF RegionEnd, BLOCK_SIZE, BLOCK_HEADER

(* A header that has room is written to an address. *)
LEMMA RoomInAddr ==
  ASSUME NEW h \in Heaps, NEW p \in Addr, NEW b \in Nat, HasRoom(h, p, 8 * b)
  PROVE  p + BLOCK_HEADER + 8 * b \in Addr
<1>1. PICK r \in Regions : h.region_end = RegionEnd(r)
  BY DEF Heaps
<1>2. PICK a \in Nat : p = 8 * a
  BY AddrType
<1>3. h.region_end \in Int
  BY RegionEndInt
<1>4. PICK e \in Int : e = RegionEnd(r)
  BY <1>1, <1>3
<1>5. a + 4 + b \in Nat /\ p + BLOCK_HEADER + 8 * b = 8 * (a + 4 + b) /\ 8 * (a + 4 + b) <= e
  BY <1>1, <1>2, <1>4 DEF HasRoom, BLOCK_HEADER, BLOCK_SIZE
<1>6. PICK j \in Nat : j = a + 4 + b
  BY <1>5
<1>7. 8 * j <= RegionEnd(r)
  BY <1>4, <1>5, <1>6
<1>8. 8 * j \in Addr
  BY <1>7, AddrOf
<1> QED
  BY <1>5, <1>6, <1>8

(* Before the first Mem_Free a split stays in the region. *)
LEMMA PackedRoom ==
  ASSUME NEW h, NEW k, NEW c, NEW l, Sound(h, k, c, l), Exact(h, k, c, l), Packed(h, k, c),
         k <= MaxCalls + 1, NEW size \in Nat, size >= BLOCK_SIZE,
         NEW x \in Candidates(h, size), Splits(h, x.at, size)
  PROVE  HasRoom(h, x.at, size)
<1>1. h \in Heaps /\ Chain(h, k, c)
  BY DEF Sound
<1>2. x.at = c[k] /\ k \in 1 .. k /\ c[k] \in Nat /\ k \in Nat
  BY <1>1, PackedCandidates, ChainFacts DEF Exact
<1>3. h.next[c[k]] = NULL
  BY <1>1, <1>2 DEF Chain
<1>4. h.last_block_size \in Int /\ h.region_end \in Int /\ c[k] # NULL
  BY <1>1, <1>2, RegionEndInt, ChainFacts DEF Heaps
<1>5. h.last_block_size >= size + BLOCK_SIZE
  BY <1>2, <1>3, <1>4 DEF Splits, get_block_size, BLOCK_HEADER, BLOCK_SIZE
<1>6. c[k] + 5 * h.last_block_size <= h.region_end
  BY DEF Packed
<1> QED
  BY <1>2, <1>4, <1>5, <1>6 DEF HasRoom, BLOCK_HEADER, BLOCK_SIZE

(* One call of Mem_Alloc that finds a block. *)
LEMMA AllocateKeeps ==
  ASSUME NEW h, NEW k, NEW c, NEW l, Sound(h, k, c, l), k <= MaxCalls + 1,
         NEW asked \in Nat \ {0}, NEW size, size = round_to(asked, BLOCK_SIZE),
         TakesLargest(h) \/ Ends(h.next_free, h.head_free),
         NEW x \in Candidates(h, size), Splits(h, x.at, size) => HasRoom(h, x.at, size),
         NEW r, r = (IF TakesLargest(h) THEN h ELSE Ranked(h)),
         NEW g, g = Allocate(r, x, asked), NEW n, n = Given(l, x.at, asked)
  PROVE  \E j \in {k, k + 1} : \E d :
           /\ Sound(g, j, d, n)
           /\ Exact(h, k, c, l) /\ Packed(h, k, c) => Exact(g, j, d, n) /\ Packed(g, j, d)
<1>1. h \in Heaps /\ Chain(h, k, c) /\ Closed(h, k, c) /\ k \in Nat /\ k \in 1 .. k
  BY ChainFacts DEF Sound
<1>2. PICK b \in Nat : size = 8 * b /\ asked <= 8 * b /\ b >= 1
  BY Rounding
<1>3. size \in Nat /\ size >= BLOCK_SIZE /\ asked \in Nat /\ asked <= size
  BY <1>2 DEF BLOCK_SIZE
<1>4. /\ SameButRanks(h, r)
      /\ Sound(r, k, c, l)
      /\ Exact(h, k, c, l) /\ Packed(h, k, c) => Exact(r, k, c, l) /\ Packed(r, k, c)
  <2>1. CASE TakesLargest(h)
    BY <1>1, <2>1 DEF SameButRanks
  <2>2. CASE ~TakesLargest(h)
    <3>1. PICK q : q = Ranked(h) /\ r = q
      BY <2>2
    <3>2. SameButRanks(h, q) /\ {q.largest, q.second_largest} \subseteq Headers(k, c) \cup {NULL}
      BY <1>1, <2>2, <3>1, RankedDoes
    <3>3. Sound(q, k, c, l)
      BY <3>2, RanksSound
    <3>4. Exact(h, k, c, l) /\ Packed(h, k, c) => Exact(q, k, c, l) /\ Packed(q, k, c)
      BY <3>1, <3>2, RanksExact
    <3> QED
      BY <3>1, <3>2, <3>3, <3>4
  <2> QED
    BY <2>1, <2>2
<1>5. PICK p, before : p = x.at /\ before = x.before
  OBVIOUS
<1>6. p \in Headers(k, c) /\ before \in Headers(k, c) \cup {NULL}
  BY <1>1, <1>5, CandidatesIn
<1>7. PICK i \in 1 .. k : c[i] = p
  BY <1>6 DEF Headers
<1>8. p \in Addr /\ p \in Nat /\ p # NULL
  BY <1>1, <1>6, <1>7, ChainFacts
<1>9. PICK bytes : bytes = get_block_size(h, p)
  OBVIOUS
<1>10. get_block_size(r, p) = bytes /\ (Splits(r, p, size) <=> Splits(h, p, size))
  BY <1>4, <1>9 DEF SameButRanks, get_block_size, Splits
<1>11. Exact(h, k, c, l) /\ Packed(h, k, c) =>
         p = c[k] /\ before = NULL /\ r.status[p] = "FREE"
  <2>1. Exact(h, k, c, l) /\ Packed(h, k, c) => x.at = c[k] /\ x.before = NULL /\ h.status[c[k]] = "FREE"
    BY <1>1, PackedCandidates DEF Exact
  <2> QED
    BY <1>4, <1>5, <2>1 DEF SameButRanks
<1>12. h.next[p] = c[i + 1]
  BY <1>1, <1>7 DEF Chain
<1>13. h.last_block_size \in Int /\ c[k + 1] = NULL
  BY <1>1 DEF Heaps, Chain
<1>14. PICK s : s = IF Splits(r, p, size) THEN Split(r, p, before, size)
                    ELSE TakeWhole(r, p, before, size)
  OBVIOUS
<1>15. g = Taken(s, p, asked)
  BY <1>5, <1>14 DEF Allocate, Taken
<1>16. PICK e : e = n /\ e = Given(l, p, asked)
  BY <1>5
<1>17. CASE Splits(r, p, size)
  <2>1. HasRoom(h, p, 8 * b)
    BY <1>2, <1>5, <1>10, <1>17
  <2>2. PICK m \in Addr : m = p + BLOCK_HEADER + size
    BY <1>1, <1>2, <1>8, <2>1, RoomInAddr
  <2>3. i < k => m + BLOCK_HEADER + BLOCK_SIZE <= c[i + 1]
    <3> SUFFICES ASSUME i < k PROVE m + BLOCK_HEADER + BLOCK_SIZE <= c[i + 1]
      OBVIOUS
    <3>1. i + 1 \in 1 .. k
      BY <1>1
    <3>2. c[i + 1] \in Nat /\ c[i + 1] # NULL
      BY <1>1, <3>1, ChainFacts
    <3>3. bytes = c[i + 1] - (p + BLOCK_HEADER) /\ bytes >= BLOCK_HEADER + size + BLOCK_SIZE
      BY <1>8, <1>9, <1>10, <1>12, <1>17, <3>2 DEF get_block_size, Splits
    <3> QED
      BY <1>3, <1>8, <2>2, <3>2, <3>3 DEF BLOCK_HEADER, BLOCK_SIZE
  <2>4. s = Split(r, p, before, size)
    BY <1>14, <1>17
  <2>5. Sound(g, k + 1, Inserted(c, k, i, m), e)
    BY <1>3, <1>4, <1>6, <1>7, <1>15, <1>16, <2>2, <2>3, <2>4, SplitSound
  <2>6. ASSUME Exact(h, k, c, l), Packed(h, k, c)
        PROVE  Exact(g, k + 1, Inserted(c, k, i, m), e) /\ Packed(g, k + 1, Inserted(c, k, i, m))
    <3>1. p = c[k] /\ before = NULL /\ r.status[p] = "FREE" /\ Exact(r, k, c, l) /\ Packed(r, k, c)
      BY <1>4, <1>11, <2>6
    <3>2. i = k
      BY <1>1, <1>7, <3>1, ChainFacts
    <3>3. r.last_block_size >= size + BLOCK_SIZE
      <4>1. h.next[p] = NULL
        BY <1>12, <1>13, <3>2
      <4>2. bytes = h.last_block_size /\ bytes >= 0 + size + BLOCK_SIZE
        BY <1>4, <1>8, <1>9, <1>10, <1>17, <4>1 DEF get_block_size, Splits, SameButRanks
      <4> QED
        BY <1>3, <1>4, <1>13, <4>2 DEF SameButRanks, BLOCK_SIZE
    <3>4. PICK d : d = Inserted(c, k, k, m)
      OBVIOUS
    <3>5. Exact(g, k + 1, d, e) /\ Packed(g, k + 1, d)
      BY <1>3, <1>4, <1>15, <1>16, <2>2, <2>4, <3>1, <3>3, <3>4, SplitExact
    <3> QED
      BY <3>2, <3>4, <3>5
  <2>7. PICK d : d = Inserted(c, k, i, m)
    OBVIOUS
  <2>8. /\ Sound(g, k + 1, d, e)
        /\ Exact(h, k, c, l) /\ Packed(h, k, c) => Exact(g, k + 1, d, e) /\ Packed(g, k + 1, d)
    BY <2>5, <2>6, <2>7
  <2> QED
    BY <1>16, <2>8
<1>18. CASE ~Splits(r, p, size)
  <2>1. s = TakeWhole(r, p, before, size)
    BY <1>14, <1>18
  <2>2. Sound(g, k, c, e)
    BY <1>3, <1>4, <1>6, <1>15, <1>16, <2>1, TakeWholeSound
  <2>3. ASSUME Exact(h, k, c, l), Packed(h, k, c)
        PROVE  Exact(g, k, c, e) /\ Packed(g, k, c)
    <3>1. p = c[k] /\ before = NULL /\ r.status[p] = "FREE" /\ Exact(r, k, c, l) /\ Packed(r, k, c)
      BY <1>4, <1>11, <2>3
    <3>2. i = k
      BY <1>1, <1>7, <3>1, ChainFacts
    <3>3. r.last_block_size < size + BLOCK_SIZE
      <4>1. h.next[p] = NULL
        BY <1>12, <1>13, <3>2
      <4>2. bytes = h.last_block_size /\ ~(bytes >= 0 + size + BLOCK_SIZE)
        BY <1>4, <1>8, <1>9, <1>10, <1>18, <4>1 DEF get_block_size, Splits, SameButRanks
      <4> QED
        BY <1>3, <1>4, <1>13, <4>2 DEF SameButRanks, BLOCK_SIZE
    <3> QED
      BY <1>3, <1>4, <1>15, <1>16, <2>1, <3>1, <3>3, TakeWholeExact
  <2> QED
    BY <1>16, <2>2, <2>3
<1> QED
  BY <1>17, <1>18

-----------------------------------------------------------------------------
(* Mem_Free without coalescing. *)

Relisted(h, p) == InsertFree(h, p, FALSE)

Freed(h, p) ==
  LET start == [h EXCEPT !.need_global_coalesce = TRUE]
  IN IF get_block_size(start, p) = -1 THEN start
     ELSE RankFreed(Relisted(ReturnSize(start, p), p), p)

FreedStatus(h, p) == [h.status EXCEPT ![p] = "FREE"]

(* p is linked behind the block before, or at the head. *)
FreedNextFree(h, p, before) ==
  IF before = NULL THEN [h.next_free EXCEPT ![p] = h.head_free]
  ELSE [h.next_free EXCEPT ![p] = h.next_free[before], ![before] = p]

(* Every field after ReturnSize. *)
LEMMA ReturnSizeDoes ==
  ASSUME NEW h \in Heaps, NEW p \in Addr, NEW g, g = ReturnSize(h, p), get_block_size(h, p) \in Int
  PROVE  /\ g \in Heaps
         /\ g.next = h.next /\ g.prev = h.prev /\ g.status = h.status /\ g.next_free = h.next_free
         /\ g.head_free = h.head_free /\ g.largest = h.largest
         /\ g.second_largest = h.second_largest /\ g.region_end = h.region_end
         /\ h.next[p] # NULL => /\ g.last_block_size = h.last_block_size
                                /\ g.size_of_last_allocate = h.size_of_last_allocate
<1>1. CASE h.status[p] # "ALLOCATED"
  BY <1>1 DEF ReturnSize
<1>2. CASE h.status[p] = "ALLOCATED" /\ h.next[p] # NULL
  <2>0. PICK bytes \in Int : bytes = get_block_size(h, p)
    OBVIOUS
  <2>1. PICK n \in Int : n = h.remaining_size + bytes
    BY DEF Heaps
  <2>2. g = [h EXCEPT !.remaining_size = n]
    BY <1>2, <2>0, <2>1 DEF ReturnSize
  <2> QED
    BY <2>2 DEF Heaps
<1>3. CASE h.status[p] = "ALLOCATED" /\ h.next[p] = NULL
  <2>1. PICK n \in Int : n = h.remaining_size + h.size_of_last_allocate
    BY DEF Heaps
  <2>2. PICK a \in Int, b \in Int : a = h.size_of_last_allocate /\ b = -1
    BY DEF Heaps
  <2>3. g = [h EXCEPT !.remaining_size = n, !.last_block_size = a, !.size_of_last_allocate = b]
    BY <1>3, <2>1, <2>2 DEF ReturnSize
  <2>4. /\ g \in Heaps
        /\ g.next = h.next /\ g.prev = h.prev /\ g.status = h.status /\ g.next_free = h.next_free
        /\ g.head_free = h.head_free /\ g.largest = h.largest
        /\ g.second_largest = h.second_largest /\ g.region_end = h.region_end
    BY <2>3 DEF Heaps
  <2> QED
    BY <1>3, <2>4
<1> QED
  BY <1>1, <1>2, <1>3

(* Every field after InsertFree. *)
LEMMA InsertFreeDoes ==
  ASSUME NEW h \in Heaps, NEW p \in Addr, NEW before \in Ptr, before = prevFree(h, p), before # p,
         NEW g, g = Relisted(h, p)
  PROVE  /\ g \in Heaps
         /\ g.next = h.next /\ g.prev = h.prev
         /\ g.status = FreedStatus(h, p) /\ g.next_free = FreedNextFree(h, p, before)
         /\ g.head_free = (IF before = NULL THEN p ELSE h.head_free)
         /\ g.largest = h.largest
         /\ g.second_largest = h.second_largest /\ g.region_end = h.region_end
         /\ g.last_block_size = h.last_block_size
         /\ g.size_of_last_allocate = h.size_of_last_allocate
<1>1. PICK behind : behind = (IF before = NULL THEN h.head_free ELSE h.next_free[before])
  OBVIOUS
<1>2. behind \in Ptr
  BY <1>1 DEF Heaps, Ptr
<1>3. PICK s, f : s = FreedStatus(h, p) /\ f = [h.next_free EXCEPT ![p] = behind]
  OBVIOUS
<1>4. s \in [Addr -> {"FREE", "ALLOCATED"}] /\ f \in [Addr -> Ptr]
  BY <1>2, <1>3 DEF Heaps, FreedStatus
<1>5. PICK e : e = [h EXCEPT !.status = s, !.next_free = f]
  OBVIOUS
<1>6. /\ e \in Heaps
      /\ e.next = h.next /\ e.prev = h.prev /\ e.status = s /\ e.next_free = f
      /\ e.head_free = h.head_free
      /\ e.largest = h.largest
      /\ e.second_largest = h.second_largest /\ e.region_end = h.region_end
      /\ e.last_block_size = h.last_block_size
      /\ e.size_of_last_allocate = h.size_of_last_allocate
  BY <1>4, <1>5 DEF Heaps
<1>7. g = Relink(e, before, p)
  <2>1. [h EXCEPT !.status[p] = "FREE", !.next_free[p] = behind] = e
    BY <1>3, <1>5 DEF FreedStatus
  <2> QED
    BY <1>1, <2>1 DEF InsertFree, Relisted
<1>8. CASE before = NULL
  <2>1. g = [e EXCEPT !.head_free = p]
    BY <1>7, <1>8 DEF Relink
  <2>2. f = FreedNextFree(h, p, before)
    BY <1>1, <1>3, <1>8 DEF FreedNextFree
  <2> QED
    BY <1>3, <1>6, <1>8, <2>1, <2>2 DEF Heaps, Ptr
<1>9. CASE before # NULL
  <2>1. PICK x : x = [f EXCEPT ![before] = p]
    OBVIOUS
  <2>2. g = [e EXCEPT !.next_free = x]
    BY <1>6, <1>7, <1>9, <2>1 DEF Relink
  <2>3. x = FreedNextFree(h, p, before)
    BY <1>1, <1>3, <1>9, <2>1 DEF FreedNextFree
  <2>4. x \in [Addr -> Ptr]
    BY <1>4, <1>9, <2>1 DEF Ptr
  <2> QED
    BY <1>3, <1>6, <1>9, <2>2, <2>3, <2>4 DEF Heaps
<1> QED
  BY <1>8, <1>9

(* Every field after RankFreed. *)
LEMMA RankFreedDoes ==
  ASSUME NEW h \in Heaps, NEW p \in Ptr, NEW g, g = RankFreed(h, p)
  PROVE  /\ SameButRanks(h, g)
         /\ g.largest \in {h.largest, p} /\ g.second_largest \in {h.largest, h.second_largest, p}
         /\ h.largest = NULL \/ h.second_largest = NULL => g = h
<1>1. CASE g = [h EXCEPT !.second_largest = h.largest, !.largest = p]
           /\ ~(h.largest = NULL \/ h.second_largest = NULL)
  BY <1>1 DEF Heaps, SameButRanks
<1>2. CASE g = [h EXCEPT !.second_largest = p] /\ ~(h.largest = NULL \/ h.second_largest = NULL)
  BY <1>2 DEF Heaps, SameButRanks
<1>3. CASE g = h
  BY <1>3 DEF Heaps, SameButRanks
<1> QED
  BY <1>1, <1>2, <1>3 DEF RankFreed

(* A block's size is a number. *)
LEMMA BlockSizeInt ==
  ASSUME NEW h \in Heaps, NEW p \in Addr
  PROVE  get_block_size(h, p) \in Int
<1>1. p \in Nat /\ p # NULL /\ h.last_block_size \in Int /\ h.next[p] \in Addr \cup {NULL}
  BY AddrType DEF Heaps, Ptr
<1>2. CASE h.next[p] = NULL
  BY <1>1, <1>2 DEF get_block_size
<1>3. CASE h.next[p] # NULL
  <2>1. h.next[p] \in Nat
    BY <1>1, <1>3, AddrType
  <2>2. get_block_size(h, p) = h.next[p] - (p + BLOCK_HEADER)
    BY <1>1, <1>3 DEF get_block_size
  <2> QED
    BY <1>1, <2>1, <2>2 DEF BLOCK_HEADER
<1> QED
  BY <1>2, <1>3

(* The free list after a block was put into it. *)
LEMMA FreedLinked ==
  ASSUME NEW h, NEW k, NEW c, h \in Heaps, Chain(h, k, c), FreeLinked(h, k, c),
         k <= MaxCalls + 1, NEW i \in 1 .. k, NEW p, c[i] = p, h.status[p] # "FREE",
         NEW before, before = prevFree(h, p),
         NEW g, g.status = FreedStatus(h, p), g.next_free = FreedNextFree(h, p, before),
         g.head_free = (IF before = NULL THEN p ELSE h.head_free)
  PROVE  FreeLinked(g, k, c)
<1>1. /\ k \in Nat /\ i \in Nat /\ i >= 1 /\ i <= k
      /\ \A j \in 1 .. k : c[j] \in Addr /\ c[j] # NULL
      /\ \A a, b \in 1 .. k : c[a] = c[b] => a = b
  <2>1. \A j \in 1 .. k : c[j] \in Addr
    BY DEF Chain
  <2> QED
    BY <2>1, ChainFacts
<1>2. /\ h.next_free \in [Addr -> Ptr] /\ h.status \in [Addr -> {"FREE", "ALLOCATED"}]
  BY DEF Heaps
<1>3. \A j \in 1 .. k : g.status[c[j]] = "FREE" <=> j = i \/ h.status[c[j]] = "FREE"
  BY <1>1, <1>2 DEF FreedStatus
<1>4. \/ before = NULL /\ \A j \in 1 .. i - 1 : h.status[c[j]] # "FREE"
      \/ \E b \in 1 .. i - 1 :
           /\ before = c[b] /\ h.status[c[b]] = "FREE"
           /\ \A j \in b + 1 .. i - 1 : h.status[c[j]] # "FREE"
  BY PrevFree
(* A block behind i follows i if it followed a block before i with no free one between. *)
<1>5. ASSUME NEW b \in 0 .. i - 1, \A j \in b + 1 .. i - 1 : h.status[c[j]] # "FREE",
             NEW q, Follows(h, k, c, b, q)
      PROVE  Follows(g, k, c, i, q) /\ Follows(g, k, c, b, p)
  <2>1. \A j \in b + 1 .. k : h.status[c[j]] = "FREE" => j \in i + 1 .. k
    <3> TAKE j \in b + 1 .. k
    <3>1. j \in b + 1 .. i - 1 \/ j = i \/ j \in i + 1 .. k
      BY <1>1
    <3> QED
      BY <1>5, <3>1
  <2>2. \A j \in i + 1 .. k : j \in b + 1 .. k /\ j \in 1 .. k /\ j # i
    BY <1>1
  <2>3. \A j \in i + 1 .. k : g.status[c[j]] = h.status[c[j]]
    BY <1>1, <1>2, <2>2 DEF FreedStatus
  <2>4. Follows(g, k, c, i, q)
    <3>1. CASE q = NULL /\ \A j \in b + 1 .. k : h.status[c[j]] # "FREE"
      BY <2>2, <2>3, <3>1 DEF Follows
    <3>2. ASSUME NEW j \in b + 1 .. k, q = c[j], h.status[c[j]] = "FREE",
                 \A n \in b + 1 .. j - 1 : h.status[c[n]] # "FREE"
          PROVE  Follows(g, k, c, i, q)
      <4>1. j \in i + 1 .. k
        BY <2>1, <3>2
      <4>2. \A n \in i + 1 .. j - 1 : n \in b + 1 .. j - 1 /\ n \in i + 1 .. k
        BY <1>1, <4>1
      <4> QED
        BY <2>3, <3>2, <4>1, <4>2 DEF Follows
    <3> QED
      BY <1>5, <3>1, <3>2 DEF Follows
  <2>5. Follows(g, k, c, b, p)
    <3>1. i \in b + 1 .. k
      BY <1>1
    <3>2. \A n \in b + 1 .. i - 1 : n \in 1 .. k /\ n # i
      BY <1>1
    <3>3. \A n \in b + 1 .. i - 1 : g.status[c[n]] # "FREE"
      BY <1>3, <1>5, <3>2
    <3> QED
      BY <1>3, <3>1, <3>3 DEF Follows
  <2> QED
    BY <2>4, <2>5
(* What follows another block stays the same. *)
<1>6. ASSUME NEW a \in 0 .. k, NEW q, Follows(h, k, c, a, q),
             a < i => \E j \in a + 1 .. i - 1 : h.status[c[j]] = "FREE"
      PROVE  Follows(g, k, c, a, q)
  <2>1. CASE a >= i
    <3>1. \A j \in a + 1 .. k : j \in 1 .. k /\ j # i
      BY <1>1, <2>1
    <3>2. \A j \in a + 1 .. k : g.status[c[j]] = "FREE" <=> h.status[c[j]] = "FREE"
      BY <1>3, <3>1
    <3>3. CASE q = NULL /\ \A j \in a + 1 .. k : h.status[c[j]] # "FREE"
      BY <3>2, <3>3 DEF Follows
    <3>4. ASSUME NEW j \in a + 1 .. k, q = c[j], h.status[c[j]] = "FREE",
                 \A n \in a + 1 .. j - 1 : h.status[c[n]] # "FREE"
          PROVE  Follows(g, k, c, a, q)
      <4>1. \A n \in a + 1 .. j - 1 : n \in a + 1 .. k
        BY <1>1
      <4> QED
        BY <3>2, <3>4, <4>1 DEF Follows
    <3> QED
      BY <1>6, <3>3, <3>4 DEF Follows
  <2>2. CASE a < i
    <3>1. PICK m \in a + 1 .. i - 1 : h.status[c[m]] = "FREE"
      BY <1>6, <2>2
    <3>2. m \in a + 1 .. k /\ m < i
      BY <1>1
    <3>3. PICK j \in a + 1 .. k : /\ q = c[j] /\ h.status[c[j]] = "FREE"
                                  /\ \A n \in a + 1 .. j - 1 : h.status[c[n]] # "FREE"
      BY <1>6, <3>1, <3>2 DEF Follows
    <3>4. j <= m
      <4>1. ~(m \in a + 1 .. j - 1)
        BY <3>1, <3>3
      <4> QED
        BY <1>1, <3>2, <4>1
    <3>5. j \in 1 .. k /\ \A n \in a + 1 .. j - 1 : n \in 1 .. k /\ n # i
      BY <1>1, <3>2, <3>4
    <3>6. \A n \in a + 1 .. j - 1 : g.status[c[n]] # "FREE"
      BY <1>3, <3>3, <3>5
    <3> QED
      BY <1>3, <3>3, <3>5, <3>6 DEF Follows
  <2> QED
    BY <1>1, <2>1, <2>2
<1>7. ASSUME NEW j \in 1 .. k, j # i, before # c[j] PROVE g.next_free[c[j]] = h.next_free[c[j]]
  BY <1>1, <1>2, <1>7 DEF FreedNextFree
<1>8. CASE before = NULL /\ \A j \in 1 .. i - 1 : h.status[c[j]] # "FREE"
  <2>1. 0 \in 0 .. i - 1 /\ 0 + 1 = 1
    BY <1>1
  <2>2. Follows(g, k, c, i, h.head_free) /\ Follows(g, k, c, 0, p)
    BY <1>5, <1>8, <2>1 DEF FreeLinked
  <2>3. g.head_free = p /\ g.next_free[p] = h.head_free
    BY <1>1, <1>2, <1>8 DEF FreedNextFree
  <2>4. ASSUME NEW j \in 1 .. k, g.status[c[j]] = "FREE" PROVE Follows(g, k, c, j, g.next_free[c[j]])
    <3>1. CASE j = i
      BY <2>2, <2>3, <3>1
    <3>2. CASE j # i
      <4>1. h.status[c[j]] = "FREE" /\ Follows(h, k, c, j, h.next_free[c[j]])
        BY <1>3, <2>4, <3>2 DEF FreeLinked
      <4>2. ~(j < i) /\ j \in 0 .. k
        <5>1. j < i => j \in 1 .. i - 1
          BY <1>1
        <5> QED
          BY <1>1, <1>8, <4>1, <5>1
      <4>3. g.next_free[c[j]] = h.next_free[c[j]]
        BY <1>1, <1>7, <1>8, <3>2
      <4> QED
        BY <1>6, <4>1, <4>2, <4>3
    <3> QED
      BY <3>1, <3>2
  <2> QED
    BY <2>2, <2>3, <2>4 DEF FreeLinked
<1>9. ASSUME NEW b \in 1 .. i - 1, before = c[b], h.status[c[b]] = "FREE",
             \A j \in b + 1 .. i - 1 : h.status[c[j]] # "FREE"
      PROVE  FreeLinked(g, k, c)
  <2>1. b \in 0 .. i - 1 /\ b \in 1 .. k /\ b # i /\ b < i
    BY <1>1
  <2>2. Follows(h, k, c, b, h.next_free[c[b]])
    BY <1>9, <2>1 DEF FreeLinked
  <2>3. Follows(g, k, c, i, h.next_free[c[b]]) /\ Follows(g, k, c, b, p)
    BY <1>5, <1>9, <2>1, <2>2
  <2>4. before # NULL /\ before # p /\ before \in Addr /\ p \in Addr
    BY <1>1, <1>9, <2>1
  <2>5. /\ g.head_free = h.head_free
        /\ g.next_free[p] = h.next_free[c[b]] /\ g.next_free[c[b]] = p
    BY <1>2, <1>9, <2>4 DEF FreedNextFree
  <2>6. Follows(g, k, c, 0, g.head_free)
    <3>1. Follows(h, k, c, 0, h.head_free) /\ b \in 0 + 1 .. i - 1 /\ 0 \in 0 .. k
      BY <1>1 DEF FreeLinked
    <3> QED
      BY <1>6, <1>9, <2>5, <3>1
  <2>7. ASSUME NEW j \in 1 .. k, g.status[c[j]] = "FREE" PROVE Follows(g, k, c, j, g.next_free[c[j]])
    <3>1. CASE j = i
      BY <2>3, <2>5, <3>1
    <3>2. CASE j = b
      BY <2>3, <2>5, <3>2
    <3>3. CASE j # i /\ j # b
      <4>1. h.status[c[j]] = "FREE" /\ Follows(h, k, c, j, h.next_free[c[j]])
        BY <1>3, <2>7, <3>3 DEF FreeLinked
      <4>2. j < i => b \in j + 1 .. i - 1
        <5>1. j < i /\ b < j => j \in b + 1 .. i - 1
          BY <1>1
        <5> QED
          BY <1>1, <1>9, <3>3, <4>1, <5>1
      <4>3. g.next_free[c[j]] = h.next_free[c[j]]
        BY <1>1, <1>7, <1>9, <2>1, <3>3
      <4>4. j \in 0 .. k
        BY <1>1
      <4> QED
        BY <1>6, <1>9, <4>1, <4>2, <4>3, <4>4
    <3> QED
      BY <3>1, <3>2, <3>3
  <2> QED
    BY <2>6, <2>7 DEF FreeLinked
<1> QED
  BY <1>4, <1>8, <1>9

(* Sound and Exact outlast a Mem_Free that does not coalesce: the freed block enters the
   free list behind the free block that comes before it in the chain. *)
LEMMA FreeKeeps ==
  ASSUME NEW h, NEW k, NEW c, NEW l, Sound(h, k, c, l), k <= MaxCalls + 1,
         NEW p \in Addr, l[p] # 0, NEW g, g = Freed(h, p),
         NEW n \in [Addr -> Nat], n[p] = 0, \A q \in Addr : q # p => n[q] = l[q]
  PROVE  Sound(g, k, c, n) /\ (Exact(h, k, c, l) => Exact(g, k, c, n))
<1>1. h \in Heaps /\ Chain(h, k, c) /\ Closed(h, k, c) /\ Headers(k, c) \subseteq Addr /\ k \in Nat
  BY ChainFacts DEF Sound
<1>2. PICK i \in 1 .. k : c[i] = p
  BY DEF Sound, Headers
<1>3. p \in Headers(k, c)
  BY DEF Sound
<1>4. \A q \in Addr : n[q] # 0 => q # p /\ l[q] = n[q] /\ q \in Headers(k, c)
  BY DEF Sound
<1>5. PICK a : a = [h EXCEPT !.need_global_coalesce = TRUE]
  OBVIOUS
<1>6. /\ SameButRanks(h, a)
      /\ a.largest = h.largest /\ a.second_largest = h.second_largest
  BY <1>1, <1>5 DEF Heaps, SameButRanks
<1>7. Sound(a, k, c, n)
  <2>1. Sound(a, k, c, l)
    BY <1>1, <1>6, RanksSound DEF Closed
  <2> QED
    BY <1>4, <2>1 DEF Sound
<1>8. ASSUME Exact(h, k, c, l)
      PROVE  FreeLinked(a, k, c) /\ RankedFree(a) /\ Held(a, k, c, l) /\ Held(a, k, c, n)
  <2>1. FreeLinked(a, k, c)
    BY <1>6, <1>8 DEF Exact, SameButRanks, FreeLinked, Follows
  <2>2. RankedFree(a)
    BY <1>6, <1>8 DEF Exact, SameButRanks, RankedFree
  <2>3. Held(a, k, c, l)
    BY <1>6, <1>8 DEF Exact, SameButRanks, Held, Fits
  <2>4. Held(a, k, c, n)
    BY <1>4, <2>3 DEF Held
  <2> QED
    BY <2>1, <2>2, <2>3, <2>4
<1>9. CASE get_block_size(a, p) = -1
  <2>1. g = a
    BY <1>5, <1>9 DEF Freed
  <2> QED
    BY <1>7, <1>8, <2>1 DEF Exact
<1>10. CASE get_block_size(a, p) # -1
  <2>1. PICK s, e, before : /\ s = ReturnSize(a, p) /\ e = Relisted(s, p)
                            /\ before = prevFree(s, p)
    OBVIOUS
  <2>2. g = RankFreed(e, p)
    BY <1>5, <1>10, <2>1 DEF Freed
  <2>3. a \in Heaps
    BY <1>6 DEF SameButRanks
  <2>4. /\ s \in Heaps
        /\ s.next = a.next /\ s.prev = a.prev /\ s.status = a.status /\ s.next_free = a.next_free
        /\ s.head_free = a.head_free /\ s.largest = a.largest
        /\ s.second_largest = a.second_largest /\ s.region_end = a.region_end
        /\ a.next[p] # NULL => /\ s.last_block_size = a.last_block_size
                               /\ s.size_of_last_allocate = a.size_of_last_allocate
    <3>1. get_block_size(a, p) \in Int
      BY <2>3, BlockSizeInt
    <3> QED
      BY <2>1, <2>3, <3>1, ReturnSizeDoes
  <2>5. Chain(a, k, c) /\ Closed(a, k, c)
    BY <1>7 DEF Sound
  <2>6. Chain(s, k, c)
    BY <2>4, <2>5, ChainSame
  <2>7. before \in Headers(k, c) \cup {NULL} /\ before # p /\ before \in Ptr
    <3>1. before \in Headers(k, c) \cup {NULL}
      BY <1>3, <2>1, <2>6, PrevFreeIn
    <3>2. before = NULL \/ \E b \in 1 .. i - 1 : before = c[b]
      BY <1>2, <2>1, <2>6, PrevFree
    <3>3. \A b \in 1 .. i - 1 : b \in 1 .. k /\ b # i
      BY <1>1
    <3>4. p # NULL
      BY AddrType
    <3>5. \A b \in 1 .. i - 1 : c[b] # c[i]
      BY <1>1, <3>3, ChainFacts
    <3> QED
      BY <1>1, <1>2, <3>1, <3>2, <3>4, <3>5 DEF Ptr
  <2>8. /\ e \in Heaps
        /\ e.next = s.next /\ e.prev = s.prev
        /\ e.status = FreedStatus(s, p) /\ e.next_free = FreedNextFree(s, p, before)
        /\ e.head_free = (IF before = NULL THEN p ELSE s.head_free)
        /\ e.largest = s.largest
        /\ e.second_largest = s.second_largest /\ e.region_end = s.region_end
        /\ e.last_block_size = s.last_block_size
        /\ e.size_of_last_allocate = s.size_of_last_allocate
    BY <2>1, <2>4, <2>7, InsertFreeDoes
  <2>9. /\ SameButRanks(e, g)
        /\ g.largest \in {e.largest, p} /\ g.second_largest \in {e.largest, e.second_largest, p}
        /\ e.largest = NULL \/ e.second_largest = NULL => g = e
    <3>1. p \in Ptr
      BY DEF Ptr
    <3> QED
      BY <2>2, <2>8, <3>1, RankFreedDoes
  <2>10. Chain(g, k, c)
    <3>1. g.next = s.next /\ g.prev = s.prev
      BY <2>8, <2>9 DEF SameButRanks
    <3> QED
      BY <2>6, <3>1, ChainSame
  <2>11. g.status = FreedStatus(s, p) /\ g.next_free = FreedNextFree(s, p, before)
         /\ g.head_free = (IF before = NULL THEN p ELSE s.head_free)
    BY <2>8, <2>9 DEF SameButRanks
  <2>12. Closed(g, k, c)
    <3>1. ASSUME NEW q \in Headers(k, c) PROVE g.next_free[q] \in Headers(k, c) \cup {NULL}
      <4>1. s.next_free \in [Addr -> Ptr] /\ q \in Addr
        BY <1>1, <2>4 DEF Heaps
      <4>2. s.next_free[q] \in Headers(k, c) \cup {NULL} /\ s.head_free \in Headers(k, c) \cup {NULL}
        BY <2>4, <2>5 DEF Closed
      <4>3. before # NULL => s.next_free[before] \in Headers(k, c) \cup {NULL}
        BY <2>4, <2>5, <2>7 DEF Closed
      <4> QED
        BY <1>3, <2>11, <4>1, <4>2, <4>3 DEF FreedNextFree
    <3>2. {s.head_free, s.largest, s.second_largest} \subseteq Headers(k, c) \cup {NULL}
      BY <2>4, <2>5 DEF Closed
    <3>3. {g.head_free, g.largest, g.second_largest} \subseteq Headers(k, c) \cup {NULL}
      BY <1>3, <2>8, <2>9, <2>11, <3>2
    <3> QED
      BY <3>1, <3>3 DEF Closed
  <2>13. Sound(g, k, c, n)
    BY <1>4, <2>9, <2>10, <2>12 DEF Sound, SameButRanks
  <2>14. ASSUME Exact(h, k, c, l) PROVE Exact(g, k, c, n)
    <3>1. s.status[p] # "FREE"
      <4>1. a.status[p] = "ALLOCATED"
        BY <1>8, <2>14 DEF Held
      <4> QED
        BY <2>4, <4>1
    <3>2. FreeLinked(s, k, c)
      BY <1>8, <2>4, <2>14 DEF FreeLinked, Follows
    <3>3. FreeLinked(g, k, c)
      BY <1>2, <2>1, <2>4, <2>6, <2>11, <3>1, <3>2, FreedLinked
    <3>4. s.status \in [Addr -> {"FREE", "ALLOCATED"}]
      BY <2>4 DEF Heaps
    <3>5. g.status[p] = "FREE" /\ \A q \in Addr : q # p => g.status[q] = s.status[q]
      BY <2>11, <3>4 DEF FreedStatus
    <3>6. RankedFree(g)
      <4>1. CASE e.largest = NULL \/ e.second_largest = NULL
        BY <2>9, <4>1 DEF RankedFree
      <4>2. CASE e.largest # NULL /\ e.second_largest # NULL
        <5>1. a.largest # NULL /\ a.second_largest # NULL
          BY <2>4, <2>8, <4>2
        <5>2. a.status[a.largest] = "FREE" /\ a.largest \in Addr
          BY <1>1, <1>8, <2>5, <2>14, <5>1 DEF RankedFree, Closed
        <5>3. s.status[e.largest] = "FREE" /\ e.largest \in Addr
          BY <2>4, <2>8, <5>2
        <5> QED
          BY <2>9, <3>5, <5>3 DEF RankedFree
      <4> QED
        BY <4>1, <4>2
    <3>7. ASSUME NEW q \in Addr, n[q] # 0
          PROVE  q \in Headers(k, c) /\ g.status[q] = "ALLOCATED" /\ Fits(g, q, n[q])
      <4>1. q # p /\ l[q] = n[q] /\ q \in Headers(k, c)
        BY <1>4, <3>7
      <4>2. a.status[q] = "ALLOCATED" /\ Fits(a, q, n[q])
        BY <1>8, <2>14, <3>7 DEF Held
      <4>3. g.next = a.next /\ g.region_end = a.region_end
            /\ g.last_block_size = s.last_block_size
            /\ g.size_of_last_allocate = s.size_of_last_allocate
        BY <2>4, <2>8, <2>9 DEF SameButRanks
      <4>4. a.next[q] = NULL => a.next[p] # NULL
        <5> SUFFICES ASSUME a.next[q] = NULL, a.next[p] = NULL PROVE FALSE
          OBVIOUS
        <5>1. PICK j \in 1 .. k : q = c[j]
          BY <4>1 DEF Headers
        <5>2. \A x \in 1 .. k : a.next[c[x]] = c[x + 1]
          BY <2>5 DEF Chain
        <5>3. \A x \in 1 .. k : x # k => x + 1 \in 1 .. k
          BY <1>1
        <5>4. \A x \in 1 .. k : c[x] # NULL
          BY <1>1, ChainFacts
        <5>5. j = k /\ i = k
          BY <1>2, <5>1, <5>2, <5>3, <5>4
        <5> QED
          BY <1>2, <4>1, <5>1, <5>5
      <4>5. Fits(g, q, n[q])
        <5>1. CASE a.next[q] = NULL
          BY <2>4, <4>2, <4>3, <4>4, <5>1 DEF Fits
        <5>2. CASE a.next[q] # NULL
          BY <4>2, <4>3, <5>2 DEF Fits
        <5> QED
          BY <5>1, <5>2
      <4> QED
        BY <2>4, <3>5, <4>1, <4>2, <4>5
    <3>8. Held(g, k, c, n)
      BY <3>7 DEF Held
    <3> QED
      BY <3>3, <3>6, <3>8 DEF Exact
  <2> QED
    BY <2>13, <2>14
<1> QED
  BY <1>9, <1>10

-----------------------------------------------------------------------------
(* The steps. *)

(* What is known of the heap while the client has not asked for coalescing. *)
Kept(h, l, u, o, k, c) ==
  /\ Sound(h, k, c, l)
  /\ u \in {"allocates", "frees"} => Exact(h, k, c, l) /\ o # "outside"
  /\ u = "allocates" => Packed(h, k, c)

IInv ==
  /\ calls \in 0 .. MaxCalls
  /\ usage \in {"allocates", "frees", "reuses", "coalesces"}
  /\ usage # "coalesces" =>
       \E k \in 1 .. calls + 1 : \E c : Kept(heap, live, usage, outcome, k, c)

(* Mem_Init leaves one free block, and five bytes of the region for each byte of it. *)
LEMMA InitKept ==
  ASSUME Init
  PROVE  IInv
<1>1. PICK s \in Regions :
        heap = [next |-> [a \in Addr |-> NULL], prev |-> [a \in Addr |-> NULL],
                next_free |-> [a \in Addr |-> NULL], status |-> [a \in Addr |-> "FREE"],
                head_free |-> 0, largest |-> NULL, second_largest |-> NULL,
                region_end |-> RegionEnd(s),
                remaining_size |-> s,
                last_block_size |-> round_to(s, BLOCK_SIZE),
                size_of_last_allocate |-> 0, need_global_coalesce |-> FALSE]
  BY DEF Init
<1>2. s \in Nat \ {0}
  BY Constants
<1>3. PICK b \in Nat : round_to(s, BLOCK_SIZE) = 8 * b /\ b >= 1
  BY <1>2, Rounding
<1>4. RegionEnd(s) = 40 * b
  BY <1>3 DEF RegionEnd, BLOCK_SIZE, BLOCK_HEADER
<1>5. 0 \in Addr
  <2>1. 8 * 0 <= RegionEnd(s)
    BY <1>4
  <2>2. PICK z \in Nat : z = 0
    OBVIOUS
  <2>3. 8 * z \in Addr
    BY <2>1, <2>2, AddrOf
  <2> QED
    BY <2>2, <2>3
<1>6. PICK c : c = [i \in 0 .. 2 |-> IF i = 1 THEN 0 ELSE NULL]
  OBVIOUS
<1>7. PICK k : k = 1
  OBVIOUS
<1>8. c \in [0 .. k + 1 -> Ptr] /\ c[0] = NULL /\ c[1] = 0 /\ c[2] = NULL
  BY <1>5, <1>6, <1>7 DEF Ptr
<1>9. heap \in Heaps
  <2>1. [a \in Addr |-> NULL] \in [Addr -> Ptr] /\ 0 \in Ptr /\ NULL \in Ptr
    BY <1>5 DEF Ptr
  <2>2. [a \in Addr |-> "FREE"] \in [Addr -> {"FREE", "ALLOCATED"}]
    OBVIOUS
  <2>3. RegionEnd(s) \in {RegionEnd(r) : r \in Regions}
    OBVIOUS
  <2>4. round_to(s, BLOCK_SIZE) \in Int /\ s \in Int /\ 0 \in Int
    BY <1>2, <1>3
  <2> QED
    BY <1>1, <2>1, <2>2, <2>3, <2>4 DEF Heaps
<1>10. heap.next[0] = NULL /\ heap.prev[0] = NULL /\ heap.next_free[0] = NULL
       /\ heap.status[0] = "FREE" /\ heap.head_free = 0 /\ heap.largest = NULL
       /\ heap.second_largest = NULL
  BY <1>1, <1>5
<1>11. \A i \in 1 .. k : i = 1
  BY <1>7
<1>12. Headers(k, c) = {0}
  BY <1>7, <1>8, <1>11 DEF Headers
<1>13. Chain(heap, k, c)
  BY <1>5, <1>7, <1>8, <1>10, <1>11 DEF Chain
<1>14. Closed(heap, k, c)
  BY <1>10, <1>12 DEF Closed
<1>15. live \in [Addr -> Nat] /\ \A p \in Addr : live[p] = 0
  BY DEF Init
<1>16. FreeLinked(heap, k, c)
  <2>1. Follows(heap, k, c, 0, heap.head_free)
    <3>1. 1 \in 0 + 1 .. k /\ \A j \in 0 + 1 .. 1 - 1 : FALSE
      BY <1>7
    <3> QED
      BY <1>8, <1>10, <3>1 DEF Follows
  <2>2. Follows(heap, k, c, 1, heap.next_free[c[1]])
    <3>1. \A j \in 1 + 1 .. k : FALSE
      BY <1>7
    <3> QED
      BY <1>8, <1>10, <3>1 DEF Follows
  <2> QED
    BY <1>11, <2>1, <2>2 DEF FreeLinked
<1>17. Exact(heap, k, c, live)
  BY <1>10, <1>15, <1>16 DEF Exact, RankedFree, Held
<1>18. Packed(heap, k, c)
  <2>1. \A i \in 1 .. k - 1 : FALSE
    BY <1>7
  <2>2. heap.last_block_size = 8 * b /\ heap.region_end = 40 * b
    BY <1>1, <1>3, <1>4
  <2>3. c[k] = 0
    BY <1>7, <1>8
  <2> QED
    BY <1>3, <1>10, <2>1, <2>2, <2>3 DEF Packed, BLOCK_SIZE
<1>19. Kept(heap, live, usage, outcome, k, c)
  BY <1>9, <1>13, <1>14, <1>15, <1>17, <1>18 DEF Kept, Sound, Init
<1>20. calls = 0 /\ usage = "allocates" /\ 0 \in 0 .. MaxCalls /\ k \in 1 .. calls + 1
  BY <1>7, Constants DEF Init
<1> QED
  BY <1>19, <1>20 DEF IInv

(* A request that finds no block. *)
LEMMA RankingKeeps ==
  ASSUME NEW h, NEW k, NEW c, NEW l, Sound(h, k, c, l),
         TakesLargest(h) \/ Ends(h.next_free, h.head_free),
         NEW r, r = (IF TakesLargest(h) THEN h ELSE Ranked(h))
  PROVE  /\ Sound(r, k, c, l)
         /\ Exact(h, k, c, l) /\ Packed(h, k, c) => Exact(r, k, c, l) /\ Packed(r, k, c)
<1>1. CASE TakesLargest(h)
  BY <1>1
<1>2. CASE ~TakesLargest(h)
  <2>1. r = Ranked(h) /\ h \in Heaps /\ Chain(h, k, c) /\ Closed(h, k, c)
    BY <1>2 DEF Sound
  <2>2. /\ SameButRanks(h, Ranked(h))
        /\ {Ranked(h).largest, Ranked(h).second_largest} \subseteq Headers(k, c) \cup {NULL}
    BY <1>2, <2>1, RankedDoes
  <2>3. Sound(r, k, c, l)
    BY <2>1, <2>2, RanksSound
  <2>4. Exact(h, k, c, l) /\ Packed(h, k, c) => Exact(r, k, c, l) /\ Packed(r, k, c)
    BY <2>1, <2>2, RanksExact
  <2> QED
    BY <2>3, <2>4
<1> QED
  BY <1>1, <1>2

(* Every call of Mem_Alloc keeps the invariant. *)
LEMMA MemAllocKeeps ==
  ASSUME IInv, NEW asked \in Sizes, Mem_Alloc(asked)
  PROVE  IInv'
<1>1. /\ Call /\ usage' = (IF usage = "frees" THEN "reuses" ELSE usage)
      /\ TakesLargest(heap) \/ Ends(heap.next_free, heap.head_free)
      /\ outcome' = outcome
  BY DEF Mem_Alloc, Asks
<1>2. calls' = calls + 1 /\ calls' \in 0 .. MaxCalls /\ calls \in Nat /\ MaxCalls \in Nat
  BY <1>1, Constants DEF IInv, Call
<1>3. /\ usage' \in {"allocates", "frees", "reuses", "coalesces"}
      /\ usage' \in {"allocates", "frees"} => usage = "allocates"
      /\ usage' # "coalesces" => usage # "coalesces"
  BY <1>1 DEF IInv
<1>4. ASSUME usage' # "coalesces"
      PROVE  \E k \in 1 .. calls' + 1 : \E c : Kept(heap', live', usage', outcome', k, c)
  <2>1a. PICK k \in 1 .. calls + 1 : \E c : Kept(heap, live, usage, outcome, k, c)
    BY <1>3, <1>4 DEF IInv
  <2>1. PICK c : Kept(heap, live, usage, outcome, k, c)
    BY <2>1a
  <2>2. /\ Sound(heap, k, c, live)
        /\ usage' \in {"allocates", "frees"} =>
             Exact(heap, k, c, live) /\ Packed(heap, k, c) /\ outcome # "outside"
    BY <1>3, <2>1 DEF Kept
  <2>3. k <= MaxCalls + 1 /\ k \in Nat /\ k \in 1 .. calls' + 1 /\ k + 1 \in 1 .. calls' + 1
    BY <1>2
  <2>4. PICK r : r = (IF TakesLargest(heap) THEN heap ELSE Ranked(heap))
    OBVIOUS
  <2>5. \/ Chosen(asked) = {} /\ heap' = r /\ UNCHANGED live
        \/ \E x \in Chosen(asked) :
             /\ ~Overruns(x.at, asked)
             /\ heap' = Allocate(r, x, asked)
             /\ live' = [live EXCEPT ![x.at] = asked]
    BY <2>4 DEF Mem_Alloc
  <2>6. CASE heap' = r /\ UNCHANGED live
    <3>1. /\ Sound(r, k, c, live)
          /\ Exact(heap, k, c, live) /\ Packed(heap, k, c) => Exact(r, k, c, live) /\ Packed(r, k, c)
      BY <1>1, <2>2, <2>4, RankingKeeps
    <3>2. Kept(r, live, usage', outcome', k, c)
      BY <1>1, <2>2, <3>1 DEF Kept
    <3> QED
      BY <2>3, <2>6, <3>2
  <2>7. ASSUME NEW x \in Chosen(asked), ~Overruns(x.at, asked),
               heap' = Allocate(r, x, asked), live' = [live EXCEPT ![x.at] = asked]
        PROVE  \E j \in 1 .. calls' + 1 : \E d : Kept(heap', live', usage', outcome', j, d)
    <3>1. PICK size, g, n : /\ size = round_to(asked, BLOCK_SIZE) /\ g = Allocate(r, x, asked)
                            /\ n = Given(live, x.at, asked)
      OBVIOUS
    <3>2. /\ x \in Candidates(heap, size)
          /\ Splits(heap, x.at, size) => HasRoom(heap, x.at, size)
      BY <2>7, <3>1 DEF Chosen, Overruns
    <3>3. asked \in Nat \ {0}
      BY Constants
    <3>4a. PICK j \in {k, k + 1} : \E d :
            /\ Sound(g, j, d, n)
            /\ Exact(heap, k, c, live) /\ Packed(heap, k, c) => Exact(g, j, d, n) /\ Packed(g, j, d)
      BY <1>1, <2>2, <2>3, <2>4, <3>1, <3>2, <3>3, AllocateKeeps
    <3>4. PICK d :
            /\ Sound(g, j, d, n)
            /\ Exact(heap, k, c, live) /\ Packed(heap, k, c) => Exact(g, j, d, n) /\ Packed(g, j, d)
      BY <3>4a
    <3>5. heap' = g /\ live' = n /\ j \in 1 .. calls' + 1
      BY <2>3, <2>7, <3>1 DEF Given
    <3>6. Kept(g, n, usage', outcome', j, d)
      BY <1>1, <2>2, <3>4 DEF Kept
    <3> QED
      BY <3>5, <3>6
  <2> QED
    BY <2>5, <2>6, <2>7
<1> QED
  BY <1>2, <1>3, <1>4 DEF IInv

(* A header outside the region is written only after a block was allocated again, or
   after coalescing. *)
LEMMA WritesOutsideKeeps ==
  ASSUME IInv, NEW asked \in Sizes, WritesOutside(asked)
  PROVE  IInv'
<1>1. /\ Call /\ usage' = (IF usage = "frees" THEN "reuses" ELSE usage)
      /\ UNCHANGED <<heap, live>>
  BY DEF WritesOutside, Asks
<1>2. calls' = calls + 1 /\ calls' \in 0 .. MaxCalls /\ calls \in Nat /\ MaxCalls \in Nat
  BY <1>1, Constants DEF IInv, Call
<1>3. /\ usage' \in {"allocates", "frees", "reuses", "coalesces"}
      /\ usage' \in {"allocates", "frees"} => usage = "allocates"
      /\ usage' # "coalesces" => usage # "coalesces"
  BY <1>1 DEF IInv
<1>4. ASSUME usage' # "coalesces"
      PROVE  \E k \in 1 .. calls' + 1 : \E c : Kept(heap', live', usage', outcome', k, c)
  <2>1a. PICK k \in 1 .. calls + 1 : \E c : Kept(heap, live, usage, outcome, k, c)
    BY <1>3, <1>4 DEF IInv
  <2>1. PICK c : Kept(heap, live, usage, outcome, k, c)
    BY <2>1a
  <2>2. k <= MaxCalls + 1 /\ k \in Nat /\ k \in 1 .. calls' + 1
    BY <1>2
  <2>3. usage # "allocates"
    <3> SUFFICES ASSUME usage = "allocates" PROVE FALSE
      OBVIOUS
    <3>1. Sound(heap, k, c, live) /\ Exact(heap, k, c, live) /\ Packed(heap, k, c)
      BY <2>1 DEF Kept
    <3>2. PICK size : size = round_to(asked, BLOCK_SIZE)
      OBVIOUS
    <3>3. size \in Nat /\ size >= BLOCK_SIZE
      <4>1. asked \in Nat \ {0}
        BY Constants
      <4>2. PICK b \in Nat : round_to(asked, BLOCK_SIZE) = 8 * b /\ b >= 1
        BY <4>1, Rounding
      <4> QED
        BY <3>2, <4>2 DEF BLOCK_SIZE
    <3>4. PICK x \in Candidates(heap, size) :
            Splits(heap, x.at, size) /\ ~HasRoom(heap, x.at, size)
      BY <3>2 DEF WritesOutside, Chosen, Overruns
    <3> QED
      BY <2>2, <3>1, <3>3, <3>4, PackedRoom
  <2>4. usage' \notin {"allocates", "frees"}
    BY <1>3, <2>3
  <2> QED
    BY <1>1, <2>1, <2>2, <2>4 DEF Kept
<1> QED
  BY <1>2, <1>3, <1>4 DEF IInv

(* A Mem_Free that does not coalesce is the operator of the lemmas above. *)
LEMMA FreeIsFreed ==
  ASSUME NEW p \in Addr, NEW coalesce \in BOOLEAN, Mem_Free(p, coalesce), ~coalesce
  PROVE  heap' = Freed(heap, p)
<1>1. PICK a, s : a = [heap EXCEPT !.need_global_coalesce = TRUE] /\ s = ReturnSize(a, p)
  OBVIOUS
<1>2. PICK merged : /\ ~merged
                    /\ heap' = IF get_block_size(a, p) = -1 THEN a
                               ELSE RankFreed(InsertFree(s, p, merged), p)
  BY <1>1 DEF Mem_Free
<1>3. InsertFree(s, p, merged) = Relisted(s, p)
  BY <1>2 DEF InsertFree, Relisted
<1> QED
  BY <1>1, <1>2, <1>3 DEF Freed

(* Every call of Mem_Free keeps the invariant. *)
LEMMA MemFreeKeeps ==
  ASSUME IInv, NEW p \in Addr, NEW coalesce \in BOOLEAN, Mem_Free(p, coalesce)
  PROVE  IInv'
<1>1. /\ Call /\ live[p] # 0 /\ outcome' = outcome /\ live' = [live EXCEPT ![p] = 0]
      /\ usage' = (IF coalesce THEN "coalesces" ELSE IF usage = "allocates" THEN "frees" ELSE usage)
  BY DEF Mem_Free
<1>2. calls' = calls + 1 /\ calls' \in 0 .. MaxCalls /\ calls \in Nat /\ MaxCalls \in Nat
  BY <1>1, Constants DEF IInv, Call
<1>3. /\ usage' \in {"allocates", "frees", "reuses", "coalesces"}
      /\ usage' # "coalesces" => /\ ~coalesce /\ usage # "coalesces" /\ usage' # "allocates"
                                 /\ usage' = "frees" => usage \in {"allocates", "frees"}
  BY <1>1 DEF IInv
<1>4. ASSUME usage' # "coalesces"
      PROVE  \E k \in 1 .. calls' + 1 : \E c : Kept(heap', live', usage', outcome', k, c)
  <2>1a. PICK k \in 1 .. calls + 1 : \E c : Kept(heap, live, usage, outcome, k, c)
    BY <1>3, <1>4 DEF IInv
  <2>1. PICK c : Kept(heap, live, usage, outcome, k, c)
    BY <2>1a
  <2>2. k <= MaxCalls + 1 /\ k \in 1 .. calls' + 1
    BY <1>2
  <2>3. Sound(heap, k, c, live)
    BY <2>1 DEF Kept
  <2>4. PICK g, n : g = Freed(heap, p) /\ n = [live EXCEPT ![p] = 0]
    OBVIOUS
  <2>5. heap' = g /\ live' = n
    BY <1>1, <1>3, <1>4, <2>4, FreeIsFreed
  <2>6. n \in [Addr -> Nat] /\ n[p] = 0 /\ \A q \in Addr : q # p => n[q] = live[q]
    BY <2>3, <2>4 DEF Sound
  <2>7. Sound(g, k, c, n) /\ (Exact(heap, k, c, live) => Exact(g, k, c, n))
    BY <1>1, <2>2, <2>3, <2>4, <2>6, FreeKeeps
  <2>8. Kept(g, n, usage', outcome', k, c)
    BY <1>1, <1>3, <1>4, <2>1, <2>7 DEF Kept
  <2> QED
    BY <2>2, <2>5, <2>8
<1> QED
  BY <1>2, <1>3, <1>4 DEF IInv

(* The list that goes round is left as it is. *)
LEMMA CallLoopsKeeps ==
  ASSUME IInv, CallLoops
  PROVE  IInv'
<1>1. /\ calls' = calls + 1 /\ calls' \in 0 .. MaxCalls /\ calls \in Nat
      /\ UNCHANGED <<heap, live, usage>> /\ outcome' # "outside"
  BY Constants DEF IInv, CallLoops, Call
<1>2. ASSUME usage # "coalesces"
      PROVE  \E k \in 1 .. calls' + 1 : \E c : Kept(heap', live', usage', outcome', k, c)
  <2>1a. PICK k \in 1 .. calls + 1 : \E c : Kept(heap, live, usage, outcome, k, c)
    BY <1>2 DEF IInv
  <2>1. PICK c : Kept(heap, live, usage, outcome, k, c)
    BY <2>1a
  <2>2. k \in 1 .. calls' + 1
    BY <1>1
  <2> QED
    BY <1>1, <2>1, <2>2 DEF Kept
<1> QED
  BY <1>1, <1>2 DEF IInv

(* Every step keeps the invariant. *)
LEMMA StepKeeps ==
  ASSUME IInv, [Next]_vars
  PROVE  IInv'
<1>1. CASE UNCHANGED vars
  BY <1>1 DEF IInv, vars
<1>2. ASSUME NEW s \in Sizes, Mem_Alloc(s) PROVE IInv'
  BY <1>2, MemAllocKeeps
<1>3. ASSUME NEW s \in Sizes, WritesOutside(s) PROVE IInv'
  BY <1>3, WritesOutsideKeeps
<1>4. CASE Mem_FreeNull
  <2>1. calls' = calls + 1 /\ calls' \in 0 .. MaxCalls /\ usage' = "coalesces"
    BY <1>4, Constants DEF IInv, Mem_FreeNull, Call
  <2> QED
    BY <2>1 DEF IInv
<1>5. ASSUME NEW p \in Addr, NEW coalesce \in BOOLEAN, Mem_Free(p, coalesce) PROVE IInv'
  BY <1>5, MemFreeKeeps
<1>6. CASE CallLoops
  BY <1>6, CallLoopsKeeps
<1> QED
  BY <1>1, <1>2, <1>3, <1>4, <1>5, <1>6 DEF Next

-----------------------------------------------------------------------------
(* The theorems. *)

(* The inductive invariant: what the four theorems below rest on. *)
THEOREM InvariantHolds == Spec => []IInv
<1>1. Init => IInv
  BY InitKept
<1>2. IInv /\ [Next]_vars => IInv'
  BY StepKeeps
<1> QED
  BY <1>1, <1>2, PTL DEF Spec

(* Until the client asks for coalescing, whatever it allocates and frees, the
   headers are one doubly linked list in the order of their addresses, with a
   smallest block's room between them. *)
THEOREM HeadersStayLinked == Spec => []BlocksLinked
<1>1. IInv => BlocksLinked
  <2> SUFFICES ASSUME IInv, usage # "coalesces"
               PROVE  /\ Ends(heap.next, 0)
                      /\ \A i \in DOMAIN Blocks(heap) :
                           /\ heap.prev[Blocks(heap)[i]] = (IF i = 1 THEN NULL ELSE Blocks(heap)[i - 1])
                           /\ i > 1 =>
                                Blocks(heap)[i] >= Blocks(heap)[i - 1] + BLOCK_HEADER + BLOCK_SIZE
    BY DEF BlocksLinked
  <2>1a. PICK k \in 1 .. calls + 1 : \E c : Kept(heap, live, usage, outcome, k, c)
    BY DEF IInv
  <2>1. PICK c : Kept(heap, live, usage, outcome, k, c)
    BY <2>1a
  <2>2. Chain(heap, k, c) /\ k <= MaxCalls + 1 /\ k \in Nat
    BY <2>1, Constants DEF Kept, Sound, IInv
  <2>3. Ends(heap.next, 0) /\ Blocks(heap) = [i \in 1 .. k |-> c[i]]
    BY <2>2, BlocksOfChain
  <2>4. ASSUME NEW i \in 1 .. k
        PROVE  /\ heap.prev[c[i]] = (IF i = 1 THEN NULL ELSE c[i - 1])
               /\ i > 1 => i - 1 \in 1 .. k /\ c[i] >= c[i - 1] + BLOCK_HEADER + BLOCK_SIZE
    <3>1. heap.prev[c[i]] = c[i - 1] /\ c[0] = NULL
      BY <2>2 DEF Chain
    <3>2. ASSUME i > 1
          PROVE  i - 1 \in 1 .. k /\ c[i] >= c[i - 1] + BLOCK_HEADER + BLOCK_SIZE
      <4>1. i - 1 \in 1 .. k /\ i - 1 < i
        BY <2>2, <3>2
      <4>2. c[i - 1] + BLOCK_HEADER + BLOCK_SIZE <= c[i]
        BY <2>2, <4>1 DEF Chain
      <4>3. c[i] \in Nat /\ c[i - 1] \in Nat
        BY <2>2, <4>1, ChainFacts
      <4> QED
        BY <4>1, <4>2, <4>3 DEF BLOCK_HEADER, BLOCK_SIZE
    <3> QED
      BY <3>1, <3>2
  <2>5. DOMAIN Blocks(heap) = 1 .. k /\ \A i \in 1 .. k : Blocks(heap)[i] = c[i]
    BY <2>3
  <2>6. \A i \in 1 .. k : i # 1 => i > 1
    BY <2>2
  <2> QED
    BY <2>3, <2>4, <2>5, <2>6
<1> QED
  BY <1>1, InvariantHolds, PTL

(* Until the client allocates what it has freed, a block it holds is on the list of
   headers, marked ALLOCATED, and as large as it asked, the last block excepted; and
   no header is written behind the region. *)
THEOREM LiveBlocksFit == Spec => []LiveFit
<1>1. IInv => LiveFit
  <2> SUFFICES ASSUME IInv, usage \in {"allocates", "frees"}
               PROVE  /\ outcome # "outside"
                      /\ \A p \in Addr : live[p] # 0 =>
                           /\ p \in ToSet(Blocks(heap)) /\ heap.status[p] = "ALLOCATED"
                           /\ live[p] <= Capacity(p) \/ Overcommitted(p)
    BY DEF LiveFit
  <2>1a. PICK k \in 1 .. calls + 1 : \E c : Kept(heap, live, usage, outcome, k, c)
    BY DEF IInv
  <2>1. PICK c : Kept(heap, live, usage, outcome, k, c)
    BY <2>1a
  <2>2. Chain(heap, k, c) /\ k <= MaxCalls + 1 /\ Held(heap, k, c, live) /\ outcome # "outside"
    BY <2>1, Constants DEF Kept, Sound, Exact, IInv
  <2>3. ToSet(Blocks(heap)) = Headers(k, c)
    <3>1. Blocks(heap) = [i \in 1 .. k |-> c[i]]
      BY <2>2, BlocksOfChain
    <3> QED
      BY <3>1 DEF ToSet, Headers
  <2> QED
    BY <2>2, <2>3 DEF Held, Fits, Capacity, Overcommitted
<1> QED
  BY <1>1, InvariantHolds, PTL

(* Until then the free list is exactly the blocks with status FREE, in the order of
   their addresses. *)
THEOREM FreeListStaysExact == Spec => []FreeListExact
<1>1. IInv => FreeListExact
  <2> SUFFICES ASSUME IInv, usage \in {"allocates", "frees"}
               PROVE  /\ Ends(heap.next_free, heap.head_free)
                      /\ ToSet(FreeList(heap)) = {p \in ToSet(Blocks(heap)) : heap.status[p] = "FREE"}
                      /\ \A i, j \in DOMAIN FreeList(heap) :
                           i < j => FreeList(heap)[i] < FreeList(heap)[j]
    BY DEF FreeListExact
  <2>1a. PICK k \in 1 .. calls + 1 : \E c : Kept(heap, live, usage, outcome, k, c)
    BY DEF IInv
  <2>1. PICK c : Kept(heap, live, usage, outcome, k, c)
    BY <2>1a
  <2>2. Chain(heap, k, c) /\ k <= MaxCalls + 1 /\ FreeLinked(heap, k, c)
    BY <2>1, Constants DEF Kept, Sound, Exact, IInv
  <2>3. ToSet(Blocks(heap)) = Headers(k, c)
    <3>1. Blocks(heap) = [i \in 1 .. k |-> c[i]]
      BY <2>2, BlocksOfChain
    <3> QED
      BY <3>1 DEF ToSet, Headers
  <2>4. /\ Ends(heap.next_free, heap.head_free)
        /\ ToSet(FreeList(heap)) = {p \in Headers(k, c) : heap.status[p] = "FREE"}
        /\ \A i, j \in DOMAIN FreeList(heap) : i < j => FreeList(heap)[i] < FreeList(heap)[j]
    BY <2>2, FreeListOfChain
  <2> QED
    BY <2>3, <2>4
<1> QED
  BY <1>1, InvariantHolds, PTL

(* Until then the block that Mem_Alloc takes without a search is free. *)
THEOREM LargestStaysFree == Spec => []LargestIsFree
<1>1. IInv => LargestIsFree
  <2> SUFFICES ASSUME IInv, usage \in {"allocates", "frees"}, TakesLargest(heap)
               PROVE  heap.largest \in ToSet(Blocks(heap)) /\ isFree(heap, heap.largest)
    BY DEF LargestIsFree
  <2>1a. PICK k \in 1 .. calls + 1 : \E c : Kept(heap, live, usage, outcome, k, c)
    BY DEF IInv
  <2>1. PICK c : Kept(heap, live, usage, outcome, k, c)
    BY <2>1a
  <2>2. /\ Chain(heap, k, c) /\ k <= MaxCalls + 1
        /\ Closed(heap, k, c) /\ RankedFree(heap)
    BY <2>1, Constants DEF Kept, Sound, Exact, IInv
  <2>3. ToSet(Blocks(heap)) = Headers(k, c)
    <3>1. Blocks(heap) = [i \in 1 .. k |-> c[i]]
      BY <2>2, BlocksOfChain
    <3> QED
      BY <3>1 DEF ToSet, Headers
  <2> QED
    BY <2>2, <2>3 DEF TakesLargest, Closed, RankedFree, isFree
<1> QED
  BY <1>1, InvariantHolds, PTL
=============================================================================
