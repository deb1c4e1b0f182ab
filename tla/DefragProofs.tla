---------------------------- MODULE DefragProofs ----------------------------
(***************************************************************************)
(* Theorems of Defrag, for any sizes of blocks, inodes and images.         *)
(*                                                                         *)
(* A file's places are ordered as they are read, and First says how many   *)
(* of its blocks of data come before one: the loops add one to it with     *)
(* each block of data, and leave it alone where they enter or leave an     *)
(* index block.  So the size that is left tells the loops which places the *)
(* file needs, and the places they copy are Gets: those, and the index     *)
(* block behind a file that just fills a level.  The invariant says that   *)
(* what has been copied is all that comes before the place of the loops,   *)
(* that each place's block went to where its number in that order says     *)
(* (Dest), and that the pointers to it have been changed to say so.        *)
(***************************************************************************)
EXTENDS Defrag, FiniteSetTheorems, FunctionTheorems, TLAPS

(* Where the loops may be: at a pointer, or past the last one of an index block or of
   the inode. *)
Cursors ==
  {v \in (1 .. I3BLOCK + 1) \X Nat \X Nat \X Nat :
     /\ v[2] = 0 => v[3] = 0
     /\ v[3] = 0 => v[4] = 0
     /\ Depth(v) <= Level(v[1])
     /\ v[1] = I3BLOCK + 1 => v[2] = 0
     /\ v[2] # 0 => Turn(v) \in 1 .. IntsInBlock + 1 /\ Parent(v) \in Places}

LEMMA Numbers ==
  /\ N_DBLOCKS \in Nat \ {0} /\ N_IBLOCKS \in Nat \ {0} /\ IntsInBlock \in Nat \ {0}
  /\ I2BLOCK = N_DBLOCKS + N_IBLOCKS + 1 /\ I3BLOCK = N_DBLOCKS + N_IBLOCKS + 2
  /\ I2BLOCK \in Nat /\ I3BLOCK \in Nat
  BY DefragAssumption DEF I2BLOCK, I3BLOCK

LEMMA PlaceParts ==
  ASSUME NEW v \in Places
  PROVE  /\ v = <<v[1], v[2], v[3], v[4]>>
         /\ v[1] \in 1 .. I3BLOCK
         /\ v[2] \in 0 .. IntsInBlock /\ v[3] \in 0 .. IntsInBlock /\ v[4] \in 0 .. IntsInBlock
         /\ v[2] = 0 => v[3] = 0
         /\ v[3] = 0 => v[4] = 0
         /\ Depth(v) <= Level(v[1])
  BY DEF Places, Int0, Slots

LEMMA CursorParts ==
  ASSUME NEW v \in Cursors
  PROVE  /\ v = <<v[1], v[2], v[3], v[4]>>
         /\ v[1] \in 1 .. I3BLOCK + 1
         /\ v[2] \in Nat /\ v[3] \in Nat /\ v[4] \in Nat
         /\ v[2] = 0 => v[3] = 0
         /\ v[3] = 0 => v[4] = 0
         /\ Depth(v) <= Level(v[1])
         /\ v[1] = I3BLOCK + 1 => v[2] = 0
         /\ v[2] # 0 => Turn(v) \in 1 .. IntsInBlock + 1 /\ Parent(v) \in Places
  BY DEF Cursors

LEMMA PlaceMade ==
  ASSUME NEW s \in 1 .. I3BLOCK, NEW j \in 0 .. IntsInBlock, NEW k \in 0 .. IntsInBlock,
         NEW l \in 0 .. IntsInBlock,
         j = 0 => k = 0, k = 0 => l = 0, Depth(<<s, j, k, l>>) <= Level(s)
  PROVE  <<s, j, k, l>> \in Places
  BY DEF Places, Int0, Slots

-----------------------------------------------------------------------------
(* Where the data below a place begins. *)

LEMMA TimesMore ==
  ASSUME NEW a \in Nat, NEW b \in Nat, NEW n \in Nat, a < b
  PROVE  a * n + n <= b * n
<1>1. (b - a - 1) * n >= 0
  <2>1. b - a - 1 \in Nat
    OBVIOUS
  <2> QED
    BY <2>1
<1>2. (b - a - 1) * n = b * n - (a * n + n)
  OBVIOUS
<1>3. b * n \in Int /\ a * n \in Int
  OBVIOUS
<1> QED
  BY <1>1, <1>2, <1>3

LEMMA SpanIs ==
  /\ Span(-1) = 1 /\ Span(-2) = 1 /\ Span(-3) = 1
  /\ Span(0) = 1
  /\ Span(1) = IntsInBlock /\ Span(2) = IntsInBlock * Span(1) /\ Span(3) = IntsInBlock * Span(2)
  /\ \A n \in Int : Span(n) \in Nat \ {0}
<1>1. PICK m, p : m = IntsInBlock * IntsInBlock /\ p = IntsInBlock * (IntsInBlock * IntsInBlock)
  OBVIOUS
<1>2. m \in Nat \ {0}
  BY <1>1, Numbers
<1>3. p \in Nat \ {0}
  <2>1. p = IntsInBlock * m
    BY <1>1
  <2> QED
    BY <1>2, <2>1, Numbers
<1>4. \A n \in Int : Span(n) = IF n <= 0 THEN 1 ELSE IF n = 1 THEN IntsInBlock ELSE IF n = 2 THEN m ELSE p
  BY <1>1 DEF Span
<1>5. m = IntsInBlock * IntsInBlock /\ p = IntsInBlock * m
  BY <1>1
<1>6. \A n \in Int : Span(n) \in Nat \ {0}
  BY <1>2, <1>3, <1>4, Numbers
<1>7. /\ Span(-1) = 1 /\ Span(-2) = 1 /\ Span(-3) = 1
      /\ Span(0) = 1 /\ Span(1) = IntsInBlock /\ Span(2) = m /\ Span(3) = p
  BY <1>4
<1> QED
  BY <1>5, <1>6, <1>7

LEMMA SpanType ==
  ASSUME NEW n \in Int
  PROVE  Span(n) \in Nat \ {0}
  BY SpanIs

LEMMA LevelIs ==
  ASSUME NEW s \in 1 .. I3BLOCK
  PROVE  /\ Level(s) \in 0 .. 3
         /\ Level(s) = 0 <=> s <= N_DBLOCKS
         /\ Level(s) = 1 <=> N_DBLOCKS < s /\ s < I2BLOCK
         /\ Level(s) = 2 <=> s = I2BLOCK
         /\ Level(s) = 3 <=> s = I3BLOCK
  BY Numbers DEF Level

LEMMA PassedIs ==
  ASSUME NEW k \in Nat, NEW level \in Int
  PROVE  /\ Passed(k, level) \in Nat
         /\ Passed(0, level) = 0 /\ Passed(1, level) = 0
         /\ k > 0 => Passed(k + 1, level) = Passed(k, level) + Span(level)
<1>1. PICK n \in Nat : Span(level) = n
  BY SpanIs
<1>2. \A m \in Nat : Passed(m, level) = IF m = 0 THEN 0 ELSE (m - 1) * n
  BY <1>1 DEF Passed
<1>3. k > 0 => (k - 1) * n \in Nat /\ k * n = (k - 1) * n + n
  OBVIOUS
<1>4. Passed(1, level) = 0
  <2>1. Passed(1, level) = (1 - 1) * n
    BY <1>2
  <2> QED
    BY <2>1
<1>5. k > 0 => Passed(k + 1, level) = k * n
  BY <1>2
<1>6. Passed(0, level) = 0 /\ k > 0 => Passed(k, level) = (k - 1) * n
  BY <1>2
<1>7. Passed(0, level) = 0
  BY <1>2
<1>8. Passed(k, level) \in Nat
  BY <1>2, <1>3
<1> QED
  BY <1>1, <1>3, <1>4, <1>5, <1>6, <1>7, <1>8

LEMMA PassedMore ==
  ASSUME NEW j \in Nat, NEW k \in Nat, 0 < j, j < k, NEW level \in Int
  PROVE  Passed(j, level) + Span(level) <= Passed(k, level)
<1>1. PICK n \in Nat : Span(level) = n
  BY SpanIs
<1>2. (j - 1) * n + n <= (k - 1) * n
  <2>1. j - 1 \in Nat /\ k - 1 \in Nat /\ j - 1 < k - 1
    OBVIOUS
  <2> QED
    BY <2>1, TimesMore
<1> QED
  BY <1>1, <1>2 DEF Passed

LEMMA PassedType ==
  ASSUME NEW k \in Nat, NEW level \in Int
  PROVE  Passed(k, level) \in Nat
  BY PassedIs

LEMMA PassedNext ==
  ASSUME NEW k \in Nat, 0 < k, NEW level \in Int
  PROVE  Passed(k + 1, level) = Passed(k, level) + Span(level)
  BY PassedIs

LEMMA PassedNone ==
  ASSUME NEW k \in Nat, k <= 1, NEW level \in Int
  PROVE  Passed(k, level) = 0
<1>1. PICK n \in Nat : n = Span(level)
  BY SpanType
<1>2. k = 0 \/ (k = 1 /\ k - 1 = 0)
  OBVIOUS
<1>3. (k - 1) * n = 0 \/ k = 0
  <2>1. k - 1 = 0 => (k - 1) * n = 0 * n
    OBVIOUS
  <2> QED
    BY <1>2, <2>1
<1> QED
  BY <1>1, <1>3 DEF Passed

(* All the ints of an index block together lead to what it spans. *)
LEMMA PassedAll ==
  ASSUME NEW level \in 0 .. 2
  PROVE  /\ Passed(IntsInBlock + 1, level) = Span(level + 1)
         /\ \A k \in 1 .. IntsInBlock : Passed(k, level) + Span(level) <= Span(level + 1)
<1>1. PICK n \in Nat : Span(level) = n
  BY SpanIs
<1>2. Passed(IntsInBlock + 1, level) = IntsInBlock * n
  <2>1. IntsInBlock + 1 # 0 /\ (IntsInBlock + 1) - 1 = IntsInBlock
    BY Numbers
  <2> QED
    BY <1>1, <2>1 DEF Passed
<1>3. Span(level + 1) = IntsInBlock * Span(level)
  <2>1. IntsInBlock * 1 = IntsInBlock
    BY Numbers
  <2> QED
    BY <2>1, SpanIs
<1>4. Passed(IntsInBlock + 1, level) = Span(level + 1)
  BY <1>1, <1>2, <1>3
<1>5. \A k \in 1 .. IntsInBlock : k \in Nat /\ 0 < k /\ k < IntsInBlock + 1 /\ IntsInBlock + 1 \in Nat
  BY Numbers
<1> QED
  BY <1>4, <1>5, PassedMore

LEMMA FirstOfIs ==
  ASSUME NEW s \in 1 .. I3BLOCK
  PROVE  /\ s <= N_DBLOCKS => FirstOf(s) = s - 1
         /\ N_DBLOCKS < s /\ s <= I2BLOCK =>
              FirstOf(s) = N_DBLOCKS + (s - N_DBLOCKS - 1) * IntsInBlock
         /\ s = I3BLOCK => FirstOf(s) = FirstOf(I2BLOCK) + Span(2)
         /\ FirstOf(N_DBLOCKS + 1) = N_DBLOCKS
<1>1. /\ s <= N_DBLOCKS => FirstOf(s) = s - 1
      /\ N_DBLOCKS < s /\ s <= I2BLOCK =>
           FirstOf(s) = N_DBLOCKS + (s - N_DBLOCKS - 1) * IntsInBlock
  BY Numbers DEF FirstOf
<1>2. FirstOf(I3BLOCK) = N_DBLOCKS + N_IBLOCKS * IntsInBlock + IntsInBlock * IntsInBlock
  BY Numbers DEF FirstOf
<1>3. FirstOf(I2BLOCK) = N_DBLOCKS + N_IBLOCKS * IntsInBlock
  <2>1. I2BLOCK - N_DBLOCKS - 1 = N_IBLOCKS /\ ~(I2BLOCK <= N_DBLOCKS) /\ I2BLOCK <= I2BLOCK
    BY Numbers
  <2> QED
    BY <2>1 DEF FirstOf
<1>4. Span(2) = IntsInBlock * IntsInBlock
  BY SpanIs
<1>5. FirstOf(N_DBLOCKS + 1) = N_DBLOCKS
  <2>1. /\ (N_DBLOCKS + 1) - N_DBLOCKS - 1 = 0
        /\ ~(N_DBLOCKS + 1 <= N_DBLOCKS) /\ N_DBLOCKS + 1 <= I2BLOCK
    BY Numbers
  <2>2. 0 * IntsInBlock = 0 /\ N_DBLOCKS + 0 = N_DBLOCKS
    BY Numbers
  <2> QED
    BY <2>1, <2>2 DEF FirstOf
<1> QED
  BY <1>1, <1>2, <1>3, <1>4, <1>5

LEMMA FirstOfNext ==
  ASSUME NEW s \in 1 .. I3BLOCK, NEW t \in 1 .. I3BLOCK, s < t
  PROVE  /\ FirstOf(s) \in Nat /\ FirstOf(t) \in Nat
         /\ FirstOf(s) + Span(Level(s)) <= FirstOf(t)
         /\ t = s + 1 => FirstOf(s) + Span(Level(s)) = FirstOf(t)
<1>1. PICK n \in Nat \ {0} : n = IntsInBlock
  BY Numbers
<1>2. PICK m \in Nat \ {0} : m = Span(2)
  BY SpanIs
<1>3. \A r \in 1 .. I3BLOCK : /\ r <= N_DBLOCKS \/ r \in N_DBLOCKS + 1 .. I2BLOCK - 1
                                 \/ r = I2BLOCK \/ r = I3BLOCK
                              /\ r > N_DBLOCKS => r - N_DBLOCKS - 1 \in Nat
  BY Numbers
<1>4. /\ \A r \in 1 .. N_DBLOCKS : FirstOf(r) = r - 1 /\ Span(Level(r)) = 1
      /\ \A r \in N_DBLOCKS + 1 .. I2BLOCK : FirstOf(r) = N_DBLOCKS + (r - N_DBLOCKS - 1) * n
      /\ \A r \in N_DBLOCKS + 1 .. I2BLOCK - 1 : Span(Level(r)) = n
      /\ Span(Level(I2BLOCK)) = m
      /\ FirstOf(I3BLOCK) = FirstOf(I2BLOCK) + m
      /\ FirstOf(N_DBLOCKS + 1) = N_DBLOCKS
  <2>1. \A r \in 1 .. N_DBLOCKS : FirstOf(r) = r - 1 /\ Span(Level(r)) = 1
    BY FirstOfIs, LevelIs, SpanIs, Numbers
  <2>2. \A r \in N_DBLOCKS + 1 .. I2BLOCK : FirstOf(r) = N_DBLOCKS + (r - N_DBLOCKS - 1) * n
    BY <1>1, FirstOfIs, Numbers
  <2>3. \A r \in N_DBLOCKS + 1 .. I2BLOCK - 1 : Span(Level(r)) = n
    BY <1>1, LevelIs, SpanIs, Numbers
  <2>4. Span(Level(I2BLOCK)) = m
    BY <1>2, LevelIs, Numbers
  <2>5. FirstOf(I3BLOCK) = FirstOf(I2BLOCK) + m /\ FirstOf(N_DBLOCKS + 1) = N_DBLOCKS
    BY <1>2, FirstOfIs, Numbers
  <2> QED
    BY <2>1, <2>2, <2>3, <2>4, <2>5
<1>5. \A r \in N_DBLOCKS + 1 .. I2BLOCK :
        (r - N_DBLOCKS - 1) * n \in Nat /\ FirstOf(r) \in Nat /\ N_DBLOCKS <= FirstOf(r)
  <2> SUFFICES ASSUME NEW r \in N_DBLOCKS + 1 .. I2BLOCK
               PROVE  /\ (r - N_DBLOCKS - 1) * n \in Nat
                      /\ FirstOf(r) \in Nat /\ N_DBLOCKS <= FirstOf(r)
    OBVIOUS
  <2>1. PICK a \in Nat : a = r - N_DBLOCKS - 1
    BY Numbers
  <2>2. a * n \in Nat
    OBVIOUS
  <2> QED
    BY <1>4, <2>1, <2>2, Numbers
<1>6. \A r \in 1 .. I3BLOCK : FirstOf(r) \in Nat
  BY <1>3, <1>4, <1>5, Numbers
<1>7. CASE s <= N_DBLOCKS
  <2>1. CASE t <= N_DBLOCKS
    BY <1>4, <1>6, <1>7, <2>1
  <2>2. CASE t \in N_DBLOCKS + 1 .. I2BLOCK
    <3>1. FirstOf(s) + Span(Level(s)) = s /\ N_DBLOCKS <= FirstOf(t)
      BY <1>4, <1>5, <1>7, <2>2
    <3>2. t = s + 1 => s = N_DBLOCKS /\ t = N_DBLOCKS + 1
      BY <1>7, <2>2, Numbers
    <3> QED
      BY <1>4, <1>6, <1>7, <3>1, <3>2, Numbers
  <2>3. CASE t = I3BLOCK
    <3>1. FirstOf(s) + Span(Level(s)) = s
      BY <1>4, <1>7
    <3>2. N_DBLOCKS <= FirstOf(I2BLOCK) /\ FirstOf(I2BLOCK) \in Nat /\ FirstOf(I3BLOCK) = FirstOf(I2BLOCK) + m
      BY <1>4, <1>5, Numbers
    <3>3. t # s + 1
      BY <1>7, <2>3, Numbers
    <3> QED
      BY <1>6, <1>7, <2>3, <3>1, <3>2, <3>3, Numbers
  <2> QED
    BY <1>3, <2>1, <2>2, <2>3, Numbers
<1>8. CASE s \in N_DBLOCKS + 1 .. I2BLOCK - 1
  <2>1. PICK a \in Nat : a = s - N_DBLOCKS - 1
    BY <1>8, Numbers
  <2>2. FirstOf(s) + Span(Level(s)) = N_DBLOCKS + (a * n + n) /\ a * n \in Nat
    <3>1. FirstOf(s) = N_DBLOCKS + a * n /\ Span(Level(s)) = n /\ a * n \in Nat
      BY <1>4, <1>8, <2>1, Numbers
    <3> QED
      BY <3>1, Numbers
  <2>3. \A r \in N_DBLOCKS + 1 .. I2BLOCK : s < r =>
          /\ FirstOf(s) + Span(Level(s)) <= FirstOf(r)
          /\ r = s + 1 => FirstOf(s) + Span(Level(s)) = FirstOf(r)
    <3> SUFFICES ASSUME NEW r \in N_DBLOCKS + 1 .. I2BLOCK, s < r
                 PROVE  /\ FirstOf(s) + Span(Level(s)) <= FirstOf(r)
                        /\ r = s + 1 => FirstOf(s) + Span(Level(s)) = FirstOf(r)
      OBVIOUS
    <3>1. PICK b \in Nat : b = r - N_DBLOCKS - 1
      BY Numbers
    <3>2. FirstOf(r) = N_DBLOCKS + b * n /\ b * n \in Nat
      BY <1>4, <3>1
    <3>3. a * n + n <= b * n
      <4>1. a < b
        BY <2>1, <3>1, Numbers
      <4> QED
        BY <4>1, TimesMore
    <3>4. r = s + 1 => a * n + n = b * n
      <4>1. SUFFICES ASSUME b = a + 1 PROVE a * n + n = b * n
        BY <2>1, <3>1, Numbers
      <4> QED
        BY <4>1
    <3> QED
      BY <2>2, <3>2, <3>3, <3>4, Numbers
  <2>4. CASE t \in N_DBLOCKS + 1 .. I2BLOCK
    BY <1>6, <2>3, <2>4
  <2>5. CASE t = I3BLOCK
    <3>1. FirstOf(s) + Span(Level(s)) <= FirstOf(I2BLOCK) /\ FirstOf(I3BLOCK) = FirstOf(I2BLOCK) + m
      BY <1>4, <1>8, <2>3, Numbers
    <3>2. t # s + 1 /\ FirstOf(I2BLOCK) \in Nat /\ FirstOf(s) + Span(Level(s)) \in Nat
      BY <1>5, <1>8, <2>2, <2>5, Numbers
    <3> QED
      BY <1>6, <2>5, <3>1, <3>2
  <2> QED
    BY <1>3, <1>8, <2>4, <2>5, Numbers
<1>9. CASE s = I2BLOCK
  <2>1. t = I3BLOCK
    BY <1>9, Numbers
  <2> QED
    BY <1>4, <1>6, <1>9, <2>1
<1> QED
  BY <1>3, <1>7, <1>8, <1>9, Numbers

LEMMA LevelOf ==
  ASSUME NEW v \in Places
  PROVE  /\ Level(v[1]) \in 0 .. 3
         /\ v[2] # 0 => Level(v[1]) >= 1
         /\ v[3] # 0 => Level(v[1]) >= 2
         /\ v[4] # 0 => Level(v[1]) = 3
         /\ Depth(v) \in 0 .. Level(v[1])
<1>1. Level(v[1]) \in 0 .. 3
  BY PlaceParts, LevelIs
<1>2. /\ v[2] \in Nat /\ v[3] \in Nat /\ v[4] \in Nat
      /\ v[2] = 0 => v[3] = 0
      /\ v[3] = 0 => v[4] = 0
      /\ Depth(v) <= Level(v[1])
  BY PlaceParts
<1> QED
  BY <1>1, <1>2 DEF Depth

(* The data below a place are among those below its pointer in the inode. *)
LEMMA Inside ==
  ASSUME NEW v \in Places, NEW n, n = Level(v[1])
  PROVE  /\ FirstOf(v[1]) \in Nat
         /\ Passed(v[2], n - 1) \in Nat /\ Passed(v[3], n - 2) \in Nat /\ Passed(v[4], n - 3) \in Nat
         /\ First(v) = FirstOf(v[1]) + Passed(v[2], n - 1) + Passed(v[3], n - 2) + Passed(v[4], n - 3)
         /\ First(v) \in Nat
         /\ Passed(v[4], n - 3) < Span(n - 2)
         /\ Passed(v[3], n - 2) + Passed(v[4], n - 3) < Span(n - 1)
         /\ Passed(v[2], n - 1) + Passed(v[3], n - 2) + Passed(v[4], n - 3) < Span(n)
<1>1. /\ n \in 0 .. 3
      /\ v[2] # 0 => n >= 1
      /\ v[3] # 0 => n >= 2
      /\ v[4] # 0 => n = 3
  BY LevelOf
<1>2. /\ v[1] \in 1 .. I3BLOCK
      /\ v[2] \in 0 .. IntsInBlock /\ v[3] \in 0 .. IntsInBlock /\ v[4] \in 0 .. IntsInBlock
      /\ v[2] = 0 => v[3] = 0
      /\ v[3] = 0 => v[4] = 0
  BY PlaceParts
<1>3. PICK a, b, c : a = Passed(v[2], n - 1) /\ b = Passed(v[3], n - 2) /\ c = Passed(v[4], n - 3)
  OBVIOUS
<1>4. a \in Nat /\ b \in Nat /\ c \in Nat
  <2>1. v[2] \in Nat /\ v[3] \in Nat /\ v[4] \in Nat /\ n - 1 \in Int /\ n - 2 \in Int /\ n - 3 \in Int
    BY <1>1, <1>2
  <2> QED
    BY <1>3, <2>1, PassedType
<1>5. /\ v[2] = 0 => a = 0
      /\ v[3] = 0 => b = 0
      /\ v[4] = 0 => c = 0
  <2>1. n - 1 \in Int /\ n - 2 \in Int /\ n - 3 \in Int
    BY <1>1
  <2>2. v[2] \in Nat /\ v[3] \in Nat /\ v[4] \in Nat
    BY <1>2
  <2> QED
    BY <1>3, <2>1, <2>2, PassedNone
<1>6. Span(n) \in Nat \ {0} /\ Span(n - 1) \in Nat \ {0} /\ Span(n - 2) \in Nat \ {0} /\ Span(n - 3) \in Nat \ {0}
  <2>1. n \in Int /\ n - 1 \in Int /\ n - 2 \in Int /\ n - 3 \in Int
    BY <1>1
  <2> QED
    BY <2>1, SpanType
<1>7. FirstOf(v[1]) \in Nat
  <2>1. v[1] < I3BLOCK \/ (v[1] = I3BLOCK /\ v[1] > 1 /\ v[1] - 1 \in 1 .. I3BLOCK)
    BY <1>2, Numbers
  <2>2. I3BLOCK \in 1 .. I3BLOCK
    BY Numbers
  <2> QED
    BY <1>2, <2>1, <2>2, FirstOfNext
<1>8. c < Span(n - 2)
  <2>1. CASE v[4] = 0
    BY <1>5, <1>6, <2>1
  <2>2. CASE v[4] # 0
    <3>1. n - 3 = 0 /\ n - 2 = 0 + 1 /\ v[4] \in 1 .. IntsInBlock /\ 0 \in 0 .. 2
      BY <1>1, <1>2, <2>2
    <3>2. Passed(v[4], 0) + Span(0) <= Span(0 + 1)
      BY <3>1, PassedAll
    <3>3. c + Span(n - 3) <= Span(n - 2)
      BY <1>3, <3>1, <3>2
    <3> QED
      BY <1>4, <1>6, <3>3
  <2> QED
    BY <2>1, <2>2
<1>9. b + c < Span(n - 1)
  <2>1. CASE v[3] = 0
    BY <1>2, <1>4, <1>5, <1>6, <2>1
  <2>2. CASE v[3] # 0
    <3>1. n - 2 \in 0 .. 2 /\ n - 1 = (n - 2) + 1 /\ v[3] \in 1 .. IntsInBlock
      BY <1>1, <1>2, <2>2
    <3>2. Passed(v[3], n - 2) + Span(n - 2) <= Span((n - 2) + 1)
      BY <3>1, PassedAll
    <3>3. b + Span(n - 2) <= Span(n - 1)
      BY <1>3, <3>1, <3>2
    <3> QED
      BY <1>4, <1>6, <1>8, <3>3
  <2> QED
    BY <2>1, <2>2
<1>10. a + b + c < Span(n)
  <2>1. CASE v[2] = 0
    BY <1>2, <1>4, <1>5, <1>6, <2>1
  <2>2. CASE v[2] # 0
    <3>1. n - 1 \in 0 .. 2 /\ n = (n - 1) + 1 /\ v[2] \in 1 .. IntsInBlock
      BY <1>1, <1>2, <2>2
    <3>2. Passed(v[2], n - 1) + Span(n - 1) <= Span((n - 1) + 1)
      BY <3>1, PassedAll
    <3>3. a + Span(n - 1) <= Span(n)
      BY <1>3, <3>1, <3>2
    <3> QED
      BY <1>4, <1>6, <1>9, <3>3
  <2> QED
    BY <2>1, <2>2
<1>11. First(v) = FirstOf(v[1]) + a + b + c
  BY <1>3 DEF First
<1> QED
  BY <1>3, <1>4, <1>7, <1>8, <1>9, <1>10, <1>11

(* Reading on, one never comes to data before those one has come to. *)
LEMMA Ordered ==
  ASSUME NEW v \in Places, NEW w \in Places, Precedes(v, w)
  PROVE  /\ First(v) <= First(w)
         /\ v[1] < w[1] => First(v) < FirstOf(w[1])
<1>1. PICK m, n : m = Level(v[1]) /\ n = Level(w[1])
  OBVIOUS
<1>2. PICK s, a, b, c : /\ s = FirstOf(v[1]) /\ a = Passed(v[2], m - 1)
                        /\ b = Passed(v[3], m - 2) /\ c = Passed(v[4], m - 3)
  OBVIOUS
<1>3. PICK t, d, e, f : /\ t = FirstOf(w[1]) /\ d = Passed(w[2], n - 1)
                        /\ e = Passed(w[3], n - 2) /\ f = Passed(w[4], n - 3)
  OBVIOUS
<1>4. /\ s \in Nat /\ a \in Nat /\ b \in Nat /\ c \in Nat /\ First(v) = s + a + b + c
      /\ c < Span(m - 2) /\ b + c < Span(m - 1) /\ a + b + c < Span(m)
  BY <1>1, <1>2, Inside
<1>5. /\ t \in Nat /\ d \in Nat /\ e \in Nat /\ f \in Nat /\ First(w) = t + d + e + f
  BY <1>1, <1>3, Inside
<1>6. /\ m \in 0 .. 3 /\ m - 1 \in Int /\ m - 2 \in Int /\ m - 3 \in Int
      /\ Span(m) \in Nat /\ Span(m - 1) \in Nat /\ Span(m - 2) \in Nat /\ Span(m - 3) \in Nat
  <2>1. m \in 0 .. 3
    BY <1>1, LevelOf
  <2>2. m \in Int /\ m - 1 \in Int /\ m - 2 \in Int /\ m - 3 \in Int
    BY <2>1
  <2> QED
    BY <2>1, <2>2, SpanType
<1>7. /\ v[1] \in 1 .. I3BLOCK /\ v[2] \in Nat /\ v[3] \in Nat /\ v[4] \in Nat
      /\ w[1] \in 1 .. I3BLOCK /\ w[2] \in Nat /\ w[3] \in Nat /\ w[4] \in Nat
      /\ v[2] = 0 => v[3] = 0
      /\ v[3] = 0 => v[4] = 0
  BY PlaceParts
<1>8. /\ v[2] = 0 => a = 0
      /\ v[3] = 0 => b = 0
      /\ v[4] = 0 => c = 0
  BY <1>2, <1>6, <1>7, PassedNone
<1>9. CASE v[1] < w[1]
  <2>1. s + Span(m) <= t
    BY <1>1, <1>2, <1>3, <1>7, <1>9, FirstOfNext
  <2>2. First(v) < t
    BY <1>4, <1>6, <1>5, <2>1
  <2> QED
    BY <1>3, <1>4, <1>5, <2>2
<1>10. CASE v[1] = w[1] /\ v[2] < w[2]
  <2>1. s = t /\ n = m
    BY <1>1, <1>2, <1>3, <1>10
  <2>2. CASE v[2] = 0
    <3>1. a = 0 /\ b = 0 /\ c = 0
      BY <1>2, <1>7, <1>8, <2>2
    <3> QED
      BY <1>4, <1>5, <1>7, <1>10, <2>1, <3>1
  <2>3. CASE v[2] # 0
    <3>1. a + Span(m - 1) <= d
      BY <1>2, <1>3, <1>6, <1>7, <1>10, <2>1, <2>3, PassedMore
    <3> QED
      BY <1>4, <1>5, <1>6, <1>7, <1>10, <2>1, <3>1
  <2> QED
    BY <2>2, <2>3
<1>11. CASE v[1] = w[1] /\ v[2] = w[2] /\ v[3] < w[3]
  <2>1. s = t /\ n = m /\ a = d
    BY <1>1, <1>2, <1>3, <1>11
  <2>2. CASE v[3] = 0
    <3>1. b = 0 /\ c = 0
      BY <1>2, <1>7, <1>8, <2>2
    <3> QED
      BY <1>4, <1>5, <1>7, <1>11, <2>1, <3>1
  <2>3. CASE v[3] # 0
    <3>1. b + Span(m - 2) <= e
      BY <1>2, <1>3, <1>6, <1>7, <1>11, <2>1, <2>3, PassedMore
    <3> QED
      BY <1>4, <1>5, <1>6, <1>7, <1>11, <2>1, <3>1
  <2> QED
    BY <2>2, <2>3
<1>12. CASE v[1] = w[1] /\ v[2] = w[2] /\ v[3] = w[3] /\ v[4] < w[4]
  <2>1. s = t /\ n = m /\ a = d /\ b = e
    BY <1>1, <1>2, <1>3, <1>12
  <2>2. CASE v[4] = 0
    <3>1. c = 0
      BY <1>2, <1>8, <2>2
    <3> QED
      BY <1>4, <1>5, <1>7, <1>12, <2>1, <3>1
  <2>3. CASE v[4] # 0
    <3>1. c + Span(m - 3) <= f
      BY <1>2, <1>3, <1>6, <1>7, <1>12, <2>1, <2>3, PassedMore
    <3> QED
      BY <1>4, <1>5, <1>6, <1>7, <1>12, <2>1, <3>1
  <2> QED
    BY <2>2, <2>3
<1> QED
  BY <1>9, <1>10, <1>11, <1>12 DEF Precedes

-----------------------------------------------------------------------------
(* How the loops move from place to place. *)

LEMMA CursorIs ==
  ASSUME NEW v \in Cursors
  PROVE  /\ v[1] > I3BLOCK => v = Root(I3BLOCK + 1)
         /\ v[1] <= I3BLOCK /\ ~Past(v) => v \in Places
         /\ v \in Places => ~Past(v) /\ v[1] <= I3BLOCK
         /\ v[2] # 0 /\ Past(v) => Turn(v) = IntsInBlock + 1
<1>1. /\ v = <<v[1], v[2], v[3], v[4]>>
      /\ v[1] \in 1 .. I3BLOCK + 1
      /\ v[2] \in Nat /\ v[3] \in Nat /\ v[4] \in Nat
      /\ v[2] = 0 => v[3] = 0
      /\ v[3] = 0 => v[4] = 0
      /\ Depth(v) <= Level(v[1])
      /\ v[1] = I3BLOCK + 1 => v[2] = 0
      /\ v[2] # 0 => Turn(v) \in 1 .. IntsInBlock + 1 /\ Parent(v) \in Places
  BY CursorParts
<1>2. v[1] > I3BLOCK => v = Root(I3BLOCK + 1)
  BY <1>1, Numbers DEF Root
<1>3. ASSUME v[1] <= I3BLOCK, ~Past(v) PROVE v \in Places
  <2>1. v[2] \in 0 .. IntsInBlock /\ v[3] \in 0 .. IntsInBlock /\ v[4] \in 0 .. IntsInBlock
    <3>1. CASE v[2] = 0
      BY <1>1, <3>1, Numbers
    <3>2. CASE v[2] # 0 /\ v[3] = 0
      <4>1. Turn(v) = v[2] /\ Turn(v) <= IntsInBlock
        BY <1>1, <1>3, <3>2, Numbers DEF Turn, Past
      <4> QED
        BY <1>1, <3>2, <4>1, Numbers
    <3>3. CASE v[3] # 0 /\ v[4] = 0
      <4>1. Turn(v) = v[3] /\ Turn(v) <= IntsInBlock
        BY <1>1, <1>3, <3>3, Numbers DEF Turn, Past
      <4>2. Parent(v) = <<v[1], v[2], 0, 0>> /\ Parent(v) \in Places
        BY <1>1, <3>3 DEF Parent
      <4>3. Parent(v)[2] \in 0 .. IntsInBlock
        BY <4>2, PlaceParts
      <4> QED
        BY <1>1, <3>3, <4>1, <4>2, <4>3, Numbers
    <3>4. CASE v[4] # 0
      <4>1. Turn(v) = v[4] /\ Turn(v) <= IntsInBlock
        BY <1>1, <1>3, <3>4, Numbers DEF Turn, Past
      <4>2. Parent(v) = <<v[1], v[2], v[3], 0>> /\ Parent(v) \in Places
        BY <1>1, <3>4 DEF Parent
      <4>3. Parent(v)[2] \in 0 .. IntsInBlock /\ Parent(v)[3] \in 0 .. IntsInBlock
        BY <4>2, PlaceParts
      <4> QED
        BY <1>1, <3>4, <4>1, <4>2, <4>3, Numbers
    <3> QED
      BY <3>1, <3>2, <3>3, <3>4
  <2>2. v[1] \in 1 .. I3BLOCK
    BY <1>1, <1>3, Numbers
  <2> QED
    BY <1>1, <2>1, <2>2 DEF Places, Int0, Slots
<1>4. ASSUME v \in Places PROVE ~Past(v) /\ v[1] <= I3BLOCK
  <2>1. /\ v[1] \in 1 .. I3BLOCK
        /\ v[2] \in 0 .. IntsInBlock /\ v[3] \in 0 .. IntsInBlock /\ v[4] \in 0 .. IntsInBlock
    BY <1>4, PlaceParts
  <2> QED
    BY <2>1, Numbers DEF Past, Turn
<1>5. v[2] # 0 /\ Past(v) => Turn(v) = IntsInBlock + 1
  BY <1>1, Numbers DEF Past
<1> QED
  BY <1>2, <1>3, <1>4, <1>5

LEMMA RootIs ==
  ASSUME NEW s \in 1 .. I3BLOCK
  PROVE  /\ Root(s) \in Places /\ Root(s)[1] = s /\ Root(s)[2] = 0
         /\ Root(s)[3] = 0 /\ Root(s)[4] = 0
         /\ First(Root(s)) = FirstOf(s)
<1>1. Root(s) \in Places
  <2>1. Depth(<<s, 0, 0, 0>>) = 0 /\ Level(s) >= 0
    BY LevelIs DEF Depth
  <2> QED
    BY <2>1, Numbers DEF Places, Int0, Slots, Root
<1>2. Root(s)[1] = s /\ Root(s)[2] = 0 /\ Root(s)[3] = 0 /\ Root(s)[4] = 0
  BY DEF Root
<1>3. PICK n : n = Level(s)
  OBVIOUS
<1>4. n - 1 \in Int /\ n - 2 \in Int /\ n - 3 \in Int
  BY <1>3, LevelIs
<1>5. \A r \in Slots : Passed(Root(r)[2], n - 1) = 0 /\ Passed(Root(r)[3], n - 2) = 0 /\ Passed(Root(r)[4], n - 3) = 0
  BY <1>4, PassedNone DEF Root
<1>6. First(Root(s)) = FirstOf(s) + Passed(Root(s)[2], n - 1) + Passed(Root(s)[3], n - 2) + Passed(Root(s)[4], n - 3)
  BY <1>1, <1>2, <1>3, Inside
<1>7. FirstOf(s) \in Nat
  BY <1>1, <1>2, Inside
<1> QED
  BY <1>1, <1>2, <1>5, <1>6, <1>7 DEF Slots

LEMMA ParentIs ==
  ASSUME NEW v \in Places, v[2] # 0
  PROVE  /\ Parent(v) \in Places
         /\ v = Child(Parent(v), Turn(v)) /\ Turn(v) \in 1 .. IntsInBlock
         /\ LevelsBelow(Parent(v)) = LevelsBelow(v) + 1
         /\ Parent(v)[1] = v[1]
         /\ Precedes(Parent(v), v)
<1>1. /\ v = <<v[1], v[2], v[3], v[4]>>
      /\ v[1] \in 1 .. I3BLOCK
      /\ v[2] \in 0 .. IntsInBlock /\ v[3] \in 0 .. IntsInBlock /\ v[4] \in 0 .. IntsInBlock
      /\ v[2] = 0 => v[3] = 0
      /\ v[3] = 0 => v[4] = 0
      /\ Depth(v) <= Level(v[1])
  BY PlaceParts
<1>2. Level(v[1]) \in 0 .. 3
  BY LevelOf
<1>3. CASE v[3] = 0
  <2>1. Parent(v) = <<v[1], 0, 0, 0>> /\ Turn(v) = v[2] /\ Depth(v) = 1
    BY <1>1, <1>3 DEF Parent, Turn, Depth, Root
  <2>2. Depth(Parent(v)) = 0
    BY <2>1 DEF Depth
  <2>3. Parent(v) \in Places
    BY <1>1, <1>2, <2>1, <2>2, Numbers DEF Places, Int0, Slots
  <2>4. Child(Parent(v), Turn(v)) = v
    BY <1>1, <1>3, <2>1 DEF Child
  <2> QED
    BY <1>1, <1>2, <2>1, <2>2, <2>3, <2>4 DEF LevelsBelow, Precedes
<1>4. CASE v[3] # 0 /\ v[4] = 0
  <2>1. Parent(v) = <<v[1], v[2], 0, 0>> /\ Turn(v) = v[3] /\ Depth(v) = 2
    BY <1>1, <1>4 DEF Parent, Turn, Depth
  <2>2. Depth(Parent(v)) = 1
    BY <2>1 DEF Depth
  <2>3. Parent(v) \in Places
    BY <1>1, <1>2, <2>1, <2>2, Numbers DEF Places, Int0, Slots
  <2>4. Child(Parent(v), Turn(v)) = v
    BY <1>1, <1>4, <2>1 DEF Child
  <2> QED
    BY <1>1, <1>2, <1>4, <2>1, <2>2, <2>3, <2>4 DEF LevelsBelow, Precedes
<1>5. CASE v[4] # 0
  <2>1. Parent(v) = <<v[1], v[2], v[3], 0>> /\ Turn(v) = v[4] /\ Depth(v) = 3
    BY <1>1, <1>5 DEF Parent, Turn, Depth
  <2>2. Depth(Parent(v)) = 2
    BY <1>1, <1>5, <2>1 DEF Depth
  <2>3. Parent(v) \in Places
    BY <1>1, <1>2, <1>5, <2>1, <2>2, Numbers DEF Places, Int0, Slots
  <2>4. Child(Parent(v), Turn(v)) = v
    BY <1>1, <1>5, <2>1 DEF Child
  <2> QED
    BY <1>1, <1>2, <1>5, <2>1, <2>2, <2>3, <2>4 DEF LevelsBelow, Precedes
<1> QED
  BY <1>3, <1>4, <1>5

LEMMA ChildIs ==
  ASSUME NEW v \in Places, LevelsBelow(v) > 0, NEW k \in 1 .. IntsInBlock
  PROVE  /\ Child(v, k) \in Places
         /\ Child(v, k)[2] # 0 /\ Child(v, k)[1] = v[1]
         /\ Parent(Child(v, k)) = v /\ Turn(Child(v, k)) = k
         /\ LevelsBelow(Child(v, k)) = LevelsBelow(v) - 1
<1>1. /\ v = <<v[1], v[2], v[3], v[4]>>
      /\ v[1] \in 1 .. I3BLOCK
      /\ v[2] \in 0 .. IntsInBlock /\ v[3] \in 0 .. IntsInBlock /\ v[4] \in 0 .. IntsInBlock
      /\ v[2] = 0 => v[3] = 0
      /\ v[3] = 0 => v[4] = 0
      /\ Depth(v) <= Level(v[1])
  BY PlaceParts
<1>2. Level(v[1]) \in 0 .. 3 /\ Depth(v) < Level(v[1]) /\ Depth(v) \in 0 .. 3
  BY LevelOf DEF LevelsBelow
<1>3. CASE v[2] = 0
  <2>1. Child(v, k) = <<v[1], k, 0, 0>> /\ Depth(v) = 0
    BY <1>1, <1>3 DEF Child, Depth
  <2>2. Depth(Child(v, k)) = 1
    BY <2>1 DEF Depth
  <2>3. Child(v, k) \in Places
    BY <1>1, <1>2, <2>1, <2>2, Numbers DEF Places, Int0, Slots
  <2>4. Parent(Child(v, k)) = v /\ Turn(Child(v, k)) = k
    BY <1>1, <1>3, <2>1 DEF Parent, Turn, Root
  <2> QED
    BY <1>1, <1>2, <2>1, <2>2, <2>3, <2>4 DEF LevelsBelow
<1>4. CASE v[2] # 0 /\ v[3] = 0
  <2>1. Child(v, k) = <<v[1], v[2], k, 0>> /\ Depth(v) = 1
    BY <1>1, <1>4 DEF Child, Depth
  <2>2. Depth(Child(v, k)) = 2
    BY <1>4, <2>1 DEF Depth
  <2>3. Child(v, k) \in Places
    BY <1>1, <1>2, <1>4, <2>1, <2>2, Numbers DEF Places, Int0, Slots
  <2>4. Parent(Child(v, k)) = v /\ Turn(Child(v, k)) = k
    BY <1>1, <1>4, <2>1 DEF Parent, Turn, Root
  <2> QED
    BY <1>1, <1>2, <1>4, <2>1, <2>2, <2>3, <2>4 DEF LevelsBelow
<1>5. CASE v[3] # 0
  <2>0. v[2] # 0 /\ v[4] = 0
    BY <1>1, <1>2, <1>5 DEF Depth
  <2>1. Child(v, k) = <<v[1], v[2], v[3], k>> /\ Depth(v) = 2
    BY <1>1, <1>5, <2>0 DEF Child, Depth
  <2>2. Depth(Child(v, k)) = 3
    BY <1>5, <2>0, <2>1 DEF Depth
  <2>3. Child(v, k) \in Places
    BY <1>1, <1>2, <1>5, <2>0, <2>1, <2>2, Numbers DEF Places, Int0, Slots
  <2>4. Parent(Child(v, k)) = v /\ Turn(Child(v, k)) = k
    BY <1>1, <1>5, <2>0, <2>1 DEF Parent, Turn, Root
  <2> QED
    BY <1>1, <1>2, <1>5, <2>0, <2>1, <2>2, <2>3, <2>4 DEF LevelsBelow
<1> QED
  BY <1>3, <1>4, <1>5

LEMMA AdvanceIs ==
  ASSUME NEW v \in Places
  PROVE  Advance(v) \in Cursors
<1>1. /\ v = <<v[1], v[2], v[3], v[4]>>
      /\ v[1] \in 1 .. I3BLOCK
      /\ v[2] \in 0 .. IntsInBlock /\ v[3] \in 0 .. IntsInBlock /\ v[4] \in 0 .. IntsInBlock
      /\ v[2] = 0 => v[3] = 0
      /\ v[3] = 0 => v[4] = 0
      /\ Depth(v) <= Level(v[1])
  BY PlaceParts
<1>2. CASE v[2] = 0
  <2>1. Advance(v) = <<v[1] + 1, 0, 0, 0>>
    BY <1>2 DEF Advance
  <2>2. Depth(Advance(v)) = 0 /\ Level(v[1] + 1) >= 0
    BY <2>1 DEF Depth, Level
  <2> QED
    BY <1>1, <2>1, <2>2, Numbers DEF Cursors
<1>3. CASE v[2] # 0
  <2>1. Parent(v) \in Places
    BY <1>3, ParentIs
  <2>2. CASE v[3] = 0
    <3>1. Advance(v) = <<v[1], v[2] + 1, 0, 0>> /\ Turn(v) = v[2] /\ Depth(v) = 1
      BY <1>1, <1>3, <2>2 DEF Advance, Turn, Depth
    <3>2. Depth(Advance(v)) = 1 /\ Parent(Advance(v)) = Parent(v) /\ Turn(Advance(v)) = v[2] + 1
      BY <1>1, <1>3, <2>2, <3>1 DEF Depth, Parent, Turn, Root
    <3> QED
      BY <1>1, <1>3, <2>1, <3>1, <3>2, Numbers DEF Cursors
  <2>3. CASE v[3] # 0 /\ v[4] = 0
    <3>1. Advance(v) = <<v[1], v[2], v[3] + 1, 0>> /\ Turn(v) = v[3] /\ Depth(v) = 2
      BY <1>1, <1>3, <2>3 DEF Advance, Turn, Depth
    <3>2. Depth(Advance(v)) = 2 /\ Parent(Advance(v)) = Parent(v) /\ Turn(Advance(v)) = v[3] + 1
      BY <1>1, <1>3, <2>3, <3>1 DEF Depth, Parent, Turn, Root
    <3> QED
      BY <1>1, <1>3, <2>1, <2>3, <3>1, <3>2, Numbers DEF Cursors
  <2>4. CASE v[4] # 0
    <3>1. Advance(v) = <<v[1], v[2], v[3], v[4] + 1>> /\ Turn(v) = v[4] /\ Depth(v) = 3
      BY <1>1, <1>3, <2>4 DEF Advance, Turn, Depth
    <3>2. Depth(Advance(v)) = 3 /\ Parent(Advance(v)) = Parent(v) /\ Turn(Advance(v)) = v[4] + 1
      BY <1>1, <1>3, <2>4, <3>1 DEF Depth, Parent, Turn, Root
    <3> QED
      BY <1>1, <1>3, <2>1, <2>4, <3>1, <3>2, Numbers DEF Cursors
  <2> QED
    BY <1>1, <2>2, <2>3, <2>4
<1> QED
  BY <1>2, <1>3

LEMMA FirstIs ==
  ASSUME NEW v \in Cursors, NEW n, n = Level(v[1]), v[1] <= I3BLOCK
  PROVE  /\ First(v) = FirstOf(v[1]) + Passed(v[2], n - 1) + Passed(v[3], n - 2) + Passed(v[4], n - 3)
         /\ FirstOf(v[1]) \in Nat /\ n \in 0 .. 3
         /\ Passed(v[2], n - 1) \in Nat /\ Passed(v[3], n - 2) \in Nat /\ Passed(v[4], n - 3) \in Nat
         /\ First(v) \in Nat
<1>1. v[1] \in 1 .. I3BLOCK /\ v[2] \in Nat /\ v[3] \in Nat /\ v[4] \in Nat
  BY CursorParts, Numbers
<1>2. n \in 0 .. 3
  BY <1>1, LevelIs
<1>3. FirstOf(v[1]) \in Nat
  <2>1. Root(v[1]) \in Places /\ Root(v[1])[1] = v[1]
    BY <1>1, RootIs
  <2> QED
    BY <2>1, Inside
<1>4. First(v) = FirstOf(v[1]) + Passed(v[2], n - 1) + Passed(v[3], n - 2) + Passed(v[4], n - 3)
  BY DEF First
<1>5. Passed(v[2], n - 1) \in Nat /\ Passed(v[3], n - 2) \in Nat /\ Passed(v[4], n - 3) \in Nat
  <2>1. n - 1 \in Int /\ n - 2 \in Int /\ n - 3 \in Int
    BY <1>2
  <2> QED
    BY <1>1, <2>1, PassedType
<1> QED
  BY <1>2, <1>3, <1>4, <1>5

(* A block of data is passed. *)
LEMMA FirstAdvance ==
  ASSUME NEW v \in Places, LevelsBelow(v) = 0
  PROVE  /\ Advance(v) \in Cursors /\ Advance(v)[1] <= I3BLOCK
         /\ First(Advance(v)) = First(v) + 1
<1>1. /\ v[1] \in 1 .. I3BLOCK
      /\ v[2] \in Nat /\ v[3] \in Nat /\ v[4] \in Nat
      /\ v[2] = 0 => v[3] = 0
      /\ v[3] = 0 => v[4] = 0
  BY PlaceParts, Numbers
<1>2. PICK n : n = Level(v[1])
  OBVIOUS
<1>3. n \in 0 .. 3 /\ Depth(v) = n
  BY <1>2, LevelOf DEF LevelsBelow
<1>4. PICK u : u = Advance(v)
  OBVIOUS
<1>5. u \in Cursors
  BY <1>4, AdvanceIs
<1>6. PICK s, a, b, c : /\ s = FirstOf(v[1]) /\ a = Passed(v[2], n - 1)
                        /\ b = Passed(v[3], n - 2) /\ c = Passed(v[4], n - 3)
  OBVIOUS
<1>7. /\ First(v) = s + a + b + c
      /\ s \in Nat /\ a \in Nat /\ b \in Nat /\ c \in Nat
  BY <1>2, <1>6, Inside
<1>8. \A r \in {n - 1, n - 2, n - 3} : r \in Int /\ (r <= 0 => Span(r) = 1)
  <2> SUFFICES ASSUME NEW r \in Int, r <= 0 PROVE Span(r) = 1
    BY <1>3
  <2> QED
    BY DEF Span
<1>9. CASE v[2] = 0
  <2>1. n = 0 /\ u = <<v[1] + 1, 0, 0, 0>>
    BY <1>3, <1>4, <1>9 DEF Depth, Advance
  <2>2. v[1] <= N_DBLOCKS /\ v[1] + 1 \in 1 .. I3BLOCK
    <3>1. Level(v[1]) = 0
      BY <1>2, <2>1
    <3>2. v[1] <= N_DBLOCKS
      BY <1>1, <3>1, LevelIs
    <3> QED
      BY <1>1, <3>2, Numbers
  <2>3. FirstOf(v[1] + 1) = s + Span(Level(v[1]))
    BY <1>1, <1>6, <2>2, FirstOfNext
  <2>4. Span(Level(v[1])) = 1
    BY <1>2, <2>1 DEF Span
  <2>5. u = Root(v[1] + 1) /\ First(u) = s + 1
    <3>1. u = Root(v[1] + 1)
      BY <2>1 DEF Root
    <3>2. First(Root(v[1] + 1)) = FirstOf(v[1] + 1)
      BY <2>2, RootIs
    <3> QED
      BY <2>3, <2>4, <3>1, <3>2
  <2>6. a = 0 /\ b = 0 /\ c = 0
    BY <1>1, <1>6, <1>8, <1>9, PassedNone
  <2> QED
    BY <1>4, <1>5, <1>7, <2>1, <2>2, <2>5, <2>6
<1>10. CASE v[2] # 0
  <2>1. u[1] = v[1] /\ v[1] <= I3BLOCK
    BY <1>1, <1>4, <1>10 DEF Advance
  <2>2. First(u) = s + Passed(u[2], n - 1) + Passed(u[3], n - 2) + Passed(u[4], n - 3)
    BY <1>2, <1>5, <1>6, <2>1, FirstIs
  <2>3. CASE v[3] = 0
    <3>1. n = 1 /\ u[2] = v[2] + 1 /\ u[3] = v[3] /\ u[4] = v[4]
      BY <1>1, <1>3, <1>4, <1>10, <2>3 DEF Depth, Advance
    <3>2. Passed(v[2] + 1, n - 1) = a + Span(n - 1) /\ Span(n - 1) = 1
      BY <1>1, <1>6, <1>8, <1>10, <3>1, PassedNext
    <3> QED
      BY <1>4, <1>5, <1>6, <1>7, <2>1, <2>2, <3>1, <3>2
  <2>4. CASE v[3] # 0 /\ v[4] = 0
    <3>1. n = 2 /\ u[2] = v[2] /\ u[3] = v[3] + 1 /\ u[4] = v[4]
      BY <1>1, <1>3, <1>4, <1>10, <2>4 DEF Depth, Advance
    <3>2. Passed(v[3] + 1, n - 2) = b + Span(n - 2) /\ Span(n - 2) = 1
      BY <1>1, <1>6, <1>8, <2>4, <3>1, PassedNext
    <3> QED
      BY <1>4, <1>5, <1>6, <1>7, <2>1, <2>2, <3>1, <3>2
  <2>5. CASE v[4] # 0
    <3>1. n = 3 /\ u[2] = v[2] /\ u[3] = v[3] /\ u[4] = v[4] + 1
      BY <1>1, <1>3, <1>4, <1>10, <2>5 DEF Depth, Advance
    <3>2. Passed(v[4] + 1, n - 3) = c + Span(n - 3) /\ Span(n - 3) = 1
      BY <1>1, <1>6, <1>8, <2>5, <3>1, PassedNext
    <3> QED
      BY <1>4, <1>5, <1>6, <1>7, <2>1, <2>2, <3>1, <3>2
  <2> QED
    BY <1>1, <2>3, <2>4, <2>5
<1> QED
  BY <1>9, <1>10

(* The first int of an index block leads to the first data below the block. *)
LEMMA FirstChild ==
  ASSUME NEW v \in Places, LevelsBelow(v) > 0
  PROVE  First(Child(v, 1)) = First(v)
<1>1. PICK k, u : k = 1 /\ u = Child(v, k)
  OBVIOUS
<1>2. k \in 1 .. IntsInBlock
  BY <1>1, Numbers
<1>3. u \in Places /\ u[1] = v[1]
  BY <1>1, <1>2, ChildIs
<1>4. PICK n : n = Level(v[1])
  OBVIOUS
<1>5. n \in 0 .. 3 /\ Depth(v) < n
  BY <1>4, LevelOf DEF LevelsBelow
<1>6. /\ First(v) = FirstOf(v[1]) + Passed(v[2], n - 1) + Passed(v[3], n - 2) + Passed(v[4], n - 3)
      /\ First(u) = FirstOf(v[1]) + Passed(u[2], n - 1) + Passed(u[3], n - 2) + Passed(u[4], n - 3)
  BY <1>3, <1>4, Inside
<1>7. v[2] \in Nat /\ v[3] \in Nat /\ v[4] \in Nat /\ (v[2] = 0 => v[3] = 0) /\ (v[3] = 0 => v[4] = 0)
  BY PlaceParts
<1>8. \A i \in 0 .. 1, r \in {n - 1, n - 2, n - 3} : Passed(i, r) = 0
  <2>1. \A r \in {n - 1, n - 2, n - 3} : r \in Int
    BY <1>5
  <2>2. \A i \in 0 .. 1 : i \in Nat /\ i <= 1
    OBVIOUS
  <2> QED
    BY <2>1, <2>2, PassedNone
<1>9. CASE v[2] = 0
  <2>1. u[2] = k /\ u[3] = v[3] /\ u[4] = v[4]
    BY <1>1, <1>7, <1>9 DEF Child
  <2>2. Passed(u[2], n - 1) = Passed(v[2], n - 1)
    BY <1>1, <1>8, <1>9, <2>1
  <2> QED
    BY <1>1, <1>6, <2>1, <2>2
<1>10. CASE v[2] # 0 /\ v[3] = 0
  <2>1. u[2] = v[2] /\ u[3] = k /\ u[4] = v[4]
    BY <1>1, <1>7, <1>10 DEF Child
  <2>2. Passed(u[3], n - 2) = Passed(v[3], n - 2)
    BY <1>1, <1>8, <1>10, <2>1
  <2> QED
    BY <1>1, <1>6, <2>1, <2>2
<1>11. CASE v[3] # 0
  <2>1. u[2] = v[2] /\ u[3] = v[3] /\ u[4] = k
    BY <1>1, <1>7, <1>11 DEF Child
  <2>2. v[4] = 0
    BY <1>5, <1>7, <1>11 DEF Depth
  <2>3. Passed(u[4], n - 3) = Passed(v[4], n - 3)
    BY <1>1, <1>8, <2>1, <2>2
  <2> QED
    BY <1>1, <1>6, <2>1, <2>3
<1> QED
  BY <1>9, <1>10, <1>11

(* Behind the last int of an index block one is where the block itself is passed. *)
LEMMA LeaveIs ==
  ASSUME NEW v \in Cursors, v[2] # 0, NEW u, u = Advance(Parent(v))
  PROVE  /\ u \in Cursors
         /\ Past(v) /\ u[1] <= I3BLOCK => First(u) = First(v)
<1>1. /\ v[1] \in 1 .. I3BLOCK
      /\ v[2] \in Nat /\ v[3] \in Nat /\ v[4] \in Nat
      /\ v[2] = 0 => v[3] = 0
      /\ v[3] = 0 => v[4] = 0
      /\ Depth(v) <= Level(v[1])
      /\ Parent(v) \in Places
  BY CursorParts, Numbers
<1>2. u \in Cursors
  BY <1>1, AdvanceIs
<1>3. ASSUME Past(v), u[1] <= I3BLOCK PROVE First(u) = First(v)
  <2>1. Turn(v) = IntsInBlock + 1
    BY <1>3, CursorIs
  <2>2. PICK n : n = Level(v[1])
    OBVIOUS
  <2>3. PICK s, a, b, c : /\ s = FirstOf(v[1]) /\ a = Passed(v[2], n - 1)
                          /\ b = Passed(v[3], n - 2) /\ c = Passed(v[4], n - 3)
    OBVIOUS
  <2>4. /\ First(v) = s + a + b + c
        /\ s \in Nat /\ a \in Nat /\ b \in Nat /\ c \in Nat /\ n \in 0 .. 3
    BY <1>1, <2>2, <2>3, FirstIs
  <2>5. n - 1 \in Int /\ n - 2 \in Int /\ n - 3 \in Int
    BY <2>4
  <2>6. \A r \in {n - 1, n - 2, n - 3} : \A k \in Nat : k <= 1 => Passed(k, r) = 0
    BY <2>5, PassedNone
  <2>7. CASE v[3] = 0
    <3>1. Turn(v) = v[2] /\ Parent(v) = Root(v[1]) /\ v[4] = 0
      BY <1>1, <2>7 DEF Turn, Parent
    <3>2. u = Root(v[1] + 1)
      BY <3>1 DEF Advance, Root
    <3>3. v[1] + 1 \in 1 .. I3BLOCK
      <4>1. u[1] = v[1] + 1
        BY <3>2 DEF Root
      <4> QED
        BY <1>1, <1>3, <4>1, Numbers
    <3>4. n \in 1 .. 3
      <4>1. Depth(v) = 1
        BY <2>7 DEF Depth
      <4> QED
        BY <1>1, <2>2, <2>4, <4>1
    <3>5. a = Span(n)
      <4>1. n - 1 \in 0 .. 2 /\ (n - 1) + 1 = n
        BY <3>4
      <4>2. Passed(IntsInBlock + 1, n - 1) = Span((n - 1) + 1)
        BY <4>1, PassedAll
      <4> QED
        BY <2>1, <2>3, <3>1, <4>1, <4>2
    <3>6. First(u) = FirstOf(v[1] + 1)
      BY <3>2, <3>3, RootIs
    <3>7. FirstOf(v[1] + 1) = s + Span(n)
      BY <1>1, <2>2, <2>3, <3>3, FirstOfNext
    <3>8. b = 0 /\ c = 0
      BY <1>1, <2>3, <2>6, <2>7, <3>1
    <3> QED
      BY <2>4, <3>5, <3>6, <3>7, <3>8
  <2>8. CASE v[3] # 0
    <3>1. u[1] = v[1] /\ u[2] = (IF v[4] = 0 THEN v[2] + 1 ELSE v[2])
          /\ u[3] = (IF v[4] = 0 THEN 0 ELSE v[3] + 1) /\ u[4] = 0
      BY <1>1, <2>8 DEF Advance, Parent
    <3>2. First(u) = s + Passed(u[2], n - 1) + Passed(u[3], n - 2) + Passed(u[4], n - 3)
      BY <1>2, <1>3, <2>2, <2>3, <3>1, FirstIs
    <3>3. Passed(u[4], n - 3) = 0
      BY <2>6, <3>1
    <3>4. CASE v[4] = 0
      <4>1. Turn(v) = v[3] /\ n \in 2 .. 3
        <5>1. Depth(v) = 2
          BY <1>1, <2>8, <3>4 DEF Depth
        <5>2. Turn(v) = v[3]
          BY <1>1, <2>8, <3>4 DEF Turn
        <5> QED
          BY <1>1, <2>2, <2>4, <5>1, <5>2
      <4>2. b = Span(n - 1)
        <5>1. n - 2 \in 0 .. 2 /\ (n - 2) + 1 = n - 1
          BY <4>1
        <5>2. Passed(IntsInBlock + 1, n - 2) = Span((n - 2) + 1)
          BY <5>1, PassedAll
        <5> QED
          BY <2>1, <2>3, <4>1, <5>1, <5>2
      <4>3. Passed(u[2], n - 1) = a + Span(n - 1)
        <5>1. v[2] > 0 /\ u[2] = v[2] + 1
          BY <1>1, <3>1, <3>4
        <5> QED
          BY <1>1, <2>3, <2>5, <5>1, PassedNext
      <4>4. Passed(u[3], n - 2) = 0 /\ c = 0
        BY <2>3, <2>6, <3>1, <3>4
      <4> QED
        BY <2>4, <3>2, <3>3, <4>2, <4>3, <4>4
    <3>5. CASE v[4] # 0
      <4>1. Turn(v) = v[4] /\ n = 3
        <5>1. Depth(v) = 3
          BY <1>1, <2>8, <3>5 DEF Depth
        <5>2. Turn(v) = v[4]
          BY <1>1, <2>8, <3>5 DEF Turn
        <5> QED
          BY <1>1, <2>2, <2>4, <5>1, <5>2
      <4>2. c = Span(n - 2)
        <5>1. n - 3 \in 0 .. 2 /\ (n - 3) + 1 = n - 2
          BY <4>1
        <5>2. Passed(IntsInBlock + 1, n - 3) = Span((n - 3) + 1)
          BY <5>1, PassedAll
        <5> QED
          BY <2>1, <2>3, <4>1, <5>1, <5>2
      <4>3. Passed(u[3], n - 2) = b + Span(n - 2)
        <5>1. v[3] > 0 /\ u[3] = v[3] + 1
          BY <1>1, <2>8, <3>1, <3>5
        <5> QED
          BY <1>1, <2>3, <2>5, <5>1, PassedNext
      <4>4. Passed(u[2], n - 1) = a
        BY <2>3, <3>1, <3>5
      <4> QED
        BY <2>4, <3>2, <3>3, <4>2, <4>3, <4>4
    <3> QED
      BY <3>4, <3>5
  <2> QED
    BY <2>7, <2>8
<1> QED
  BY <1>2, <1>3

-----------------------------------------------------------------------------
(* The order in which a file is read. *)

Quad == Int \X Int \X Int \X Int

LEMMA AreQuads == Places \subseteq Quad /\ Cursors \subseteq Quad
<1>1. Places \subseteq Quad
  BY Numbers DEF Places, Slots, Int0, Quad
<1>2. Cursors \subseteq Quad
  BY Numbers DEF Cursors, Quad
<1> QED
  BY <1>1, <1>2

LEMMA OrderIs ==
  ASSUME NEW u \in Quad, NEW v \in Quad, NEW w \in Quad
  PROVE  /\ ~Precedes(u, u)
         /\ Precedes(u, v) /\ Precedes(v, w) => Precedes(u, w)
         /\ Precedes(u, v) \/ u = v \/ Precedes(v, u)
  BY DEF Quad, Precedes

(* One place more precedes the one the loops go on to. *)
LEMMA OneMore ==
  ASSUME NEW v \in Places, NEW w \in Places
  PROVE  /\ LevelsBelow(v) = 0 => (Precedes(w, Advance(v)) <=> Precedes(w, v) \/ w = v)
         /\ LevelsBelow(v) > 0 => (Precedes(w, Child(v, 1)) <=> Precedes(w, v) \/ w = v)
<1>1. /\ v = <<v[1], v[2], v[3], v[4]>>
      /\ v[1] \in 1 .. I3BLOCK
      /\ v[2] \in 0 .. IntsInBlock /\ v[3] \in 0 .. IntsInBlock /\ v[4] \in 0 .. IntsInBlock
      /\ v[2] = 0 => v[3] = 0
      /\ v[3] = 0 => v[4] = 0
  BY PlaceParts
<1>2. /\ w = <<w[1], w[2], w[3], w[4]>>
      /\ w[1] \in 1 .. I3BLOCK
      /\ w[2] \in 0 .. IntsInBlock /\ w[3] \in 0 .. IntsInBlock /\ w[4] \in 0 .. IntsInBlock
      /\ w[2] = 0 => w[3] = 0
      /\ w[3] = 0 => w[4] = 0
  BY PlaceParts
<1>3. /\ v[2] \in Nat /\ v[3] \in Nat /\ v[4] \in Nat /\ v[1] \in Nat
      /\ w[2] \in Nat /\ w[3] \in Nat /\ w[4] \in Nat /\ w[1] \in Nat
  BY <1>1, <1>2, Numbers
<1>4. w = v <=> w[1] = v[1] /\ w[2] = v[2] /\ w[3] = v[3] /\ w[4] = v[4]
  BY <1>1, <1>2
<1>5. Depth(v) <= Level(v[1]) /\ Depth(w) <= Level(w[1]) /\ Level(v[1]) \in 0 .. 3
  BY PlaceParts, LevelOf
<1>6. ASSUME LevelsBelow(v) = 0 PROVE Precedes(w, Advance(v)) <=> Precedes(w, v) \/ w = v
  <2>1. Depth(v) = Level(v[1])
    BY <1>5, <1>6, LevelOf DEF LevelsBelow
  <2>2. w[1] = v[1] => Depth(w) <= Depth(v)
    BY <1>5, <2>1
  <2>3. CASE v[2] = 0
    <3>1. Advance(v) = <<v[1] + 1, 0, 0, 0>> /\ v[3] = 0 /\ v[4] = 0
      BY <1>1, <2>3 DEF Advance
    <3>2. w[1] = v[1] => w[2] = 0
      BY <2>2, <2>3 DEF Depth
    <3> QED
      BY <1>2, <1>3, <1>4, <2>3, <3>1, <3>2 DEF Precedes
  <2>4. CASE v[2] # 0 /\ v[3] = 0
    <3>1. Advance(v) = <<v[1], v[2] + 1, 0, 0>> /\ v[4] = 0
      BY <1>1, <2>4 DEF Advance
    <3>2. w[1] = v[1] => w[3] = 0 /\ w[4] = 0
      BY <1>2, <2>2, <2>4 DEF Depth
    <3> QED
      BY <1>2, <1>3, <1>4, <2>4, <3>1, <3>2 DEF Precedes
  <2>5. CASE v[3] # 0 /\ v[4] = 0
    <3>1. Advance(v) = <<v[1], v[2], v[3] + 1, 0>> /\ v[2] # 0
      BY <1>1, <2>5 DEF Advance
    <3>2. w[1] = v[1] => w[4] = 0
      BY <1>2, <2>2, <2>5, <3>1 DEF Depth
    <3> QED
      BY <1>2, <1>3, <1>4, <2>5, <3>1, <3>2 DEF Precedes
  <2>6. CASE v[4] # 0
    <3>1. Advance(v) = <<v[1], v[2], v[3], v[4] + 1>>
      BY <1>1, <2>6 DEF Advance
    <3> QED
      BY <1>3, <1>4, <3>1 DEF Precedes
  <2> QED
    BY <2>3, <2>4, <2>5, <2>6
<1>7. ASSUME LevelsBelow(v) > 0 PROVE Precedes(w, Child(v, 1)) <=> Precedes(w, v) \/ w = v
  <2>1. v[4] = 0
    BY <1>1, <1>5, <1>7 DEF LevelsBelow, Depth
  <2>2. CASE v[2] = 0
    <3>1. Child(v, 1) = <<v[1], 1, 0, 0>> /\ v[3] = 0
      BY <1>1, <2>2 DEF Child
    <3> QED
      BY <1>2, <1>3, <1>4, <2>1, <2>2, <3>1 DEF Precedes
  <2>3. CASE v[2] # 0 /\ v[3] = 0
    <3>1. Child(v, 1) = <<v[1], v[2], 1, 0>>
      BY <2>3 DEF Child
    <3> QED
      BY <1>2, <1>3, <1>4, <2>1, <2>3, <3>1 DEF Precedes
  <2>4. CASE v[3] # 0
    <3>1. Child(v, 1) = <<v[1], v[2], v[3], 1>>
      BY <1>1, <2>4 DEF Child
    <3> QED
      BY <1>2, <1>3, <1>4, <2>1, <2>4, <3>1 DEF Precedes
  <2> QED
    BY <2>2, <2>3, <2>4
<1> QED
  BY <1>6, <1>7

(* No place is passed over when the loops leave an index block behind its last int; none
   is lost when they leave it before. *)
LEMMA LeaveOrder ==
  ASSUME NEW v \in Cursors, v[2] # 0, NEW w \in Places
  PROVE  /\ Precedes(w, v) => Precedes(w, Advance(Parent(v)))
         /\ Past(v) /\ Precedes(w, Advance(Parent(v))) => Precedes(w, v)
<1>1. /\ v[1] \in Nat /\ v[2] \in Nat /\ v[3] \in Nat /\ v[4] \in Nat
      /\ v[3] = 0 => v[4] = 0
  BY CursorParts, Numbers
<1>2. /\ w[1] \in Nat
      /\ w[2] \in 0 .. IntsInBlock /\ w[3] \in 0 .. IntsInBlock /\ w[4] \in 0 .. IntsInBlock
      /\ w[2] \in Nat /\ w[3] \in Nat /\ w[4] \in Nat
  BY PlaceParts, Numbers
<1>3. Past(v) => Turn(v) = IntsInBlock + 1
  BY CursorIs
<1>4. CASE v[3] = 0
  <2>1. Advance(Parent(v)) = <<v[1] + 1, 0, 0, 0>> /\ Turn(v) = v[2] /\ v[4] = 0
    BY <1>1, <1>4 DEF Advance, Parent, Root, Turn
  <2> QED
    BY <1>1, <1>2, <1>3, <1>4, <2>1, Numbers DEF Precedes
<1>5. CASE v[3] # 0 /\ v[4] = 0
  <2>1. Advance(Parent(v)) = <<v[1], v[2] + 1, 0, 0>> /\ Turn(v) = v[3]
    BY <1>1, <1>5 DEF Advance, Parent, Turn
  <2> QED
    BY <1>1, <1>2, <1>3, <1>5, <2>1, Numbers DEF Precedes
<1>6. CASE v[4] # 0
  <2>1. Advance(Parent(v)) = <<v[1], v[2], v[3] + 1, 0>> /\ Turn(v) = v[4]
    BY <1>1, <1>6 DEF Advance, Parent, Turn
  <2> QED
    BY <1>1, <1>2, <1>3, <1>6, <2>1, Numbers DEF Precedes
<1> QED
  BY <1>4, <1>5, <1>6

-----------------------------------------------------------------------------
(* What the defragmenter copies. *)

LEMMA DivIs ==
  ASSUME NEW x \in Nat, NEW d \in Nat \ {0}
  PROVE  /\ x \div d \in Nat
         /\ (x \div d) * d <= x
         /\ x < (x \div d) * d + d
  OBVIOUS

(* A file has ended when as many blocks of data are copied as it has. *)
LEMMA BlocksOfIs ==
  ASSUME NEW bytes \in Nat
  PROVE  /\ BlocksOf(bytes) \in Nat
         /\ \A n \in Nat : bytes - n * BLOCK_SIZE <= 0 <=> BlocksOf(bytes) <= n
<1>1. PICK d \in Nat \ {0} : d = BLOCK_SIZE
  BY DefragAssumption
<1>2. PICK q \in Nat : q = BlocksOf(bytes) /\ q * d <= bytes + d - 1 /\ bytes + d - 1 < q * d + d
  <2>1. bytes + d - 1 \in Nat
    OBVIOUS
  <2> QED
    BY <1>1, <2>1, DivIs DEF BlocksOf
<1>3. ASSUME NEW n \in Nat PROVE bytes - n * d <= 0 <=> q <= n
  <2>1. q * d \in Nat /\ n * d \in Nat
    OBVIOUS
  <2>2. CASE q = n
    BY <1>2, <2>1, <2>2
  <2>3. CASE q < n
    <3>1. q * d + d <= n * d
      BY <2>3, TimesMore
    <3> QED
      BY <1>2, <2>1, <2>3, <3>1
  <2>4. CASE n < q
    <3>1. n * d + d <= q * d
      BY <2>4, TimesMore
    <3> QED
      BY <1>2, <2>1, <2>4, <3>1
  <2> QED
    BY <2>2, <2>3, <2>4
<1> QED
  BY <1>1, <1>2, <1>3

(* The index block that is copied though the file does not reach it. *)
Extra(bytes) == {v \in {Root(I2BLOCK), Root(I3BLOCK)} : First(v) = BlocksOf(bytes)}

(* The places of a file that get a block in the destination. *)
Gets(bytes) == Nodes(bytes) \cup Extra(bytes)

Moves(image) ==
  {u \in Inodes \X Places :
     Live(image.inodes[u[1]]) /\ u[2] \in Gets(image.inodes[u[1]].size)}

(* The file and the place u are copied before the place v of inode i's file. *)
Ahead(u, i, v) == u[1] < i \/ (u[1] = i /\ Precedes(u[2], v))

Before(image, i, v) == {u \in Moves(image) : Ahead(u, i, v)}

(* Where a block is copied to. *)
Dest(image, i, v) == Cardinality(Before(image, i, v))

LEMMA PlacesFinite == IsFiniteSet(Places)
<1>1. IsFiniteSet(Slots) /\ IsFiniteSet(Int0)
  <2>1. 0 \in Int /\ 1 \in Int /\ IntsInBlock \in Int /\ I3BLOCK \in Int
    BY Numbers
  <2> QED
    BY <2>1, FS_Interval DEF Slots, Int0
<1>2. IsFiniteSet((Slots \X Int0) \X (Int0 \X Int0))
  <2>1. IsFiniteSet(Slots \X Int0) /\ IsFiniteSet(Int0 \X Int0)
    BY <1>1, FS_Product
  <2> QED
    BY <2>1, FS_Product
<1> DEFINE T == (Slots \X Int0) \X (Int0 \X Int0)
           f == [v \in Places |-> <<<<v[1], v[2]>>, <<v[3], v[4]>>>>]
<1>3. ASSUME NEW v \in Places PROVE <<<<v[1], v[2]>>, <<v[3], v[4]>>>> \in T
  BY <1>3, PlaceParts DEF Slots, Int0
<1>4. f \in [Places -> T]
  BY <1>3
<1>5. ASSUME NEW v \in Places, NEW w \in Places, f[v] = f[w] PROVE v = w
  <2>1. <<<<v[1], v[2]>>, <<v[3], v[4]>>>> = <<<<w[1], w[2]>>, <<w[3], w[4]>>>>
    BY <1>5
  <2>2. v[1] = w[1] /\ v[2] = w[2] /\ v[3] = w[3] /\ v[4] = w[4]
    BY <2>1
  <2> QED
    BY <2>2, PlaceParts
<1> HIDE DEF f, T
<1>6. f \in Injection(Places, T)
  BY <1>4, <1>5 DEF Injection, IsInjective
<1> QED
  BY <1>2, <1>6, FS_Injection DEF T

LEMMA MovesFinite ==
  ASSUME NEW image
  PROVE  /\ IsFiniteSet(Inodes) /\ Cardinality(Inodes) = num_inode
         /\ IsFiniteSet(Moves(image)) /\ Cardinality(Moves(image)) \in Nat
<1>1. IsFiniteSet(Inodes) /\ Cardinality(Inodes) = num_inode
  <2>1. 1 \in Int /\ num_inode \in Nat \ {0}
    BY DefragAssumption
  <2> QED
    BY <2>1, FS_Interval DEF Inodes
<1>2. IsFiniteSet(Inodes \X Places)
  BY <1>1, PlacesFinite, FS_Product
<1>3. Moves(image) \in SUBSET (Inodes \X Places)
  BY DEF Moves
<1>4. IsFiniteSet(Moves(image))
  BY <1>2, <1>3, FS_Subset
<1> QED
  BY <1>1, <1>4, FS_CardinalityType

LEMMA BeforeFinite ==
  ASSUME NEW image, NEW i, NEW v
  PROVE  IsFiniteSet(Before(image, i, v)) /\ Dest(image, i, v) \in Nat
<1>1. Before(image, i, v) \in SUBSET Moves(image)
  BY DEF Before
<1>2. IsFiniteSet(Before(image, i, v))
  BY <1>1, MovesFinite, FS_Subset
<1> QED
  BY <1>2, FS_CardinalityType DEF Dest

LEMMA MoveParts ==
  ASSUME NEW image, NEW u \in Moves(image)
  PROVE  /\ u = <<u[1], u[2]>> /\ u[1] \in Inodes /\ u[1] \in Int
         /\ u[2] \in Places /\ u[2] \in Quad
         /\ Live(image.inodes[u[1]]) /\ u[2] \in Gets(image.inodes[u[1]].size)
  BY AreQuads, DefragAssumption DEF Moves, Inodes

LEMMA MoveMade ==
  ASSUME NEW image, NEW i \in Inodes, NEW v \in Places, Live(image.inodes[i]),
         v \in Gets(image.inodes[i].size)
  PROVE  <<i, v>> \in Moves(image)
  BY DEF Moves

(* What is copied before goes before. *)
LEMMA DestGrows ==
  ASSUME NEW image, NEW i \in Int, NEW v \in Quad, NEW u \in Moves(image), Ahead(u, i, v)
  PROVE  Dest(image, u[1], u[2]) < Dest(image, i, v)
<1> DEFINE A == Before(image, u[1], u[2])
           B == Before(image, i, v)
<1>1. u[1] \in Int /\ u[2] \in Quad
  BY MoveParts
<1>2. A \subseteq B
  <2> SUFFICES ASSUME NEW w \in A PROVE w \in B
    OBVIOUS
  <2>1. w \in Moves(image) /\ Ahead(w, u[1], u[2])
    BY DEF Before
  <2>2. w[1] \in Int /\ w[2] \in Quad
    BY <2>1, MoveParts
  <2>3. Precedes(w[2], u[2]) /\ Precedes(u[2], v) => Precedes(w[2], v)
    BY <1>1, <2>2, OrderIs
  <2>4. Ahead(w, i, v)
    BY <1>1, <2>1, <2>2, <2>3 DEF Ahead
  <2> QED
    BY <2>1, <2>4 DEF Before
<1>3. u \in B /\ u \notin A
  <2>1. ~Precedes(u[2], u[2])
    BY <1>1, OrderIs
  <2> QED
    BY <1>1, <2>1 DEF Before, Ahead
<1>4. IsFiniteSet(B) /\ Cardinality(A) \in Nat /\ Cardinality(B) \in Nat
  BY BeforeFinite DEF Dest
<1> HIDE DEF A, B
<1>5. Cardinality(A) <= Cardinality(B) /\ Cardinality(A) # Cardinality(B)
  BY <1>2, <1>3, <1>4, FS_Subset
<1> QED
  BY <1>4, <1>5 DEF Dest, A, B

(* No two go to the same place. *)
LEMMA DestOne ==
  ASSUME NEW image, NEW u \in Moves(image), NEW w \in Moves(image)
  PROVE  /\ Ahead(u, w[1], w[2]) \/ u = w \/ Ahead(w, u[1], u[2])
         /\ Dest(image, u[1], u[2]) = Dest(image, w[1], w[2]) => u = w
         /\ Dest(image, u[1], u[2]) < Dest(image, w[1], w[2]) => Ahead(u, w[1], w[2])
<1>1. /\ u[1] \in Int /\ u[2] \in Quad /\ u = <<u[1], u[2]>>
      /\ w[1] \in Int /\ w[2] \in Quad /\ w = <<w[1], w[2]>>
  BY MoveParts
<1>2. Precedes(u[2], w[2]) \/ u[2] = w[2] \/ Precedes(w[2], u[2])
  BY <1>1, OrderIs
<1>3. Ahead(u, w[1], w[2]) \/ u = w \/ Ahead(w, u[1], u[2])
  BY <1>1, <1>2 DEF Ahead
<1>4. /\ Ahead(u, w[1], w[2]) => Dest(image, u[1], u[2]) < Dest(image, w[1], w[2])
      /\ Ahead(w, u[1], u[2]) => Dest(image, w[1], w[2]) < Dest(image, u[1], u[2])
  BY <1>1, DestGrows
<1>5. Dest(image, u[1], u[2]) \in Nat /\ Dest(image, w[1], w[2]) \in Nat
  BY BeforeFinite
<1> QED
  BY <1>3, <1>4, <1>5

LEMMA DestStep ==
  ASSUME NEW image, NEW i \in Inodes, NEW v \in Places, NEW n, <<i, v>> \in Moves(image),
         \A w \in Places : Precedes(w, n) <=> Precedes(w, v) \/ w = v
  PROVE  /\ Before(image, i, n) = Before(image, i, v) \cup {<<i, v>>}
         /\ Dest(image, i, n) = Dest(image, i, v) + 1
<1> DEFINE A == Before(image, i, v)
<1>1. ASSUME NEW u \in Moves(image) PROVE Ahead(u, i, n) <=> Ahead(u, i, v) \/ u = <<i, v>>
  <2>1. u = <<u[1], u[2]>> /\ u[2] \in Places
    BY MoveParts
  <2>2. u = <<i, v>> <=> u[1] = i /\ u[2] = v
    BY <2>1
  <2> QED
    BY <2>1, <2>2 DEF Ahead
<1>2. Before(image, i, n) = A \cup {<<i, v>>}
  BY <1>1 DEF Before
<1>3. <<i, v>> \notin A
  <2>1. ~Precedes(v, v) /\ i \in Int
    BY AreQuads, OrderIs DEF Inodes
  <2>2. ~Ahead(<<i, v>>, i, v)
    BY <2>1 DEF Ahead
  <2> QED
    BY <2>2 DEF Before
<1>4. IsFiniteSet(A)
  BY BeforeFinite
<1> HIDE DEF A
<1>5. Cardinality(A \cup {<<i, v>>}) = Cardinality(A) + 1
  BY <1>3, <1>4, FS_AddElement
<1> QED
  BY <1>2, <1>5 DEF Dest, A

LEMMA BeforeSame ==
  ASSUME NEW image, NEW i, NEW v, NEW j, NEW n,
         \A u \in Moves(image) : Ahead(u, i, v) <=> Ahead(u, j, n)
  PROVE  Before(image, i, v) = Before(image, j, n) /\ Dest(image, i, v) = Dest(image, j, n)
  BY DEF Before, Dest

LEMMA SlotsApart ==
  /\ I2BLOCK \in 1 .. I3BLOCK /\ I3BLOCK \in 1 .. I3BLOCK /\ I2BLOCK < I3BLOCK
  /\ FirstOf(I2BLOCK) \in Nat /\ FirstOf(I3BLOCK) \in Nat /\ FirstOf(I2BLOCK) < FirstOf(I3BLOCK)
<1>1. I2BLOCK \in 1 .. I3BLOCK /\ I3BLOCK \in 1 .. I3BLOCK /\ I2BLOCK < I3BLOCK
  BY Numbers
<1>2. /\ FirstOf(I2BLOCK) \in Nat /\ FirstOf(I3BLOCK) \in Nat
      /\ FirstOf(I2BLOCK) + Span(Level(I2BLOCK)) <= FirstOf(I3BLOCK)
  BY <1>1, FirstOfNext
<1>3. Span(Level(I2BLOCK)) \in Nat \ {0}
  <2>1. Level(I2BLOCK) \in Int
    BY <1>1, LevelIs
  <2> QED
    BY <2>1, SpanType
<1> QED
  BY <1>1, <1>2, <1>3

LEMMA GetsIs ==
  ASSUME NEW bytes \in Nat, NEW v \in Gets(bytes)
  PROVE  /\ v \in Places /\ First(v) \in Nat
         /\ v \in Nodes(bytes) <=> First(v) < BlocksOf(bytes)
         /\ v \notin Nodes(bytes) => v \in Extra(bytes) /\ First(v) = BlocksOf(bytes)
         /\ v \in Extra(bytes) => \E s \in {I2BLOCK, I3BLOCK} : v = Root(s) /\ First(v) = FirstOf(s)
<1>1. v \in Places
  <2>1. Root(I2BLOCK) \in Places /\ Root(I3BLOCK) \in Places
    BY SlotsApart, RootIs
  <2> QED
    BY <2>1 DEF Gets, Extra, Nodes
<1>2. First(v) \in Nat
  BY <1>1, Inside
<1>3. v \in Extra(bytes) => \E s \in {I2BLOCK, I3BLOCK} : v = Root(s) /\ First(v) = FirstOf(s)
  BY SlotsApart, RootIs DEF Extra
<1> QED
  BY <1>1, <1>2, <1>3 DEF Gets, Extra, Nodes

(* A file has at most one block too many. *)
LEMMA ExtraOne ==
  ASSUME NEW bytes \in Nat, NEW v \in Extra(bytes), NEW w \in Extra(bytes)
  PROVE  v = w
<1>1. /\ First(Root(I2BLOCK)) = FirstOf(I2BLOCK)
      /\ First(Root(I3BLOCK)) = FirstOf(I3BLOCK)
  BY SlotsApart, RootIs
<1> QED
  BY <1>1, SlotsApart DEF Extra

(* Where a loop finds that the file has ended, everything that is to be copied has been. *)
LEMMA AllCopied ==
  ASSUME NEW bytes \in Nat, NEW v \in Places, v \notin {Root(I2BLOCK), Root(I3BLOCK)},
         BlocksOf(bytes) <= First(v), NEW w \in Gets(bytes)
  PROVE  Precedes(w, v)
<1>1. w \in Places /\ First(w) \in Nat /\ First(v) \in Nat /\ BlocksOf(bytes) \in Nat
  BY GetsIs, Inside, BlocksOfIs
<1>2. First(w) <= BlocksOf(bytes)
  BY <1>1, GetsIs
<1>3. w # v
  <2> SUFFICES ASSUME w = v PROVE FALSE
    OBVIOUS
  <2>1. w \in Extra(bytes)
    BY <1>1, GetsIs
  <2> QED
    BY <2>1 DEF Extra
<1>4. ~Precedes(v, w)
  <2> SUFFICES ASSUME Precedes(v, w) PROVE FALSE
    OBVIOUS
  <2>1. First(v) <= First(w)
    BY <1>1, Ordered
  <2>2. w \in Extra(bytes)
    BY <1>1, <2>1, GetsIs
  <2>3. PICK s \in {I2BLOCK, I3BLOCK} : w = Root(s) /\ First(w) = FirstOf(s)
    BY <2>2, GetsIs
  <2>4. v[1] < w[1] /\ w[1] = s
    <3>1. w[1] = s /\ w[2] = 0 /\ w[3] = 0 /\ w[4] = 0
      BY <2>3 DEF Root
    <3>2. v[2] \in Nat /\ v[3] \in Nat /\ v[4] \in Nat
      BY PlaceParts
    <3> QED
      BY <3>1, <3>2 DEF Precedes
  <2>5. First(v) < FirstOf(s)
    BY <1>1, <2>4, Ordered
  <2> QED
    BY <1>1, <1>2, <2>3, <2>5
<1> QED
  BY <1>1, <1>3, <1>4, AreQuads, OrderIs

LEMMA ExactIs ==
  ASSUME NEW bytes \in Nat
  PROVE  Exact(bytes) <=> Extra(bytes) # {}
<1>1. First(Root(I2BLOCK)) = FirstOf(I2BLOCK) /\ First(Root(I3BLOCK)) = FirstOf(I3BLOCK)
  BY SlotsApart, RootIs
<1> QED
  BY <1>1 DEF Exact, Extra

(* The blocks of an image are at least as many as are copied. *)
LEMMA Room ==
  ASSUME NEW image, WellFormed(image), NEW i, NEW v, <<i, v>> \in Moves(image)
  PROVE  Dest(image, i, v) \in Block
<1>1. /\ image.inodes \in [Inodes -> Inode]
      /\ Cardinality(InUse(image)) + Cardinality(Overfull(image)) <= DataBlocks + SwapBlocks
  BY DEF WellFormed
<1>2. \A j \in Inodes : image.inodes[j].size \in Nat
  BY <1>1 DEF Inode
<1> DEFINE M == Moves(image)
           U == InUse(image)
           X == {u \in M : u[2] \in Extra(image.inodes[u[1]].size)}
           f == [u \in X |-> u[1]]
<1>3. M = U \cup X
  <2>1. M \subseteq U \cup X
    BY DEF Moves, Gets, InUse
  <2>2. U \subseteq M
    BY DEF Moves, Gets, InUse
  <2> QED
    BY <2>1, <2>2
<1>4. IsFiniteSet(M) /\ IsFiniteSet(U) /\ IsFiniteSet(X)
  <2>1. IsFiniteSet(M)
    BY MovesFinite
  <2>2. U \in SUBSET M /\ X \in SUBSET M
    BY <1>3
  <2> QED
    BY <2>1, <2>2, FS_Subset
<1>5. Cardinality(X) <= Cardinality(Overfull(image)) /\ Cardinality(Overfull(image)) \in Nat
  <2>1. ASSUME NEW u \in X PROVE u \in M /\ u[1] \in Overfull(image)
    <3>1. u \in M /\ u[2] \in Extra(image.inodes[u[1]].size)
      OBVIOUS
    <3>2. u[1] \in Inodes /\ Live(image.inodes[u[1]])
      BY <3>1, MoveParts
    <3>3. Exact(image.inodes[u[1]].size)
      BY <1>2, <3>1, <3>2, ExactIs
    <3> QED
      BY <3>1, <3>2, <3>3 DEF Overfull
  <2>2. f \in [X -> Overfull(image)]
    BY <2>1
  <2>3. ASSUME NEW u \in X, NEW w \in X, f[u] = f[w] PROVE u = w
    <3>1. u[1] = w[1]
      BY <2>3
    <3>2. u = <<u[1], u[2]>> /\ w = <<w[1], w[2]>> /\ u[1] \in Inodes
      BY MoveParts
    <3>3. u[2] = w[2]
      BY <1>2, <3>1, <3>2, ExtraOne
    <3> QED
      BY <3>1, <3>2, <3>3
  <2> HIDE DEF f, X
  <2>4. f \in Injection(X, Overfull(image))
    BY <2>2, <2>3 DEF Injection, IsInjective
  <2>5. IsFiniteSet(Overfull(image)) /\ Cardinality(Overfull(image)) \in Nat
    <3>1. Overfull(image) \in SUBSET Inodes
      BY DEF Overfull
    <3> QED
      BY <3>1, MovesFinite, FS_Subset, FS_CardinalityType
  <2> QED
    BY <2>4, <2>5, FS_Injection
<1> HIDE DEF X, f, U
<1>6. Cardinality(M) <= DataBlocks + SwapBlocks
  <2>1. /\ Cardinality(U \cup X) = Cardinality(U) + Cardinality(X) - Cardinality(U \cap X)
        /\ Cardinality(U) \in Nat /\ Cardinality(X) \in Nat /\ Cardinality(U \cap X) \in Nat
    <3>1. IsFiniteSet(U \cap X)
      BY <1>4, FS_Intersection
    <3> QED
      BY <1>4, <3>1, FS_Union, FS_CardinalityType
  <2>2. Cardinality(U) + Cardinality(Overfull(image)) <= DataBlocks + SwapBlocks
    BY <1>1 DEF U
  <2> QED
    BY <1>3, <1>5, <2>1, <2>2, DefragAssumption
<1>7. Dest(image, i, v) < Cardinality(M) /\ Dest(image, i, v) \in Nat /\ Cardinality(M) \in Nat
  <2> DEFINE A == Before(image, i, v)
  <2>1. A \subseteq M
    BY DEF Before
  <2>2. <<i, v>> \in M /\ <<i, v>> \notin A
    <3>1. ~Precedes(v, v) /\ i \in Int
      <4>1. <<i, v>>[1] \in Int /\ <<i, v>>[2] \in Quad
        BY MoveParts
      <4> QED
        BY <4>1, OrderIs
    <3> QED
      BY <3>1 DEF Before, Ahead
  <2> HIDE DEF A
  <2>3. Cardinality(A) <= Cardinality(M) /\ Cardinality(A) # Cardinality(M)
    BY <1>4, <2>1, <2>2, FS_Subset
  <2>4. Cardinality(A) \in Nat /\ Cardinality(M) \in Nat
    BY BeforeFinite, MovesFinite DEF Dest, A
  <2> QED
    BY <2>3, <2>4 DEF Dest, A
<1> QED
  BY <1>6, <1>7, DefragAssumption DEF Block

-----------------------------------------------------------------------------
(* Reading a file. *)

LEMMA WhereIs ==
  ASSUME NEW inode, NEW data, NEW v \in Places
  PROVE  /\ v[2] = 0 => Where(inode, data, v) = inode.ptr[v[1]]
         /\ v[2] # 0 => Where(inode, data, v) = data[Where(inode, data, Parent(v))].ints[Turn(v)]
<1> DEFINE p == Parent(v)
<1>1. /\ v[2] = 0 => v[3] = 0
      /\ v[3] = 0 => v[4] = 0
  BY PlaceParts
<1>2. CASE v[2] = 0
  BY <1>2 DEF Where
<1>3. CASE v[2] # 0 /\ v[3] = 0
  <2>1. p[1] = v[1] /\ p[2] = 0 /\ Turn(v) = v[2]
    BY <1>3 DEF Parent, Turn, Root
  <2> HIDE DEF p
  <2>2. Where(inode, data, p) = inode.ptr[p[1]]
    BY <2>1 DEF Where
  <2>3. Where(inode, data, v) = data[inode.ptr[v[1]]].ints[v[2]]
    BY <1>3 DEF Where
  <2> QED
    BY <1>3, <2>1, <2>2, <2>3 DEF p
<1>4. CASE v[2] # 0 /\ v[3] # 0 /\ v[4] = 0
  <2>1. p[1] = v[1] /\ p[2] = v[2] /\ p[3] = 0 /\ Turn(v) = v[3]
    BY <1>4 DEF Parent, Turn
  <2> HIDE DEF p
  <2>2. p[2] # 0 /\ p[3] = 0
    BY <1>4, <2>1
  <2>3. Where(inode, data, p) = data[inode.ptr[p[1]]].ints[p[2]]
    BY <2>2 DEF Where
  <2>4. Where(inode, data, v) = data[data[inode.ptr[v[1]]].ints[v[2]]].ints[v[3]]
    BY <1>4 DEF Where
  <2> QED
    BY <1>4, <2>1, <2>3, <2>4 DEF p
<1>5. CASE v[2] # 0 /\ v[3] # 0 /\ v[4] # 0
  <2>1. p[1] = v[1] /\ p[2] = v[2] /\ p[3] = v[3] /\ p[4] = 0 /\ Turn(v) = v[4]
    BY <1>5 DEF Parent, Turn
  <2> HIDE DEF p
  <2>2. p[2] # 0 /\ p[3] # 0 /\ p[4] = 0
    BY <1>5, <2>1
  <2>3. Where(inode, data, p) = data[data[inode.ptr[p[1]]].ints[p[2]]].ints[p[3]]
    BY <2>2 DEF Where
  <2>4. Where(inode, data, v) = data[data[data[inode.ptr[v[1]]].ints[v[2]]].ints[v[3]]].ints[v[4]]
    BY <1>5 DEF Where
  <2> QED
    BY <1>5, <2>1, <2>3, <2>4 DEF p
<1> QED
  BY <1>1, <1>2, <1>3, <1>4, <1>5

LEMMA ParentNode ==
  ASSUME NEW bytes \in Nat, NEW v \in Nodes(bytes), v[2] # 0
  PROVE  /\ Parent(v) \in Nodes(bytes) /\ LevelsBelow(Parent(v)) > 0
         /\ Turn(v) \in Ints /\ v = Child(Parent(v), Turn(v)) /\ Precedes(Parent(v), v)
<1>1. v \in Places /\ First(v) < BlocksOf(bytes)
  BY DEF Nodes
<1>2. /\ Parent(v) \in Places
      /\ v = Child(Parent(v), Turn(v)) /\ Turn(v) \in 1 .. IntsInBlock
      /\ LevelsBelow(Parent(v)) = LevelsBelow(v) + 1
      /\ Precedes(Parent(v), v)
  BY <1>1, ParentIs
<1>3. First(Parent(v)) <= First(v)
  BY <1>1, <1>2, Ordered
<1>4. LevelsBelow(v) \in Nat
  BY <1>1, LevelOf DEF LevelsBelow
<1>5. First(Parent(v)) \in Nat /\ First(v) \in Nat /\ BlocksOf(bytes) \in Nat
  BY <1>1, <1>2, Inside, BlocksOfIs
<1> QED
  BY <1>1, <1>2, <1>3, <1>4, <1>5 DEF Nodes, Ints

-----------------------------------------------------------------------------
(* What one copy does.  Done is the set of the files' places that have been copied. *)

(* The block of u in the source, and the one it is copied to. *)
Src(image, u) == Where(image.inodes[u[1]], image.blocks, u[2])
To(image, u) == Dest(image, u[1], u[2])

(* The inodes, so far as they have been copied, are the source's but for the pointers
   to the blocks that have. *)
InodesMade(image, done, files, started) ==
  \A i \in started :
    /\ files[i].nlink = image.inodes[i].nlink
    /\ files[i].size = image.inodes[i].size
    /\ Live(image.inodes[i]) => \A s \in Slots :
         files[i].ptr[s] = IF <<i, Root(s)>> \in done THEN To(image, <<i, Root(s)>>)
                           ELSE image.inodes[i].ptr[s]

(* A block that has been copied has its source's data, and points to the copies of
   what it pointed to, so far as they have been made. *)
BlocksMade(image, done, data) ==
  \A u \in done :
    /\ data[To(image, u)].data = image.blocks[Src(image, u)].data
    /\ LevelsBelow(u[2]) > 0 => \A k \in Ints :
         data[To(image, u)].ints[k] = IF <<u[1], Child(u[2], k)>> \in done
                                      THEN To(image, <<u[1], Child(u[2], k)>>)
                                      ELSE image.blocks[Src(image, u)].ints[k]

LEMMA ImageIs ==
  ASSUME NEW image, WellFormed(image)
  PROVE  /\ \A i \in Inodes : image.inodes[i] \in Inode /\ image.inodes[i].size \in Nat
         /\ \A b \in Block : image.blocks[b] \in BlockContents
         /\ \A u \in Moves(image) : Src(image, u) \in Block /\ To(image, u) \in Block
<1>1. \A i \in Inodes : image.inodes[i] \in Inode /\ image.inodes[i].size \in Nat
  BY DEF WellFormed, Inode
<1>2. \A b \in Block : image.blocks[b] \in BlockContents
  BY DEF WellFormed
<1>3. ASSUME NEW u \in Moves(image) PROVE Src(image, u) \in Block /\ To(image, u) \in Block
  <2>1. /\ u = <<u[1], u[2]>> /\ u[1] \in Inodes /\ u[2] \in Places
        /\ Live(image.inodes[u[1]]) /\ u[2] \in Gets(image.inodes[u[1]].size)
    BY <1>3, MoveParts
  <2>2. To(image, u) \in Block
    BY <1>3, <2>1, Room DEF To
  <2>3. CASE u[2] \in Nodes(image.inodes[u[1]].size)
    BY <2>1, <2>2, <2>3 DEF WellFormed, Src
  <2>4. CASE u[2] \in Extra(image.inodes[u[1]].size)
    <3>1. PICK s \in {I2BLOCK, I3BLOCK} : u[2] = Root(s)
      BY <2>4 DEF Extra
    <3>2. s \in Slots /\ u[2][1] = s /\ u[2][2] = 0
      BY <3>1, SlotsApart, RootIs DEF Slots
    <3>3. Src(image, u) = image.inodes[u[1]].ptr[s]
      BY <2>1, <3>2, WhereIs DEF Src
    <3> QED
      BY <2>1, <2>2, <3>2, <3>3 DEF WellFormed
  <2> QED
    BY <2>1, <2>3, <2>4 DEF Gets
<1> QED
  BY <1>1, <1>2, <1>3

LEMMA NothingFirst ==
  /\ FirstPlace \in Places /\ FirstPlace \in Cursors /\ FirstPlace[1] = 1 /\ FirstPlace[2] = 0
  /\ First(FirstPlace) = 0
  /\ \A v \in Places : ~Precedes(v, FirstPlace)
<1>1. 1 \in 1 .. I3BLOCK
  BY Numbers
<1>2. FirstPlace \in Places /\ FirstPlace = <<1, 0, 0, 0>>
  BY <1>1, RootIs DEF FirstPlace, Root
<1>3. First(FirstPlace) = 0
  <2>1. First(Root(1)) = FirstOf(1) /\ FirstOf(1) = 1 - 1
    BY <1>1, Numbers, RootIs, FirstOfIs
  <2> QED
    BY <2>1 DEF FirstPlace
<1>4. FirstPlace \in Cursors
  <2>1. Depth(FirstPlace) <= Level(FirstPlace[1])
    BY <1>2, PlaceParts
  <2> QED
    BY <1>1, <1>2, <2>1, Numbers DEF Cursors
<1>5. ASSUME NEW v \in Places PROVE ~Precedes(v, FirstPlace)
  BY <1>2, PlaceParts DEF Precedes
<1> QED
  BY <1>2, <1>3, <1>4, <1>5

(* Of the places of a file, an index block's children are told apart by their turns. *)
LEMMA ChildOf ==
  ASSUME NEW v \in Places, NEW w \in Places, LevelsBelow(w) > 0, NEW k \in Ints
  PROVE  /\ Child(w, k) # w /\ Precedes(w, Child(w, k)) /\ Child(w, k) \in Places
         /\ Child(w, k)[2] # 0
         /\ Child(w, k) = v <=> v[2] # 0 /\ w = Parent(v) /\ k = Turn(v)
<1>1. /\ Child(w, k) \in Places
      /\ Child(w, k)[2] # 0
      /\ Parent(Child(w, k)) = w /\ Turn(Child(w, k)) = k
  BY ChildIs DEF Ints
<1>2. Precedes(w, Child(w, k))
  BY <1>1, ParentIs
<1>3. Child(w, k) # w
  BY <1>2, AreQuads, OrderIs
<1>4. v[2] # 0 => v = Child(Parent(v), Turn(v))
  BY ParentIs
<1> QED
  BY <1>1, <1>2, <1>3, <1>4

(* One int of one block is set. *)
PutInt(moved, h, t, b) == [moved EXCEPT ![h].ints[t] = b]

LEMMA IntSet ==
  ASSUME NEW moved \in [Block -> BlockContents], NEW h \in Block, NEW t \in Ints, NEW b \in Int,
         NEW new, new = PutInt(moved, h, t, b)
  PROVE  /\ new \in [Block -> BlockContents]
         /\ \A c \in Block : new[c].data = moved[c].data
         /\ \A c \in Block : \A k \in Ints :
              ~(c = h /\ k = t) => new[c].ints[k] = moved[c].ints[k]
         /\ new[h].ints[t] = b
<1>1. /\ DOMAIN moved = Block
      /\ \A c \in Block : moved[c] \in BlockContents
  OBVIOUS
<1>2. /\ new = [c \in Block |-> IF c = h THEN new[h] ELSE moved[c]]
      /\ new[h] = [moved[h] EXCEPT !.ints = [moved[h].ints EXCEPT ![t] = b]]
  BY <1>1 DEF PutInt
<1>3. /\ moved[h].ints \in [Ints -> Int] /\ moved[h].data \in Int
      /\ moved[h] = [data |-> moved[h].data, ints |-> moved[h].ints]
  BY <1>1 DEF BlockContents
<1> DEFINE row == [moved[h].ints EXCEPT ![t] = b]
<1>4. row \in [Ints -> Int] /\ row[t] = b /\ \A k \in Ints : k # t => row[k] = moved[h].ints[k]
  BY <1>3
<1>5. new[h] = [data |-> moved[h].data, ints |-> row]
  BY <1>2, <1>3
<1> HIDE DEF row
<1>6. new[h] \in BlockContents /\ new[h].data = moved[h].data /\ new[h].ints = row
  BY <1>3, <1>4, <1>5 DEF BlockContents
<1> QED
  BY <1>1, <1>2, <1>4, <1>6

(* The blocks after one more has been copied. *)
LEMMA BlocksCopied ==
  ASSUME NEW image, WellFormed(image), NEW i \in Inodes, NEW v \in Places, NEW n,
         <<i, v>> \in Moves(image),
         \A w \in Places : Precedes(w, n) <=> Precedes(w, v) \/ w = v,
         NEW data \in [Block -> BlockContents], BlocksMade(image, Before(image, i, v), data),
         v[2] # 0 => <<i, Parent(v)>> \in Before(image, i, v),
         NEW b, b = Dest(image, i, v), NEW moved \in [Block -> BlockContents],
         moved[b] = image.blocks[Src(image, <<i, v>>)],
         \A c \in Block : c # b => moved[c] = data[c],
         NEW new,
         v[2] = 0 => new = moved,
         v[2] # 0 => new = PutInt(moved, To(image, <<i, Parent(v)>>), Turn(v), b)
  PROVE  /\ new \in [Block -> BlockContents]
         /\ BlocksMade(image, Before(image, i, n), new)
<1> DEFINE done == Before(image, i, v)
           more == Before(image, i, n)
           x == <<i, v>>
           hold == <<i, Parent(v)>>
<1>1. more = done \cup {x} /\ x \notin done /\ b \in Int /\ b = To(image, x)
  <2>1. more = done \cup {x}
    BY DestStep
  <2>2. x \notin done
    BY AreQuads, OrderIs, DefragAssumption DEF Before, Ahead, Inodes
  <2>3. b = To(image, x)
    BY DEF To
  <2>4. Dest(image, i, v) \in Nat
    BY BeforeFinite
  <2> QED
    BY <2>1, <2>2, <2>3, <2>4
<1>2. \A u \in more : u \in Moves(image) /\ u = <<u[1], u[2]>> /\ u[2] \in Places
                      /\ To(image, u) \in Block /\ Src(image, u) \in Block
  <2>1. \A u \in more : u \in Moves(image)
    BY DEF Before
  <2> QED
    BY <2>1, MoveParts, ImageIs
<1>3. \A u \in done : To(image, u) # b
  <2>1. \A u \in done : To(image, u) = To(image, x) => u = x
    BY <1>1, <1>2, DestOne DEF To
  <2> QED
    BY <1>1, <2>1
<1>4. /\ b \in Block /\ image.blocks[Src(image, x)] \in BlockContents
      /\ moved[b] = image.blocks[Src(image, x)]
  BY <1>1, <1>2, ImageIs
<1>5. v[2] # 0 => /\ hold \in done /\ Turn(v) \in Ints /\ LevelsBelow(Parent(v)) > 0
                  /\ To(image, hold) \in Block /\ To(image, hold) # b
  <2>1. ASSUME v[2] # 0 PROVE Turn(v) \in Ints /\ LevelsBelow(Parent(v)) > 0
    <3>1. LevelsBelow(Parent(v)) = LevelsBelow(v) + 1 /\ LevelsBelow(v) \in Nat
      BY <2>1, ParentIs, LevelOf DEF LevelsBelow
    <3> QED
      BY <2>1, <3>1, ParentIs DEF Ints
  <2> QED
    BY <1>1, <1>2, <1>3, <2>1
<1> HIDE DEF done, more, x, hold
<1>6. /\ new \in [Block -> BlockContents]
      /\ \A c \in Block : new[c].data = moved[c].data
      /\ \A c \in Block : \A k \in Ints :
           ~(v[2] # 0 /\ c = To(image, hold) /\ k = Turn(v)) => new[c].ints[k] = moved[c].ints[k]
      /\ v[2] # 0 => new[To(image, hold)].ints[Turn(v)] = b
  <2>1. CASE v[2] = 0
    BY <1>4, <2>1
  <2>2. CASE v[2] # 0
    <3> DEFINE h == To(image, hold)
               t == Turn(v)
    <3>1. new = PutInt(moved, h, t, b) /\ h \in Block /\ t \in Ints
      BY <1>5, <2>2 DEF hold
    <3> HIDE DEF h, t
    <3>2. /\ new \in [Block -> BlockContents]
          /\ \A c \in Block : new[c].data = moved[c].data
          /\ \A c \in Block : \A k \in Ints :
               ~(c = h /\ k = t) => new[c].ints[k] = moved[c].ints[k]
          /\ new[h].ints[t] = b
      <4>1. b \in Int /\ moved \in [Block -> BlockContents]
        BY <1>1, <1>4
      <4> QED
        BY <3>1, <4>1, IntSet
    <3> QED
      BY <2>2, <3>2 DEF h, t
  <2> QED
    BY <2>1, <2>2
<1>7. ASSUME NEW u \in more
      PROVE  new[To(image, u)].data = image.blocks[Src(image, u)].data
  <2>1. new[To(image, u)].data = moved[To(image, u)].data
    BY <1>2, <1>6
  <2>2. CASE u = x
    BY <1>1, <1>4, <2>1, <2>2
  <2>3. CASE u \in done
    BY <1>2, <1>3, <1>4, <2>1, <2>3 DEF BlocksMade, done
  <2> QED
    BY <1>1, <2>2, <2>3
<1>8. ASSUME NEW u \in more, LevelsBelow(u[2]) > 0, NEW k \in Ints
      PROVE  new[To(image, u)].ints[k] = IF <<u[1], Child(u[2], k)>> \in more
                                         THEN To(image, <<u[1], Child(u[2], k)>>)
                                         ELSE image.blocks[Src(image, u)].ints[k]
  <2> DEFINE c == <<u[1], Child(u[2], k)>>
  <2>1. c = x <=> v[2] # 0 /\ u = hold /\ k = Turn(v)
    <3>1. Child(u[2], k) = v <=> v[2] # 0 /\ u[2] = Parent(v) /\ k = Turn(v)
      BY <1>2, <1>8, ChildOf
    <3>2. c = x <=> u[1] = i /\ Child(u[2], k) = v
      BY DEF x
    <3>3. u = hold <=> u[1] = i /\ u[2] = Parent(v)
      BY <1>2 DEF hold
    <3> QED
      BY <3>1, <3>2, <3>3
  <2>2. CASE c = x
    BY <1>1, <1>6, <2>1, <2>2
  <2>3. CASE c # x
    <3>1. v[2] # 0 => hold \in more
      BY <1>1, <1>5
    <3>2. ~(v[2] # 0 /\ To(image, u) = To(image, hold) /\ k = Turn(v))
      <4>1. v[2] # 0 /\ To(image, u) = To(image, hold) => u = hold
        BY <1>2, <3>1, DestOne DEF To
      <4> QED
        BY <2>1, <2>3, <4>1
    <3>3. new[To(image, u)].ints[k] = moved[To(image, u)].ints[k]
      BY <1>2, <1>6, <3>2
    <3>4. c \in more <=> c \in done
      BY <1>1, <2>3
    <3>5. CASE u \in done
      <4>1. data[To(image, u)].ints[k] = IF c \in done THEN To(image, c)
                                         ELSE image.blocks[Src(image, u)].ints[k]
        BY <1>8, <3>5 DEF BlocksMade, done
      <4>2. moved[To(image, u)] = data[To(image, u)]
        BY <1>2, <1>3, <1>4, <3>5
      <4> QED
        BY <3>3, <3>4, <4>1, <4>2
    <3>6. CASE u = x
      <4>1. c \notin done
        <5>1. Precedes(v, Child(v, k)) /\ Child(v, k) \in Places /\ u[1] = i /\ u[2] = v
          BY <1>2, <1>8, <3>6, ChildOf DEF x
        <5>2. ~Precedes(Child(v, k), v)
          BY <5>1, AreQuads, OrderIs
        <5> QED
          BY <5>1, <5>2, DefragAssumption DEF done, Before, Ahead, Inodes
      <4>2. moved[To(image, u)] = image.blocks[Src(image, u)]
        BY <1>1, <1>4, <3>6
      <4> QED
        BY <3>3, <3>4, <4>1, <4>2
    <3> QED
      BY <1>1, <3>5, <3>6
  <2> QED
    BY <2>2, <2>3
<1> QED
  BY <1>6, <1>7, <1>8 DEF BlocksMade, more

(* One pointer of one inode is set. *)
PutPtr(files, i, s, b) == [files EXCEPT ![i].ptr[s] = b]

LEMMA PtrSet ==
  ASSUME NEW files \in [Inodes -> Inode], NEW i \in Inodes, NEW s \in Slots, NEW b \in Int,
         NEW new, new = PutPtr(files, i, s, b)
  PROVE  /\ new \in [Inodes -> Inode]
         /\ \A j \in Inodes : new[j].nlink = files[j].nlink /\ new[j].size = files[j].size
         /\ \A j \in Inodes : \A t \in Slots :
              ~(j = i /\ t = s) => new[j].ptr[t] = files[j].ptr[t]
         /\ new[i].ptr[s] = b
<1>1. /\ DOMAIN files = Inodes
      /\ \A j \in Inodes : files[j] \in Inode
  OBVIOUS
<1>2. /\ new = [j \in Inodes |-> IF j = i THEN new[i] ELSE files[j]]
      /\ new[i] = [files[i] EXCEPT !.ptr = [files[i].ptr EXCEPT ![s] = b]]
  BY <1>1 DEF PutPtr
<1>3. /\ files[i].ptr \in [Slots -> Int] /\ files[i].nlink \in Int /\ files[i].size \in Nat
      /\ files[i] = [nlink |-> files[i].nlink, size |-> files[i].size, ptr |-> files[i].ptr]
  BY <1>1 DEF Inode
<1> DEFINE row == [files[i].ptr EXCEPT ![s] = b]
<1>4. row \in [Slots -> Int] /\ row[s] = b /\ \A t \in Slots : t # s => row[t] = files[i].ptr[t]
  BY <1>3
<1>5. new[i] = [nlink |-> files[i].nlink, size |-> files[i].size, ptr |-> row]
  BY <1>2, <1>3
<1> HIDE DEF row
<1>6. /\ new[i] \in Inode /\ new[i].nlink = files[i].nlink /\ new[i].size = files[i].size
      /\ new[i].ptr = row
  BY <1>3, <1>4, <1>5 DEF Inode
<1> QED
  BY <1>1, <1>2, <1>4, <1>6

(* The inodes after one more block has been copied. *)
LEMMA InodesCopied ==
  ASSUME NEW image, NEW i \in Inodes, NEW v \in Places, NEW n, <<i, v>> \in Moves(image),
         \A w \in Places : Precedes(w, n) <=> Precedes(w, v) \/ w = v,
         NEW files \in [Inodes -> Inode], NEW started \in SUBSET Inodes, i \in started,
         InodesMade(image, Before(image, i, v), files, started),
         NEW new,
         v[2] # 0 => new = files,
         v[2] = 0 => new = PutPtr(files, i, v[1], Dest(image, i, v))
  PROVE  /\ new \in [Inodes -> Inode]
         /\ InodesMade(image, Before(image, i, n), new, started)
<1> DEFINE done == Before(image, i, v)
           more == Before(image, i, n)
           x == <<i, v>>
           b == Dest(image, i, v)
<1>1. more = done \cup {x} /\ b \in Int /\ b = To(image, x)
  <2>1. more = done \cup {x}
    BY DestStep
  <2>2. b = To(image, x)
    BY DEF To
  <2>3. b \in Nat
    BY BeforeFinite
  <2> HIDE DEF b
  <2> QED
    BY <2>1, <2>2, <2>3
<1>2. \A t \in Slots : Root(t) = v <=> v[2] = 0 /\ t = v[1]
  BY PlaceParts DEF Root
<1>3. v[1] \in Slots
  BY PlaceParts DEF Slots
<1> HIDE DEF done, more, x, b
<1>4. /\ new \in [Inodes -> Inode]
      /\ \A j \in Inodes : new[j].nlink = files[j].nlink /\ new[j].size = files[j].size
      /\ \A j \in Inodes : \A t \in Slots :
           ~(v[2] = 0 /\ j = i /\ t = v[1]) => new[j].ptr[t] = files[j].ptr[t]
      /\ v[2] = 0 => new[i].ptr[v[1]] = b
  <2>1. CASE v[2] # 0
    BY <2>1
  <2>2. CASE v[2] = 0
    <3>1. new = PutPtr(files, i, v[1], b)
      BY <2>2 DEF b
    <3> QED
      BY <1>1, <1>3, <2>2, <3>1, PtrSet
  <2> QED
    BY <2>1, <2>2
<1>5. ASSUME NEW j \in started, Live(image.inodes[j]), NEW t \in Slots
      PROVE  new[j].ptr[t] = IF <<j, Root(t)>> \in more THEN To(image, <<j, Root(t)>>)
                             ELSE image.inodes[j].ptr[t]
  <2>1. files[j].ptr[t] = IF <<j, Root(t)>> \in done THEN To(image, <<j, Root(t)>>)
                          ELSE image.inodes[j].ptr[t]
    BY <1>5 DEF InodesMade, done
  <2>2. <<j, Root(t)>> = x <=> v[2] = 0 /\ j = i /\ t = v[1]
    BY <1>2 DEF x
  <2>3. CASE <<j, Root(t)>> = x
    BY <1>1, <1>4, <2>2, <2>3
  <2>4. CASE <<j, Root(t)>> # x
    <3>1. new[j].ptr[t] = files[j].ptr[t]
      BY <1>4, <2>2, <2>4
    <3> QED
      BY <1>1, <2>1, <2>4, <3>1
  <2> QED
    BY <2>3, <2>4
<1>6. \A j \in started : /\ new[j].nlink = image.inodes[j].nlink
                         /\ new[j].size = image.inodes[j].size
  BY <1>4 DEF InodesMade
<1> QED
  BY <1>4, <1>5, <1>6 DEF InodesMade, more

-----------------------------------------------------------------------------
(* The invariant. *)

Done == Before(source, next_inode, place)
Started == {i \in Inodes : i < next_inode \/ (i = next_inode /\ phase = "file")}

(* a is one of the index blocks on the way to v. *)
OnWay(a, v) ==
  /\ a[1] = v[1] /\ v[2] # 0
  /\ \/ a[2] = 0
     \/ /\ a[2] = v[2] /\ v[3] # 0
        /\ a[3] = 0 \/ (a[3] = v[3] /\ v[4] # 0 /\ a[4] = 0)

TypeOK ==
  /\ source \in Sources
  /\ inodes \in [Inodes -> Inode]
  /\ blocks \in [Block -> BlockContents]
  /\ block_index \in Nat
  /\ next_inode \in 1 .. num_inode + 1
  /\ place \in Cursors
  /\ curr_block \in [1 .. 3 -> Int]
  /\ this_file_size \in Int
  /\ finished \in BOOLEAN
  /\ phase \in {"inodes", "file", "free list", "done"}

(* The loops' places and the phases agree. *)
Phases ==
  /\ phase # "file" => place = FirstPlace
  /\ phase = "file" => next_inode \in Inodes /\ Live(source.inodes[next_inode])
  /\ phase \in {"free list", "done"} => next_inode = num_inode + 1

(* As many blocks are filled as places have been passed, each by one of them. *)
Filled ==
  /\ block_index = Dest(source, next_inode, place)
  /\ \A b \in 0 .. block_index - 1 : \E u \in Done : To(source, u) = b

(* What the loops know of the file. *)
Loop ==
  phase = "file" =>
    /\ finished => \A v \in Gets(source.inodes[next_inode].size) : Precedes(v, place)
    /\ ~finished /\ place[1] <= I3BLOCK =>
         /\ this_file_size = source.inodes[next_inode].size - First(place) * BLOCK_SIZE
         /\ First(place) <= BlocksOf(source.inodes[next_inode].size)

(* The loops around the innermost one go through index blocks of the destination. *)
Holders ==
  \A a \in Places : OnWay(a, place) =>
    /\ <<next_inode, a>> \in Done
    /\ curr_block[LevelsBelow(a)] = To(source, <<next_inode, a>>)

InodesOK == InodesMade(source, Done, inodes, Started)

BlocksOK == phase # "done" \/ block_index <= SwapFrom => BlocksMade(source, Done, blocks)

IInv == TypeOK /\ Phases /\ Filled /\ Loop /\ Holders /\ InodesOK /\ BlocksOK

LEMMA OnWayIs ==
  ASSUME NEW v \in Cursors, NEW a \in Places
  PROVE  /\ v[2] = 0 => ~OnWay(a, v)
         /\ v \in Places /\ v[2] # 0 => (OnWay(a, v) <=> a = Parent(v) \/ OnWay(a, Parent(v)))
         /\ v \in Places /\ LevelsBelow(v) > 0 =>
              (OnWay(a, Child(v, 1)) <=> a = v \/ OnWay(a, v))
         /\ v \in Places => (OnWay(a, Advance(v)) <=> OnWay(a, v))
         /\ v[2] # 0 /\ OnWay(a, Advance(Parent(v))) => OnWay(a, v)
         /\ v \in Places /\ OnWay(a, v) => LevelsBelow(v) < LevelsBelow(a)
<1>1. /\ a = <<a[1], a[2], a[3], a[4]>>
      /\ a[2] \in Nat /\ a[3] \in Nat /\ a[4] \in Nat
      /\ a[2] = 0 => a[3] = 0
      /\ a[3] = 0 => a[4] = 0
  BY PlaceParts
<1>2. /\ v = <<v[1], v[2], v[3], v[4]>>
      /\ v[2] \in Nat /\ v[3] \in Nat /\ v[4] \in Nat
      /\ v[2] = 0 => v[3] = 0
      /\ v[3] = 0 => v[4] = 0
  BY CursorParts
<1>3. v[2] = 0 => ~OnWay(a, v)
  BY DEF OnWay
<1>4. v \in Places /\ v[2] # 0 => (OnWay(a, v) <=> a = Parent(v) \/ OnWay(a, Parent(v)))
  BY <1>1, <1>2 DEF OnWay, Parent, Root
<1>5. v \in Places /\ LevelsBelow(v) > 0 => (OnWay(a, Child(v, 1)) <=> a = v \/ OnWay(a, v))
  <2> SUFFICES ASSUME v \in Places, LevelsBelow(v) > 0
               PROVE  OnWay(a, Child(v, 1)) <=> a = v \/ OnWay(a, v)
    OBVIOUS
  <2>1. v[4] = 0
    <3>1. Depth(v) < Level(v[1]) /\ Depth(v) \in Int /\ Level(v[1]) \in 0 .. 3
      BY LevelOf DEF LevelsBelow
    <3> QED
      BY <1>2, <3>1 DEF Depth
  <2> QED
    BY <1>1, <1>2, <2>1 DEF OnWay, Child
<1>6. v \in Places => (OnWay(a, Advance(v)) <=> OnWay(a, v))
  BY <1>1, <1>2 DEF OnWay, Advance
<1>7. v[2] # 0 /\ OnWay(a, Advance(Parent(v))) => OnWay(a, v)
  BY <1>1, <1>2 DEF OnWay, Advance, Parent, Root
<1>8. v \in Places /\ OnWay(a, v) => LevelsBelow(v) < LevelsBelow(a)
  <2> SUFFICES ASSUME v \in Places, OnWay(a, v) PROVE LevelsBelow(v) < LevelsBelow(a)
    OBVIOUS
  <2>1. Level(a[1]) = Level(v[1]) /\ Level(v[1]) \in Int
    BY LevelOf DEF OnWay
  <2>2. Depth(a) < Depth(v) /\ Depth(a) \in Int /\ Depth(v) \in Int
    BY <1>1, <1>2 DEF OnWay, Depth
  <2> QED
    BY <2>1, <2>2 DEF LevelsBelow
<1> QED
  BY <1>3, <1>4, <1>5, <1>6, <1>7, <1>8

LEMMA Types ==
  ASSUME IInv
  PROVE  /\ source \in Sources /\ WellFormed(source)
         /\ inodes \in [Inodes -> Inode] /\ blocks \in [Block -> BlockContents]
         /\ block_index \in Nat /\ next_inode \in 1 .. num_inode + 1 /\ next_inode \in Int
         /\ place \in Cursors /\ place \in Quad
         /\ curr_block \in [1 .. 3 -> Int] /\ this_file_size \in Int
<1>1. TypeOK
  BY DEF IInv
<1>2. source \in Sources /\ WellFormed(source)
  BY <1>1, SourcesWellFormed DEF TypeOK
<1>3. place \in Cursors /\ place \in Quad
  BY <1>1, AreQuads DEF TypeOK
<1>4. next_inode \in 1 .. num_inode + 1
  BY <1>1 DEF TypeOK
<1>5. next_inode \in Int
  BY <1>4, DefragAssumption
<1> QED
  BY <1>1, <1>2, <1>3, <1>4, <1>5 DEF TypeOK

LEMMA DoneIs ==
  ASSUME IInv
  PROVE  /\ WellFormed(source) /\ Started \in SUBSET Inodes
         /\ \A i \in Inodes : source.inodes[i] \in Inode /\ source.inodes[i].size \in Nat
         /\ next_inode \in Int /\ block_index = Cardinality(Done)
         /\ \A u \in Done : /\ u \in Moves(source) /\ To(source, u) \in Block
                            /\ To(source, u) < block_index
<1>1. WellFormed(source)
  BY Types
<1>2. \A i \in Inodes : source.inodes[i] \in Inode /\ source.inodes[i].size \in Nat
  BY <1>1, ImageIs
<1>3. next_inode \in Int /\ place \in Quad /\ block_index = Dest(source, next_inode, place)
  BY Types DEF IInv, Filled
<1>4. block_index = Cardinality(Done)
  BY <1>3 DEF Dest, Done
<1>5. ASSUME NEW u \in Done
      PROVE  u \in Moves(source) /\ To(source, u) \in Block /\ To(source, u) < block_index
  <2>1. u \in Moves(source) /\ Ahead(u, next_inode, place)
    BY DEF Done, Before
  <2> QED
    BY <1>1, <1>3, <2>1, ImageIs, DestGrows DEF To
<1> QED
  BY <1>1, <1>2, <1>3, <1>4, <1>5 DEF Started

LEMMA InitInv ==
  ASSUME Init
  PROVE  IInv
<1>1. WellFormed(source) /\ source \in Sources
  BY SourcesWellFormed DEF Init
<1>2. Done = {} /\ Dest(source, next_inode, place) = 0
  <2>1. \A u \in Moves(source) : ~Ahead(u, 1, FirstPlace)
    BY MoveParts, NothingFirst, DefragAssumption DEF Ahead, Inodes
  <2>2. Before(source, next_inode, place) = {}
    BY <2>1 DEF Init, Before
  <2> QED
    BY <2>2, FS_EmptySet DEF Done, Dest
<1>3. Started = {}
  BY DefragAssumption DEF Started, Init, Inodes
<1>4. TypeOK
  <2>1. EmptyInode \in Inode /\ EmptyBlock \in BlockContents
    BY DEF EmptyInode, EmptyBlock, Inode, BlockContents
  <2>2. inodes \in [Inodes -> Inode] /\ blocks \in [Block -> BlockContents]
    BY <2>1 DEF Init
  <2>3. place \in Cursors
    BY NothingFirst DEF Init
  <2>4. curr_block \in [1 .. 3 -> Int]
    BY DEF Init
  <2>5. next_inode \in 1 .. num_inode + 1
    BY DefragAssumption DEF Init
  <2>6. block_index \in Nat /\ this_file_size \in Int
    BY DEF Init
  <2>7. finished \in BOOLEAN
    BY DEF Init
  <2>8. phase \in {"inodes", "file", "free list", "done"}
    BY DEF Init
  <2> QED
    BY <1>1, <2>2, <2>3, <2>4, <2>5, <2>6, <2>7, <2>8 DEF TypeOK
<1>5. Phases /\ Loop
  BY DEF Init, Phases, Loop
<1>6. Filled
  BY <1>2 DEF Filled, Init
<1>7. Holders
  BY NothingFirst, OnWayIs DEF Init, Holders
<1>8. InodesOK /\ BlocksOK
  BY <1>2, <1>3 DEF InodesOK, InodesMade, BlocksOK, BlocksMade
<1> QED
  BY <1>4, <1>5, <1>6, <1>7, <1>8 DEF IInv

(* Where no block is copied. *)
LEMMA Stays ==
  ASSUME IInv, UNCHANGED <<source, inodes, blocks, block_index>>,
         Before(source, next_inode', place') = Done, Started' = Started, phase # "done", phase' # "done"
  PROVE  Filled' /\ InodesOK' /\ BlocksOK'
<1>1. Done' = Done
  BY DEF Done
<1>2. Dest(source, next_inode', place') = block_index
  BY DoneIs DEF Dest
<1>3. Filled'
  <2>1. \A b \in 0 .. block_index - 1 : \E u \in Done : To(source, u) = b
    BY DEF IInv, Filled
  <2> QED
    BY <1>1, <1>2, <2>1 DEF Filled
<1>4. InodesOK'
  BY <1>1 DEF IInv, InodesOK
<1>5. BlocksOK'
  BY <1>1 DEF IInv, BlocksOK
<1> QED
  BY <1>3, <1>4, <1>5

(* What the loops go by leads to the block of the source they are to copy. *)
LEMMA PointerIs ==
  ASSUME IInv, phase = "file", <<next_inode, place>> \in Moves(source),
         <<next_inode, place>> \notin Done
  PROVE  /\ Pointer(place) = Src(source, <<next_inode, place>>)
         /\ place[2] # 0 => /\ <<next_inode, Parent(place)>> \in Done
                            /\ Holder(place) = To(source, <<next_inode, Parent(place)>>)
<1> DEFINE i == next_inode
           v == place
<1>1. v \in Places /\ v \in Cursors /\ Live(source.inodes[i])
  BY Types DEF Moves
<1>2. i \in Started
  BY DEF IInv, Phases, Started
<1>3. InodesMade(source, Done, inodes, Started) /\ BlocksMade(source, Done, blocks)
  BY DEF IInv, InodesOK, BlocksOK
<1>4. Src(source, <<i, v>>) = Where(source.inodes[i], source.blocks, v)
  BY DEF Src
<1>5. CASE v[2] = 0
  <2>1. v[1] \in Slots /\ v = Root(v[1])
    BY <1>1, <1>5, PlaceParts DEF Slots, Root
  <2>2. inodes[i].ptr[v[1]] = source.inodes[i].ptr[v[1]]
    BY <1>1, <1>2, <1>3, <2>1 DEF InodesMade
  <2>3. Where(source.inodes[i], source.blocks, v) = source.inodes[i].ptr[v[1]]
    BY <1>1, <1>5, WhereIs
  <2> QED
    BY <1>4, <1>5, <2>2, <2>3 DEF Pointer
<1>6. CASE v[2] # 0
  <2> DEFINE p == Parent(v)
             k == Turn(v)
             u == <<i, p>>
  <2>1. /\ p \in Places /\ v = Child(p, k) /\ k \in Ints
        /\ LevelsBelow(p) = LevelsBelow(v) + 1 /\ LevelsBelow(p) > 0
    <3>1. LevelsBelow(p) = LevelsBelow(v) + 1 /\ LevelsBelow(v) \in Nat
      BY <1>1, <1>6, ParentIs, LevelOf DEF LevelsBelow
    <3> QED
      BY <1>1, <1>6, <3>1, ParentIs DEF Ints
  <2>2. u \in Done /\ Holder(v) = To(source, u)
    <3>1. OnWay(p, v)
      BY <1>1, <1>6, <2>1, OnWayIs
    <3> QED
      BY <2>1, <3>1 DEF IInv, Holders, Holder
  <2>3. u[1] = i /\ u[2] = p
    OBVIOUS
  <2>4. Where(source.inodes[i], source.blocks, v)
          = source.blocks[Where(source.inodes[i], source.blocks, p)].ints[k]
    BY <1>1, <1>6, WhereIs
  <2>5. Src(source, u) = Where(source.inodes[i], source.blocks, p)
    BY <2>3 DEF Src
  <2>6. Pointer(v) = blocks[Holder(v)].ints[k]
    BY <1>6 DEF Pointer
  <2>7. u \in Done /\ <<u[1], Child(u[2], k)>> \notin Done
    BY <2>1, <2>2, <2>3
  <2> HIDE DEF p, k, u
  <2>8. blocks[To(source, u)].ints[k] = source.blocks[Src(source, u)].ints[k]
    BY <1>3, <2>1, <2>3, <2>7 DEF BlocksMade
  <2>9. Pointer(v) = Src(source, <<i, v>>)
    BY <1>4, <2>2, <2>4, <2>5, <2>6, <2>8
  <2> QED
    BY <1>6, <2>2, <2>9 DEF p, u
<1> QED
  BY <1>5, <1>6

(* Where one is. *)
LEMMA Copying ==
  ASSUME IInv, phase = "file", <<next_inode, place>> \in Moves(source), CopyBlock(place),
         UNCHANGED <<source, next_inode, phase>>,
         \A w \in Places : Precedes(w, place') <=> Precedes(w, place) \/ w = place
  PROVE  /\ block_index = To(source, <<next_inode, place>>)
         /\ Done' = Done \cup {<<next_inode, place>>}
         /\ inodes' \in [Inodes -> Inode] /\ blocks' \in [Block -> BlockContents]
         /\ block_index' \in Nat
         /\ Filled' /\ InodesOK' /\ BlocksOK'
<1> DEFINE i == next_inode
           v == place
           x == <<i, v>>
           hold == <<i, Parent(v)>>
<1>1. /\ WellFormed(source) /\ Started \in SUBSET Inodes /\ i \in Started
      /\ i \in Inodes /\ i \in Int /\ v \in Places /\ x \in Moves(source)
  BY DoneIs DEF IInv, Phases, Started, Moves
<1>2. Done' = Done \cup {x} /\ Dest(source, i, place') = Dest(source, i, v) + 1 /\ x \notin Done
  <2>1. Before(source, i, place') = Before(source, i, v) \cup {x}
        /\ Dest(source, i, place') = Dest(source, i, v) + 1
    BY <1>1, DestStep
  <2>2. x \notin Done
    BY <1>1, AreQuads, OrderIs DEF Done, Before, Ahead
  <2> QED
    BY <2>1, <2>2 DEF Done
<1>3. block_index = Dest(source, i, v) /\ Dest(source, i, v) = To(source, x) /\ block_index \in Block
      /\ block_index \in Nat
  <2>1. block_index = Dest(source, i, v) /\ block_index \in Nat
    BY DEF IInv, Filled, TypeOK
  <2>2. Dest(source, i, v) = To(source, x)
    BY DEF To
  <2>3. To(source, x) \in Block
    BY <1>1, ImageIs
  <2> HIDE DEF x
  <2> QED
    BY <2>1, <2>2, <2>3
<1>4. v[2] # 0 => hold \in Done /\ Holder(v) = To(source, hold)
  BY <1>1, <1>2, PointerIs
<1>5. Pointer(v) = Src(source, x)
  BY <1>1, <1>2, PointerIs
<1> DEFINE moved == [blocks EXCEPT ![block_index] = source.blocks[Src(source, x)]]
<1>6. /\ moved \in [Block -> BlockContents] /\ moved[block_index] = source.blocks[Src(source, x)]
      /\ \A c \in Block : c # block_index => moved[c] = blocks[c]
  <2>1. source.blocks[Src(source, x)] \in BlockContents
    BY <1>1, ImageIs
  <2>2. blocks \in [Block -> BlockContents]
    BY DEF IInv, TypeOK
  <2> QED
    BY <1>3, <2>1, <2>2
<1>7. /\ v[2] = 0 => blocks' = moved
      /\ v[2] # 0 => blocks' = PutInt(moved, To(source, hold), Turn(v), block_index)
      /\ v[2] # 0 => inodes' = inodes
      /\ v[2] = 0 => inodes' = PutPtr(inodes, i, v[1], block_index)
      /\ block_index' = block_index + 1
  BY <1>4, <1>5 DEF CopyBlock, PutInt, PutPtr
<1> HIDE DEF moved
<1>8. blocks' \in [Block -> BlockContents] /\ BlocksMade(source, Before(source, i, place'), blocks')
  <2>1. BlocksMade(source, Before(source, i, v), blocks) /\ blocks \in [Block -> BlockContents]
    BY DEF IInv, BlocksOK, Done, TypeOK
  <2>2. v[2] # 0 => <<i, Parent(v)>> \in Before(source, i, v)
    BY <1>4 DEF Done
  <2> QED
    BY <1>1, <1>3, <1>6, <1>7, <2>1, <2>2, BlocksCopied
<1>9. inodes' \in [Inodes -> Inode] /\ InodesMade(source, Before(source, i, place'), inodes', Started)
  <2>1. InodesMade(source, Before(source, i, v), inodes, Started) /\ inodes \in [Inodes -> Inode]
    BY DEF IInv, InodesOK, Done, TypeOK
  <2> QED
    BY <1>1, <1>3, <1>7, <2>1, InodesCopied
<1>10. Filled'
  <2>1. block_index' = Dest(source, i, place')
    BY <1>2, <1>3, <1>7
  <2>2. ASSUME NEW b \in 0 .. block_index' - 1 PROVE \E u \in Done' : To(source, u) = b
    <3>1. CASE b = block_index
      BY <1>2, <1>3, <3>1
    <3>2. CASE b # block_index
      <4>1. b \in 0 .. block_index - 1
        BY <1>3, <1>7, <3>2
      <4> QED
        BY <1>2, <4>1 DEF IInv, Filled
    <3> QED
      BY <3>1, <3>2
  <2> QED
    BY <2>1, <2>2 DEF Filled
<1>11. Done' = Before(source, i, place') /\ Started' = Started
  BY DEF Done, Started
<1>12. InodesOK' /\ BlocksOK'
  BY <1>8, <1>9, <1>11 DEF InodesOK, BlocksOK
<1>13. block_index' \in Nat
  BY <1>3, <1>7
<1> QED
  BY <1>2, <1>3, <1>8, <1>9, <1>10, <1>12, <1>13

-----------------------------------------------------------------------------
(* The invariant, action by action. *)

LEMMA PlacesAreCursors == Places \subseteq Cursors
<1> SUFFICES ASSUME NEW v \in Places PROVE v \in Cursors
  OBVIOUS
<1>1. /\ v = <<v[1], v[2], v[3], v[4]>> /\ v[1] \in 1 .. I3BLOCK
      /\ v[2] \in 0 .. IntsInBlock /\ v[3] \in 0 .. IntsInBlock /\ v[4] \in 0 .. IntsInBlock
      /\ v[2] = 0 => v[3] = 0
      /\ v[3] = 0 => v[4] = 0
      /\ Depth(v) <= Level(v[1])
  BY PlaceParts
<1>2. v[2] # 0 => Turn(v) \in 1 .. IntsInBlock /\ Parent(v) \in Places
  BY ParentIs
<1> QED
  BY <1>1, <1>2, Numbers DEF Cursors

LEMMA InFile ==
  ASSUME IInv, phase = "file"
  PROVE  /\ next_inode \in Inodes /\ Live(source.inodes[next_inode])
         /\ source.inodes[next_inode].size \in Nat
         /\ BlocksOf(source.inodes[next_inode].size) \in Nat
         /\ \A u \in Moves(source) : u[1] = next_inode =>
              u[2] \in Places /\ u[2] \in Gets(source.inodes[next_inode].size)
<1>1. next_inode \in Inodes /\ Live(source.inodes[next_inode])
  BY DEF IInv, Phases
<1>2. source.inodes[next_inode].size \in Nat
  BY <1>1, DoneIs
<1> QED
  BY <1>1, <1>2, BlocksOfIs, MoveParts

(* What is copied is to be: one of the file's blocks, or the index block behind them. *)
LEMMA CopyIsMove ==
  ASSUME IInv, phase = "file", ~Past(place), Copies(place)
  PROVE  /\ place \in Places /\ ~finished /\ place[1] <= I3BLOCK
         /\ <<next_inode, place>> \in Moves(source)
         /\ LevelsBelow(place) = 0 => First(place) < BlocksOf(source.inodes[next_inode].size)
<1> DEFINE size == source.inodes[next_inode].size
<1>1. place \in Places /\ place[1] <= I3BLOCK
  <2>1. place \in Cursors /\ place[1] \in 1 .. I3BLOCK + 1 /\ (place[1] = I3BLOCK + 1 => place[2] = 0)
    BY Types, CursorParts
  <2>2. place[1] <= I3BLOCK
    BY <2>1, Numbers DEF Past
  <2> QED
    BY <2>1, <2>2, CursorIs
<1>2. ~finished
  BY DEF Copies, Ended
<1>3. /\ this_file_size = size - First(place) * BLOCK_SIZE
      /\ First(place) <= BlocksOf(size) /\ First(place) \in Nat /\ BlocksOf(size) \in Nat
      /\ size \in Nat
  BY <1>1, <1>2, InFile, Inside DEF IInv, Loop
<1>4. CASE place \in {Root(I2BLOCK), Root(I3BLOCK)}
  <2>1. place \in Nodes(size) \/ place \in Extra(size)
    BY <1>1, <1>3, <1>4 DEF Nodes, Extra
  <2>2. <<next_inode, place>> \in Moves(source)
    BY <1>1, <2>1, InFile, MoveMade DEF Gets
  <2>3. LevelsBelow(place) # 0
    <3>1. PICK s \in {I2BLOCK, I3BLOCK} : place = Root(s)
      BY <1>4
    <3>2. Level(s) \in {2, 3} /\ place[1] = s /\ place[2] = 0
      BY <3>1, SlotsApart, LevelIs, RootIs
    <3> QED
      BY <3>2 DEF LevelsBelow, Depth
  <2> QED
    BY <1>1, <1>2, <2>2, <2>3
<1>5. CASE place \notin {Root(I2BLOCK), Root(I3BLOCK)}
  <2>1. ~(this_file_size <= 0)
    BY <1>5 DEF Copies, Ended
  <2>2. First(place) < BlocksOf(size)
    BY <1>3, <2>1, BlocksOfIs
  <2>3. place \in Gets(size)
    BY <1>1, <2>2 DEF Gets, Nodes
  <2> QED
    BY <1>1, <1>2, <2>2, <2>3, InFile, MoveMade
<1> QED
  BY <1>4, <1>5

LEMMA CopyDataInv ==
  ASSUME IInv, CopyData
  PROVE  IInv'
<1> DEFINE size == source.inodes[next_inode].size
<1>1. /\ phase = "file" /\ place \in Places /\ ~finished /\ place[1] <= I3BLOCK
      /\ <<next_inode, place>> \in Moves(source)
      /\ LevelsBelow(place) = 0
      /\ First(place) < BlocksOf(size)
      /\ place' = Advance(place) /\ this_file_size' = this_file_size - BLOCK_SIZE
      /\ UNCHANGED <<source, free_block, next_inode, curr_block, finished, phase>>
  BY CopyIsMove DEF CopyData
<1>2. \A w \in Places : Precedes(w, place') <=> Precedes(w, place) \/ w = place
  BY <1>1, OneMore
<1>3. /\ Done' = Done \cup {<<next_inode, place>>}
      /\ inodes' \in [Inodes -> Inode] /\ blocks' \in [Block -> BlockContents]
      /\ block_index' \in Nat
      /\ Filled' /\ InodesOK' /\ BlocksOK'
  BY <1>1, <1>2, Copying DEF CopyData
<1>4. place' \in Cursors /\ place'[1] <= I3BLOCK /\ First(place') = First(place) + 1
  BY <1>1, FirstAdvance
<1>5. TypeOK'
  <2>1. this_file_size' \in Int
    BY <1>1, Types, DefragAssumption
  <2> QED
    BY <1>1, <1>3, <1>4, <2>1 DEF IInv, TypeOK
<1>6. Phases'
  BY <1>1 DEF IInv, Phases
<1>7. Loop'
  <2>1. /\ this_file_size = size - First(place) * BLOCK_SIZE
        /\ First(place) \in Nat /\ BlocksOf(size) \in Nat /\ size \in Nat
    BY <1>1, InFile, Inside DEF IInv, Loop
  <2>2. (First(place) + 1) * BLOCK_SIZE = First(place) * BLOCK_SIZE + BLOCK_SIZE
    BY <2>1, DefragAssumption
  <2>3. this_file_size' = size - First(place') * BLOCK_SIZE
    <3> DEFINE all == First(place) * BLOCK_SIZE
    <3>1. all \in Int
      BY <2>1, DefragAssumption
    <3>2. First(place') * BLOCK_SIZE = all + BLOCK_SIZE /\ this_file_size = size - all
      BY <1>4, <2>1, <2>2
    <3> HIDE DEF all
    <3> QED
      BY <1>1, <2>1, <3>1, <3>2, DefragAssumption
  <2>4. First(place') <= BlocksOf(size)
    BY <1>1, <1>4, <2>1
  <2> QED
    BY <1>1, <2>3, <2>4 DEF Loop
<1>8. Holders'
  <2>1. \A a \in Places : OnWay(a, place') => OnWay(a, place)
    BY <1>1, Types, OnWayIs
  <2> QED
    BY <1>1, <1>3, <2>1 DEF IInv, Holders
<1> QED
  BY <1>3, <1>5, <1>6, <1>7, <1>8 DEF IInv

LEMMA CopyIndexInv ==
  ASSUME IInv, CopyIndex
  PROVE  IInv'
<1> DEFINE size == source.inodes[next_inode].size
           level == LevelsBelow(place)
<1>1. /\ phase = "file" /\ place \in Places /\ ~finished /\ place[1] <= I3BLOCK
      /\ <<next_inode, place>> \in Moves(source)
      /\ level > 0
      /\ place' = Child(place, 1)
      /\ curr_block' = [curr_block EXCEPT ![level] = block_index]
      /\ UNCHANGED <<source, free_block, next_inode, this_file_size, finished, phase>>
  BY CopyIsMove DEF CopyIndex
<1>2. \A w \in Places : Precedes(w, place') <=> Precedes(w, place) \/ w = place
  BY <1>1, OneMore
<1>3. /\ Done' = Done \cup {<<next_inode, place>>}
      /\ inodes' \in [Inodes -> Inode] /\ blocks' \in [Block -> BlockContents]
      /\ block_index' \in Nat
      /\ Filled' /\ InodesOK' /\ BlocksOK'
      /\ block_index = To(source, <<next_inode, place>>)
  BY <1>1, <1>2, Copying DEF CopyIndex
<1>4. place' \in Places /\ place' \in Cursors /\ place'[1] <= I3BLOCK /\ First(place') = First(place)
  <2>1. 1 \in 1 .. IntsInBlock
    BY Numbers
  <2>2. place' \in Places /\ place'[1] = place[1]
    BY <1>1, <2>1, ChildIs
  <2>3. First(place') = First(place)
    BY <1>1, FirstChild
  <2> QED
    BY <1>1, <2>2, <2>3, PlacesAreCursors
<1>5. level \in 1 .. 3 /\ \A a \in Places : LevelsBelow(a) \in Int
  BY <1>1, LevelOf DEF LevelsBelow
<1> HIDE DEF level
<1>6. /\ curr_block' \in [1 .. 3 -> Int] /\ curr_block'[level] = block_index
      /\ \A n \in Int : n # level => curr_block'[n] = curr_block[n]
  BY <1>1, <1>5, Types
<1>7. TypeOK'
  BY <1>1, <1>3, <1>4, <1>6 DEF IInv, TypeOK
<1>8. Phases'
  BY <1>1 DEF IInv, Phases
<1>9. Loop'
  BY <1>1, <1>4 DEF IInv, Loop
<1>10. Holders'
  <2> SUFFICES ASSUME NEW a \in Places, OnWay(a, place')
               PROVE  /\ <<next_inode, a>> \in Done'
                      /\ curr_block'[LevelsBelow(a)] = To(source, <<next_inode, a>>)
    BY <1>1 DEF Holders
  <2>1. a = place \/ OnWay(a, place)
    BY <1>1, Types, OnWayIs DEF level
  <2>2. CASE a = place
    BY <1>3, <1>6, <2>2 DEF level
  <2>3. CASE OnWay(a, place)
    <3>1. level < LevelsBelow(a)
      BY <1>1, <2>3, Types, OnWayIs DEF level
    <3>2. curr_block'[LevelsBelow(a)] = curr_block[LevelsBelow(a)]
      BY <1>5, <1>6, <3>1
    <3> QED
      BY <1>3, <2>3, <3>2 DEF IInv, Holders
  <2> QED
    BY <2>1, <2>2, <2>3
<1> QED
  BY <1>3, <1>7, <1>8, <1>9, <1>10 DEF IInv

(* The way to the pointer behind the index block's last one. *)
LEMMA LeaveKeeps ==
  ASSUME IInv, phase = "file", place[2] # 0, place' = Advance(Parent(place)),
         UNCHANGED <<source, inodes, blocks, block_index, next_inode, phase, curr_block>>,
         \A w \in Places : <<next_inode, w>> \in Moves(source) /\ Precedes(w, place') => Precedes(w, place)
  PROVE  place' \in Cursors /\ Filled' /\ InodesOK' /\ BlocksOK' /\ Holders'
<1>1. place' \in Cursors
  BY Types, LeaveIs
<1>2. Before(source, next_inode, place') = Done
  <2>1. ASSUME NEW u \in Moves(source)
        PROVE  Ahead(u, next_inode, place) <=> Ahead(u, next_inode, place')
    <3>1. u = <<u[1], u[2]>> /\ u[2] \in Places
      BY MoveParts
    <3>2. Precedes(u[2], place) => Precedes(u[2], place')
      BY <3>1, Types, LeaveOrder
    <3> QED
      BY <3>1, <3>2 DEF Ahead
  <2> QED
    BY <2>1, BeforeSame DEF Done
<1>3. Started' = Started
  BY DEF Started
<1>4. Filled' /\ InodesOK' /\ BlocksOK'
  BY <1>2, <1>3, Stays
<1>5. Done' = Done
  BY <1>2 DEF Done
<1>6. \A a \in Places : OnWay(a, place') => OnWay(a, place)
  BY Types, OnWayIs
<1>7. Holders'
  BY <1>5, <1>6 DEF IInv, Holders
<1> QED
  BY <1>1, <1>4, <1>7

LEMMA LeaveIndexInv ==
  ASSUME IInv, LeaveIndex
  PROVE  IInv'
<1>1. /\ phase = "file" /\ Past(place) /\ place[2] # 0 /\ place' = Advance(Parent(place))
      /\ UNCHANGED <<source, inodes, blocks, block_index, next_inode, curr_block, this_file_size,
                     finished, phase>>
  BY DEF LeaveIndex, image_vars
<1>2. \A w \in Places : Precedes(w, place') <=> Precedes(w, place)
  BY <1>1, Types, LeaveOrder
<1>3. place' \in Cursors /\ Filled' /\ InodesOK' /\ BlocksOK' /\ Holders'
  BY <1>1, <1>2, LeaveKeeps
<1>4. TypeOK' /\ Phases'
  BY <1>1, <1>3 DEF IInv, TypeOK, Phases
<1>5. Loop'
  <2>1. \A v \in Gets(source.inodes[next_inode].size) : v \in Places
    BY <1>1, InFile, GetsIs
  <2>2. place'[1] <= I3BLOCK => First(place') = First(place) /\ place[1] <= I3BLOCK
    <3>1. place'[1] <= I3BLOCK => First(place') = First(place)
      BY <1>1, Types, LeaveIs
    <3>2. place[1] <= I3BLOCK
      BY <1>1, Types, CursorParts, Numbers
    <3> QED
      BY <3>1, <3>2
  <2> QED
    BY <1>1, <1>2, <2>1, <2>2 DEF IInv, Loop
<1> QED
  BY <1>3, <1>4, <1>5 DEF IInv

LEMMA BreakInv ==
  ASSUME IInv, Break
  PROVE  IInv'
<1> DEFINE size == source.inodes[next_inode].size
<1>1. /\ phase = "file" /\ ~Past(place) /\ ~Copies(place)
      /\ place[2] = 0 => ~finished
      /\ finished' = TRUE
      /\ place[2] = 0 => place' = place
      /\ place[2] # 0 => place' = Advance(Parent(place))
      /\ UNCHANGED <<source, inodes, blocks, block_index, next_inode, curr_block, this_file_size, phase>>
  BY DEF Break, image_vars
<1>2. place \in Places /\ place[1] <= I3BLOCK
  <2>1. place \in Cursors /\ place[1] \in 1 .. I3BLOCK + 1 /\ (place[1] = I3BLOCK + 1 => place[2] = 0)
    BY Types, CursorParts
  <2>2. place[1] <= I3BLOCK
    BY <1>1, <2>1, Numbers DEF Past
  <2> QED
    BY <1>1, <2>1, <2>2, CursorIs
<1>3. \A w \in Gets(size) : Precedes(w, place)
  <2>1. CASE finished
    BY <1>1, <2>1 DEF IInv, Loop
  <2>2. CASE ~finished
    <3>1. place \notin {Root(I2BLOCK), Root(I3BLOCK)} /\ this_file_size <= 0
      BY <1>1, <2>2 DEF Copies, Ended
    <3>2. this_file_size = size - First(place) * BLOCK_SIZE /\ First(place) \in Nat /\ size \in Nat
      BY <1>1, <1>2, <2>2, InFile, Inside DEF IInv, Loop
    <3>3. BlocksOf(size) <= First(place)
      BY <3>1, <3>2, BlocksOfIs
    <3> QED
      BY <1>2, <3>1, <3>2, <3>3, AllCopied
  <2> QED
    BY <2>1, <2>2
<1>4. place' \in Cursors /\ Filled' /\ InodesOK' /\ BlocksOK' /\ Holders'
  <2>1. CASE place[2] = 0
    <3>1. Before(source, next_inode, place') = Done /\ Started' = Started
      BY <1>1, <2>1 DEF Done, Started
    <3>2. Filled' /\ InodesOK' /\ BlocksOK'
      BY <1>1, <3>1, Stays
    <3>3. Holders'
      BY <1>1, <2>1 DEF IInv, Holders, Done
    <3> QED
      BY <1>1, <2>1, <3>2, <3>3, Types
  <2>2. CASE place[2] # 0
    <3>1. \A w \in Places : <<next_inode, w>> \in Moves(source) => Precedes(w, place)
      BY <1>1, <1>3, InFile
    <3> QED
      BY <1>1, <2>2, <3>1, LeaveKeeps
  <2> QED
    BY <2>1, <2>2
<1>5. TypeOK' /\ Phases'
  BY <1>1, <1>4 DEF IInv, TypeOK, Phases
<1>6. Loop'
  <2>1. ASSUME NEW w \in Gets(size) PROVE Precedes(w, place')
    <3>1. w \in Places
      BY <1>1, InFile, GetsIs
    <3>2. CASE place[2] = 0
      BY <1>1, <1>3, <3>2
    <3>3. CASE place[2] # 0
      BY <1>1, <1>3, <3>1, <3>3, Types, LeaveOrder
    <3> QED
      BY <3>2, <3>3
  <2> QED
    BY <1>1, <2>1 DEF Loop
<1> QED
  BY <1>4, <1>5, <1>6 DEF IInv

LEMMA EndFileInv ==
  ASSUME IInv, EndFile
  PROVE  IInv'
<1>1. /\ phase = "file" /\ place[2] = 0 /\ (finished \/ Past(place))
      /\ phase' = "inodes" /\ next_inode' = next_inode + 1 /\ place' = FirstPlace
      /\ UNCHANGED <<source, inodes, blocks, block_index, curr_block, this_file_size, finished>>
  BY DEF EndFile, image_vars
<1>2. \A w \in Gets(source.inodes[next_inode].size) : Precedes(w, place)
  <2>1. CASE finished
    BY <1>1, <2>1 DEF IInv, Loop
  <2>2. CASE Past(place)
    <3>1. place[1] > I3BLOCK
      BY <1>1, <2>2 DEF Past
    <3>2. \A w \in Gets(source.inodes[next_inode].size) : w[1] \in 1 .. I3BLOCK
      BY <1>1, InFile, GetsIs, PlaceParts
    <3> QED
      BY <3>1, <3>2, Types, CursorParts, Numbers DEF Precedes
  <2> QED
    BY <1>1, <2>1, <2>2
<1>3. Before(source, next_inode', place') = Done
  <2>1. ASSUME NEW u \in Moves(source)
        PROVE  Ahead(u, next_inode, place) <=> Ahead(u, next_inode', place')
    <3>1. u[1] \in Int /\ u[2] \in Places /\ ~Precedes(u[2], place') /\ next_inode \in Int
      BY <1>1, MoveParts, NothingFirst, Types
    <3>2. u[1] = next_inode => Precedes(u[2], place)
      BY <1>1, <1>2, InFile
    <3>3. Ahead(u, next_inode, place) <=> u[1] <= next_inode
      BY <3>1, <3>2 DEF Ahead
    <3>4. Ahead(u, next_inode', place') <=> u[1] < next_inode + 1
      BY <1>1, <3>1 DEF Ahead
    <3> QED
      BY <3>1, <3>3, <3>4
  <2> QED
    BY <2>1, BeforeSame DEF Done
<1>4. Started' = Started
  <2>1. \A i \in Inodes : i \in Int
    BY DefragAssumption DEF Inodes
  <2> QED
    BY <1>1, <2>1, Types DEF Started
<1>5. Filled' /\ InodesOK' /\ BlocksOK'
  BY <1>1, <1>3, <1>4, Stays
<1>6. TypeOK' /\ Phases' /\ Loop'
  <2>1. next_inode' \in 1 .. num_inode + 1
    BY <1>1, InFile, DefragAssumption DEF Inodes
  <2> QED
    BY <1>1, <2>1, NothingFirst DEF IInv, TypeOK, Phases, Loop
<1>7. Holders'
  BY <1>1, NothingFirst, OnWayIs DEF Holders
<1> QED
  BY <1>5, <1>6, <1>7 DEF IInv

LEMMA CopyInodeInv ==
  ASSUME IInv, CopyInode
  PROVE  IInv'
<1> DEFINE i == next_inode
<1>1. /\ phase = "inodes" /\ i <= num_inode
      /\ inodes' = [inodes EXCEPT ![i] = source.inodes[i]]
      /\ UNCHANGED <<source, blocks, free_block, block_index, place, curr_block>>
  BY DEF CopyInode
<1>2. i \in Inodes /\ i \in Int /\ place = FirstPlace
  BY <1>1, Types, DefragAssumption DEF IInv, Phases, Inodes
<1>3. source.inodes[i] \in Inode /\ source.inodes[i].size \in Nat
  BY <1>2, DoneIs
<1>4. /\ inodes' \in [Inodes -> Inode] /\ inodes'[i] = source.inodes[i]
      /\ \A j \in Inodes : j # i => inodes'[j] = inodes[j]
  BY <1>1, <1>2, <1>3, Types
<1>5. \A u \in Done : u[1] < i
  <2>1. ASSUME NEW u \in Done PROVE u[1] < i
    <3>1. Ahead(u, i, FirstPlace) /\ u[2] \in Places
      BY <1>2, MoveParts DEF Done, Before
    <3> QED
      BY <3>1, NothingFirst DEF Ahead
  <2> QED
    BY <2>1
<1>6. InodesMade(source, Done, inodes', Started \cup {i})
  <2>1. ASSUME NEW j \in Started \cup {i}
        PROVE  /\ inodes'[j].nlink = source.inodes[j].nlink
               /\ inodes'[j].size = source.inodes[j].size
               /\ Live(source.inodes[j]) => \A s \in Slots :
                    inodes'[j].ptr[s] = IF <<j, Root(s)>> \in Done THEN To(source, <<j, Root(s)>>)
                                        ELSE source.inodes[j].ptr[s]
    <3>1. CASE j = i
      <4>1. \A s \in Slots : <<i, Root(s)>> \notin Done
        BY <1>2, <1>5
      <4> QED
        BY <1>4, <3>1, <4>1
    <3>2. CASE j # i
      <4>1. j \in Started /\ inodes'[j] = inodes[j]
        BY <1>4, <2>1, <3>2 DEF Started
      <4> QED
        BY <4>1 DEF IInv, InodesOK, InodesMade
    <3> QED
      BY <3>1, <3>2
  <2> QED
    BY <2>1 DEF InodesMade
<1>7. \A j \in Inodes : j \in Int
  BY DefragAssumption DEF Inodes
<1>8. CASE Live(source.inodes[i])
  <2>1. /\ phase' = "file" /\ finished' = FALSE /\ this_file_size' = source.inodes[i].size
        /\ next_inode' = i
    BY <1>8 DEF CopyInode
  <2>2. Done' = Done /\ Started' = Started \cup {i}
    <3>1. Done' = Done
      BY <1>1, <2>1 DEF Done
    <3>2. Started' = Started \cup {i}
      BY <1>1, <1>2, <1>7, <2>1 DEF Started
    <3> QED
      BY <3>1, <3>2
  <2>3. TypeOK'
    <3>1. finished' \in BOOLEAN
      BY <2>1
    <3>2. phase' \in {"inodes", "file", "free list", "done"} /\ this_file_size' \in Int
      BY <1>3, <2>1
    <3>3. next_inode' \in 1 .. num_inode + 1
      BY <2>1, Types
    <3> QED
      BY <1>1, <1>4, <3>1, <3>2, <3>3 DEF IInv, TypeOK
  <2>4. Phases'
    BY <1>1, <1>2, <1>8, <2>1 DEF Phases
  <2>5. Filled'
    BY <1>1, <2>1, <2>2 DEF IInv, Filled
  <2>6. Loop'
    <3>1. place' = FirstPlace /\ First(place') = 0
      BY <1>1, <1>2, NothingFirst
    <3>2. source'.inodes[next_inode'].size = source.inodes[i].size
      BY <1>1, <2>1
    <3>3. BlocksOf(source.inodes[i].size) \in Nat /\ source.inodes[i].size \in Nat
      BY <1>3, BlocksOfIs
    <3>4. 0 * BLOCK_SIZE = 0
      BY DefragAssumption
    <3> QED
      BY <2>1, <3>1, <3>2, <3>3, <3>4 DEF Loop
  <2>7. Holders'
    BY <1>1, <1>2, NothingFirst, OnWayIs DEF Holders
  <2>8. InodesOK' /\ BlocksOK'
    BY <1>1, <1>6, <2>1, <2>2 DEF IInv, InodesOK, BlocksOK
  <2> QED
    BY <2>3, <2>4, <2>5, <2>6, <2>7, <2>8 DEF IInv
<1>9. CASE ~Live(source.inodes[i])
  <2>1. /\ phase' = "inodes" /\ finished' = finished /\ this_file_size' = 0
        /\ next_inode' = i + 1
    BY <1>1, <1>9 DEF CopyInode
  <2>2. Before(source, next_inode', place') = Done
    <3>1. ASSUME NEW u \in Moves(source)
          PROVE  Ahead(u, i, place) <=> Ahead(u, next_inode', place')
      <4>1. u[1] \in Int /\ u[1] # i /\ ~Precedes(u[2], FirstPlace)
        BY <1>9, MoveParts, NothingFirst
      <4> QED
        BY <1>1, <1>2, <2>1, <4>1 DEF Ahead
    <3> QED
      BY <3>1, BeforeSame DEF Done
  <2>3. Done' = Done /\ Started' = Started \cup {i}
    <3>1. Done' = Done
      BY <1>1, <2>2 DEF Done
    <3>2. Started' = Started \cup {i}
      <4>1. Started = {j \in Inodes : j < i}
        BY <1>1 DEF Started
      <4>2. Started' = {j \in Inodes : j < i + 1}
        BY <2>1 DEF Started
      <4>3. ASSUME NEW j \in Inodes PROVE j < i + 1 <=> j < i \/ j = i
        BY <1>2, <1>7
      <4> HIDE DEF i
      <4> QED
        BY <1>2, <4>1, <4>2, <4>3
    <3> QED
      BY <3>1, <3>2
  <2>4. TypeOK'
    <3>1. next_inode' \in 1 .. num_inode + 1
      BY <1>2, <2>1, DefragAssumption DEF Inodes
    <3> QED
      BY <1>1, <1>4, <2>1, <3>1 DEF IInv, TypeOK
  <2>5. Phases' /\ Loop'
    BY <1>1, <1>2, <2>1 DEF Phases, Loop
  <2>6. Filled'
    <3>1. Dest(source, next_inode', place') = block_index
      BY <2>2, DoneIs DEF Dest
    <3> QED
      BY <1>1, <2>3, <3>1 DEF IInv, Filled
  <2>7. Holders'
    BY <1>1, <1>2, NothingFirst, OnWayIs DEF Holders
  <2>8. InodesOK' /\ BlocksOK'
    BY <1>1, <1>6, <2>1, <2>3 DEF IInv, InodesOK, BlocksOK
  <2> QED
    BY <2>4, <2>5, <2>6, <2>7, <2>8 DEF IInv
<1> QED
  BY <1>8, <1>9

(* Where the files have been copied, and the blocks they use stay as they are. *)
LEMMA FilesStay ==
  ASSUME IInv, UNCHANGED <<source, inodes, block_index, loop_vars>>,
         next_inode = num_inode + 1, place = FirstPlace,
         phase \in {"inodes", "free list"}, phase' \in {"free list", "done"},
         blocks' \in [Block -> BlockContents],
         phase' # "done" \/ block_index <= SwapFrom =>
           \A b \in Block : b < block_index =>
             /\ blocks'[b].data = blocks[b].data
             /\ \A k \in Ints : blocks'[b].ints[k] = blocks[b].ints[k]
  PROVE  IInv'
<1>1. UNCHANGED <<source, inodes, block_index, next_inode, place, curr_block, this_file_size, finished>>
  BY DEF loop_vars
<1>2. Done' = Done /\ Started' = Started
  <2>1. Done' = Done
    BY <1>1 DEF Done
  <2>2. phase # "file" /\ phase' # "file"
    OBVIOUS
  <2> QED
    BY <1>1, <2>1, <2>2 DEF Started
<1>3. TypeOK'
  BY <1>1 DEF IInv, TypeOK
<1>4. Phases' /\ Loop'
  BY <1>1 DEF Phases, Loop
<1>5. Filled' /\ Holders'
  BY <1>1, <1>2 DEF IInv, Filled, Holders
<1>6. InodesOK'
  BY <1>1, <1>2 DEF IInv, InodesOK
<1>7. BlocksOK'
  <2> SUFFICES ASSUME phase' # "done" \/ block_index <= SwapFrom
               PROVE  BlocksMade(source, Done, blocks')
    BY <1>1, <1>2 DEF BlocksOK
  <2>1. BlocksMade(source, Done, blocks)
    BY DEF IInv, BlocksOK
  <2>2. \A u \in Done : /\ blocks'[To(source, u)].data = blocks[To(source, u)].data
                        /\ \A k \in Ints : blocks'[To(source, u)].ints[k] = blocks[To(source, u)].ints[k]
    BY DoneIs
  <2>3. SUFFICES ASSUME NEW u \in Done
                 PROVE  /\ blocks'[To(source, u)].data = source.blocks[Src(source, u)].data
                        /\ LevelsBelow(u[2]) > 0 => \A k \in Ints :
                             blocks'[To(source, u)].ints[k] =
                               IF <<u[1], Child(u[2], k)>> \in Done
                               THEN To(source, <<u[1], Child(u[2], k)>>)
                               ELSE source.blocks[Src(source, u)].ints[k]
    BY DEF BlocksMade
  <2>4. /\ blocks[To(source, u)].data = source.blocks[Src(source, u)].data
        /\ LevelsBelow(u[2]) > 0 => \A k \in Ints :
             blocks[To(source, u)].ints[k] = IF <<u[1], Child(u[2], k)>> \in Done
                                             THEN To(source, <<u[1], Child(u[2], k)>>)
                                             ELSE source.blocks[Src(source, u)].ints[k]
    BY <2>1 DEF BlocksMade
  <2> QED
    BY <2>2, <2>4
<1> QED
  BY <1>3, <1>4, <1>5, <1>6, <1>7 DEF IInv

LEMMA LinkFreeBlocksInv ==
  ASSUME IInv, LinkFreeBlocks
  PROVE  IInv'
<1> DEFINE linked == [b \in Block |->
                        IF b \in block_index .. DataBlocks - 1
                        THEN [blocks[b] EXCEPT !.ints[1] = FreeLink(b)] ELSE blocks[b]]
<1>1. /\ phase = "inodes" /\ next_inode > num_inode /\ phase' = "free list"
      /\ blocks' = linked
      /\ UNCHANGED <<source, inodes, block_index, loop_vars>>
  BY DEF LinkFreeBlocks
<1>2. next_inode = num_inode + 1 /\ place = FirstPlace
  <2>1. next_inode = num_inode + 1
    <3>1. next_inode \in 1 .. num_inode + 1 /\ next_inode > num_inode
      BY <1>1, Types
    <3> QED
      BY <3>1, DefragAssumption
  <2> QED
    BY <1>1, <2>1 DEF IInv, Phases
<1>3. blocks' \in [Block -> BlockContents]
  <2>1. ASSUME NEW b \in Block, NEW n \in Int
        PROVE  [blocks[b] EXCEPT !.ints[1] = n] \in BlockContents
    <3>1. 1 \in Ints
      BY DefragAssumption DEF Ints
    <3>2. blocks[b] \in BlockContents
      BY Types
    <3> QED
      BY <3>1, <3>2 DEF BlockContents
  <2>2. \A b \in Block : FreeLink(b) \in Int
    BY DefragAssumption DEF FreeLink, Block
  <2> QED
    BY <1>1, <2>1, <2>2, Types
<1>4. \A b \in Block : b < block_index => blocks'[b] = blocks[b]
  <2>1. \A b \in Block : b < block_index => b \notin block_index .. DataBlocks - 1
    BY Types, DefragAssumption DEF Block
  <2> QED
    BY <1>1, <2>1
<1> HIDE DEF linked
<1> QED
  BY <1>1, <1>2, <1>3, <1>4, FilesStay

LEMMA CopySwapInv ==
  ASSUME IInv, CopySwap
  PROVE  IInv'
<1>1. /\ phase = "free list" /\ phase' = "done"
      /\ blocks' = [b \in Block |-> IF b >= SwapFrom THEN source.blocks[b] ELSE blocks[b]]
      /\ UNCHANGED <<source, inodes, block_index, loop_vars>>
  BY DEF CopySwap
<1>2. next_inode = num_inode + 1 /\ place = FirstPlace
  BY <1>1 DEF IInv, Phases
<1>3. blocks' \in [Block -> BlockContents]
  <2>1. \A b \in Block : source.blocks[b] \in BlockContents /\ blocks[b] \in BlockContents
    BY Types, ImageIs
  <2> QED
    BY <1>1, <2>1
<1>4. block_index <= SwapFrom => \A b \in Block : b < block_index => blocks'[b] = blocks[b]
  <2> SUFFICES ASSUME block_index <= SwapFrom, NEW b \in Block, b < block_index
               PROVE  blocks'[b] = blocks[b]
    OBVIOUS
  <2>1. SwapFrom \in Int /\ b \in Int
    BY DefragAssumption DEF SwapFrom, Block
  <2>2. block_index \in Int
    BY Types
  <2>3. ~(b >= SwapFrom)
    BY <2>1, <2>2
  <2> QED
    BY <1>1, <2>3
<1> QED
  BY <1>1, <1>2, <1>3, <1>4, FilesStay

LEMMA StepInv ==
  ASSUME IInv, [Next]_vars
  PROVE  IInv'
<1>1. CASE CopyInode
  BY <1>1, CopyInodeInv
<1>2. CASE CopyData
  BY <1>2, CopyDataInv
<1>3. CASE CopyIndex
  BY <1>3, CopyIndexInv
<1>4. CASE LeaveIndex
  BY <1>4, LeaveIndexInv
<1>5. CASE Break
  BY <1>5, BreakInv
<1>6. CASE EndFile
  BY <1>6, EndFileInv
<1>7. CASE LinkFreeBlocks
  BY <1>7, LinkFreeBlocksInv
<1>8. CASE CopySwap
  BY <1>8, CopySwapInv
<1>9. CASE UNCHANGED vars
  <2>1. UNCHANGED <<source, inodes, blocks, free_block, block_index, next_inode, place, curr_block,
                    this_file_size, finished, phase>>
    BY <1>9 DEF vars, image_vars, loop_vars
  <2>2. Done' = Done /\ Started' = Started
    BY <2>1 DEF Done, Started
  <2> QED
    BY <2>1, <2>2 DEF IInv, TypeOK, Phases, Filled, Loop, Holders, InodesOK, BlocksOK
<1> QED
  BY <1>1, <1>2, <1>3, <1>4, <1>5, <1>6, <1>7, <1>8, <1>9 DEF Next

(* After every turn of the loops of main (defrag.c lines 70-192) what has been copied is
   what comes before their place, and lies and is pointed to as its number says. *)
THEOREM Invariant == Spec => []IInv
<1>1. Init => IInv
  BY InitInv
<1>2. IInv /\ [Next]_vars => IInv'
  BY StepInv
<1> QED
  BY <1>1, <1>2, PTL DEF Spec

-----------------------------------------------------------------------------
(* What follows from the invariant. *)

LEMMA SameSize ==
  ASSUME NEW S, IsFiniteSet(S), NEW T, NEW f \in [S -> T],
         \A x \in S : \A y \in S : f[x] = f[y] => x = y,
         \A t \in T : \E x \in S : f[x] = t
  PROVE  IsFiniteSet(T) /\ Cardinality(T) = Cardinality(S)
<1>1. f \in Bijection(S, T)
  BY DEF Bijection, Injection, Surjection, IsInjective
<1> QED
  BY <1>1, FS_Bijection DEF ExistsBijection

(* A file that has been copied is found where its blocks were put. *)
LEMMA AtIs ==
  ASSUME IInv, phase # "done" \/ block_index <= SwapFrom,
         NEW i \in Inodes, i < next_inode, Live(source.inodes[i])
  PROVE  \A v \in Nodes(source.inodes[i].size) :
           <<i, v>> \in Done /\ At(i, v) = To(source, <<i, v>>)
<1> DEFINE N == Nodes(source.inodes[i].size)
           Found(v) == At(i, v) = To(source, <<i, v>>)
<1>1. ASSUME NEW v \in N PROVE v \in Places /\ <<i, v>> \in Done
  <2>1. v \in Places
    BY DEF Nodes
  <2>2. <<i, v>> \in Moves(source)
    BY <2>1, MoveMade DEF Gets
  <2>3. Ahead(<<i, v>>, next_inode, place)
    BY DEF Ahead
  <2> QED
    BY <2>1, <2>2, <2>3 DEF Done, Before
<1>2. /\ InodesMade(source, Done, inodes, Started) /\ BlocksMade(source, Done, blocks)
      /\ i \in Started /\ source.inodes[i].size \in Nat
  BY DoneIs DEF IInv, InodesOK, BlocksOK, Started
<1>3. ASSUME NEW v \in N, v[2] = 0 PROVE Found(v)
  <2>1. v[1] \in Slots /\ v = Root(v[1])
    BY <1>1, <1>3, PlaceParts DEF Slots, Root
  <2>2. inodes[i].ptr[v[1]] = To(source, <<i, v>>)
    BY <1>1, <1>2, <2>1 DEF InodesMade
  <2>3. Where(inodes[i], blocks, v) = inodes[i].ptr[v[1]]
    BY <1>1, <1>3, WhereIs
  <2> QED
    BY <2>2, <2>3 DEF At
<1>4. ASSUME NEW v \in N, v[2] # 0, Found(Parent(v)) PROVE Found(v)
  <2> DEFINE p == Parent(v)
             k == Turn(v)
             u == <<i, p>>
  <2>1. p \in N /\ LevelsBelow(p) > 0 /\ k \in Ints /\ v = Child(p, k)
    BY <1>2, <1>4, ParentNode
  <2>2. u \in Done /\ u[1] = i /\ u[2] = p
    BY <1>1, <2>1
  <2>3. <<u[1], Child(u[2], k)>> = <<i, v>> /\ <<i, v>> \in Done
    BY <1>1, <2>1, <2>2
  <2>4. Where(inodes[i], blocks, v) = blocks[Where(inodes[i], blocks, p)].ints[k]
    BY <1>1, <1>4, WhereIs
  <2>5. Where(inodes[i], blocks, p) = To(source, u)
    BY <1>4 DEF At
  <2> HIDE DEF p, k, u
  <2>6. blocks[To(source, u)].ints[k] = To(source, <<i, v>>)
    BY <1>2, <2>1, <2>2, <2>3 DEF BlocksMade
  <2> QED
    BY <2>4, <2>5, <2>6 DEF At
<1> HIDE DEF Found
<1>5. ASSUME NEW v \in N
      PROVE  /\ v[2] = 0 => v[3] = 0
             /\ v[3] = 0 => v[4] = 0
             /\ v[2] # 0 => Parent(v) \in N
             /\ v[3] = 0 => Parent(v)[2] = 0
             /\ v[4] = 0 => Parent(v)[3] = 0
             /\ Parent(v)[4] = 0
  <2>1. v[2] # 0 => Parent(v) \in N
    BY <1>2, ParentNode
  <2> QED
    BY <1>1, <2>1, PlaceParts DEF Parent, Root
<1>6. \A v \in N : v[3] = 0 => Found(v)
  BY <1>3, <1>4, <1>5
<1>7. \A v \in N : v[4] = 0 => Found(v)
  BY <1>4, <1>5, <1>6
<1>8. \A v \in N : Found(v)
  BY <1>4, <1>5, <1>7
<1> QED
  BY <1>1, <1>8 DEF Found

(* A file's blocks come one behind the other. *)
LEMMA RankIs ==
  ASSUME NEW image, WellFormed(image), NEW i \in Inodes, Live(image.inodes[i]),
         NEW bytes \in Nat, bytes = image.inodes[i].size, NEW v \in Nodes(bytes)
  PROVE  /\ FirstPlace \in Nodes(bytes)
         /\ To(image, <<i, v>>) = To(image, <<i, FirstPlace>>) + Rank(v, bytes)
<1> DEFINE A == Before(image, i, FirstPlace)
           P == {w \in Nodes(bytes) : Precedes(w, v)}
           R == {<<i, w>> : w \in P}
           f == [w \in P |-> <<i, w>>]
<1>1. v \in Places /\ First(v) \in Nat /\ First(v) < BlocksOf(bytes) /\ BlocksOf(bytes) \in Nat
  BY Inside, BlocksOfIs DEF Nodes
<1>2. FirstPlace \in Nodes(bytes)
  BY <1>1, NothingFirst DEF Nodes
<1>3. i \in Int
  BY DefragAssumption DEF Inodes
<1>4. Before(image, i, v) = A \cup R
  <2>1. ASSUME NEW u \in Moves(image), Ahead(u, i, v) PROVE u \in A \cup R
    <3>1. u = <<u[1], u[2]>> /\ u[1] \in Int /\ u[2] \in Places /\ u[2] \in Gets(image.inodes[u[1]].size)
      BY MoveParts
    <3>2. CASE u[1] < i
      BY <3>2 DEF Ahead, Before
    <3>3. CASE u[1] = i /\ Precedes(u[2], v)
      <4>1. First(u[2]) <= First(v) /\ First(u[2]) \in Nat
        BY <1>1, <3>1, <3>3, Ordered, Inside
      <4>2. u[2] \in Nodes(bytes)
        BY <1>1, <3>1, <4>1 DEF Nodes
      <4> QED
        BY <3>1, <3>3, <4>2
    <3> QED
      BY <2>1, <3>2, <3>3 DEF Ahead
  <2>2. ASSUME NEW u \in A PROVE u \in Moves(image) /\ Ahead(u, i, v)
    <3>1. u \in Moves(image) /\ Ahead(u, i, FirstPlace)
      BY DEF Before
    <3>2. ~Precedes(u[2], FirstPlace)
      BY <3>1, MoveParts, NothingFirst
    <3> QED
      BY <3>1, <3>2 DEF Ahead
  <2>3. ASSUME NEW w \in P PROVE <<i, w>> \in Moves(image) /\ Ahead(<<i, w>>, i, v)
    <3>1. w \in Nodes(bytes) /\ w \in Places /\ Precedes(w, v)
      BY DEF Nodes
    <3>2. <<i, w>> \in Moves(image)
      BY <3>1, MoveMade DEF Gets
    <3> QED
      BY <3>1, <3>2 DEF Ahead
  <2> QED
    BY <2>1, <2>2, <2>3 DEF Before
<1>5. A \cap R = {}
  <2>1. ASSUME NEW w \in P PROVE <<i, w>> \notin A
    <3>1. w \in Places
      BY DEF Nodes
    <3> QED
      BY <1>3, <3>1, NothingFirst DEF Before, Ahead
  <2> QED
    BY <2>1
<1>6. IsFiniteSet(P) /\ IsFiniteSet(A) /\ Cardinality(A) \in Nat
  <2>1. P \in SUBSET Places
    BY DEF Nodes
  <2> QED
    BY <2>1, PlacesFinite, FS_Subset, BeforeFinite DEF Dest
<1>7. IsFiniteSet(R) /\ Cardinality(R) = Cardinality(P)
  <2>1. f \in [P -> R]
    OBVIOUS
  <2>2. \A x \in P : \A y \in P : f[x] = f[y] => x = y
    OBVIOUS
  <2>3. \A t \in R : \E x \in P : f[x] = t
    OBVIOUS
  <2> HIDE DEF f, P, R
  <2> QED
    BY <1>6, <2>1, <2>2, <2>3, SameSize
<1>8. Dest(image, i, v) = Dest(image, i, FirstPlace) + Rank(v, bytes)
  <2>1. Cardinality(R) \in Nat
    BY <1>6, <1>7, FS_CardinalityType
  <2>2. Rank(v, bytes) = Cardinality(R)
    BY <1>7 DEF Rank
  <2>3. Dest(image, i, v) = Cardinality(A \cup R) /\ Dest(image, i, FirstPlace) = Cardinality(A)
    BY <1>4 DEF Dest
  <2> HIDE DEF A, R
  <2>4. Cardinality(A \cup R) = Cardinality(A) + Cardinality(R) - Cardinality({})
    BY <1>5, <1>6, <1>7, FS_Union
  <2> QED
    BY <1>6, <2>1, <2>2, <2>3, <2>4, FS_EmptySet
<1> QED
  BY <1>2, <1>8 DEF To

LEMMA CopiedAre ==
  ASSUME IInv, NEW i \in Copied
  PROVE  /\ i \in Inodes /\ i \in Int /\ i < next_inode /\ Live(source.inodes[i])
         /\ source.inodes[i].size \in Nat
         /\ inodes[i].size = source.inodes[i].size
<1>1. i \in Inodes /\ i < next_inode /\ Live(source.inodes[i])
  BY DEF Copied
<1>2. i \in Started
  BY <1>1 DEF Started
<1>3. i \in Int
  BY <1>1, DefragAssumption DEF Inodes
<1> QED
  BY <1>1, <1>2, <1>3, DoneIs DEF IInv, InodesOK, InodesMade

(* The files that have been copied have their blocks one behind the other, in order. *)
THEOREM FilesInOrder == Spec => []InOrder
<1>1. ASSUME IInv PROVE InOrder
  <2> SUFFICES ASSUME phase # "done", NEW i \in Copied, NEW v \in Nodes(inodes[i].size)
               PROVE  /\ At(i, v) = At(i, FirstPlace) + Rank(v, inodes[i].size)
                      /\ \A j \in Copied :
                           i < j /\ Nodes(inodes[j].size) # {} => At(i, v) < At(j, FirstPlace)
    BY DEF InOrder
  <2>1. WellFormed(source)
    BY <1>1, Types
  <2>2. /\ i \in Inodes /\ i < next_inode /\ Live(source.inodes[i])
        /\ source.inodes[i].size \in Nat /\ inodes[i].size = source.inodes[i].size
    BY <1>1, CopiedAre
  <2>3. /\ FirstPlace \in Nodes(source.inodes[i].size)
        /\ To(source, <<i, v>>) = To(source, <<i, FirstPlace>>) + Rank(v, source.inodes[i].size)
    BY <2>1, <2>2, RankIs
  <2>4. /\ <<i, v>> \in Done /\ At(i, v) = To(source, <<i, v>>)
        /\ At(i, FirstPlace) = To(source, <<i, FirstPlace>>)
    BY <1>1, <2>2, <2>3, AtIs
  <2>5. ASSUME NEW j \in Copied, i < j, Nodes(inodes[j].size) # {}
        PROVE  At(i, v) < At(j, FirstPlace)
    <3>1. /\ j \in Inodes /\ j \in Int /\ j < next_inode /\ Live(source.inodes[j])
          /\ source.inodes[j].size \in Nat /\ inodes[j].size = source.inodes[j].size
      BY <1>1, CopiedAre
    <3>2. PICK w : w \in Nodes(source.inodes[j].size)
      BY <2>5, <3>1
    <3>3. FirstPlace \in Nodes(source.inodes[j].size)
      BY <2>1, <3>1, <3>2, RankIs
    <3>4. At(j, FirstPlace) = To(source, <<j, FirstPlace>>)
      BY <1>1, <3>1, <3>3, AtIs
    <3>5. <<i, v>> \in Moves(source) /\ Ahead(<<i, v>>, j, FirstPlace)
      BY <1>1, <2>4, <2>5, DoneIs DEF Ahead
    <3>6. FirstPlace \in Quad
      BY NothingFirst, AreQuads
    <3>7. Dest(source, <<i, v>>[1], <<i, v>>[2]) < Dest(source, j, FirstPlace)
      BY <3>1, <3>5, <3>6, DestGrows
    <3> QED
      BY <2>4, <3>4, <3>7 DEF To
  <2> QED
    BY <2>2, <2>3, <2>4, <2>5
<1> QED
  BY <1>1, Invariant, PTL

(* The finished image has the source's files, where the copy of the swap region has not
   run over them. *)
THEOREM FilesSurvive == Spec => []SameFiles
<1>1. ASSUME IInv PROVE SameFiles
  <2> SUFFICES ASSUME phase = "done", block_index <= SwapFrom, NEW i \in Inodes
               PROVE  /\ inodes[i].nlink = source.inodes[i].nlink
                      /\ Live(inodes[i]) =>
                           Contents(inodes[i], blocks) = Contents(source.inodes[i], source.blocks)
    BY DEF SameFiles
  <2>1. i < next_inode /\ i \in Started
    <3>1. next_inode = num_inode + 1
      BY <1>1 DEF IInv, Phases
    <3>2. i < next_inode
      BY <3>1, DefragAssumption DEF Inodes
    <3> QED
      BY <3>2 DEF Started
  <2>2. inodes[i].nlink = source.inodes[i].nlink /\ inodes[i].size = source.inodes[i].size
    BY <1>1, <2>1 DEF IInv, InodesOK, InodesMade
  <2>3. ASSUME Live(inodes[i])
        PROVE  Contents(inodes[i], blocks) = Contents(source.inodes[i], source.blocks)
    <3> DEFINE D == {w \in Nodes(source.inodes[i].size) : LevelsBelow(w) = 0}
    <3>1. Live(source.inodes[i])
      BY <2>2, <2>3 DEF Live
    <3>2. ASSUME NEW v \in D
          PROVE  blocks[Where(inodes[i], blocks, v)].data
                   = source.blocks[Where(source.inodes[i], source.blocks, v)].data
      <4>1. <<i, v>> \in Done /\ Where(inodes[i], blocks, v) = To(source, <<i, v>>)
        BY <1>1, <2>1, <3>1, AtIs DEF At
      <4>2. blocks[To(source, <<i, v>>)].data = source.blocks[Src(source, <<i, v>>)].data
        BY <1>1, <4>1 DEF IInv, BlocksOK, BlocksMade
      <4>3. Src(source, <<i, v>>) = Where(source.inodes[i], source.blocks, v)
        BY DEF Src
      <4> QED
        BY <4>1, <4>2, <4>3
    <3>3. Contents(inodes[i], blocks) = [v \in D |-> blocks[Where(inodes[i], blocks, v)].data]
      BY <2>2 DEF Contents
    <3>4. Contents(source.inodes[i], source.blocks)
            = [v \in D |-> source.blocks[Where(source.inodes[i], source.blocks, v)].data]
      BY DEF Contents
    <3> HIDE DEF D
    <3> QED
      BY <3>2, <3>3, <3>4
  <2> QED
    BY <2>2, <2>3
<1> QED
  BY <1>1, Invariant, PTL

LEMMA ExtraApart ==
  ASSUME NEW bytes \in Nat, NEW v \in Extra(bytes)
  PROVE  v \in Gets(bytes) /\ v \in Places /\ v \notin Nodes(bytes)
<1>1. v \in Gets(bytes) /\ First(v) = BlocksOf(bytes)
  BY DEF Gets, Extra
<1>2. v \in Places /\ First(v) \in Nat
  BY <1>1, GetsIs
<1> QED
  BY <1>1, <1>2 DEF Nodes

LEMMA DoneBelow ==
  ASSUME IInv, NEW u \in Done
  PROVE  To(source, u) \in 0 .. block_index - 1
<1>1. To(source, u) \in Block /\ To(source, u) < block_index /\ block_index \in Nat
  BY DoneIs, Types
<1> QED
  BY <1>1, DefragAssumption DEF Block

(* A file gets a block it does not use exactly when its blocks just fill a level. *)
THEOREM WasteOnly == Spec => []WasteOnlyBehindExact
<1>1. ASSUME IInv PROVE WasteOnlyBehindExact
  <2> DEFINE W == {b \in 0 .. block_index - 1 :
                     \A i \in Copied : \A v \in Nodes(inodes[i].size) : At(i, v) # b}
             E == {i \in Copied : Exact(source.inodes[i].size)}
             Of(i) == Extra(source.inodes[i].size)
             extra == [i \in E |-> CHOOSE v \in Of(i) : TRUE]
             f == [i \in E |-> To(source, <<i, extra[i]>>)]
  <2> SUFFICES ASSUME phase \in {"inodes", "free list"} PROVE Cardinality(W) = Cardinality(E)
    BY DEF WasteOnlyBehindExact
  <2>1. place = FirstPlace /\ phase # "done"
    BY <1>1 DEF IInv, Phases
  <2>2. \A i \in Copied : /\ i \in Inodes /\ i \in Int /\ i < next_inode /\ Live(source.inodes[i])
                          /\ source.inodes[i].size \in Nat
                          /\ inodes[i].size = source.inodes[i].size
    BY <1>1, CopiedAre
  <2>3. \A i \in Copied : \A v \in Nodes(inodes[i].size) :
          <<i, v>> \in Done /\ At(i, v) = To(source, <<i, v>>)
    BY <1>1, <2>1, <2>2, AtIs
  <2>4. ASSUME NEW i \in E
        PROVE  /\ i \in Copied /\ extra[i] \in Of(i) /\ extra[i] \notin Nodes(inodes[i].size)
               /\ <<i, extra[i]>> \in Done
    <3>1. i \in Copied /\ Of(i) # {}
      BY <2>2, ExactIs
    <3>2. extra[i] \in Of(i)
      BY <3>1
    <3> HIDE DEF extra
    <3>3. /\ extra[i] \in Gets(source.inodes[i].size) /\ extra[i] \in Places
          /\ extra[i] \notin Nodes(inodes[i].size)
      BY <2>2, <3>1, <3>2, ExtraApart
    <3>4. <<i, extra[i]>> \in Moves(source)
      BY <2>2, <3>1, <3>3, MoveMade
    <3>5. Ahead(<<i, extra[i]>>, next_inode, place)
      BY <2>2, <3>1 DEF Ahead
    <3> QED
      BY <3>1, <3>2, <3>3, <3>4, <3>5 DEF Done, Before
  <2> HIDE DEF extra
  <2>5. \A u \in Done : \A w \in Done : To(source, u) = To(source, w) => u = w
    BY <1>1, DoneIs, DestOne DEF To
  <2>6. \A u \in Done : To(source, u) \in 0 .. block_index - 1
    BY <1>1, DoneBelow
  <2>7. f \in [E -> W]
    <3>1. ASSUME NEW i \in E PROVE To(source, <<i, extra[i]>>) \in W
      <4>1. To(source, <<i, extra[i]>>) \in 0 .. block_index - 1
        BY <2>4, <2>6
      <4>2. ASSUME NEW j \in Copied, NEW v \in Nodes(inodes[j].size),
                   At(j, v) = To(source, <<i, extra[i]>>)
            PROVE  FALSE
        <5>1. <<j, v>> = <<i, extra[i]>>
          BY <2>3, <2>4, <2>5, <4>2
        <5> QED
          BY <2>4, <4>2, <5>1
      <4> QED
        BY <4>1, <4>2
    <3> QED
      BY <3>1
  <2>8. \A i \in E : \A j \in E : f[i] = f[j] => i = j
    <3>1. ASSUME NEW i \in E, NEW j \in E, f[i] = f[j] PROVE i = j
      <4>1. <<i, extra[i]>> = <<j, extra[j]>>
        BY <2>4, <2>5, <3>1
      <4> QED
        BY <4>1
    <3> QED
      BY <3>1
  <2>9. \A b \in W : \E i \in E : f[i] = b
    <3>1. ASSUME NEW b \in W PROVE \E i \in E : f[i] = b
      <4>1. PICK u \in Done : To(source, u) = b
        BY <1>1 DEF IInv, Filled
      <4>2. /\ u = <<u[1], u[2]>> /\ u[1] \in Inodes /\ u[2] \in Places
            /\ Live(source.inodes[u[1]]) /\ u[2] \in Gets(source.inodes[u[1]].size)
        BY <1>1, DoneIs, MoveParts
      <4>3. u[1] \in Copied
        <5>1. Ahead(u, next_inode, FirstPlace)
          BY <2>1 DEF Done, Before
        <5> QED
          BY <4>2, <5>1, NothingFirst DEF Ahead, Copied
      <4>4. u[2] \notin Nodes(source.inodes[u[1]].size)
        BY <2>2, <2>3, <3>1, <4>1, <4>2, <4>3
      <4>5. u[2] \in Of(u[1])
        BY <4>2, <4>4 DEF Gets
      <4>6. u[1] \in E
        BY <2>2, <4>3, <4>5, ExactIs
      <4>7. extra[u[1]] = u[2]
        BY <2>2, <2>4, <4>3, <4>5, <4>6, ExtraOne
      <4> QED
        BY <4>1, <4>2, <4>6, <4>7
    <3> QED
      BY <3>1
  <2>10. IsFiniteSet(E)
    <3>1. E \in SUBSET Inodes
      BY <2>2
    <3> QED
      BY <3>1, MovesFinite, FS_Subset
  <2> HIDE DEF f, E, W
  <2> QED
    BY <2>7, <2>8, <2>9, <2>10, SameSize
<1> QED
  BY <1>1, Invariant, PTL

(* No copy is made behind the end of the image: the blocks that are copied though no
   file uses them are at most one for each inode. *)
StaysInside ==
  phase = "file" /\ ~Past(place) /\ Copies(place) =>
    block_index \in Block /\ Pointer(place) \in Block

(* Every memcpy of a block into dest_buffer reads and writes inside the image. *)
THEOREM CopiesStayInside == Spec => []StaysInside
<1>1. ASSUME IInv PROVE StaysInside
  <2> SUFFICES ASSUME phase = "file", ~Past(place), Copies(place)
               PROVE  block_index \in Block /\ Pointer(place) \in Block
    BY DEF StaysInside
  <2> DEFINE x == <<next_inode, place>>
  <2>1. x \in Moves(source) /\ place \in Places
    BY <1>1, CopyIsMove
  <2>2. WellFormed(source) /\ next_inode \in Int
    BY <1>1, Types
  <2>3. To(source, x) \in Block /\ Src(source, x) \in Block
    BY <2>1, <2>2, ImageIs
  <2>4. x \notin Done
    BY <2>1, <2>2, AreQuads, OrderIs DEF Done, Before, Ahead
  <2>5. Pointer(place) = Src(source, x)
    BY <1>1, <2>1, <2>4, PointerIs
  <2>6. block_index = To(source, x)
    BY <1>1 DEF IInv, Filled, To
  <2> QED
    BY <2>3, <2>5, <2>6
<1> QED
  BY <1>1, Invariant, PTL
=============================================================================
