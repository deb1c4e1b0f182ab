--------------------------------- MODULE Mem ---------------------------------
(***************************************************************************)
(* The allocator of hw5/mem.c and its client.  A block is a header and the *)
(* bytes behind it.  All headers are on a doubly linked list in the order  *)
(* of their addresses, the free ones on a second list too.  Addresses      *)
(* count bytes from the first header.  One library call is one action.     *)
(***************************************************************************)
EXTENDS Integers, Sequences, FiniteSets, SequencesExt

CONSTANTS
  Regions,   \* the sizes the client may pass to Mem_Init
  Sizes,     \* the sizes it passes to Mem_Alloc
  MaxCalls   \* bound: calls of Mem_Alloc and Mem_Free

BLOCK_HEADER == 32
BLOCK_SIZE == 8
NULL == -1

(* round_to takes an int and must not overflow. *)
LargestSize == (2^30 - 1) + 2^30 - BLOCK_SIZE

ASSUME MemAssumption ==
  /\ Regions \subseteq 1 .. LargestSize
  /\ Sizes \subseteq 1 .. LargestSize
  /\ MaxCalls \in Nat

(* Mutant: rounds down. *)
round_down(val, base) == (val \div base) * base

round_to(val, base) == ((val - 1) \div base) * base + base

(* Mem_Init with -Daligned asks for a header with every smallest block, and rounds up
   to a page: this much is there at least. *)
RegionEnd(sizeOfRegion) ==
  (round_to(sizeOfRegion, BLOCK_SIZE) \div BLOCK_SIZE) * (BLOCK_HEADER + BLOCK_SIZE)
Addr == {BLOCK_SIZE * k : k \in UNION {0 .. RegionEnd(s) \div BLOCK_SIZE : s \in Regions}}

VARIABLES
  heap,   \* the headers' fields, and the library's global variables
  live,   \* the client's blocks: the size asked for, or 0
  calls,
  usage,   \* the client has only allocated ("allocates"); has then only freed
           \* ("frees"); has allocated again ("reuses"); has asked for coalescing
           \* ("coalesces")
  outcome  \* every call "returns"; one "loops" round a list for ever; or one has
           \* put a header "outside" the region

vars == <<heap, live, calls, usage, outcome>>

-----------------------------------------------------------------------------
(* Walks over the lists of a heap h. *)

Step(link, p) == IF p = NULL THEN NULL ELSE link[p]

(* The k-th pointer after p along link. *)
Along(link, p, k) ==
  LET at[i \in 0 .. k] == IF i = 0 THEN p ELSE Step(link, at[i - 1]) IN at[k]

(* Each call makes one header at most: a list that has not ended after so many goes
   round. *)
Length(link, p) ==
  {k \in 0 .. MaxCalls + 1 :
     Along(link, p, k) = NULL /\ \A j \in 0 .. k - 1 : Along(link, p, j) # NULL}

Ends(link, p) == Length(link, p) # {}

(* The headers from p along link, which must end. *)
Walk(link, p) ==
  [i \in 1 .. CHOOSE k \in Length(link, p) : TRUE |-> Along(link, p, i - 1)]

Blocks(h) == Walk(h.next, 0)
FreeList(h) == Walk(h.next_free, h.head_free)

(* The last block's bytes up to the end of the region do not all count as its
   size: last_block_size says how many do. *)
get_block_size(h, p) ==
  IF p = NULL THEN -1
  ELSE IF h.next[p] = NULL THEN h.last_block_size
  ELSE h.next[p] - (p + BLOCK_HEADER)

(* The nearest block before p with status FREE. *)
prevFree(h, p) ==
  LET back == Walk(h.prev, p)
      free == {i \in 2 .. Len(back) : h.status[back[i]] = "FREE"}
  IN IF free = {} THEN NULL ELSE back[CHOOSE i \in free : \A j \in free : i <= j]

-----------------------------------------------------------------------------
(* my_coalesce and coalesce_all. *)

setPrev(h, p, q) == IF p = NULL THEN h ELSE [h EXCEPT !.prev[p] = q]

Cached(h, p) == p # NULL /\ p \in {h.largest, h.second_largest}

Forget(h, p) ==
  IF ~Cached(h, p) THEN h
  ELSE IF p = h.largest THEN [h EXCEPT !.largest = NULL]
  ELSE [h EXCEPT !.second_largest = NULL]

(* p swallows the block q after it.  The one forgotten is not q. *)
Swallow(h, p, q) ==
  Forget(setPrev([h EXCEPT !.next_free[p] = h.next_free[q], !.next[p] = h.next[q]],
                 h.next[q], p),
         h.next[q])

GrowLast(h, p, size) == IF h.next[p] = NULL THEN [h EXCEPT !.last_block_size = @ + size] ELSE h

isFree(h, p) == p # NULL /\ h.status[p] = "FREE"

(* The last block grows by its own old size even when nothing was merged. *)
MergeNext(h, p) ==
  GrowLast(IF isFree(h, h.next[p]) THEN Swallow(h, p, h.next[p]) ELSE h,
           p, get_block_size(h, p))

MergePrev(h, p) ==
  LET q == h.prev[p]
      merged == setPrev([h EXCEPT !.next_free[q] = h.next_free[p], !.next[q] = h.next[p]],
                        h.next[p], q)
  IN GrowLast(Forget(merged, q), q, get_block_size(h, q))

(* The heap and the block that is left. *)
my_coalesce(h, p) ==
  LET g == MergeNext(h, p) IN
  IF isFree(g, g.prev[p]) THEN [heap |-> MergePrev(g, p), at |-> g.prev[p]]
  ELSE [heap |-> g, at |-> p]

(* k turns of coalesce_all's loop, which starts at the first block and follows
   the free list. *)
CoalesceTurns(h, k) ==
  LET turn[i \in 0 .. k] ==
        IF i = 0 THEN [heap |-> h, at |-> 0]
        ELSE LET t == turn[i - 1]
                 c == IF isFree(t.heap, t.at) THEN my_coalesce(t.heap, t.at) ELSE t
             IN [heap |-> c.heap, at |-> Step(c.heap.next_free, c.at)]
  IN turn[k]

(* A loop that has not ended after so many turns goes round. *)
Turns == 2 * MaxCalls

coalesceEnds(h) == CoalesceTurns(h, Turns).at = NULL
coalesce_all(h) == [CoalesceTurns(h, Turns).heap EXCEPT !.need_global_coalesce = FALSE]

-----------------------------------------------------------------------------
(* Mem_Alloc. *)

(* largest is taken as it is, without a look at the size asked for. *)
TakesLargest(h) ==
  /\ h.largest # NULL /\ h.second_largest # NULL
  /\ get_block_size(h, h.largest) >= get_block_size(h, h.second_largest)

(* What the search makes of largest and second_largest at block p. *)
Rank(h, p) ==
  LET size == get_block_size(h, p) IN
  IF size >= get_block_size(h, h.largest)
  THEN [h EXCEPT !.second_largest = h.largest, !.largest = p]
  ELSE IF size >= get_block_size(h, h.second_largest)
  THEN [h EXCEPT !.second_largest = p]
  ELSE h

Ranked(h) ==
  LET list == FreeList(h)
      start == IF h.largest # NULL /\ h.second_largest # NULL THEN h
               ELSE [h EXCEPT !.largest = h.head_free, !.second_largest = h.head_free]
      ranked[i \in 0 .. Len(list)] == IF i = 0 THEN start ELSE Rank(ranked[i - 1], list[i])
  IN ranked[Len(list)]

(* The first of the largest blocks of the free list with more than size bytes. *)
Worst(h, size) ==
  LET list == FreeList(h)
      bytes(i) == get_block_size(h, list[i])
  IN {i \in DOMAIN list :
        /\ bytes(i) > size
        /\ \A j \in DOMAIN list : bytes(j) < bytes(i) \/ (bytes(j) = bytes(i) /\ i <= j)}

(* The block to allocate and the one before it on the free list. *)
Candidates(h, size) ==
  IF TakesLargest(h)
  THEN {[at |-> p, before |-> prevFree(h, p)] : p \in {q \in {h.largest} : get_block_size(h, q) # -1}}
  ELSE {[at |-> FreeList(h)[i], before |-> IF i = 1 THEN NULL ELSE FreeList(h)[i - 1]] :
          i \in Worst(h, size)}

(* Mutant: the new block's header is not counted. *)
SplitsWithoutHeader(h, p, size) == get_block_size(h, p) >= size + BLOCK_SIZE

Splits(h, p, size) ==
  get_block_size(h, p) >= (IF h.next[p] = NULL THEN 0 ELSE BLOCK_HEADER) + size + BLOCK_SIZE

(* The header a split makes and a smallest block behind it are in the region. *)
HasRoom(h, p, size) ==
  p + BLOCK_HEADER + size + BLOCK_HEADER + BLOCK_SIZE <= h.region_end

(* The block before on the free list, or head_free, now leads to m. *)
Relink(h, before, m) ==
  IF before = NULL THEN [h EXCEPT !.head_free = m] ELSE [h EXCEPT !.next_free[before] = m]

(* p keeps size bytes; a new free block m takes the rest and p's place. *)
Split(h, p, before, size) ==
  LET m == p + BLOCK_HEADER + size
      linked == setPrev([h EXCEPT !.next[m] = h.next[p], !.prev[m] = p, !.next[p] = m,
                                  !.status[m] = "FREE", !.next_free[m] = h.next_free[p]],
                        h.next[p], m)
      listed == Relink(linked, before, m)
      ranked == IF get_block_size(listed, m) > get_block_size(listed, listed.second_largest)
                THEN [listed EXCEPT !.largest = m]
                ELSE [listed EXCEPT !.largest = listed.second_largest, !.second_largest = NULL]
  IN GrowLast(ranked, m, -size)

(* Mutant: the block stays ranked. *)
TakeWholeRanked(h, p, before, size) ==
  [h EXCEPT !.head_free = IF before = NULL THEN h.next_free[p] ELSE @,
            !.size_of_last_allocate = IF h.next[p] = NULL THEN size ELSE @]

(* p is taken whole.  Only the head of the free list is put right. *)
TakeWhole(h, p, before, size) ==
  [h EXCEPT !.head_free = IF before = NULL THEN h.next_free[p] ELSE @,
            !.size_of_last_allocate = IF h.next[p] = NULL THEN size ELSE @,
            !.largest = h.second_largest,
            !.second_largest = NULL]

Allocate(h, c, asked) ==
  LET size == round_to(asked, BLOCK_SIZE)
      placed == IF Splits(h, c.at, size) THEN Split(h, c.at, c.before, size)
                ELSE TakeWhole(h, c.at, c.before, size)
  IN [placed EXCEPT !.next_free[c.at] = NULL, !.status[c.at] = "ALLOCATED",
                    !.remaining_size = @ - asked]

Call == calls < MaxCalls /\ outcome = "returns" /\ calls' = calls + 1

Available(size) == size <= heap.remaining_size

(* A request for more than remaining_size fails at once and changes nothing. *)
Asks(asked) ==
  /\ Call
  /\ Available(asked)
  /\ TakesLargest(heap) \/ Ends(heap.next_free, heap.head_free)
  /\ usage' = (IF usage = "frees" THEN "reuses" ELSE usage)

Chosen(asked) == Candidates(heap, round_to(asked, BLOCK_SIZE))

(* The split would write its header outside the region: nothing in the code looks. *)
Overruns(p, asked) ==
  LET size == round_to(asked, BLOCK_SIZE)
  IN Splits(heap, p, size) /\ ~HasRoom(heap, p, size)

(* A request that finds no block leaves its ranking behind. *)
Mem_Alloc(asked) ==
  /\ Asks(asked)
  /\ LET ranked == IF TakesLargest(heap) THEN heap ELSE Ranked(heap)
     IN \/ Chosen(asked) = {} /\ heap' = ranked /\ UNCHANGED live
        \/ \E c \in Chosen(asked) :
             /\ ~Overruns(c.at, asked)
             /\ heap' = Allocate(ranked, c, asked)
             /\ live' = [live EXCEPT ![c.at] = asked]
  /\ UNCHANGED outcome

(* What a header outside the region overwrites is not defined. *)
WritesOutside(asked) ==
  /\ Asks(asked)
  /\ \E c \in Chosen(asked) : Overruns(c.at, asked)
  /\ outcome' = "outside"
  /\ UNCHANGED <<heap, live>>

(* The search, or coalesce_all, goes round a free list that has no end. *)
CallLoops ==
  /\ Call
  /\ \/ /\ \E s \in Sizes : Available(s)
        /\ ~TakesLargest(heap) /\ ~Ends(heap.next_free, heap.head_free)
     \/ ~coalesceEnds(heap)
  /\ outcome' = "loops"
  /\ UNCHANGED <<heap, live, usage>>

-----------------------------------------------------------------------------
(* Mem_Free. *)

(* Mem_Free(NULL, coalesce); without coalesce it does nothing. *)
Mem_FreeNull ==
  /\ Call
  /\ coalesceEnds(heap)
  /\ heap' = coalesce_all(heap)
  /\ usage' = "coalesces"
  /\ UNCHANGED <<live, outcome>>

(* The freed bytes are available again; the last block gets back the size it was
   asked for. *)
ReturnSize(h, p) ==
  IF h.status[p] # "ALLOCATED" THEN h
  ELSE IF h.next[p] # NULL THEN [h EXCEPT !.remaining_size = @ + get_block_size(h, p)]
  ELSE [h EXCEPT !.remaining_size = @ + h.size_of_last_allocate,
                 !.last_block_size = h.size_of_last_allocate,
                 !.size_of_last_allocate = -1]

(* Mutant: the block goes to the front of the free list. *)
InsertFirst(h, p, keepsLink) ==
  [h EXCEPT !.status[p] = "FREE", !.next_free[p] = h.head_free, !.head_free = p]

(* The block enters the free list behind the nearest free one before it. *)
InsertFree(h, p, keepsLink) ==
  LET before == prevFree(h, p)
      behind == IF before = NULL THEN h.head_free ELSE h.next_free[before]
  IN Relink([h EXCEPT !.status[p] = "FREE",
                      !.next_free[p] = IF keepsLink THEN @ ELSE behind], before, p)

RankFreed(h, p) ==
  LET bytes == get_block_size(h, p) IN
  IF h.largest = NULL \/ h.second_largest = NULL THEN h
  ELSE IF bytes > get_block_size(h, h.largest)
  THEN [h EXCEPT !.second_largest = h.largest, !.largest = p]
  ELSE IF bytes > get_block_size(h, h.second_largest) THEN [h EXCEPT !.second_largest = p]
  ELSE h

Mem_Free(p, coalesce) ==
  /\ Call
  /\ live[p] # 0
  /\ coalesce /\ heap.need_global_coalesce => coalesceEnds(heap)
  /\ LET start == IF ~coalesce THEN [heap EXCEPT !.need_global_coalesce = TRUE]
                  ELSE IF heap.need_global_coalesce THEN coalesce_all(heap)
                  ELSE heap
         sized == ReturnSize(start, p)
         c == IF coalesce THEN my_coalesce(sized, p) ELSE [heap |-> sized, at |-> p]
         merged == c.at # p /\ get_block_size(c.heap, c.at) # get_block_size(sized, p)
     IN heap' = IF get_block_size(start, p) = -1 THEN start
                ELSE RankFreed(InsertFree(c.heap, c.at, merged), c.at)
  /\ live' = [live EXCEPT ![p] = 0]
  /\ usage' = (IF coalesce THEN "coalesces" ELSE IF usage = "allocates" THEN "frees" ELSE usage)
  /\ UNCHANGED outcome

-----------------------------------------------------------------------------
(* After Mem_Init. *)
Init ==
  /\ \E sizeOfRegion \in Regions :
     heap = [next |-> [a \in Addr |-> NULL], prev |-> [a \in Addr |-> NULL],
             next_free |-> [a \in Addr |-> NULL], status |-> [a \in Addr |-> "FREE"],
             head_free |-> 0, largest |-> NULL, second_largest |-> NULL,
             region_end |-> RegionEnd(sizeOfRegion),
             remaining_size |-> sizeOfRegion,
             last_block_size |-> round_to(sizeOfRegion, BLOCK_SIZE),
             size_of_last_allocate |-> 0, need_global_coalesce |-> FALSE]
  /\ live = [a \in Addr |-> 0]
  /\ calls = 0
  /\ usage = "allocates"
  /\ outcome = "returns"

Next ==
  \/ \E s \in Sizes : Mem_Alloc(s) \/ WritesOutside(s)
  \/ Mem_FreeNull
  \/ \E p \in Addr, coalesce \in BOOLEAN : Mem_Free(p, coalesce)
  \/ CallLoops

Spec == Init /\ [][Next]_vars

-----------------------------------------------------------------------------
(* Properties. *)

(* Until the client asks for coalescing, the headers form one doubly linked list
   in the order of their addresses, each with room for a smallest block before the
   next: splitting keeps both links right, in the middle and at the end. *)
BlocksLinked ==
  usage # "coalesces" =>
    /\ Ends(heap.next, 0)
    /\ \A i \in DOMAIN Blocks(heap) :
         /\ heap.prev[Blocks(heap)[i]] = (IF i = 1 THEN NULL ELSE Blocks(heap)[i - 1])
         /\ i > 1 => Blocks(heap)[i] >= Blocks(heap)[i - 1] + BLOCK_HEADER + BLOCK_SIZE

(* The bytes behind p up to the next header or the end of the region. *)
Capacity(p) ==
  (IF heap.next[p] = NULL THEN heap.region_end ELSE heap.next[p]) - (p + BLOCK_HEADER)

(* The last block was taken whole for more bytes than it had left. *)
Overcommitted(p) == heap.next[p] = NULL /\ heap.size_of_last_allocate > heap.last_block_size

(* Until the client allocates what it has freed, what Mem_Alloc gave it is the
   body of a block marked ALLOCATED and holds the bytes asked for, and no header is
   written outside the region.  The one exception is the last block: largest is
   taken without a look at its size. *)
LiveFit ==
  usage \in {"allocates", "frees"} =>
    /\ outcome # "outside"
    /\ \A p \in Addr : live[p] # 0 =>
         /\ p \in ToSet(Blocks(heap)) /\ heap.status[p] = "ALLOCATED"
         /\ live[p] <= Capacity(p) \/ Overcommitted(p)

(* Until then, the free list holds the blocks with status FREE, all of them, in
   the order of their addresses: Mem_Free finds a block's place on it by walking
   the other list. *)
FreeListExact ==
  usage \in {"allocates", "frees"} =>
    /\ Ends(heap.next_free, heap.head_free)
    /\ ToSet(FreeList(heap)) = {p \in ToSet(Blocks(heap)) : heap.status[p] = "FREE"}
    /\ \A i, j \in DOMAIN FreeList(heap) : i < j => FreeList(heap)[i] < FreeList(heap)[j]

(* Until then, largest, where Mem_Alloc takes it without a search, is a free block:
   what the calls before left in it is not stale.  Afterwards it may be a block that
   was taken whole, or a header my_coalesce has swallowed (mem.c line 417 looks at
   the block behind the one it merged). *)
LargestIsFree ==
  usage \in {"allocates", "frees"} /\ TakesLargest(heap) =>
    heap.largest \in ToSet(Blocks(heap)) /\ isFree(heap, heap.largest)
=============================================================================
