------------------------------- MODULE Defrag -------------------------------
(***************************************************************************)
(* The defragmenter of hw6/defrag.c: main copies an image, file by file,   *)
(* into a second one where each file's blocks follow each other, links the *)
(* blocks left over into a free list and copies the swap region.           *)
(*                                                                         *)
(* An image is its inodes and its blocks, counted from the data region's   *)
(* first one and going on into the swap region.  A block has its data, told *)
(* apart by where the source has it, and the ints an index block holds.    *)
(* One turn of a loop is one action.                                       *)
(***************************************************************************)
EXTENDS Integers, FiniteSets

CONSTANTS
  N_DBLOCKS, N_IBLOCKS,
  IntsInBlock,   \* num_int_in_block
  BLOCK_SIZE,    \* bytes in a block, as the sizes of files count them
  DataBlocks,    \* blocks of the data region
  SwapBlocks,    \* blocks of the swap region
  HeadBlocks,    \* BOOT_SIZE + SUPER_SIZE in blocks
  data_offset,   \* blocks of the inodes' region
  num_inode,
  Sources        \* the images the defragmenter is given

ASSUME DefragAssumption ==
  /\ N_DBLOCKS \in Nat \ {0} /\ N_IBLOCKS \in Nat \ {0} /\ IntsInBlock \in Nat \ {0}
  /\ BLOCK_SIZE \in Nat \ {0} /\ DataBlocks \in Nat \ {0} /\ SwapBlocks \in Nat
  /\ HeadBlocks \in 0 .. DataBlocks /\ data_offset \in Nat \ {0} /\ num_inode \in Nat \ {0}

Inodes == 1 .. num_inode
Block == 0 .. DataBlocks + SwapBlocks - 1
Ints == 1 .. IntsInBlock

(* What an inode points to: dblocks, iblocks, i2block and i3block, in this order, by
   the number of index blocks on the way to the data. *)
I2BLOCK == N_DBLOCKS + N_IBLOCKS + 1
I3BLOCK == N_DBLOCKS + N_IBLOCKS + 2
Slots == 1 .. I3BLOCK
Level(s) == IF s <= N_DBLOCKS THEN 0
            ELSE IF s < I2BLOCK THEN 1
            ELSE IF s = I2BLOCK THEN 2 ELSE 3

-----------------------------------------------------------------------------
(* Places in a file.  A place is the inode's pointer that leads there and the ints
   followed in the index blocks behind it, 0 where none is: <<I2BLOCK, 2, 0, 0>> is
   what the second int of the doubly indirect block points to. *)

Depth(v) == IF v[2] = 0 THEN 0 ELSE IF v[3] = 0 THEN 1 ELSE IF v[4] = 0 THEN 2 ELSE 3

(* How many index blocks are still on the way to the data. *)
LevelsBelow(v) == Level(v[1]) - Depth(v)

Int0 == 0 .. IntsInBlock
Places ==
  {v \in Slots \X Int0 \X Int0 \X Int0 :
     /\ v[2] = 0 => v[3] = 0
     /\ v[3] = 0 => v[4] = 0
     /\ Depth(v) <= Level(v[1])}

Root(s) == <<s, 0, 0, 0>>
FirstPlace == Root(1)

(* The last int on the way to v, or the inode's pointer. *)
Turn(v) == IF v[2] = 0 THEN v[1]
           ELSE IF v[3] = 0 THEN v[2] ELSE IF v[4] = 0 THEN v[3] ELSE v[4]

Child(v, k) == IF v[2] = 0 THEN <<v[1], k, 0, 0>>
               ELSE IF v[3] = 0 THEN <<v[1], v[2], k, 0>> ELSE <<v[1], v[2], v[3], k>>

(* The next pointer in the same index block or inode. *)
Advance(v) ==
  IF v[2] = 0 THEN <<v[1] + 1, 0, 0, 0>>
  ELSE IF v[3] = 0 THEN <<v[1], v[2] + 1, 0, 0>>
  ELSE IF v[4] = 0 THEN <<v[1], v[2], v[3] + 1, 0>> ELSE <<v[1], v[2], v[3], v[4] + 1>>

(* The index block that points to v. *)
Parent(v) == IF v[3] = 0 THEN Root(v[1])
             ELSE IF v[4] = 0 THEN <<v[1], v[2], 0, 0>> ELSE <<v[1], v[2], v[3], 0>>

(* Reading a file, one comes by w before v. *)
Precedes(w, v) ==
  \/ w[1] < v[1]
  \/ w[1] = v[1] /\ w[2] < v[2]
  \/ w[1] = v[1] /\ w[2] = v[2] /\ w[3] < v[3]
  \/ w[1] = v[1] /\ w[2] = v[2] /\ w[3] = v[3] /\ w[4] < v[4]

(* How many blocks of data are below a place with so many index blocks to follow. *)
Span(level) == IF level <= 0 THEN 1
               ELSE IF level = 1 THEN IntsInBlock
               ELSE IF level = 2 THEN IntsInBlock * IntsInBlock
               ELSE IntsInBlock * (IntsInBlock * IntsInBlock)

(* How many blocks of data come before those below a pointer of the inode, and before
   those below a place. *)
FirstOf(s) == IF s <= N_DBLOCKS THEN s - 1
              ELSE IF s <= I2BLOCK THEN N_DBLOCKS + (s - N_DBLOCKS - 1) * IntsInBlock
              ELSE N_DBLOCKS + N_IBLOCKS * IntsInBlock + IntsInBlock * IntsInBlock
Passed(k, level) == IF k = 0 THEN 0 ELSE (k - 1) * Span(level)
First(v) == FirstOf(v[1]) + Passed(v[2], Level(v[1]) - 1)
              + Passed(v[3], Level(v[1]) - 2) + Passed(v[4], Level(v[1]) - 3)

BlocksOf(bytes) == (bytes + BLOCK_SIZE - 1) \div BLOCK_SIZE

(* The file's data just fills the blocks before its doubly or triply indirect one. *)
Exact(bytes) == BlocksOf(bytes) \in {FirstOf(I2BLOCK), FirstOf(I3BLOCK)}

(* The places of a file where it needs a block. *)
Nodes(bytes) == {v \in Places : First(v) < BlocksOf(bytes)}

(* How many of them one meets before v, reading the file. *)
Rank(v, bytes) == Cardinality({w \in Nodes(bytes) : Precedes(w, v)})

(* The block that an inode's pointers, and the index blocks they lead to, give for v. *)
Where(inode, blocks, v) ==
  LET one == inode.ptr[v[1]]
      two == blocks[one].ints[v[2]]
      three == blocks[two].ints[v[3]]
      four == blocks[three].ints[v[4]]
  IN IF v[2] = 0 THEN one ELSE IF v[3] = 0 THEN two ELSE IF v[4] = 0 THEN three ELSE four

(* The data of a file, in order. *)
Contents(inode, blocks) ==
  [v \in {w \in Nodes(inode.size) : LevelsBelow(w) = 0} |-> blocks[Where(inode, blocks, v)].data]

-----------------------------------------------------------------------------
(* Images. *)

Inode == [nlink : Int, size : Nat, ptr : [Slots -> Int]]
BlockContents == [data : Int, ints : [Ints -> Int]]
Live(inode) == inode.nlink # 0

(* The blocks an image's files use: a file and a place in it for each. *)
InUse(image) ==
  {u \in Inodes \X Places :
     Live(image.inodes[u[1]]) /\ u[2] \in Nodes(image.inodes[u[1]].size)}

(* The files that get a block more than they use. *)
Overfull(image) == {i \in Inodes : Live(image.inodes[i]) /\ Exact(image.inodes[i].size)}

(* The files' pointers lead to blocks, and the files fit into the image with the blocks
   that some get in excess: past the end of dest_buffer nothing is defined. *)
WellFormed(image) ==
  /\ image \in [inodes : [Inodes -> Inode], blocks : [Block -> BlockContents], free_block : Int]
  /\ \A i \in Inodes : Live(image.inodes[i]) =>
       /\ \A s \in Slots : image.inodes[i].ptr[s] \in Block
       /\ \A v \in Nodes(image.inodes[i].size) : Where(image.inodes[i], image.blocks, v) \in Block
  /\ Cardinality(InUse(image)) + Cardinality(Overfull(image)) <= DataBlocks + SwapBlocks

ASSUME SourcesWellFormed == \A image \in Sources : WellFormed(image)

EmptyBlock == [data |-> -1, ints |-> [k \in Ints |-> 0]]
EmptyInode == [nlink |-> 0, size |-> 0, ptr |-> [s \in Slots |-> 0]]

VARIABLES
  source,                      \* whole_buffer
  inodes, blocks, free_block,  \* dest_buffer
  block_index,
  next_inode,                  \* the inode whose turn it is
  place,                       \* where in its file the loops are
  curr_block,                  \* curr_block_lv1, curr_block_lv2, curr_block_lv3
  this_file_size,
  finished,
  phase                        \* what main is doing
image_vars == <<inodes, blocks, free_block>>
loop_vars == <<next_inode, place, curr_block, this_file_size, finished>>
vars == <<source, image_vars, block_index, loop_vars, phase>>

Init ==
  /\ source \in Sources
  /\ inodes = [i \in Inodes |-> EmptyInode]
  /\ blocks = [b \in Block |-> EmptyBlock]
  /\ free_block = source.free_block
  /\ block_index = 0
  /\ next_inode = 1
  /\ place = FirstPlace
  /\ curr_block = [level \in 1 .. 3 |-> -1]
  /\ this_file_size = 0
  /\ finished = FALSE
  /\ phase = "inodes"

-----------------------------------------------------------------------------
(* The loop over the inodes, and in it those over the pointers of an inode and the
   ints of its index blocks. *)

(* The next inode is copied.  One without links is no file. *)
CopyInode ==
  /\ phase = "inodes"
  /\ next_inode <= num_inode
  /\ inodes' = [inodes EXCEPT ![next_inode] = source.inodes[next_inode]]
  /\ IF Live(source.inodes[next_inode])
     THEN /\ phase' = "file"
          /\ finished' = FALSE
          /\ this_file_size' = source.inodes[next_inode].size
          /\ UNCHANGED next_inode
     ELSE /\ next_inode' = next_inode + 1
          /\ this_file_size' = 0
          /\ UNCHANGED <<phase, finished>>
  /\ UNCHANGED <<source, blocks, free_block, block_index, place, curr_block>>

(* The loop has gone through all the pointers. *)
Past(v) == IF v[2] = 0 THEN v[1] > I3BLOCK ELSE Turn(v) > IntsInBlock

(* Mutant: a file that has come to its end has one block more. *)
EndedBelow == this_file_size < 0 \/ finished

Ended == this_file_size <= 0 \/ finished

(* The doubly and the triply indirect block are copied unless finished is set: it is
   still FALSE when the file ended with the last block the levels before could hold. *)
Copies(v) == IF v \in {Root(I2BLOCK), Root(I3BLOCK)} THEN ~finished ELSE ~Ended

(* The index block whose ints the innermost loop goes through. *)
Holder(v) == curr_block[LevelsBelow(v) + 1]
Pointer(v) == IF v[2] # 0 THEN blocks[Holder(v)].ints[Turn(v)]
              ELSE IF v[1] <= N_DBLOCKS THEN inodes[next_inode].ptr[v[1]]
              ELSE source.inodes[next_inode].ptr[v[1]]

(* Mutant: the pointer in an index block is left as it was. *)
CopyBlockUnderInode(v) ==
  /\ block_index' = block_index + 1
  /\ blocks' = [blocks EXCEPT ![block_index] = source.blocks[Pointer(v)]]
  /\ inodes' = IF v[2] = 0 THEN [inodes EXCEPT ![next_inode].ptr[v[1]] = block_index] ELSE inodes

(* The block that v's pointer leads to becomes the destination's next one. *)
CopyBlock(v) ==
  /\ block_index' = block_index + 1
  /\ LET moved == [blocks EXCEPT ![block_index] = source.blocks[Pointer(v)]] IN
     IF v[2] = 0
     THEN /\ inodes' = [inodes EXCEPT ![next_inode].ptr[v[1]] = block_index]
          /\ blocks' = moved
     ELSE /\ blocks' = [moved EXCEPT ![Holder(v)].ints[Turn(v)] = block_index]
          /\ UNCHANGED inodes

CopyData ==
  /\ phase = "file" /\ ~Past(place) /\ Copies(place)
  /\ LevelsBelow(place) = 0
  /\ CopyBlock(place)
  /\ this_file_size' = this_file_size - BLOCK_SIZE
  /\ place' = Advance(place)
  /\ UNCHANGED <<source, free_block, next_inode, curr_block, finished, phase>>

(* An index block: the loop over its ints begins. *)
CopyIndex ==
  /\ phase = "file" /\ ~Past(place) /\ Copies(place)
  /\ LevelsBelow(place) > 0
  /\ CopyBlock(place)
  /\ curr_block' = [curr_block EXCEPT ![LevelsBelow(place)] = block_index]
  /\ place' = Child(place, 1)
  /\ UNCHANGED <<source, free_block, next_inode, this_file_size, finished, phase>>

(* The loop over the ints of an index block ends after its last one; the one around it
   goes on. *)
LeaveIndex ==
  /\ phase = "file" /\ Past(place) /\ place[2] # 0
  /\ place' = Advance(Parent(place))
  /\ UNCHANGED <<source, image_vars, block_index, next_inode, curr_block, this_file_size,
                 finished, phase>>

(* A loop finds that the file has ended, and so do those around it. *)
Break ==
  /\ phase = "file" /\ ~Past(place) /\ ~Copies(place)
  /\ place[2] = 0 => ~finished
  /\ finished' = TRUE
  /\ place' = IF place[2] = 0 THEN place ELSE Advance(Parent(place))
  /\ UNCHANGED <<source, image_vars, block_index, next_inode, curr_block, this_file_size, phase>>

EndFile ==
  /\ phase = "file" /\ place[2] = 0
  /\ finished \/ Past(place)
  /\ phase' = "inodes"
  /\ next_inode' = next_inode + 1
  /\ place' = FirstPlace
  /\ UNCHANGED <<source, image_vars, block_index, curr_block, this_file_size, finished>>

-----------------------------------------------------------------------------
(* The free list and the swap region. *)

swap_offset == data_offset + DataBlocks

(* The last block of the list is told by an offset that counts from the first block
   of the inodes' region. *)
FreeLink(b) == IF b = swap_offset - 1 THEN -1 ELSE b + 1

LinkFreeBlocks ==
  /\ phase = "inodes"
  /\ next_inode > num_inode
  /\ phase' = "free list"
  /\ free_block' = block_index
  /\ blocks' = [b \in Block |->
                  IF b \in block_index .. DataBlocks - 1
                  THEN [blocks[b] EXCEPT !.ints[1] = FreeLink(b)] ELSE blocks[b]]
  /\ UNCHANGED <<source, inodes, block_index, loop_vars>>

(* Where the copy of the swap region begins: swap_offset counts the blocks behind the
   boot and super blocks, and is taken to count from the image's first byte. *)
SwapFrom == DataBlocks - HeadBlocks

CopySwap ==
  /\ phase = "free list"
  /\ phase' = "done"
  /\ blocks' = [b \in Block |-> IF b >= SwapFrom THEN source.blocks[b] ELSE blocks[b]]
  /\ UNCHANGED <<source, inodes, free_block, block_index, loop_vars>>

Next ==
  \/ CopyInode \/ CopyData \/ CopyIndex \/ LeaveIndex \/ Break \/ EndFile
  \/ LinkFreeBlocks \/ CopySwap

Spec == Init /\ [][Next]_vars

-----------------------------------------------------------------------------
(* Properties. *)

(* The files that have been copied. *)
Copied == {i \in Inodes : i < next_inode /\ Live(source.inodes[i])}

(* The block of the place v of inode i's file in the destination. *)
At(i, v) == Where(inodes[i], blocks, v)

(* Read through its pointers, every file of the finished image has the data it has in
   the source, if the disk is not so full that the copy of the swap region runs over
   files' blocks (defrag.c line 210). *)
SameFiles ==
  phase = "done" /\ block_index <= SwapFrom =>
    \A i \in Inodes :
      /\ inodes[i].nlink = source.inodes[i].nlink
      /\ Live(inodes[i]) => Contents(inodes[i], blocks) = Contents(source.inodes[i], source.blocks)

(* While the files are copied, those that have been have their blocks, index blocks
   included, one behind the other in the order in which the file is read, and a file
   comes behind the files before it. *)
InOrder ==
  phase # "done" =>
    \A i \in Copied :
      \A v \in Nodes(inodes[i].size) :
        /\ At(i, v) = At(i, FirstPlace) + Rank(v, inodes[i].size)
        /\ \A j \in Copied :
             i < j /\ Nodes(inodes[j].size) # {} => At(i, v) < At(j, FirstPlace)

(* Whenever no file is half copied, every block below block_index is a file's, but for
   one with each file that just fills a level: the index block of the next level is
   copied though the file does not reach it (defrag.c lines 123 and 153). *)
WasteOnlyBehindExact ==
  phase \in {"inodes", "free list"} =>
    Cardinality({b \in 0 .. block_index - 1 :
                   \A i \in Copied : \A v \in Nodes(inodes[i].size) : At(i, v) # b})
      = Cardinality({i \in Copied : Exact(source.inodes[i].size)})

(* In the finished image a walk from free_block along the next index of each block
   meets every free block once, and ends. *)
FreeListEnds ==
  phase = "done" =>
    LET free == block_index .. DataBlocks - 1
        next(b) == blocks[b].ints[1]
    IN free # {} =>
         /\ {free_block} \cup {next(b) : b \in free} = free \cup {-1}
         /\ free_block # -1
=============================================================================
