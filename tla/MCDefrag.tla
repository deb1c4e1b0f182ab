------------------------------ MODULE MCDefrag ------------------------------
(***************************************************************************)
(* Defrag on small images: every choice of sizes and links for a few       *)
(* inodes, the blocks of the files scattered in a few ways.                *)
(***************************************************************************)
EXTENDS Defrag, FiniteSetsExt

CONSTANTS
  Sizes,         \* sizes of files, in bytes
  Strides        \* how the source scatters the blocks of its files

(* The blocks that files of these sizes use. *)
Uses(size, nlink) ==
  UNION {{<<i, v>> : v \in Nodes(size[i])} : i \in {j \in Inodes : nlink[j] # 0}}

(* The files' blocks are put down one after another, each stride blocks behind the one
   before; a pointer that leads nowhere is 0; the free blocks are linked by their
   first int, the last one to -1. *)
Image(size, nlink, stride) ==
  LET uses == Uses(size, nlink)
      nth(u) == Cardinality({w \in uses : w[1] < u[1] \/ (w[1] = u[1] /\ Precedes(w[2], u[2]))})
      block == [u \in uses |-> (nth(u) * stride) % DataBlocks]
      use == [b \in {block[u] : u \in uses} |-> CHOOSE u \in uses : block[u] = b]
      free == (0 .. DataBlocks - 1) \ DOMAIN use
      To(u) == IF u \in uses THEN block[u] ELSE 0
      Link(b) == LET behind == {c \in free : c > b} IN IF behind = {} THEN -1 ELSE Min(behind)
      IntsAt(b) ==
        [k \in Ints |->
           IF b \in free THEN IF k = 1 THEN Link(b) ELSE 0
           ELSE IF b \in DOMAIN use /\ LevelsBelow(use[b][2]) > 0
           THEN To(<<use[b][1], Child(use[b][2], k)>>)
           ELSE 0]
  IN [inodes |-> [i \in Inodes |-> [nlink |-> nlink[i], size |-> size[i],
                                    ptr |-> [s \in Slots |-> To(<<i, Root(s)>>)]]],
      blocks |-> [b \in Block |-> [data |-> b, ints |-> IntsAt(b)]],
      free_block |-> IF free = {} THEN DataBlocks ELSE Min(free)]

(* The source's files fit into the data region; the copy's may reach the swap region. *)
Images ==
  {Image(f[1], f[2], f[3]) :
     f \in {g \in [Inodes -> Sizes] \X [Inodes -> {0, 1}] \X Strides :
              LET n == Cardinality(Uses(g[1], g[2]))
                  excess == Cardinality({i \in Inodes : g[2][i] # 0 /\ Exact(g[1][i])})
              IN n <= DataBlocks /\ n + excess <= DataBlocks + SwapBlocks}}
=============================================================================
