---------------------------- MODULE MCMatrixSum ----------------------------
(* MatrixSum on small matrices.  main creates its threads in a fixed order and
   every cell has its own, so there is no symmetry to use. *)
EXTENDS MatrixSum

(* Enough for cells, products and row sums that differ. *)
Bits == {0, 1}

(* With a matrix of ones as B, the rows of C still differ as those of A do. *)
Ones == {1}
=============================================================================
