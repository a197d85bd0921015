----------------------------- MODULE Life2dMesh -----------------------------
(***************************************************************************)
(* MLIFE_MeshDecomp of mlife2d.c: the block-block distribution of a matrix *)
(* over a grid of processes, numbered along the rows of the grid.  What    *)
(* MPI_Dims_create makes of the options is the pair PRows, PCols.          *)
(***************************************************************************)
EXTENDS Integers

CONSTANTS GRows, GCols,       \* opt_rows, opt_cols
          PRows, PCols        \* dims[0], dims[1]

(* What the program asks of its options.                                   *)
MeshAssumption ==
  /\ GRows \in Nat /\ GCols \in Nat
  /\ PRows \in Nat \ {0} /\ PCols \in Nat \ {0}

Rank == 0 .. PRows * PCols - 1

prow(p) == p \div PCols
pcol(p) == p % PCols

(* The neighbours on the left and right, and above and below.              *)
Beside(p) == {q \in {p - 1, p + 1} \cap Rank : prow(q) = prow(p)}
Stacked(p) == {p - PCols, p + PCols} \cap Rank

(* The ranks whose cells touch cells of p, across the corners too.         *)
Around(p) == {q \in Rank \ {p} : /\ prow(q) \in prow(p) - 1 .. prow(p) + 1
                                  /\ pcol(q) \in pcol(p) - 1 .. pcol(p) + 1}

firstcol(p) == 1 + pcol(p) * (GCols \div PCols)
firstrow(p) == 1 + prow(p) * (GRows \div PRows)

(* The last block in each direction takes what the division leaves.        *)
lastcol(p) == IF pcol(p) = PCols - 1 THEN GCols
              ELSE (pcol(p) + 1) * (GCols \div PCols)
lastrow(p) == IF prow(p) = PRows - 1 THEN GRows
              ELSE (prow(p) + 1) * (GRows \div PRows)

LRows(p) == lastrow(p) - firstrow(p) + 1
LCols(p) == lastcol(p) - firstcol(p) + 1

(* The cells of the matrix rank p holds.                                   *)
CellsOf(p) == (firstrow(p) .. lastrow(p)) \X (firstcol(p) .. lastcol(p))
=============================================================================
