------------------------------ MODULE LifeGrid ------------------------------
(***************************************************************************)
(* The game of life of examples/life, without processes: the rule, the     *)
(* blocks of rows of the ranks, and the generations the whole              *)
(* matrix goes through.  A matrix is a function from row numbers to rows,  *)
(* a row a function from 0 .. Cols+1 to cells; rows and columns 0 and last *)
(* are the boundary, which is always dead.                                 *)
(***************************************************************************)
EXTENDS RowBlocks

CONSTANTS Rows, Cols,         \* opt_rows, opt_cols
          NProcs,             \* size of the communicator
          Iter,               \* opt_iter: how many generations are computed
          Starts              \* the matrices the program may start from

DIES == 0
BORN == 1

Rank     == 0 .. NProcs - 1
RowType  == [0 .. Cols + 1 -> {DIES, BORN}]
GridType == [0 .. Rows + 1 -> RowType]

(* A start matrix has a dead boundary.                                     *)
Bounded(m) == \A i \in 0 .. Rows + 1, j \in 0 .. Cols + 1 :
                i \in {0, Rows + 1} \/ j \in {0, Cols + 1} => m[i][j] = DIES

ASSUME GridAssumption ==
  /\ Rows \in Nat /\ Cols \in Nat /\ Iter \in Nat
  /\ NProcs \in Nat \ {0}
  /\ Starts \subseteq GridType
  /\ \A s \in Starts : Bounded(s)

MyRows(p)      == MLIFE_myrows(Rows, p, NProcs)
MyRowOffset(p) == MLIFE_myrowoffset(Rows, p, NProcs)

(* MLIFE_nextstate, for any matrix that has the eight neighbours.          *)
NextState(m, i, j) ==
  LET sum == m[i-1][j-1] + m[i-1][j] + m[i-1][j+1] + m[i][j-1] + m[i][j+1]
             + m[i+1][j-1] + m[i+1][j] + m[i+1][j+1]
  IN  IF sum < 2 \/ sum > 3 THEN DIES ELSE IF sum = 3 THEN BORN ELSE m[i][j]

(* The next generation of a matrix with n inner rows.                      *)
Evolve(m, n) ==
  [i \in 0 .. n + 1 |-> [j \in 0 .. Cols + 1 |->
     IF i \in 1 .. n /\ j \in 1 .. Cols THEN NextState(m, i, j) ELSE DIES]]

(* World[s][k] is the whole matrix after k generations from s.             *)
World == [s \in Starts |->
            LET w[k \in 0 .. Iter] == IF k = 0 THEN s ELSE Evolve(w[k-1], Rows)
            IN  w]

(* The inner rows of rank p after k generations from s.                    *)
BlockAt(s, k, p) == [i \in 1 .. MyRows(p) |-> World[s][k][MyRowOffset(p) + i]]

Neighbours(p) == {p - 1, p + 1} \cap Rank
=============================================================================
