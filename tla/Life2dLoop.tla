----------------------------- MODULE Life2dLoop -----------------------------
(***************************************************************************)
(* The part of life() in mlife2d.c that does not depend on the exchange.   *)
(* A cell is not a value but <<generation, row, column>>: which cell of    *)
(* the whole matrix it is.  A cell computed from nine cells that are the   *)
(* right ones is right whatever the rule; any other is Wrong.              *)
(***************************************************************************)
EXTENDS Life2dMesh

CONSTANT Iter                 \* opt_iter

VARIABLES gen,                \* k: generations each rank has computed
          buf,                \* the two matrices of each rank
          cur                 \* which of the two is "matrix"

loopVars == <<gen, buf, cur>>

DIES  == <<>>                 \* a cell of the boundary
Wrong == <<"wrong">>

matrix(p) == buf[p][cur[p]]

Local(p) == (0 .. LRows(p) + 1) \X (0 .. LCols(p) + 1)
Inner(p) == (1 .. LRows(p)) \X (1 .. LCols(p))

(* The cell at a place of the whole matrix in generation k.                *)
Cell(k, i, j) == IF i \in 1 .. GRows /\ j \in 1 .. GCols THEN <<k, i, j>> ELSE DIES
CellAt(p, k, c) == Cell(k, firstrow(p) - 1 + c[1], firstcol(p) - 1 + c[2])

(* The boundary of both matrices is dead; drand48 is advanced to the first *)
(* cell of the rank in each row.                                           *)
LoopInit ==
  /\ gen = [p \in Rank |-> 0]
  /\ cur = [p \in Rank |-> 0]
  /\ buf = [p \in Rank |-> [b \in 0 .. 1 |-> [c \in Local(p) |->
              IF c \notin Inner(p) THEN DIES
              ELSE IF b = 0 THEN CellAt(p, 0, c) ELSE Wrong]]]

MoreToDo(p) == gen[p] < Iter

(* MLIFE_nextstate reads the cell and its eight neighbours.                *)
Square(c) == {c[1] - 1, c[1], c[1] + 1} \X {c[2] - 1, c[2], c[2] + 1}
NextCell(p, c) ==
  IF \A d \in Square(c) : matrix(p)[d] = CellAt(p, gen[p], d)
    THEN CellAt(p, gen[p] + 1, c) ELSE Wrong

Compute(p) ==
  /\ buf' = [buf EXCEPT ![p][1 - cur[p]] =
               [c \in Local(p) |-> IF c \in Inner(p) THEN NextCell(p, c) ELSE @[c]]]
  /\ cur' = [cur EXCEPT ![p] = 1 - @]
  /\ gen' = [gen EXCEPT ![p] = @ + 1]

(* What rank p sends to its neighbour q, by place in q's matrix: a column  *)
(* without corners, or a row with the corners received before.             *)
BugNoCorners(p) == 1 .. LCols(p)
RowPart(p) == 0 .. LCols(p) + 1

Edge(p, q) ==
  CASE q = p - 1 /\ q \in Beside(p) ->
         [c \in (1 .. LRows(p)) \X {LCols(q) + 1} |-> matrix(p)[<<c[1], 1>>]]
    [] q = p + 1 /\ q \in Beside(p) ->
         [c \in (1 .. LRows(p)) \X {0} |-> matrix(p)[<<c[1], LCols(p)>>]]
    [] OTHER ->
         IF q < p THEN [c \in {LRows(q) + 1} \X RowPart(p) |-> matrix(p)[<<1, c[2]>>]]
                  ELSE [c \in {0} \X RowPart(p) |-> matrix(p)[<<LRows(p), c[2]>>]]

(* The message m lands in matrix b of rank q.                              *)
Store(q, b, m) ==
  buf' = [buf EXCEPT ![q][b] = [c \in Local(q) |->
                                 IF c \in DOMAIN m THEN m[c] ELSE @[c]]]

(* The cells of rank p in generation k.                                    *)
BlockAt(s, k, p) == [c \in Inner(p) |-> CellAt(p, k, c)]

(* The mapping to Rounds; the neighbours of a rank are the ones across *)
(* its corners, too, with which it never talks.                            *)
Blocks == INSTANCE Rounds
            WITH Starts <- {"any"}, start <- "any", Neighbours <- Around,
                 block <- [p \in Rank |-> [c \in Inner(p) |-> matrix(p)[c]]]

(* The ranks together compute the game of life: every rank has its cells   *)
(* of the generation it says, nothing it computed came from a missing, an  *)
(* old or a too new neighbour, and it is at most one generation ahead of   *)
(* each of the eight.                                                      *)
ComputesLife == Blocks!Spec

AllDone == \A p \in Rank : gen[p] = Iter
=============================================================================
