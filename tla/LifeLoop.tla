------------------------------ MODULE LifeLoop ------------------------------
(***************************************************************************)
(* The part of life() in mlife.c that does not depend on the exchange: the *)
(* two matrices of each rank, their initialization, and the computation of *)
(* a generation followed by the swap.  LifePt2pt, LifeFence and LifePscw   *)
(* add the exchange.                                                       *)
(***************************************************************************)
EXTENDS LifeGrid

VARIABLES start,              \* what drand48 made of the whole matrix
          gen,                \* k: generations each rank has computed
          buf,                \* the two matrices of each rank, mdata and tdata
          cur                 \* which of the two is "matrix"

loopVars == <<start, gen, buf, cur>>

(* The cells of temp are not initialized; a rank that read one would       *)
(* compute with this value.                                                *)
Junk == 100

matrix(p) == buf[p][cur[p]]

(* Inner(p, i, j): (i, j) is not on the boundary of rank p's matrices.     *)
Inner(p, i, j) == i \in 1 .. MyRows(p) /\ j \in 1 .. Cols

(* The boundary of both matrices is dead.  Each inner row of matrix is     *)
(* drawn from a seed made of its global number, whoever owns it.           *)
LoopInit ==
  /\ start \in Starts
  /\ gen = [p \in Rank |-> 0]
  /\ cur = [p \in Rank |-> 0]
  /\ buf = [p \in Rank |-> [b \in 0 .. 1 |->
              [i \in 0 .. MyRows(p) + 1 |-> [j \in 0 .. Cols + 1 |->
                 IF ~Inner(p, i, j) THEN DIES
                 ELSE IF b = 0 THEN start[MyRowOffset(p) + i][j] ELSE Junk]]]]

(* for (k = 0; k < ntimes; k++)                                            *)
MoreToDo(p) == gen[p] < Iter

(* The body of the loop after the exchange: temp from matrix, and the swap *)
(* of the two.                                                             *)
Compute(p) ==
  /\ buf' = [buf EXCEPT ![p][1 - cur[p]] =
               [i \in 0 .. MyRows(p) + 1 |-> [j \in 0 .. Cols + 1 |->
                  IF Inner(p, i, j) THEN NextState(matrix(p), i, j)
                                     ELSE @[i][j]]]]
  /\ cur' = [cur EXCEPT ![p] = 1 - @]
  /\ gen' = [gen EXCEPT ![p] = @ + 1]
  /\ UNCHANGED start

(* The rows a rank gives its neighbour q, and where q keeps them.          *)
EdgeRow(p, q) == IF q < p THEN matrix(p)[1] ELSE matrix(p)[MyRows(p)]

BugHaloFromOwnSize(p, q) == IF q > p THEN 0 ELSE MyRows(p) + 1
HaloIndex(p, q) == IF q > p THEN 0 ELSE MyRows(q) + 1

(* Row r lands in the halo of matrix b of rank q that faces p.             *)
StoreHalo(p, q, b, r) == buf' = [buf EXCEPT ![q][b][HaloIndex(p, q)] = r]

AllDone == \A p \in Rank : gen[p] = Iter
=============================================================================
