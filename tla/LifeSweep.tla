----------------------------- MODULE LifeSweep -----------------------------
(***************************************************************************)
(* The threaded programs of mlifeomp.c: MLIFE_Sweep of sweepomp1.c ("omp1")*)
(* sweepomp2.c ("omp2") and sweepomp3.c ("omp3"), with the exchange of     *)
(* mlife-pt2pt.c.  In omp1 and omp2 the rows wait for the exchange (omp    *)
(* barrier, or the start of the parallel loop); in omp3 one thread, called *)
(* 0, exchanges (omp single nowait) while the others begin with the rows   *)
(* that need no other rank.  A loop ends with a barrier of the threads.    *)
(* Between the last two barriers each thread swaps its own pointers and    *)
(* touches nothing else, which is one step here.                           *)
(***************************************************************************)
EXTENDS LifeLoop, Sequences

CONSTANT NThreads             \* threads of each rank

VARIABLES sweep,              \* the program
          reqs, chan,         \* the exchange
          at,                 \* the loop each thread is in: rows, edges, swap
          left                \* interior rows no thread has taken (omp3)

vars == <<loopVars, sweep, reqs, chan, at, left>>

Thread == 0 .. NThreads - 1

Exchange == INSTANCE LifePt2pt

(* The rows of "for (i = 2; i < myrows; i++)".                             *)
InteriorRows(p) == 2 .. MyRows(p) - 1

Init == /\ Exchange!Init
        /\ sweep \in {"omp1", "omp2", "omp3"}
        /\ at = [p \in Rank |-> [t \in Thread |-> "rows"]]
        /\ left = [p \in Rank |-> InteriorRows(p)]

Goto(p, t, c) == at' = [at EXCEPT ![p][t] = c]

(* MLIFE_exchange, by thread 0.                                            *)
Message(p) == /\ \E q \in Neighbours(p) : Exchange!Send(p, q) \/ Exchange!Recv(p, q)
              /\ UNCHANGED <<sweep, at, left>>

(* A thread's part of n iterations, schedule(static).                      *)
Part(t, n) == LET c == (n + NThreads - 1) \div NThreads
              IN  (t * c + 1 .. (t + 1) * c) \cap 1 .. n

(* temp gets the next state of some cells; src says from which row.        *)
Sweep(p, cells, src(_)) ==
  /\ buf' = [buf EXCEPT ![p][1 - cur[p]] =
               [i \in 0 .. MyRows(p) + 1 |-> [j \in 0 .. Cols + 1 |->
                  IF <<i, j>> \in cells THEN NextState(matrix(p), src(i), j) ELSE @[i][j]]]]
  /\ UNCHANGED <<start, gen, cur, sweep, reqs, chan>>

(* omp1, omp2: all rows, when the exchange is over.                        *)
Rows12(p, t) ==
  /\ sweep # "omp3" /\ MoreToDo(p) /\ at[p][t] = "rows" /\ reqs[p] = {}
  /\ Sweep(p, Part(t, MyRows(p)) \X (1 .. Cols), LAMBDA i : i)
  /\ Goto(p, t, "swap") /\ UNCHANGED left

(* omp3: interior rows one by one; thread 0 takes part when the exchange   *)
(* is over.                                                                *)
Interior(p, t) ==
  /\ sweep = "omp3" /\ MoreToDo(p) /\ at[p][t] = "rows" /\ (t = 0 => reqs[p] = {})
  /\ IF left[p] = {}
       THEN Goto(p, t, "edges") /\ UNCHANGED <<loopVars, sweep, reqs, chan, left>>
       ELSE \E i \in left[p] : /\ Sweep(p, {i} \X (1 .. Cols), LAMBDA k : k)
                               /\ left' = [left EXCEPT ![p] = @ \ {i}]
                               /\ UNCHANGED at

BugNoBarrier(p) == TRUE
(* The barrier behind the interior rows, which thread 0 reaches only with  *)
(* the exchange done.                                                      *)
RowsDone(p) == \A t \in Thread : at[p][t] # "rows"

(* omp3: the first and the last row, by columns.  Both are computed from   *)
(* the neighbours of row 1.                                                *)
Edges(p, t) ==
  /\ at[p][t] = "edges" /\ RowsDone(p)
  /\ Sweep(p, {1, MyRows(p)} \X Part(t, Cols), LAMBDA i : 1)
  /\ Goto(p, t, "swap") /\ UNCHANGED left

(* The barriers at the end of the loop body, with the swap in between.     *)
SwapAll(p) ==
  /\ \A t \in Thread : at[p][t] = "swap"
  /\ at' = [at EXCEPT ![p] = [t \in Thread |-> "rows"]]
  /\ gen' = [gen EXCEPT ![p] = @ + 1]
  /\ cur' = [cur EXCEPT ![p] = 1 - @]
  /\ left' = [left EXCEPT ![p] = InteriorRows(p)]
  /\ reqs' = [reqs EXCEPT ![p] = IF gen'[p] < Iter THEN Exchange!AllRequests(p) ELSE {}]
  /\ UNCHANGED <<start, buf, sweep, chan>>

Step(p) == \/ Message(p) \/ SwapAll(p)
           \/ \E t \in Thread : Rows12(p, t) \/ Interior(p, t) \/ Edges(p, t)

(* What the scheduler of the threads, and MPI, have to get done.           *)
Unblocked(p) ==
  \/ SwapAll(p) \/ \E t \in Thread : Rows12(p, t) \/ Interior(p, t) \/ Edges(p, t)
  \/ /\ \E q \in Neighbours(p) : \/ Exchange!Matched(p, q) /\ Exchange!Send(p, q)
                                \/ Exchange!Recv(p, q)
     /\ UNCHANGED <<sweep, at, left>>

-----------------------------------------------------------------------------
(* The generations omp3 computes, without ranks' messages and threads: the *)
(* last row of a rank with more than one comes from row 1.                 *)
Owner(i) == CHOOSE p \in Rank : i \in MyRowOffset(p) + 1 .. MyRowOffset(p) + MyRows(p)
Source(i) == IF i \in {MyRowOffset(Owner(i)) + MyRows(Owner(i))}
               THEN MyRowOffset(Owner(i)) + 1 ELSE i
EvolveOmp3(m) ==
  [i \in 0 .. Rows + 1 |-> [j \in 0 .. Cols + 1 |->
     IF i \in 1 .. Rows /\ j \in 1 .. Cols THEN NextState(m, Source(i), j) ELSE DIES]]
WorldOmp3 == [s \in Starts |->
                LET w[k \in 0 .. Iter] == IF k = 0 THEN s ELSE EvolveOmp3(w[k-1])
                IN  w]
BlockOmp3(s, k, p) == [i \in 1 .. MyRows(p) |-> WorldOmp3[s][k][MyRowOffset(p) + i]]
=============================================================================
