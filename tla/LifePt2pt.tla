----------------------------- MODULE LifePt2pt -----------------------------
(***************************************************************************)
(* The exchange of mlife-pt2pt.c: each rank posts a send and a receive for *)
(* each neighbour and waits for the four of them.  A message is copied out *)
(* of the edge row, and into the halo row, at some moment between the      *)
(* posting and the return of MPI_Waitall.  Calls with MPI_PROC_NULL do     *)
(* nothing.                                                                *)
(***************************************************************************)
EXTENDS LifeLoop, Sequences

VARIABLES reqs,               \* requests of MPI_Waitall that are not complete
          chan                \* messages under way, per ordered pair of ranks

vars == <<start, gen, buf, cur, reqs, chan>>

BugNoReceive(p) == {"send"} \X Neighbours(p)
(* The four nonblocking calls, those with MPI_PROC_NULL left out.          *)
AllRequests(p) == {"send", "recv"} \X Neighbours(p)

(* Every rank has posted the requests of its first exchange.               *)
Init == /\ LoopInit
        /\ reqs = [p \in Rank |-> IF Iter > 0 THEN AllRequests(p) ELSE {}]
        /\ chan = [p \in Rank |-> [q \in Rank |-> <<>>]]

Send(p, q) ==
  /\ <<"send", q>> \in reqs[p]
  /\ chan' = [chan EXCEPT ![p][q] = Append(@, EdgeRow(p, q))]
  /\ reqs' = [reqs EXCEPT ![p] = @ \ {<<"send", q>>}]
  /\ UNCHANGED loopVars

Recv(p, q) ==
  /\ <<"recv", q>> \in reqs[p]
  /\ chan[q][p] # <<>>
  /\ StoreHalo(q, p, cur[p], Head(chan[q][p]))
  /\ chan' = [chan EXCEPT ![q][p] = Tail(@)]
  /\ reqs' = [reqs EXCEPT ![p] = @ \ {<<"recv", q>>}]
  /\ UNCHANGED <<start, gen, cur>>

(* MPI_Waitall returns; the generation is computed; the next exchange is   *)
(* posted.                                                                 *)
Generation(p) ==
  /\ MoreToDo(p)
  /\ reqs[p] = {}
  /\ Compute(p)
  /\ reqs' = [reqs EXCEPT ![p] = IF gen'[p] < Iter THEN AllRequests(p) ELSE {}]
  /\ UNCHANGED chan

Step(p) == Generation(p) \/ \E q \in Neighbours(p) : Send(p, q) \/ Recv(p, q)

Next == \E p \in Rank : Step(p)

Spec == Init /\ [][Next]_vars

(* Every row sent to q before is received, and q waits for the next one.   *)
Matched(p, q) == chan[p][q] = <<>> /\ <<"recv", p>> \in reqs[q]

(* MPI has to complete a send only when a receive matches it: it may buffer*)
(* rows or not.                                                            *)
Unblocked(p) ==
  \/ Generation(p)
  \/ \E q \in Neighbours(p) : (Matched(p, q) /\ Send(p, q)) \/ Recv(p, q)

FairSpec == Spec /\ \A p \in Rank : WF_vars(Unblocked(p))

-----------------------------------------------------------------------------
(* MPI never has to hold more than two rows for a neighbour: an eager send *)
(* cannot run away from a slow receiver.                                   *)
BoundedMessages == \A p, q \in Rank : Len(chan[p][q]) <= 2

(* No message is under way.                                                *)
NothingLeftOver == \A p, q \in Rank : chan[p][q] = <<>>
=============================================================================
