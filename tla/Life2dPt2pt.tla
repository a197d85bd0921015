---------------------------- MODULE Life2dPt2pt ----------------------------
(***************************************************************************)
(* The exchange of mlife2d-pt2pt.c: first the columns with the ranks       *)
(* beside, then, when they are there, the rows with the ranks above and    *)
(* below, which carry the corners along.  Each half posts its sends and    *)
(* receives and waits for all of them.                                     *)
(***************************************************************************)
EXTENDS Life2dLoop, Sequences

VARIABLES half,               \* which half of the exchange each rank is in
          reqs,               \* requests of MPI_Waitall not complete
          chan                \* messages under way, per ordered pair of ranks

vars == <<gen, buf, cur, half, reqs, chan>>

(* The neighbours of each half.                                            *)
Partners(p, h) == IF h = 1 THEN Beside(p) ELSE Stacked(p)

BugReceivesOnly(p, h) == {"recv"} \X Partners(p, h)
BugNoReceives(p, h) == {"send"} \X Partners(p, h)
Requests(p, h) == {"send", "recv"} \X Partners(p, h)

Init == /\ LoopInit
        /\ half = [p \in Rank |-> 1]
        /\ reqs = [p \in Rank |-> IF Iter > 0 THEN Requests(p, 1) ELSE {}]
        /\ chan = [p \in Rank |-> [q \in Rank |-> <<>>]]

Send(p, q) ==
  /\ <<"send", q>> \in reqs[p]
  /\ chan' = [chan EXCEPT ![p][q] = Append(@, Edge(p, q))]
  /\ reqs' = [reqs EXCEPT ![p] = @ \ {<<"send", q>>}]
  /\ UNCHANGED <<gen, buf, cur, half>>

Recv(p, q) ==
  /\ <<"recv", q>> \in reqs[p]
  /\ chan[q][p] # <<>>
  /\ Store(p, cur[p], Head(chan[q][p]))
  /\ chan' = [chan EXCEPT ![q][p] = Tail(@)]
  /\ reqs' = [reqs EXCEPT ![p] = @ \ {<<"recv", q>>}]
  /\ UNCHANGED <<gen, cur, half>>

(* The first MPI_Waitall returns and the second half is posted.            *)
SecondHalf(p) ==
  /\ MoreToDo(p) /\ half[p] = 1 /\ reqs[p] = {}
  /\ half' = [half EXCEPT ![p] = 2]
  /\ reqs' = [reqs EXCEPT ![p] = Requests(p, 2)]
  /\ UNCHANGED <<gen, buf, cur, chan>>

Generation(p) ==
  /\ MoreToDo(p) /\ half[p] = 2 /\ reqs[p] = {}
  /\ Compute(p)
  /\ half' = [half EXCEPT ![p] = 1]
  /\ reqs' = [reqs EXCEPT ![p] = IF gen'[p] < Iter THEN Requests(p, 1) ELSE {}]
  /\ UNCHANGED chan

Step(p) == \/ SecondHalf(p) \/ Generation(p)
           \/ \E q \in Rank : Send(p, q) \/ Recv(p, q)

Next == \E p \in Rank : Step(p)

Spec == Init /\ [][Next]_vars

(* Every edge sent to q before is received, and q waits for the next one.  *)
Matched(p, q) == chan[p][q] = <<>> /\ <<"recv", p>> \in reqs[q]

(* MPI has to complete a send only when a receive matches it: it may buffer*)
(* edges or not.                                                           *)
Unblocked(p) ==
  \/ SecondHalf(p) \/ Generation(p)
  \/ \E q \in Rank : (Matched(p, q) /\ Send(p, q)) \/ Recv(p, q)

FairSpec == Spec /\ \A p \in Rank : WF_vars(Unblocked(p))

-----------------------------------------------------------------------------
(* No message is under way.                                                *)
NothingLeftOver == \A p, q \in Rank : chan[p][q] = <<>>
=============================================================================
