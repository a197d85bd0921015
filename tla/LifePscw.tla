------------------------------ MODULE LifePscw ------------------------------
(***************************************************************************)
(* The exchange of mlife-pscw.c.  Each rank posts the window of its        *)
(* current matrix for its neighbours, starts an access epoch on theirs,    *)
(* puts its edge rows, completes the access epoch and waits for the end of *)
(* the exposure.  Only neighbours synchronize.  A put is read from the edge*)
(* row before MPI_Win_complete returns, and reaches the target after the   *)
(* target has posted and before its MPI_Win_wait returns.  MPI_Win_start,  *)
(* MPI_Put and MPI_Win_complete may go ahead of the targets, or wait for   *)
(* them, as MPI likes.                                                     *)
(***************************************************************************)
EXTENDS LifeLoop, Sequences

VARIABLES posted, completed,  \* exposures and accesses so far, per window
          phase,              \* "compute", "start", "access", "wait"
          toPut,              \* neighbours whose put has not been read
          flight              \* rows put and not yet stored, per pair, window

vars == <<start, gen, buf, cur, posted, completed, phase, toPut, flight>>

Init == /\ LoopInit
        /\ posted = [p \in Rank |-> [w \in 0 .. 1 |-> 0]]
        /\ completed = [p \in Rank |-> [w \in 0 .. 1 |-> 0]]
        /\ phase = [p \in Rank |-> "compute"]
        /\ toPut = [p \in Rank |-> {}]
        /\ flight = [p \in Rank |-> [q \in Rank |-> [w \in 0 .. 1 |-> <<>>]]]

(* mem_win_map: the window made of the memory matrix points to.            *)
Window(p) == cur[p]

(* rma_grp: the neighbours that exist.                                     *)
Group(p) == Neighbours(p)

(* MPI_Win_post, and MPI_Win_start is entered.                             *)
Post(p) ==
  /\ MoreToDo(p)
  /\ phase[p] = "compute"
  /\ phase' = [phase EXCEPT ![p] = "start"]
  /\ posted' = [posted EXCEPT ![p][Window(p)] = @ + 1]
  /\ UNCHANGED <<loopVars, completed, toPut, flight>>

(* MPI_Win_start returns.                                                  *)
Start(p) ==
  /\ phase[p] = "start"
  /\ phase' = [phase EXCEPT ![p] = "access"]
  /\ toPut' = [toPut EXCEPT ![p] = Group(p)]
  /\ UNCHANGED <<loopVars, posted, completed, flight>>

(* The row leaves with the number of the epoch it belongs to.              *)
Put(p, q) ==
  /\ q \in toPut[p]
  /\ toPut' = [toPut EXCEPT ![p] = @ \ {q}]
  /\ flight' = [flight EXCEPT ![p][q][Window(p)] =
                  Append(@, [epoch |-> posted[p][Window(p)], row |-> EdgeRow(p, q)])]
  /\ UNCHANGED <<loopVars, posted, completed, phase>>

BugPostAfterStart(q, w, epoch) ==
  posted[q][w] >= epoch + (IF phase[q] = "start" /\ w = Window(q) THEN 1 ELSE 0)
(* Rank q has posted window w for this epoch.                              *)
Exposed(q, w, epoch) == posted[q][w] >= epoch

Store(p, q, w) ==
  /\ flight[p][q][w] # <<>>
  /\ Exposed(q, w, Head(flight[p][q][w]).epoch)
  /\ StoreHalo(p, q, w, Head(flight[p][q][w]).row)
  /\ flight' = [flight EXCEPT ![p][q][w] = Tail(@)]
  /\ UNCHANGED <<start, gen, cur, posted, completed, phase, toPut>>

Complete(p) ==
  /\ phase[p] = "access"
  /\ toPut[p] = {}
  /\ phase' = [phase EXCEPT ![p] = "wait"]
  /\ completed' = [completed EXCEPT ![p][Window(p)] = @ + 1]
  /\ UNCHANGED <<loopVars, posted, toPut, flight>>

BugNoWait(p) == TRUE
(* MPI_Win_wait returns when every member of the group has completed its   *)
(* access and the rows it put are stored.                                  *)
ExposureOver(p) ==
  LET w == Window(p)
  IN  \A q \in Group(p) :
        /\ completed[q][w] >= posted[p][w]
        /\ \A k \in 1 .. Len(flight[q][p][w]) :
             flight[q][p][w][k].epoch > posted[p][w]

Generation(p) ==
  /\ phase[p] = "wait"
  /\ ExposureOver(p)
  /\ Compute(p)
  /\ phase' = [phase EXCEPT ![p] = "compute"]
  /\ UNCHANGED <<posted, completed, toPut, flight>>

Step(p) ==
  \/ Post(p) \/ Start(p) \/ Complete(p) \/ Generation(p)
  \/ \E q \in Neighbours(p) : Put(p, q) \/ \E w \in 0 .. 1 : Store(p, q, w)

Next == \E p \in Rank : Step(p)

Spec == Init /\ [][Next]_vars

TargetPosted(p, q) == Exposed(q, Window(p), posted[p][Window(p)])
Delivered(p, q)    == flight[p][q][Window(p)] = <<>>

(* MPI_Win_start and MPI_Put have to return only when the targets have     *)
(* posted, MPI_Win_complete only when the rows are delivered.              *)
Unblocked(p) ==
  \/ Post(p) \/ Generation(p)
  \/ (\A q \in Group(p) : TargetPosted(p, q)) /\ Start(p)
  \/ (\A q \in Group(p) : Delivered(p, q)) /\ Complete(p)
  \/ \E q \in Neighbours(p) : \/ TargetPosted(p, q) /\ Put(p, q)
                             \/ \E w \in 0 .. 1 : Store(p, q, w)

FairSpec == Spec /\ \A p \in Rank : WF_vars(Unblocked(p))

-----------------------------------------------------------------------------
(* A row put in one epoch is stored before the next row for the same place *)
(* is put: MPI buffers at most one per neighbour and window.               *)
OneRowInFlight ==
  \A p, q \in Rank, w \in 0 .. 1 : Len(flight[p][q][w]) <= 1

NothingInFlight ==
  \A p, q \in Rank, w \in 0 .. 1 : flight[p][q][w] = <<>>
=============================================================================
