----------------------------- MODULE LifeFence -----------------------------
(***************************************************************************)
(* The exchange of mlife-fence.c: each rank puts its edge rows into the    *)
(* halo of its neighbours' current matrix between two MPI_Win_fence calls  *)
(* on the window of that matrix.  The opening fence (MPI_MODE_NOPRECEDE)   *)
(* may hold a rank back until all have entered it, or not, and a put       *)
(* reaches a rank only in an epoch that rank has opened.  The closing fence*)
(* returns when every rank has entered it and the puts of the epoch are    *)
(* done.                                                                   *)
(***************************************************************************)
EXTENDS LifeLoop

VARIABLES opened, closed,     \* fences each rank has entered, per window
          phase,              \* "compute", "epoch" or "closing"
          puts                \* neighbours a put of the epoch has not reached

vars == <<start, gen, buf, cur, opened, closed, phase, puts>>

Init == /\ LoopInit
        /\ opened = [p \in Rank |-> [w \in 0 .. 1 |-> 0]]
        /\ closed = [p \in Rank |-> [w \in 0 .. 1 |-> 0]]
        /\ phase = [p \in Rank |-> "compute"]
        /\ puts = [p \in Rank |-> {}]

(* mem_win_map: the window made of the memory matrix points to.            *)
Window(p) == cur[p]

OpenFence(p) ==
  /\ MoreToDo(p)
  /\ phase[p] = "compute"
  /\ phase' = [phase EXCEPT ![p] = "epoch"]
  /\ opened' = [opened EXCEPT ![p][Window(p)] = @ + 1]
  /\ puts' = [puts EXCEPT ![p] = Neighbours(p)]
  /\ UNCHANGED <<loopVars, closed>>

BugNoEpochCheck(p, q) == TRUE
(* A put waits for the target to open the epoch.                           *)
TargetReady(p, q) == opened[q][Window(p)] >= opened[p][Window(p)]

Put(p, q) ==
  /\ q \in puts[p]
  /\ TargetReady(p, q)
  /\ StoreHalo(p, q, Window(p), EdgeRow(p, q))
  /\ puts' = [puts EXCEPT ![p] = @ \ {q}]
  /\ UNCHANGED <<start, gen, cur, opened, closed, phase>>

CloseFence(p) ==
  /\ phase[p] = "epoch"
  /\ phase' = [phase EXCEPT ![p] = "closing"]
  /\ closed' = [closed EXCEPT ![p][Window(p)] = @ + 1]
  /\ UNCHANGED <<loopVars, opened, puts>>

FenceDone(p) ==
  /\ \A q \in Rank : closed[q][Window(p)] >= closed[p][Window(p)]
  /\ puts[p] = {}
  /\ \A q \in Neighbours(p) : p \in puts[q] => Window(q) # Window(p)

Generation(p) ==
  /\ phase[p] = "closing"
  /\ FenceDone(p)
  /\ Compute(p)
  /\ phase' = [phase EXCEPT ![p] = "compute"]
  /\ UNCHANGED <<opened, closed, puts>>

Step(p) == \/ OpenFence(p) \/ CloseFence(p) \/ Generation(p)
           \/ \E q \in Neighbours(p) : Put(p, q)

Next == \E p \in Rank : Step(p)

Spec == Init /\ [][Next]_vars

(* Every rank has entered the opening fence.                               *)
AllOpened(p) == \A q \in Rank : TargetReady(p, q)

(* MPI_Win_fence has to return only when every rank has entered it.        *)
Unblocked(p) == \/ OpenFence(p) \/ Generation(p)
                \/ AllOpened(p) /\ CloseFence(p)
                \/ \E q \in Neighbours(p) : Put(p, q)

FairSpec == Spec /\ \A p \in Rank : WF_vars(Unblocked(p))

=============================================================================
