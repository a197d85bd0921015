---------------------------- MODULE Life2dFence ----------------------------
(***************************************************************************)
(* The exchange of mlife2d-fence.c, in the window of the current matrix:   *)
(* a fence, the columns put to the ranks beside, a fence, the rows with    *)
(* their corners put to the ranks above and below, a fence.  The first     *)
(* fence (MPI_MODE_NOPRECEDE) holds nobody back; the others return when    *)
(* every rank has entered them and the puts before them are done.          *)
(***************************************************************************)
EXTENDS Life2dLoop

VARIABLES entered,            \* fences each rank has entered, per window
          phase,              \* where each rank is in the exchange
          puts                \* <<target, epoch>> of puts not carried out

vars == <<gen, buf, cur, entered, phase, puts>>

Init == /\ LoopInit
        /\ entered = [p \in Rank |-> [w \in 0 .. 1 |-> 0]]
        /\ phase = [p \in Rank |-> "compute"]
        /\ puts = [p \in Rank |-> {}]

BugAlwaysMatrixWin(p) == 0
(* mem_win_map: the window made of the memory matrix points to.            *)
Window(p) == cur[p]

Fence(p) == entered' = [entered EXCEPT ![p][Window(p)] = @ + 1]
(* Puts to targets in the epoch that fence number e opens.                 *)
PutTo(p, targets, e) ==
  puts' = [puts EXCEPT ![p] = @ \cup (targets \X {e})]

FirstFence(p) ==
  /\ MoreToDo(p) /\ phase[p] = "compute"
  /\ Fence(p)
  /\ PutTo(p, Beside(p), entered[p][Window(p)] + 1)
  /\ phase' = [phase EXCEPT ![p] = "columns"]
  /\ UNCHANGED loopVars

(* A put waits for the target to enter the fence that opens its epoch.     *)
Put(p, q) ==
  \E e \in 1 .. entered[p][Window(p)] :
    /\ <<q, e>> \in puts[p]
    /\ entered[q][Window(p)] >= e
    /\ Store(q, Window(p), Edge(p, q))
    /\ puts' = [puts EXCEPT ![p] = @ \ {<<q, e>>}]
    /\ UNCHANGED <<gen, cur, entered, phase>>

EnterFence(p) ==
  /\ phase[p] \in {"columns", "rows"}
  /\ Fence(p)
  /\ phase' = [phase EXCEPT ![p] = IF @ = "columns" THEN "fence 2" ELSE "fence 3"]
  /\ UNCHANGED <<loopVars, puts>>

FenceDone(p) ==
  /\ \A q \in Rank : entered[q][Window(p)] >= entered[p][Window(p)]
  /\ puts[p] = {}
  /\ \A q \in Rank, e \in 1 .. entered[p][Window(p)] - 1 :
       <<p, e>> \in puts[q] => Window(q) # Window(p)

(* The columns must have come before the rows are put.                     *)
ColumnsComplete(p) == FenceDone(p)

SecondFence(p) ==
  /\ phase[p] = "fence 2"
  /\ ColumnsComplete(p)
  /\ PutTo(p, Stacked(p), entered[p][Window(p)])
  /\ phase' = [phase EXCEPT ![p] = "rows"]
  /\ UNCHANGED <<loopVars, entered>>

Generation(p) ==
  /\ phase[p] = "fence 3"
  /\ FenceDone(p)
  /\ Compute(p)
  /\ phase' = [phase EXCEPT ![p] = "compute"]
  /\ UNCHANGED <<entered, puts>>

Step(p) == \/ FirstFence(p) \/ EnterFence(p) \/ SecondFence(p) \/ Generation(p)
           \/ \E q \in Rank : Put(p, q)

Next == \E p \in Rank : Step(p)

Spec == Init /\ [][Next]_vars

(* Every rank has entered the fence this one was in last.                  *)
AllEntered(p) == \A q \in Rank : entered[q][Window(p)] >= entered[p][Window(p)]

(* MPI_Win_fence has to return only when every rank has entered it.        *)
Unblocked(p) == \/ FirstFence(p) \/ SecondFence(p) \/ Generation(p)
                \/ AllEntered(p) /\ EnterFence(p)
                \/ \E q \in Rank : Put(p, q)

FairSpec == Spec /\ \A p \in Rank : WF_vars(Unblocked(p))

=============================================================================
