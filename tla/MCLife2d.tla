------------------------------ MODULE MCLife2d ------------------------------
(***************************************************************************)
(* The programs life2d_pt2pt and life2d_fence for MCLife: life() of        *)
(* mlife2d.c with the exchange it was linked with.  The variables of the   *)
(* other exchange keep their initial values.                               *)
(***************************************************************************)
EXTENDS Life2dLoop, Sequences

VARIABLES exchange,                           \* the exchange that is linked
          half, reqs, chan,                   \* Life2dPt2pt
          entered, phase, puts                \* Life2dFence

Pt2pt == INSTANCE Life2dPt2pt
Fence == INSTANCE Life2dFence

pt2ptOnly == <<half, reqs, chan>>
fenceOnly == <<entered, phase, puts>>

vars == <<loopVars, exchange, pt2ptOnly, fenceOnly>>

Init == /\ exchange \in {"pt2pt", "fence"}
        /\ Pt2pt!Init
        /\ Fence!Init

OfPt2pt(A) == exchange = "pt2pt" /\ A /\ UNCHANGED <<exchange, fenceOnly>>
OfFence(A) == exchange = "fence" /\ A /\ UNCHANGED <<exchange, pt2ptOnly>>

Step(p)      == OfPt2pt(Pt2pt!Step(p)) \/ OfFence(Fence!Step(p))
Unblocked(p) == OfPt2pt(Pt2pt!Unblocked(p)) \/ OfFence(Fence!Unblocked(p))

Next == \E p \in Rank : Step(p)

-----------------------------------------------------------------------------
(* What is sent or put is received in the same exchange: when every rank   *)
(* is done nothing is under way.                                           *)
NothingLeftOver == AllDone => /\ Pt2pt!NothingLeftOver
                              /\ \A p \in Rank : puts[p] = {}

(* Rank q is between the calls that begin and end its exchange.            *)
InExchange(q) == IF exchange = "pt2pt" THEN reqs[q] # {} ELSE phase[q] # "compute"

(* No rank computes, or reads its edge, while a put changes the matrix it  *)
(* reads: outside of the epochs of the window nothing is stored there      *)
(* (the assertions NOPRECEDE and NOSUCCEED of the code).                   *)
NoPutOutsideEpoch ==
  [][\A q \in Rank, b \in 0 .. 1 :
       buf'[q][b] # buf[q][b] /\ gen'[q] = gen[q] =>
         InExchange(q) /\ b = cur[q]]_vars
=============================================================================
