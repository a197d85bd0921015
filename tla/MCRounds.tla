------------------------------ MODULE MCRounds ------------------------------
(***************************************************************************)
(* The programs whose processes compute in rounds and exchange with their  *)
(* neighbours in between: the games of life and pNeo, for TLC.  The        *)
(* variables of the other programs keep their initial values.              *)
(***************************************************************************)
EXTENDS MCLife

CONSTANTS NumProcs, Connections, MaxSteps, PneoPrograms      \* MCPneo

VARIABLES running,                                           \* "life" or "pneo"
          pneo, state, itercount, pneoPhase, inarray,
          pneoEntered, spikes, flights                       \* MCPneo

Pneo == INSTANCE MCPneo
          WITH program <- pneo, Programs <- PneoPrograms, phase <- pneoPhase,
               entered <- pneoEntered, puts <- spikes, flight <- flights

ASSUME PneoAssumption == Pneo!NetAssumption

pneoVars == <<pneo, state, itercount, pneoPhase, inarray, pneoEntered, spikes, flights>>
allVars  == <<running, vars, pneoVars>>

AllInit == /\ running \in {"life", "pneo"}
           /\ Init /\ Pneo!Init
           /\ running = "life" => pneo = "fence"
           /\ running = "pneo" => program = "mesh" /\ exchange = "pt2pt"

OfLife(A) == running = "life" /\ A /\ UNCHANGED <<running, pneoVars>>
OfPneo(A) == running = "pneo" /\ A /\ UNCHANGED <<running, vars>>

AllNext == OfLife(Next) \/ OfPneo(Pneo!Next)

(* The fairness of MCLife and of MCPneo.                                   *)
AllSpec ==
  /\ AllInit /\ [][AllNext]_allVars
  /\ \A p \in AnyRank : WF_allVars(OfLife(Unblocked(p)))
  /\ \A c \in Pneo!Cell :
       /\ WF_allVars(OfPneo(Pneo!FenceStep(Pneo!Fence!Unblocked(c))))
       /\ WF_allVars(OfPneo(Pneo!PscwStep(Pneo!Pscw!Unblocked(c))))

(* A network with a cycle, a cell that waits for nobody, and two that fire *)
(* at the same time.                                                       *)
MCFeedback == <<<<0, 1>>, <<1, 2>>, <<0, 2>>, <<2, 1>>>>

-----------------------------------------------------------------------------
(* No row, column or spike reaches a process outside of the exchange that  *)
(* is to receive it.                                                       *)
NothingOutsideEpoch == NoPutOutsideEpoch /\ Pneo!NoSpikeWhileComputing

(* Every program computes what it would without processes, whatever the    *)
(* order of messages, puts, spikes and threads.                            *)
RoundsComputed == ComputesRounds /\ Pneo!ComputesNetwork

(* Every process finishes.                                                 *)
RoundsEnd == <>(IF running = "life" THEN LifeEnds ELSE Pneo!AllDone)
=============================================================================
