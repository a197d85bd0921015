----------------------------- MODULE MCDisplay -----------------------------
(***************************************************************************)
(* The displays of the 1-D and of the 2-D program for TLC.  The variables  *)
(* of the one that does not run keep their initial values.                 *)
(***************************************************************************)
EXTENDS LifeDisplay

CONSTANTS GRows, GCols, PRows, PCols, MeshIter, Exchange

VARIABLES program,                                       \* "rows" or "mesh"
          frame, meshPc, next, meshChan, line            \* Life2dDisplay

Mesh == INSTANCE Life2dDisplay
          WITH Iter <- MeshIter, pc <- meshPc, chan <- meshChan

ASSUME MeshDisplayAssumption ==
  /\ Mesh!MeshAssumption
  /\ MeshIter \in Nat /\ Exchange \in {"pt2pt", "fence"}

meshVars == <<frame, meshPc, next, meshChan, line>>
allVars  == <<vars, meshVars, program>>

AnyInit == program \in {"rows", "mesh"} /\ Init /\ Mesh!Init

Rows1d(A) == program = "rows" /\ A /\ UNCHANGED <<meshVars, program>>
Mesh2d(A) == program = "mesh" /\ A /\ UNCHANGED <<vars, program>>

AnyNext == Rows1d(Next) \/ Mesh2d(Mesh!Next)

(* The fairness of LifeDisplay and of Life2dDisplay.                       *)
AnySpec ==
  /\ AnyInit /\ [][AnyNext]_allVars
  /\ WF_allVars(Rows1d(Root)) /\ WF_allVars(Mesh2d(Mesh!Root))
  /\ \A p \in Rank : /\ WF_allVars(Rows1d(Generation(p)))
                     /\ WF_allVars(Rows1d(Send(p)))
                     /\ WF_allVars(Rows1d(Received(p)))
  /\ \A p \in Mesh!Rank : /\ WF_allVars(Mesh2d(Mesh!Local(p)))
                          /\ WF_allVars(Mesh2d(Mesh!Received(p)))

-----------------------------------------------------------------------------
(* Each printed row of the 2-D program has one part of each rank that      *)
(* holds it, all of the generation in the heading.                         *)
LinesRight == Mesh!LinesRight

(* Whichever program runs, everything is printed and every rank finishes,  *)
(* also when MPI buffers nothing.                                          *)
DisplaysEnd == /\ program = "rows" => Terminates
               /\ program = "mesh" => Mesh!Terminates
=============================================================================
