------------------------------- MODULE MCPneo -------------------------------
(***************************************************************************)
(* The programs pneo_fence and pneo_pscw for TLC.  The variables of the    *)
(* one that does not run keep their initial values.                        *)
(***************************************************************************)
EXTENDS PneoNet

CONSTANT Programs             \* the programs to check

VARIABLES program,
          entered, puts,      \* PneoFence
          flight              \* PneoPscw

Fence == INSTANCE PneoFence
Pscw  == INSTANCE PneoPscw

vars == <<netVars, program, entered, puts, flight>>

Init == /\ program \in Programs
        /\ IF program = "fence"
             THEN Fence!Init /\ flight = [p \in Cell |-> [q \in Cell |-> <<>>]]
             ELSE Pscw!Init /\ entered = [c \in Cell |-> 0]
                            /\ puts = [c \in Cell |-> {}]

FenceStep(A) == program = "fence" /\ A /\ UNCHANGED <<program, flight>>
PscwStep(A)  == program = "pscw" /\ A /\ UNCHANGED <<program, entered, puts>>

Next == \E c \in Cell : FenceStep(Fence!Step(c)) \/ PscwStep(Pscw!Step(c))

(* The fairness of PneoFence and of PneoPscw.                              *)
FairSpec == /\ Init /\ [][Next]_vars
            /\ \A c \in Cell : /\ WF_vars(FenceStep(Fence!Unblocked(c)))
                               /\ WF_vars(PscwStep(Pscw!Unblocked(c)))

(* src/mpi2tutorial/examples/pneo/pneofile                                 *)
Pneofile == <<<<1, 2>>, <<0, 3>>, <<3, 4>>, <<5, 6>>>>

-----------------------------------------------------------------------------
(* While a process reads and clears its spikes no other one changes them:  *)
(* a spike comes between the calls that open and close its window.         *)
NoSpikeWhileComputing ==
  [][\A c \in Cell : inarray'[c] # inarray[c] /\ phase'[c] = phase[c]
                        => phase[c] # "compute"]_vars

(* The mapping to Rounds: a cell enters the next round in compute_state.   *)
(* pneo_fence, whose spikes do not arrive, is left out.                    *)
Round(c) == IF program = "fence" THEN 0
            ELSE itercount[c] + (IF phase[c] = "compute" THEN 0 ELSE 1)

Rounds == INSTANCE Rounds
            WITH Rank <- Cell, Iter <- MaxSteps, Starts <- {"any"},
                 start <- "any", Neighbours <- Sources,
                 BlockAt <- CellAt, gen <- [c \in Cell |-> Round(c)],
                 block <- [c \in Cell |->
                             IF program = "fence" THEN FirstState(c)
                             ELSE Rested(Round(c), state[c])]

(* Every spike is counted by its target once, in the round after the one   *)
(* it was sent in, however far the source has run ahead: the processes     *)
(* compute the network.                                                    *)
ComputesNetwork == Rounds!Spec

(* What a comment promises of the entries of pneo_fence's inarray.         *)
EntriesNameSources == program = "fence" => Fence!EntriesNameSources
=============================================================================
