------------------------------- MODULE MCLife -------------------------------
(***************************************************************************)
(* The programs life_pt2pt, life_fence and life_pscw, which are life() with*)
(* the exchange they were linked with, the threaded ones, and the ones in  *)
(* two dimensions ("mesh"), for TLC.  The variables of the other programs  *)
(* keep their initial values.                                              *)
(***************************************************************************)
EXTENDS LifeLoop, Sequences

CONSTANTS Programs,                           \* the programs to check
          NThreads,                           \* LifeSweep
          GRows, GCols, PRows, PCols          \* Life2dMesh

VARIABLES program,                            \* the program that runs
          reqs, chan,                         \* LifePt2pt and LifeSweep
          phase,                              \* LifeFence and LifePscw
          opened, closed, puts,               \* LifeFence
          posted, completed, toPut, flight,   \* LifePscw
          at, left,                           \* LifeSweep
          gen2, buf2, cur2, exchange, half,   \* Life2dPt2pt and Life2dFence
          reqs2, chan2, entered, phase2, puts2

Pt2pt  == INSTANCE LifePt2pt
Fence  == INSTANCE LifeFence
Pscw   == INSTANCE LifePscw
Swept  == INSTANCE LifeSweep WITH sweep <- program
Mesh   == INSTANCE MCLife2d
            WITH gen <- gen2, buf <- buf2, cur <- cur2, reqs <- reqs2,
                 chan <- chan2, phase <- phase2, puts <- puts2

ASSUME MeshAssumption == Mesh!MeshAssumption

(* At least the thread that calls MPI.                                     *)
ASSUME ThreadsAssumption == NThreads \in Nat \ {0}

(* Start matrices that give the borders between the ranks something to do  *)
(* in every generation; cells outside of the matrix are left out.          *)
Pattern(cells) == [i \in 0 .. Rows + 1 |-> [j \in 0 .. Cols + 1 |->
                     IF <<i, j>> \in cells \cap ((1 .. Rows) \X (1 .. Cols))
                       THEN BORN ELSE DIES]]

Glider == Pattern({<<1, 2>>, <<2, 3>>, <<3, 1>>, <<3, 2>>, <<3, 3>>})

Full == Pattern((1 .. Rows) \X (1 .. Cols))

(* A blinker across a border, a glider, and a full matrix.                 *)
MCStarts == {Pattern({<<1, 2>>, <<2, 2>>, <<3, 2>>}),
             Glider,
             Full}

pt2ptOnly == <<reqs, chan>>
fenceOnly == <<opened, closed, puts>>
pscwOnly  == <<posted, completed, toPut, flight>>
sweepOnly == <<at, left>>

meshOnly  == <<gen2, buf2, cur2, exchange, half, reqs2, chan2, entered, phase2, puts2>>
lineVars  == <<loopVars, phase, pt2ptOnly, fenceOnly, pscwOnly, sweepOnly>>

vars == <<program, lineVars, meshOnly>>

Threaded == {"omp1", "omp2", "omp3"}

Init == /\ program \in Programs
        /\ IF program \in Threaded THEN Swept!Init
           ELSE Pt2pt!Init /\ at = 0 /\ left = 0
        /\ Fence!Init
        /\ Pscw!Init
        /\ program = "mesh" => start = Glider
        /\ program \in Threaded => start = Full
        /\ Mesh!Init
        /\ program # "mesh" => exchange = "pt2pt"

OfPt2pt(A) == /\ program = "pt2pt" /\ A
              /\ UNCHANGED <<program, phase, fenceOnly, pscwOnly, sweepOnly>>
OfFence(A) == /\ program = "fence" /\ A
              /\ UNCHANGED <<program, pt2ptOnly, pscwOnly, sweepOnly>>
OfPscw(A)  == /\ program = "pscw" /\ A
              /\ UNCHANGED <<program, pt2ptOnly, fenceOnly, sweepOnly>>
OfSwept(A) == program \in Threaded /\ A /\ UNCHANGED <<phase, fenceOnly, pscwOnly>>

LineStep(p) == \/ OfPt2pt(Pt2pt!Step(p)) \/ OfFence(Fence!Step(p))
               \/ OfPscw(Pscw!Step(p))   \/ OfSwept(Swept!Step(p))

LineUnblocked(p) ==
  \/ OfPt2pt(Pt2pt!Unblocked(p)) \/ OfFence(Fence!Unblocked(p))
  \/ OfPscw(Pscw!Unblocked(p))   \/ OfSwept(Swept!Unblocked(p))

OfLine(p, A) == program # "mesh" /\ p \in Rank /\ A /\ UNCHANGED meshOnly
OfMesh(p, A) == program = "mesh" /\ p \in Mesh!Rank /\ A /\ UNCHANGED <<program, lineVars>>

Step(p)      == OfLine(p, LineStep(p)) \/ OfMesh(p, Mesh!Step(p))
Unblocked(p) == OfLine(p, LineUnblocked(p)) \/ OfMesh(p, Mesh!Unblocked(p))

AnyRank == Rank \cup Mesh!Rank

Next == \E p \in AnyRank : Step(p)

(* A rank inside life() keeps going unless MPI blocks it, its threads are  *)
(* scheduled, and MPI delivers messages and puts.                          *)
FairSpec == Init /\ [][Next]_vars /\ \A p \in AnyRank : WF_vars(Unblocked(p))

-----------------------------------------------------------------------------
(* MPI never has to hold more than two messages, or one row that was put,  *)
(* for a neighbour: a fast rank cannot run away from a slow one.           *)
BoundedMessages == Pt2pt!BoundedMessages /\ Pscw!OneRowInFlight

(* What is sent or put is received in the same exchange or a later one:    *)
(* when every rank is done nothing is under way.                           *)
NothingLeftOver == /\ AllDone => /\ Pt2pt!NothingLeftOver
                                 /\ \A p \in Rank : puts[p] = {}
                                 /\ Pscw!NothingInFlight
                   /\ Mesh!NothingLeftOver

(* Rank q is between the calls that begin and end its exchange; b is the   *)
(* matrix it exchanges.                                                    *)
InExchange(q, b) ==
  /\ b = cur[q]
  /\ IF program \in {"fence", "pscw"} THEN phase[q] # "compute" ELSE reqs[q] # {}

(* No neighbour writes a halo while its rank computes, nor in the matrix   *)
(* that is not the current one.  This is what the assertions the fences    *)
(* pass promise (NOPUT, NOSUCCEED), and why threads may compute the        *)
(* interior rows while one of them exchanges.                              *)
NoPutOutsideEpoch ==
  /\ [][\A q \in Rank, b \in 0 .. 1 :
          (\E i \in {0, MyRows(q) + 1} : buf'[q][b][i] # buf[q][b][i])
             => InExchange(q, b)]_vars
  /\ Mesh!NoPutOutsideEpoch

(* The mapping to Rounds: the inner rows of matrix.  What is to be computed*)
(* depends on the program, which is made a part of the start.              *)
BlockOf(s, k, p) == IF s[1] = "omp3" THEN Swept!BlockOmp3(s[2], k, p)
                                     ELSE BlockAt(s[2], k, p)
Blocks == INSTANCE Rounds
            WITH Starts <- Programs \X Starts, start <- <<program, start>>,
                 BlockAt <- BlockOf,
                 block <- [p \in Rank |-> [i \in 1 .. MyRows(p) |-> matrix(p)[i]]]

(* The ranks together compute the game of life, or what the third sweep    *)
(* makes of it, whatever the order of messages and threads: each holds its *)
(* rows of the generation it says, and none runs ahead of a neighbour by   *)
(* more than one generation.                                               *)
ComputesRounds == Blocks!Spec /\ Mesh!ComputesLife

(* Every rank has computed all its generations.                            *)
LifeEnds == IF program = "mesh" THEN Mesh!AllDone ELSE AllDone

(* "calculate new state for all non-boundary elements"                     *)
NewStateForAll == \A p \in Rank : [i \in 1 .. MyRows(p) |-> matrix(p)[i]]
                                    = BlockAt(start, gen[p], p)
=============================================================================
