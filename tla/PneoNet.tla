------------------------------ MODULE PneoNet ------------------------------
(***************************************************************************)
(* What pneo_fence.c and pneo_pscw.c share: a network of cells, one per    *)
(* process, each with a window into which the cells connected to it put    *)
(* spikes.  The connection file is a sequence of <<source, dest>>.         *)
(***************************************************************************)
EXTENDS Integers, Sequences, FiniteSets

CONSTANTS NumProcs,           \* numprocs
          Connections,        \* connarray
          MaxSteps            \* max_steps

Cell == 0 .. NumProcs - 1

(* init_state aborts when a cell has no process; a pair that is listed     *)
(* twice would be twice in an MPI group.                                   *)
NetAssumption ==
  /\ NumProcs \in Nat \ {0} /\ MaxSteps \in Nat
  /\ Connections \in Seq(Cell \X Cell)
  /\ \A i, j \in 1 .. Len(Connections) : Connections[i] = Connections[j] => i = j

VARIABLES state,              \* of each cell
          itercount,          \* iterations each process has finished
          phase,              \* the calls it is between
          inarray             \* its window, as ints

netVars == <<state, itercount, phase, inarray>>

Pairs      == {Connections[i] : i \in 1 .. Len(Connections)}
Sources(c) == {p \in Cell : <<p, c>> \in Pairs}
Targets(c) == {q \in Cell : <<c, q>> \in Pairs}

(* The connections to c, by their place in the file.                       *)
Incoming(c) == {i \in 1 .. Len(Connections) : Connections[i][2] = c}

inarray_count(c) == Cardinality(Incoming(c))

(* disp: how many connections to q stand before the one from p.            *)
disp(p, q) == Cardinality({i \in Incoming(q) :
                \E k \in Incoming(q) : i < k /\ Connections[k][1] = p})

(* "essentially random for this example"                                   *)
FirstState(c) == (c + 5) % NumProcs

NetInit == /\ state = [c \in Cell |-> FirstState(c)]
           /\ itercount = [c \in Cell |-> 0]
           /\ phase = [c \in Cell |-> "compute"]

MoreToDo(c) == itercount[c] < MaxSteps

ready_to_fire(c) == state[c] > 4

(* The state after "if (ready_to_fire()) { ...; reset_state(); }".         *)
StateAfterFiring(c) == IF ready_to_fire(c) THEN 0 ELSE state[c]

(* MPI_Put of a spike: one int, displaced by disp ints.                    *)
StoreSpike(p, q) == inarray' = [inarray EXCEPT ![q][disp(p, q)] = 1]

AllDone == \A c \in Cell : itercount[c] = MaxSteps

-----------------------------------------------------------------------------
(* The network without processes: Network[k] is the state of each cell     *)
(* after its k-th compute_state.                                           *)
Network ==
  LET net[k \in 0 .. MaxSteps] ==
        IF k = 0 THEN [c \in Cell |-> FirstState(c)]
        ELSE LET last == net[k - 1]
                 fired == IF k = 1 THEN {} ELSE {c \in Cell : last[c] > 4}
             IN  [c \in Cell |-> (IF c \in fired THEN 0 ELSE last[c])
                                 + Cardinality(fired \cap Sources(c)) + 1]
  IN  net

(* A cell that fires counts from 0 again.                                  *)
Rested(k, s) == IF k > 0 /\ s > 4 THEN 0 ELSE s

CellAt(s, k, c) == Rested(k, Network[k][c])
=============================================================================
