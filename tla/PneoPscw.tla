------------------------------ MODULE PneoPscw ------------------------------
(***************************************************************************)
(* pneo_pscw.c: in each iteration a process posts its window for the       *)
(* sources of its connections, starts an access to the windows of its      *)
(* targets, fires, completes the access and waits for its sources.  The    *)
(* n-th access of a process to a window matches the n-th exposure.         *)
(* MPI_Win_start and MPI_Win_complete may return before the targets have   *)
(* posted, or wait for them, as MPI likes.                                 *)
(***************************************************************************)
EXTENDS PneoNet

VARIABLE flight               \* epochs of the spikes under way, per pair

vars == <<state, itercount, phase, inarray, flight>>

Init == /\ NetInit
        /\ inarray = [c \in Cell |-> [n \in 0 .. inarray_count(c) - 1 |-> 0]]
        /\ flight = [p \in Cell |-> [q \in Cell |-> <<>>]]

num_incoming(c) == Cardinality({n \in DOMAIN inarray[c] : inarray[c][n] = 1})

(* compute_state, which clears the spikes, and MPI_Win_post.               *)
ComputeState(c) ==
  /\ phase[c] = "compute" /\ MoreToDo(c)
  /\ state' = [state EXCEPT ![c] = @ + num_incoming(c) + 1]
  /\ inarray' = [inarray EXCEPT ![c] = [n \in DOMAIN @ |-> 0]]
  /\ phase' = [phase EXCEPT ![c] = "start"]
  /\ UNCHANGED <<itercount, flight>>

BugPostBeforeCompute(c) == itercount[c] + 1
BugPostAfterStart(c) ==
  itercount[c] + (IF phase[c] \in {"compute", "start"} THEN 0 ELSE 1)
(* How often c has posted its window.                                      *)
Exposures(c) == itercount[c] + (IF phase[c] = "compute" THEN 0 ELSE 1)

(* MPI_Win_start, and the spikes if the cell is ready.                     *)
Fire(c) ==
  /\ phase[c] = "start"
  /\ flight' = [flight EXCEPT ![c] = [q \in Cell |->
                  IF ready_to_fire(c) /\ q \in Targets(c)
                    THEN Append(@[q], itercount[c] + 1) ELSE @[q]]]
  /\ state' = [state EXCEPT ![c] = StateAfterFiring(c)]
  /\ phase' = [phase EXCEPT ![c] = "access"]
  /\ UNCHANGED <<itercount, inarray>>

(* A spike reaches a window in the exposure its epoch matches.             *)
Store(p, q) ==
  /\ flight[p][q] # <<>>
  /\ Exposures(q) >= Head(flight[p][q])
  /\ StoreSpike(p, q)
  /\ flight' = [flight EXCEPT ![p][q] = Tail(@)]
  /\ UNCHANGED <<state, itercount, phase>>

(* MPI_Win_complete.                                                       *)
Complete(c) ==
  /\ phase[c] = "access"
  /\ phase' = [phase EXCEPT ![c] = "wait"]
  /\ UNCHANGED <<state, itercount, inarray, flight>>

(* How often p has completed its access.                                   *)
Completions(p) == itercount[p] + (IF phase[p] = "wait" THEN 1 ELSE 0)

(* MPI_Win_wait: the sources have completed this epoch, and their spikes   *)
(* are in the window.                                                      *)
Waited(c) ==
  \A p \in Sources(c) :
    /\ Completions(p) >= itercount[c] + 1
    /\ \A n \in 1 .. Len(flight[p][c]) : flight[p][c][n] > itercount[c] + 1

EndIteration(c) ==
  /\ phase[c] = "wait" /\ Waited(c)
  /\ itercount' = [itercount EXCEPT ![c] = @ + 1]
  /\ phase' = [phase EXCEPT ![c] = "compute"]
  /\ UNCHANGED <<state, inarray, flight>>

Step(c) == \/ ComputeState(c) \/ Fire(c) \/ Complete(c) \/ EndIteration(c)
           \/ \E q \in Targets(c) : Store(c, q)

Next == \E c \in Cell : Step(c)

Spec == Init /\ [][Next]_vars

TargetsPosted(c) == \A q \in Targets(c) : Exposures(q) >= itercount[c] + 1
Delivered(c)     == \A q \in Targets(c) : flight[c][q] = <<>>

(* MPI_Win_start has to return only when the targets have posted, and      *)
(* MPI_Win_complete only when the spikes are delivered.                    *)
Unblocked(c) == \/ ComputeState(c) \/ EndIteration(c)
                \/ TargetsPosted(c) /\ Fire(c)
                \/ Delivered(c) /\ Complete(c)
                \/ \E q \in Targets(c) : Store(c, q)

FairSpec == Spec /\ \A c \in Cell : WF_vars(Unblocked(c))

=============================================================================
