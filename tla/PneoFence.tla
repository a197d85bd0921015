----------------------------- MODULE PneoFence -----------------------------
(***************************************************************************)
(* pneo_fence.c: in each iteration a fence, the spikes, a fence.  Every    *)
(* fence but the first ends an epoch, so it returns when every process has *)
(* entered it.  An entry of inarray is two ints, {source, inspike}, while  *)
(* the window is made of single ints and disp counts entries.              *)
(***************************************************************************)
EXTENDS PneoNet

VARIABLES entered,            \* fences each process has entered
          puts                \* cells a spike of the epoch has not reached

vars == <<state, itercount, phase, inarray, entered, puts>>

source(c, j)  == inarray[c][2 * j]
inspike(c, j) == inarray[c][2 * j + 1]

(* The source of entry j: of the connections to c, the one behind j others.*)
Source(c, j) == CHOOSE p \in Sources(c) : disp(p, c) = j

(* Entry j is {the rank of its source, 0}.                                 *)
Init == /\ NetInit
        /\ inarray = [c \in Cell |-> [n \in 0 .. 2 * inarray_count(c) - 1 |->
                        IF n % 2 = 0 THEN Source(c, n \div 2) ELSE 0]]
        /\ entered = [c \in Cell |-> 0]
        /\ puts = [c \in Cell |-> {}]

num_incoming(c) ==
  Cardinality({j \in 0 .. inarray_count(c) - 1 : inspike(c, j) = 1})

EnterFence(c) == entered' = [entered EXCEPT ![c] = @ + 1]

(* compute_state, and the first fence is entered.  Nothing clears a spike. *)
ComputeState(c) ==
  /\ phase[c] = "compute" /\ MoreToDo(c)
  /\ state' = [state EXCEPT ![c] = @ + num_incoming(c) + 1]
  /\ EnterFence(c)
  /\ phase' = [phase EXCEPT ![c] = "opening"]
  /\ UNCHANGED <<itercount, inarray, puts>>

(* The very first fence ends no epoch and may hold nobody back.            *)
Opened(c) == entered[c] = 1 \/ \A q \in Cell : entered[q] >= entered[c]

(* Fire, if ready, and enter the second fence.                             *)
Fire(c) ==
  /\ phase[c] = "opening" /\ Opened(c)
  /\ puts' = [puts EXCEPT ![c] = IF ready_to_fire(c) THEN Targets(c) ELSE {}]
  /\ state' = [state EXCEPT ![c] = StateAfterFiring(c)]
  /\ EnterFence(c)
  /\ phase' = [phase EXCEPT ![c] = "closing"]
  /\ UNCHANGED <<itercount, inarray>>

(* A put waits for the target to enter the fence that opens the epoch.     *)
TargetReady(p, q) == entered[q] >= 2 * itercount[p] + 1

Put(p, q) ==
  /\ q \in puts[p] /\ TargetReady(p, q)
  /\ StoreSpike(p, q)
  /\ puts' = [puts EXCEPT ![p] = @ \ {q}]
  /\ UNCHANGED <<state, itercount, phase, entered>>

(* The second fence returns: everybody is in it and the puts are done.     *)
Closed(c) ==
  /\ \A q \in Cell : entered[q] >= entered[c] /\ c \notin puts[q]
  /\ puts[c] = {}

EndIteration(c) ==
  /\ phase[c] = "closing" /\ Closed(c)
  /\ itercount' = [itercount EXCEPT ![c] = @ + 1]
  /\ phase' = [phase EXCEPT ![c] = "compute"]
  /\ UNCHANGED <<state, inarray, entered, puts>>

Step(c) == \/ ComputeState(c) \/ Fire(c) \/ EndIteration(c)
           \/ \E q \in Targets(c) : Put(c, q)

Next == \E c \in Cell : Step(c)

Spec == Init /\ [][Next]_vars

AllEntered(c) == \A q \in Cell : entered[q] >= entered[c]

(* MPI_Win_fence has to return only when every process has entered it.     *)
Unblocked(c) == \/ ComputeState(c) \/ EndIteration(c)
                \/ AllEntered(c) /\ Fire(c)
                \/ \E q \in Targets(c) : Put(c, q)

FairSpec == Spec /\ \A c \in Cell : WF_vars(Unblocked(c))

-----------------------------------------------------------------------------
(* "A connection array entry contains the rank of the other process and    *)
(* the values of the incoming or outgoing spikes" (pneo_fence.c:36).       *)
EntriesNameSources ==
  \A c \in Cell : \A j \in 0 .. inarray_count(c) - 1 : source(c, j) = Source(c, j)
=============================================================================
