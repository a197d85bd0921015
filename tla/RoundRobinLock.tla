--------------------------- MODULE RoundRobinLock ---------------------------
(***************************************************************************)
(* What MPIMUTEX_Lock and MPIMUTEX_Unlock promise to the processes of a    *)
(* communicator: a lock that is handed from its owner straight to the next *)
(* waiting rank, "starting with the rank after ours".  It says nothing of  *)
(* windows, bytes or messages; MpiMutex implements it.                     *)
(***************************************************************************)
EXTENDS Integers

CONSTANT N                    \* number of processes (mutex->nprocs)

Proc   == 0 .. N - 1
Nobody == -1

VARIABLES owner,              \* the process the lock belongs to, or Nobody
          waiting             \* the processes that asked while it was taken

vars == <<owner, waiting>>

TypeOK == /\ owner \in Proc \cup {Nobody}
          /\ waiting \in SUBSET Proc

(* How many ranks ahead of p, going round the ring, q is: 1 .. N.          *)
Dist(p, q) == IF q > p THEN q - p ELSE q - p + N

(* The member of W met first when walking the ring from the rank after p.  *)
Successor(p, W) == CHOOSE q \in W : \A r \in W : Dist(p, q) <= Dist(p, r)

Init == owner = Nobody /\ waiting = {}

Arrive(p) ==
  /\ p # owner
  /\ p \notin waiting
  /\ IF owner = Nobody
       THEN owner' = p /\ UNCHANGED waiting
       ELSE waiting' = waiting \cup {p} /\ UNCHANGED owner

Release(p) ==
  /\ owner = p
  /\ IF waiting = {}
       THEN owner' = Nobody /\ UNCHANGED waiting
       ELSE LET q == Successor(p, waiting)
            IN  owner' = q /\ waiting' = waiting \ {q}

Next == \E p \in Proc : Arrive(p) \/ Release(p)

Spec == Init /\ [][Next]_vars

FairSpec == Spec /\ \A p \in Proc : WF_vars(Release(p))
=============================================================================
