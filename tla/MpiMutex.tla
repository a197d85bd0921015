------------------------------ MODULE MpiMutex ------------------------------
(***************************************************************************)
(* MPIMUTEX_Lock and MPIMUTEX_Unlock of examples/mutex/mpimutex.c.         *)
(*                                                                         *)
(* The waitlist is an array of one byte per process in a window at the     *)
(* home rank.  Both calls open an epoch with an exclusive window lock,     *)
(* read everybody else's byte, write their own, and close the epoch.  A    *)
(* locker that saw a nonzero byte waits for a WAKEUP message; an unlocker  *)
(* that saw one sends a WAKEUP to the next waiting rank.                   *)
(*                                                                         *)
(* The two RMA operations of an epoch touch different bytes and complete   *)
(* in either order, any time before the epoch is closed.  malloc may fail. *)
(* An MPI call does not return an error: mpimutex.c installs no error      *)
(* handler, and the default one aborts the job.                            *)
(***************************************************************************)
EXTENDS Integers

CONSTANT N                    \* mutex->nprocs

ASSUME NAssumption == N \in Nat \ {0}

Proc   == 0 .. N - 1
NoRank == -1
Slot   == 0 .. N - 2          \* the indices of waitlistcopy

VARIABLES
  pc,         \* where each process is
  winlock,    \* the process that holds the exclusive window lock, or NoRank
  waitlist,   \* the bytes of the window
  copy,       \* waitlistcopy of each process
  pending,    \* RMA operations of the open epoch not yet carried out
  next,       \* nextrank of an unlocker that has a WAKEUP to send
  wakeups     \* WAKEUP messages sent to each process and not yet received

vars == <<pc, winlock, waitlist, copy, pending, next, wakeups>>

(* "lock_win", "unlock_win": memory is allocated, MPI_Win_lock was called. *)
(* "lock_epoch", "unlock_epoch": between MPI_Win_lock and MPI_Win_unlock.  *)
(* "recv": in MPI_Recv.  "notify": before MPI_Send.                        *)
(* "held": Lock has returned MPI_SUCCESS and Unlock has not.               *)
PC == {"idle", "lock_win", "lock_epoch", "recv", "held",
       "unlock_win", "unlock_epoch", "notify"}

TypeOK ==
  /\ pc \in [Proc -> PC]
  /\ winlock \in Proc \cup {NoRank}
  /\ waitlist \in [Proc -> {0, 1}]
  /\ copy \in [Proc -> [Slot -> {0, 1}]]
  /\ pending \in [Proc -> SUBSET {"get", "put"}]
  /\ next \in [Proc -> Proc \cup {NoRank}]
  /\ wakeups \in [Proc -> Nat]

Init ==
  /\ pc = [p \in Proc |-> "idle"]
  /\ winlock = NoRank
  /\ waitlist = [p \in Proc |-> 0]
  /\ copy = [p \in Proc |-> [i \in Slot |-> 0]]
  /\ pending = [p \in Proc |-> {}]
  /\ next = [p \in Proc |-> NoRank]
  /\ wakeups = [p \in Proc |-> 0]

-----------------------------------------------------------------------------
(* Definitions named Bug... are slips a programmer could make in the code  *)
(* below; they show that the properties can fail and model nothing.        *)
BugTypeIgnoresRank(p, i) == i

(* waitlisttype: two blocks of bytes, before and after the caller's own.   *)
RankOfSlot(p, i) == IF i < p THEN i ELSE i + 1

Others(p, wl) == [i \in Slot |-> wl[RankOfSlot(p, i)]]

BugScanStopsEarly(c) == \E i \in Slot : i < N - 2 /\ c[i] # 0

SomeoneElse(c) == \E i \in Slot : c[i] # 0

(* Where "for (i = from; i < to && c[i] == 0; i++);" leaves i.             *)
StopsAt(c, from, to, i) == /\ \A j \in from .. i - 1 : c[j] = 0
                           /\ i < to => c[i] # 0
Scan(c, from, to) == CHOOSE i \in from .. to : StopsAt(c, from, to, i)

BugSearchFromZero(p, c) == RankOfSlot(p, Scan(c, 0, N - 1))
BugNoWrapAround(p, c) == Scan(c, p, N - 1) + 1
BugOffByOne(p, c) ==
  LET i == Scan(c, p, N - 1)
  IN  IF i < N - 1 THEN i ELSE Scan(c, 0, p)

(* The search for the next waiting rank: from the caller's position to the *)
(* end, then, when nothing is there, from rank 0 up to the caller.         *)
NextRank(p, c) ==
  LET i == Scan(c, p, N - 1)
  IN  IF i < N - 1 THEN i + 1 ELSE Scan(c, 0, p)

-----------------------------------------------------------------------------
(* Entry of Lock and of Unlock, malloc having succeeded.  When it fails    *)
(* the call returns an error before it has changed anything, a stuttering  *)
(* step here: the process stays "idle", or stays "held", and may call      *)
(* again.                                                                  *)
LockEnter(p) ==
  /\ pc[p] = "idle"
  /\ pc' = [pc EXCEPT ![p] = "lock_win"]
  /\ UNCHANGED <<winlock, waitlist, copy, pending, next, wakeups>>

UnlockEnter(p) ==
  /\ pc[p] = "held"
  /\ pc' = [pc EXCEPT ![p] = "unlock_win"]
  /\ UNCHANGED <<winlock, waitlist, copy, pending, next, wakeups>>

BugSharedLock == TRUE
(* MPI_LOCK_EXCLUSIVE is granted when no process has an epoch open.        *)
WindowFree == winlock = NoRank

(* MPI_Win_lock(MPI_LOCK_EXCLUSIVE), then MPI_Get and MPI_Put are issued.  *)
WinLock(p) ==
  /\ pc[p] \in {"lock_win", "unlock_win"}
  /\ WindowFree
  /\ winlock' = p
  /\ pending' = [pending EXCEPT ![p] = {"get", "put"}]
  /\ pc' = [pc EXCEPT ![p] = IF @ = "lock_win" THEN "lock_epoch"
                                               ELSE "unlock_epoch"]
  /\ UNCHANGED <<waitlist, copy, next, wakeups>>

Get(p) ==
  /\ "get" \in pending[p]
  /\ copy' = [copy EXCEPT ![p] = Others(p, waitlist)]
  /\ pending' = [pending EXCEPT ![p] = @ \ {"get"}]
  /\ UNCHANGED <<pc, winlock, waitlist, next, wakeups>>

(* val in Lock and in Unlock.                                              *)
ByteToPut(p) == IF pc[p] = "lock_epoch" THEN 1 ELSE 0

Put(p) ==
  /\ "put" \in pending[p]
  /\ waitlist' = [waitlist EXCEPT ![p] = ByteToPut(p)]
  /\ pending' = [pending EXCEPT ![p] = @ \ {"put"}]
  /\ UNCHANGED <<pc, winlock, copy, next, wakeups>>

(* MPI_Win_unlock completes the epoch and gives the window back.           *)
CloseEpoch(p) ==
  /\ pending[p] = {}
  /\ winlock' = NoRank

(* MPI_Win_unlock of Lock, and the decision taken from waitlistcopy.       *)
LockWinUnlock(p) ==
  /\ pc[p] = "lock_epoch"
  /\ CloseEpoch(p)
  /\ pc' = [pc EXCEPT ![p] = IF SomeoneElse(copy[p]) THEN "recv" ELSE "held"]
  /\ UNCHANGED <<waitlist, copy, pending, next, wakeups>>

(* MPI_Win_unlock of Unlock, and the choice of nextrank.                   *)
UnlockWinUnlock(p) ==
  /\ pc[p] = "unlock_epoch"
  /\ CloseEpoch(p)
  /\ IF SomeoneElse(copy[p])
       THEN /\ pc' = [pc EXCEPT ![p] = "notify"]
            /\ next' = [next EXCEPT ![p] = NextRank(p, copy[p])]
       ELSE /\ pc' = [pc EXCEPT ![p] = "idle"]
            /\ UNCHANGED next
  /\ UNCHANGED <<waitlist, copy, pending, wakeups>>

(* MPI_Send(WAKEUP) to nextrank; Unlock returns.  A send that waits for    *)
(* the matching receive is this step taken just before the Wakeup step.    *)
Notify(p) ==
  /\ pc[p] = "notify"
  /\ wakeups' = [wakeups EXCEPT ![next[p]] = @ + 1]
  /\ next' = [next EXCEPT ![p] = NoRank]
  /\ pc' = [pc EXCEPT ![p] = "idle"]
  /\ UNCHANGED <<winlock, waitlist, copy, pending>>

(* MPI_Recv of a WAKEUP from any source; Lock returns.                     *)
Wakeup(p) ==
  /\ pc[p] = "recv"
  /\ wakeups[p] > 0
  /\ wakeups' = [wakeups EXCEPT ![p] = @ - 1]
  /\ pc' = [pc EXCEPT ![p] = "held"]
  /\ UNCHANGED <<winlock, waitlist, copy, pending, next>>

Step(p) ==
  \/ WinLock(p) \/ Get(p) \/ Put(p)
  \/ LockWinUnlock(p) \/ UnlockWinUnlock(p)
  \/ Notify(p) \/ Wakeup(p)

Next == \E p \in Proc : LockEnter(p) \/ UnlockEnter(p) \/ Step(p)

Spec == Init /\ [][Next]_vars

(* A process inside a call keeps going, MPI delivers, and an owner of the  *)
(* mutex unlocks it some day.  Nobody has to lock.                         *)
FairSpec ==
  Spec /\ \A p \in Proc : WF_vars(Step(p)) /\ WF_vars(UnlockEnter(p))

-----------------------------------------------------------------------------
Holding(p) == pc[p] \in {"held", "unlock_win", "unlock_epoch"}

(* The places the right to the mutex can be in: with a process that holds  *)
(* it, in a WAKEUP under way to p, or with an unlocker about to send one.  *)
Token(p) == \/ Holding(p)
            \/ wakeups[p] > 0
            \/ \E q \in Proc : pc[q] = "notify" /\ next[q] = p

Owner == IF \E p \in Proc : Token(p) THEN CHOOSE p \in Proc : Token(p) ELSE NoRank

(* Between the return of Lock and the end of Unlock's epoch a process is   *)
(* alone, whatever the order of the epochs of the others.                  *)
MutualExclusion == \A p, q \in Proc : Holding(p) /\ Holding(q) => p = q

(* The right to the mutex is never duplicated: while it is on its way      *)
(* (a WAKEUP chosen or sent) nobody holds it, at most one WAKEUP exists,   *)
(* and it goes to a process that sits in MPI_Recv and not, too late, to    *)
(* one that will lock again.                                               *)
OneToken ==
  /\ \A p, q \in Proc : Token(p) /\ Token(q) => p = q
  /\ \A q, r \in Proc : pc[q] = "notify" /\ pc[r] = "notify" => q = r
  /\ \A p \in Proc :
        /\ wakeups[p] > 0 => /\ pc[p] = "recv"
                             /\ wakeups[p] = 1
                             /\ \A q \in Proc : pc[q] # "notify"
        /\ pc[p] = "notify" => pc[next[p]] = "recv"

(* No wakeup is lost: while a process waits in MPI_Recv, somebody holds    *)
(* the mutex or a WAKEUP is on its way.                                    *)
NoLostWakeup == (\E p \in Proc : pc[p] = "recv") => (\E q \in Proc : Token(q))

(* The relations between the bytes of the window, the epochs and the       *)
(* local copies that make the token invariant inductive.                   *)
Registered(p) == \/ pc[p] \in {"recv", "held", "unlock_win"}
                 \/ pc[p] = "lock_epoch" /\ "put" \notin pending[p]
                 \/ pc[p] = "unlock_epoch" /\ "put" \in pending[p]

WindowInv ==
  /\ \A p \in Proc : waitlist[p] = 1 <=> Registered(p)
  /\ \A p \in Proc : pc[p] \in {"lock_epoch", "unlock_epoch"} <=> winlock = p
  /\ \A p \in Proc : pending[p] # {} => winlock = p
  /\ \A p \in Proc : winlock = p /\ "get" \notin pending[p]
                       => copy[p] = Others(p, waitlist)

NextInv == \A p \in Proc : pc[p] = "notify" => next[p] \in Proc

Inv == TypeOK /\ WindowInv /\ NextInv /\ OneToken /\ NoLostWakeup

(* How far the turn is from p.                                             *)
Gap(o, p) == IF p >= o THEN p - o ELSE p - o + N

(* Fairness "in order": while p waits, every change of owner brings the    *)
(* turn closer to p, so at most N - 1 others get the mutex before p does.  *)
BoundedBypass ==
  [][\A p \in Proc :
       /\ pc[p] = "recv" /\ pc'[p] = "recv"
       /\ Owner' # Owner
       => Gap(Owner', p) < Gap(Owner, p)]_vars

(* Lock and Unlock implement the lock handed round the ring, its progress  *)
(* included: the lock passes at the end of Unlock's epoch.                 *)
Waiting == {p \in Proc : pc[p] = "recv" /\ ~Token(p)}
RRL == INSTANCE RoundRobinLock WITH owner <- Owner, waiting <- Waiting
ImplementsRoundRobin == RRL!FairSpec

(* Every call returns: a process that waits in MPI_Recv gets the mutex and *)
(* Unlock finds its turn at the window, since every locker that delays     *)
(* them parks in MPI_Recv in the end; Lock gets to the window if the MPI   *)
(* library lets no process starve at MPI_Win_lock.                         *)
WindowStarvesNobody == \A p \in Proc : SF_vars(WinLock(p))
CallsReturn ==
  /\ \A p \in Proc : pc[p] = "recv" ~> pc[p] = "held"
  /\ \A p \in Proc : pc[p] = "unlock_win" ~> pc[p] = "idle"
  /\ WindowStarvesNobody => \A p \in Proc : pc[p] = "lock_win" ~> pc[p] = "held"
=============================================================================
