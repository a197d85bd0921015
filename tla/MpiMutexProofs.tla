--------------------------- MODULE MpiMutexProofs ---------------------------
(***************************************************************************)
(* Proofs, for every number of processes, of the safety of MpiMutex.       *)
(***************************************************************************)
EXTENDS MpiMutex, SharedLemmas

(* The loops over waitlistcopy stop at the first nonzero byte, or at to.   *)
LEMMA ScanStops ==
  ASSUME NEW c, NEW from \in Nat, NEW to \in Nat, from <= to
  PROVE  /\ Scan(c, from, to) \in from .. to
         /\ StopsAt(c, from, to, Scan(c, from, to))
<1> DEFINE S == {i \in from .. to : i < to => c[i] # 0}
<1>1. PICK m \in S : \A k \in S : m <= k
  <2>1. to \in S /\ S \subseteq Nat
    OBVIOUS
  <2>2. QED
    BY <2>1, LeastElement
<1>2. m \in from .. to /\ StopsAt(c, from, to, m)
  BY <1>1 DEF StopsAt
<1>3. QED
  BY <1>2 DEF Scan

LEMMA OthersType ==
  ASSUME NEW p \in Proc, NEW wl \in [Proc -> {0, 1}]
  PROVE  Others(p, wl) \in [Slot -> {0, 1}]
BY NAssumption DEF Others, RankOfSlot, Slot, Proc

(* waitlistcopy has a nonzero byte iff some other rank's byte is set.      *)
LEMMA SomeoneElseMeaning ==
  ASSUME NEW p \in Proc, NEW wl \in [Proc -> {0, 1}]
  PROVE  SomeoneElse(Others(p, wl)) <=> \E q \in Proc \ {p} : wl[q] = 1
<1>1. ASSUME NEW i \in Slot, Others(p, wl)[i] # 0
      PROVE  \E q \in Proc \ {p} : wl[q] = 1
  <2>1. /\ RankOfSlot(p, i) \in Proc \ {p}
        /\ Others(p, wl)[i] = wl[RankOfSlot(p, i)]
    BY NAssumption DEF Others, RankOfSlot, Slot, Proc
  <2>2. QED
    BY <1>1, <2>1
<1>2. ASSUME NEW q \in Proc \ {p}, wl[q] = 1
      PROVE  \E i \in Slot : Others(p, wl)[i] # 0
  <2> DEFINE i == IF q < p THEN q ELSE q - 1
  <2>1. i \in Slot /\ RankOfSlot(p, i) = q
    BY NAssumption DEF RankOfSlot, Slot, Proc
  <2>2. Others(p, wl)[i] = wl[q]
    BY <2>1 DEF Others
  <2>3. QED
    BY <1>2, <2>1, <2>2
<1>3. QED
  BY <1>1, <1>2 DEF SomeoneElse

(* The search finds a set byte other than the caller's (the assertion in   *)
(* MPIMUTEX_Unlock holds), and the first one round the ring.               *)
LEMMA NextRankMeaning ==
  ASSUME NEW p \in Proc, NEW wl \in [Proc -> {0, 1}],
         \E q \in Proc \ {p} : wl[q] = 1
  PROVE  \E n \in Proc \ {p} :
           /\ NextRank(p, Others(p, wl)) = n
           /\ wl[n] = 1
           /\ \A r \in Proc \ {p} : wl[r] = 1 => Gap(p, n) <= Gap(p, r)
<1> DEFINE c == Others(p, wl)
           i == Scan(c, p, N - 1)
           k == Scan(c, 0, p)
<1>0. p \in Nat /\ N \in Nat /\ p <= N - 1 /\ N - 1 \in Nat
  BY NAssumption DEF Proc
<1>1. /\ i \in p .. N - 1
      /\ \A j \in p .. i - 1 : c[j] = 0
      /\ i < N - 1 => c[i] # 0
  <2> HIDE DEF c
  <2>1. i \in p .. N - 1 /\ StopsAt(c, p, N - 1, i)
    BY <1>0, ScanStops
  <2>2. QED
    BY <2>1 DEF StopsAt
<1>2. /\ k \in 0 .. p
      /\ \A j \in 0 .. k - 1 : c[j] = 0
      /\ k < p => c[k] # 0
  <2> HIDE DEF c
  <2>1. k \in 0 .. p /\ StopsAt(c, 0, p, k)
    BY <1>0, ScanStops
  <2>2. QED
    BY <2>1 DEF StopsAt
<1>3. \A r \in Proc : r < p => r \in Slot /\ c[r] = wl[r]
  BY <1>0 DEF Others, RankOfSlot, Slot, Proc
<1>4. \A r \in Proc : r > p => r - 1 \in Slot /\ c[r - 1] = wl[r]
  BY <1>0 DEF Others, RankOfSlot, Slot, Proc
<1> HIDE DEF c, i, k
<1>5. CASE i < N - 1
  <2>1. NextRank(p, c) = i + 1
    BY <1>5 DEF NextRank, i
  <2>2. i + 1 \in Proc /\ i + 1 > p /\ (i + 1) - 1 = i
    BY <1>5, <1>1, <1>0 DEF Proc
  <2>3. wl[i + 1] # 0
    BY <2>2, <1>4, <1>1, <1>5
  <2>4. ASSUME NEW r \in Proc \ {p}, wl[r] = 1 PROVE Gap(p, i + 1) <= Gap(p, r)
    <3>1. CASE r < p
      BY <3>1, <2>2, <1>0 DEF Gap, Proc
    <3>2. CASE r > p
      <4>1. c[r - 1] = 1
        BY <3>2, <2>4, <1>4
      <4>2. ~ (r - 1 \in p .. i - 1)
        BY <4>1, <1>1
      <4>3. r >= i + 1
        BY <4>2, <3>2, <1>0, <1>1 DEF Proc
      <4>4. QED
        BY <4>3, <3>2, <2>2, <1>0, <1>1 DEF Gap, Proc
    <3>3. QED
      BY <3>1, <3>2, <1>0 DEF Proc
  <2>5. i + 1 \in Proc \ {p} /\ wl[i + 1] = 1
    BY <2>2, <2>3, <1>0, <1>1
  <2>6. QED
    BY <2>1, <2>4, <2>5 DEF c
<1>6. CASE ~ (i < N - 1)
  <2>1. NextRank(p, c) = k
    BY <1>6 DEF NextRank, i, k
  <2>2. \A r \in Proc : r > p => wl[r] = 0
    <3> SUFFICES ASSUME NEW r \in Proc, r > p PROVE wl[r] = 0
      OBVIOUS
    <3>1. r - 1 \in p .. i - 1
      BY <1>6, <1>1, <1>0 DEF Proc
    <3>2. QED
      BY <3>1, <1>1, <1>4
  <2>3. PICK q \in Proc : q < p /\ wl[q] = 1
    BY <2>2, <1>0 DEF Proc
  <2>4. k <= q
    <3>1. c[q] = 1
      BY <2>3, <1>3
    <3>2. ~ (q \in 0 .. k - 1)
      BY <3>1, <1>2
    <3>3. QED
      BY <3>2, <1>2, <1>0 DEF Proc
  <2>5. k \in Proc /\ k < p /\ wl[k] # 0
    <3>1. k \in Proc /\ k < p
      BY <2>3, <2>4, <1>2, <1>0 DEF Proc
    <3>2. QED
      BY <3>1, <1>2, <1>3
  <2>6. ASSUME NEW r \in Proc \ {p}, wl[r] = 1 PROVE Gap(p, k) <= Gap(p, r)
    <3>1. r < p
      BY <2>6, <2>2, <1>0 DEF Proc
    <3>2. c[r] = 1
      BY <3>1, <2>6, <1>3
    <3>3. ~ (r \in 0 .. k - 1)
      BY <3>2, <1>2
    <3>4. k <= r
      BY <3>3, <1>2, <1>0 DEF Proc
    <3>5. QED
      BY <3>4, <3>1, <2>5, <1>0 DEF Gap, Proc
  <2>7. k \in Proc \ {p} /\ wl[k] = 1
    BY <2>5, <1>0
  <2>8. QED
    BY <2>1, <2>6, <2>7 DEF c
<1>7. QED
  BY <1>5, <1>6
-----------------------------------------------------------------------------
(* Preservation of the inductive invariant, one lemma per part.            *)
LEMMA TypeStep == Inv /\ [Next]_vars => TypeOK'
<1> SUFFICES ASSUME Inv, [Next]_vars PROVE TypeOK'
  OBVIOUS
<1> USE DEF Inv, TypeOK, PC
<1>1. ASSUME NEW p \in Proc, LockEnter(p) PROVE TypeOK'
  BY <1>1 DEF LockEnter
<1>2. ASSUME NEW p \in Proc, UnlockEnter(p) PROVE TypeOK'
  BY <1>2 DEF UnlockEnter
<1>3. ASSUME NEW p \in Proc, WinLock(p) PROVE TypeOK'
  BY <1>3 DEF WinLock, WindowFree
<1>4. ASSUME NEW p \in Proc, Get(p) PROVE TypeOK'
  <2>1. Others(p, waitlist) \in [Slot -> {0, 1}]
    BY OthersType
  <2>2. QED
    BY <1>4, <2>1 DEF Get
<1>5. ASSUME NEW p \in Proc, Put(p) PROVE TypeOK'
  BY <1>5 DEF Put, ByteToPut
<1>6. ASSUME NEW p \in Proc, LockWinUnlock(p) PROVE TypeOK'
  BY <1>6 DEF LockWinUnlock, CloseEpoch
<1>7. ASSUME NEW p \in Proc, UnlockWinUnlock(p) PROVE TypeOK'
  <2>1. SomeoneElse(copy[p]) => NextRank(p, copy[p]) \in Proc
    <3>1. winlock = p /\ copy[p] = Others(p, waitlist)
      BY <1>7 DEF UnlockWinUnlock, CloseEpoch, WindowInv
    <3>2. QED
      BY <3>1, SomeoneElseMeaning, NextRankMeaning
  <2>2. QED
    BY <1>7, <2>1 DEF UnlockWinUnlock, CloseEpoch
<1>8. ASSUME NEW p \in Proc, Notify(p) PROVE TypeOK'
  BY <1>8 DEF Notify, NextInv
<1>9. ASSUME NEW p \in Proc, Wakeup(p) PROVE TypeOK'
  BY <1>9 DEF Wakeup
<1>10. CASE UNCHANGED vars
  BY <1>10 DEF vars
<1>11. QED
  BY <1>1, <1>2, <1>3, <1>4, <1>5, <1>6, <1>7, <1>8, <1>9, <1>10 DEF Next, Step

LEMMA WindowStep == Inv /\ [Next]_vars => WindowInv'
<1> SUFFICES ASSUME Inv, [Next]_vars PROVE WindowInv'
  OBVIOUS
<1>0. NoRank \notin Proc
  BY NAssumption DEF NoRank, Proc
<1> USE <1>0 DEF Inv, TypeOK, PC, WindowInv, Registered
<1>1. ASSUME NEW p \in Proc, LockEnter(p) PROVE WindowInv'
  BY <1>1 DEF LockEnter
<1>2. ASSUME NEW p \in Proc, UnlockEnter(p) PROVE WindowInv'
  BY <1>2 DEF UnlockEnter
<1>3. ASSUME NEW p \in Proc, WinLock(p) PROVE WindowInv'
  BY <1>3 DEF WinLock, WindowFree
<1>4. ASSUME NEW p \in Proc, Get(p) PROVE WindowInv'
  BY <1>4 DEF Get, Others, RankOfSlot
<1>5. ASSUME NEW p \in Proc, Put(p) PROVE WindowInv'
  <2>1. winlock = p /\ \A q \in Proc : winlock = q => q = p
    BY <1>5 DEF Put, ByteToPut
  <2>2. \A q \in Proc \ {p} : waitlist'[q] = waitlist[q]
    BY <1>5 DEF Put, ByteToPut
  <2>3. Others(p, waitlist') = Others(p, waitlist)
    BY <2>2, NAssumption DEF Others, RankOfSlot, Slot, Proc
  <2>4. (\A q \in Proc : waitlist[q] = 1 <=> Registered(q))'
    BY <1>5, <2>1, <2>2 DEF Put, ByteToPut
  <2>5. (\A q \in Proc : winlock = q /\ "get" \notin pending[q]
                             => copy[q] = Others(q, waitlist))'
    BY <1>5, <2>1, <2>3 DEF Put, ByteToPut
  <2>6. QED
    BY <1>5, <2>4, <2>5 DEF Put, ByteToPut
<1>6. ASSUME NEW p \in Proc, LockWinUnlock(p) PROVE WindowInv'
  BY <1>6 DEF LockWinUnlock, CloseEpoch
<1>7. ASSUME NEW p \in Proc, UnlockWinUnlock(p) PROVE WindowInv'
  BY <1>7 DEF UnlockWinUnlock, CloseEpoch
<1>8. ASSUME NEW p \in Proc, Notify(p) PROVE WindowInv'
  BY <1>8 DEF Notify, NextInv
<1>9. ASSUME NEW p \in Proc, Wakeup(p) PROVE WindowInv'
  BY <1>9 DEF Wakeup
<1>10. CASE UNCHANGED vars
  BY <1>10 DEF vars
<1>11. QED
  BY <1>1, <1>2, <1>3, <1>4, <1>5, <1>6, <1>7, <1>8, <1>9, <1>10 DEF Next, Step

LEMMA TokenStep == Inv /\ [Next]_vars => (NextInv /\ OneToken /\ NoLostWakeup)'
<1> DEFINE TokenInv == NextInv /\ OneToken /\ NoLostWakeup
<1> SUFFICES ASSUME Inv, [Next]_vars PROVE TokenInv'
  OBVIOUS
<1>0. NoRank \notin Proc
  BY NAssumption DEF NoRank, Proc
<1> USE <1>0 DEF Inv, TypeOK, PC, NextInv, OneToken, NoLostWakeup, Token, Holding
<1>1. ASSUME NEW p \in Proc, LockEnter(p) PROVE TokenInv'
  BY <1>1 DEF LockEnter, WindowInv, Registered
<1>2. ASSUME NEW p \in Proc, UnlockEnter(p) PROVE TokenInv'
  BY <1>2 DEF UnlockEnter, WindowInv, Registered
<1>3. ASSUME NEW p \in Proc, WinLock(p) PROVE TokenInv'
  BY <1>3 DEF WinLock, WindowFree, WindowInv, Registered
<1>4. ASSUME NEW p \in Proc, Get(p) PROVE TokenInv'
  BY <1>4 DEF Get, WindowInv, Registered
<1>5. ASSUME NEW p \in Proc, Put(p) PROVE TokenInv'
  BY <1>5 DEF Put, ByteToPut, WindowInv, Registered
<1>6. ASSUME NEW p \in Proc, LockWinUnlock(p) PROVE TokenInv'
  <2>1. /\ copy[p] = Others(p, waitlist)
        /\ \A q \in Proc \ {p} : /\ pc[q] \notin {"lock_epoch", "unlock_epoch"}
                                 /\ waitlist[q] = 1 <=> pc[q] \in {"recv", "held", "unlock_win"}
    BY <1>6 DEF LockWinUnlock, CloseEpoch, WindowInv, Registered
  <2>2. SomeoneElse(copy[p]) <=> \E q \in Proc \ {p} : waitlist[q] = 1
    BY <2>1, SomeoneElseMeaning
  <2>3. CASE SomeoneElse(copy[p])
    <3>1. \E q \in Proc : Token(q)
      BY <2>1, <2>2, <2>3
    <3>2. QED
      BY <1>6, <2>3, <3>1 DEF LockWinUnlock, CloseEpoch
  <2>4. CASE ~SomeoneElse(copy[p])
    <3>1. \A q \in Proc : pc[q] \notin {"recv", "held", "unlock_win", "unlock_epoch"}
      BY <1>6, <2>1, <2>2, <2>4 DEF LockWinUnlock, CloseEpoch
    <3>2. \A q \in Proc : pc[q] # "notify" /\ ~(wakeups[q] > 0)
      BY <3>1
    <3>3. QED
      BY <1>6, <2>4, <3>1, <3>2 DEF LockWinUnlock, CloseEpoch
  <2>5. QED
    BY <2>3, <2>4
<1>7. ASSUME NEW p \in Proc, UnlockWinUnlock(p) PROVE TokenInv'
  <2>1. /\ copy[p] = Others(p, waitlist)
        /\ \A q \in Proc \ {p} : /\ pc[q] \notin {"lock_epoch", "unlock_epoch"}
                                 /\ waitlist[q] = 1 <=> pc[q] \in {"recv", "held", "unlock_win"}
    BY <1>7 DEF UnlockWinUnlock, CloseEpoch, WindowInv, Registered
  <2>2. SomeoneElse(copy[p]) <=> \E q \in Proc \ {p} : waitlist[q] = 1
    BY <2>1, SomeoneElseMeaning
  <2>3. Token(p)
    BY <1>7 DEF UnlockWinUnlock, CloseEpoch
  <2>4. \A q \in Proc : pc[q] # "notify" /\ ~(wakeups[q] > 0)
    BY <1>7, <2>3 DEF UnlockWinUnlock, CloseEpoch
  <2>5. \A q \in Proc \ {p} : ~Holding(q)
    BY <2>3
  <2>6. CASE SomeoneElse(copy[p])
    <3>1. PICK n \in Proc \ {p} : NextRank(p, copy[p]) = n /\ waitlist[n] = 1
      BY <2>1, <2>2, <2>6, NextRankMeaning
    <3>2. pc[n] = "recv"
      BY <2>1, <2>5, <3>1
    <3>3. /\ next' = [next EXCEPT ![p] = n]
          /\ pc' = [pc EXCEPT ![p] = "notify"]
          /\ wakeups' = wakeups
      BY <1>7, <2>6, <3>1 DEF UnlockWinUnlock, CloseEpoch
    <3>4. \A q \in Proc : Token(q)' <=> q = n
      BY <2>4, <2>5, <3>2, <3>3
    <3>5. QED
      BY <2>4, <3>2, <3>3, <3>4
  <2>7. CASE ~SomeoneElse(copy[p])
    <3>1. \A q \in Proc : pc[q] # "recv"
      BY <1>7, <2>1, <2>2, <2>7 DEF UnlockWinUnlock, CloseEpoch
    <3>2. QED
      BY <1>7, <2>4, <2>5, <2>7, <3>1 DEF UnlockWinUnlock, CloseEpoch
  <2>8. QED
    BY <2>6, <2>7
<1>8. ASSUME NEW p \in Proc, Notify(p) PROVE TokenInv'
  BY <1>8 DEF Notify, WindowInv, Registered
<1>9. ASSUME NEW p \in Proc, Wakeup(p) PROVE TokenInv'
  BY <1>9 DEF Wakeup, WindowInv, Registered
<1>10. CASE UNCHANGED vars
  BY <1>10 DEF vars
<1>11. QED
  BY <1>1, <1>2, <1>3, <1>4, <1>5, <1>6, <1>7, <1>8, <1>9, <1>10 DEF Next, Step

-----------------------------------------------------------------------------
LEMMA InitInv == Init => Inv
BY NAssumption DEF Init, Inv, TypeOK, PC, NoRank, Proc, WindowInv, Registered,
                   NextInv, OneToken, NoLostWakeup, Token, Holding

(* The conjunction Inv is an invariant: it is inductive.                   *)
THEOREM Invariance == Spec => []Inv
<1>1. Inv /\ [Next]_vars => Inv'
  BY TypeStep, WindowStep, TokenStep DEF Inv
<1>2. QED
  BY InitInv, <1>1, PTL DEF Spec

(* Every variable keeps its type: rank searches end inside 0 .. N-1.       *)
THEOREM TypeCorrect == Spec => []TypeOK
<1>1. Inv => TypeOK
  BY DEF Inv
<1>2. QED
  BY <1>1, Invariance, PTL

(* At most one process is between the return of MPIMUTEX_Lock and the end  *)
(* of the window epoch of MPIMUTEX_Unlock, for every number of processes.  *)
THEOREM Exclusion == Spec => []MutualExclusion
<1>1. Inv => MutualExclusion
  BY DEF Inv, OneToken, Token, MutualExclusion
<1>2. QED
  BY <1>1, Invariance, PTL

(* One WAKEUP at most exists, and it goes to a process that waits for it.  *)
THEOREM TokenUnique == Spec => []OneToken
<1>1. Inv => OneToken
  BY DEF Inv
<1>2. QED
  BY <1>1, Invariance, PTL

(* While a process waits in MPI_Recv, the mutex is held or a WAKEUP is on  *)
(* its way.                                                                *)
THEOREM WakeupNotLost == Spec => []NoLostWakeup
<1>1. Inv => NoLostWakeup
  BY DEF Inv
<1>2. QED
  BY <1>1, Invariance, PTL

-----------------------------------------------------------------------------
(* Owner is the process that has the token, if there is one.               *)
LEMMA OwnerIs ==
  ASSUME OneToken
  PROVE  /\ \A p \in Proc : Token(p) => Owner = p
         /\ (\A p \in Proc : ~Token(p)) => Owner = NoRank
<1>1. ASSUME NEW p \in Proc, Token(p) PROVE Owner = p
  <2>1. \A q \in Proc : Token(q) => q = p
    BY <1>1 DEF OneToken
  <2>2. QED
    BY <1>1, <2>1 DEF Owner
<1>2. QED
  BY <1>1 DEF Owner

LEMMA OwnerIsPrime ==
  ASSUME OneToken'
  PROVE  /\ \A p \in Proc : Token(p)' => Owner' = p
         /\ (\A p \in Proc : ~Token(p)') => Owner' = NoRank
<1>1. ASSUME NEW p \in Proc, Token(p)' PROVE Owner' = p
  <2>1. \A q \in Proc : Token(q)' => q = p
    BY <1>1 DEF OneToken
  <2>2. QED
    BY <1>1, <2>1 DEF Owner
<1>2. QED
  BY <1>1 DEF Owner

(* A step that moves no token and lets nobody enter or leave MPI_Recv      *)
(* without one leaves the abstract lock as it is.                          *)
LEMMA Stutter ==
  ASSUME Inv, Inv',
         \A q \in Proc : Token(q)' <=> Token(q),
         \A q \in Proc : ~Token(q) => (pc'[q] = "recv" <=> pc[q] = "recv")
  PROVE  Owner' = Owner /\ Waiting' = Waiting
<1>1. OneToken /\ OneToken'
  BY DEF Inv
<1>2. Owner' = Owner
  <2>1. CASE \E p \in Proc : Token(p)
    BY <2>1, <1>1, OwnerIs, OwnerIsPrime
  <2>2. CASE \A p \in Proc : ~Token(p)
    BY <2>2, <1>1, OwnerIs, OwnerIsPrime
  <2>3. QED
    BY <2>1, <2>2
<1>3. Waiting' = Waiting
  BY DEF Waiting
<1>4. QED
  BY <1>2, <1>3

(* The end of Lock's epoch is the arrival at the abstract lock.            *)
LEMMA LockIsArrive ==
  ASSUME Inv, Inv', NEW p \in Proc, LockWinUnlock(p)
  PROVE  RRL!Arrive(p)
<1> USE DEF Inv, TypeOK, PC
<1>1. /\ copy[p] = Others(p, waitlist)
      /\ \A q \in Proc \ {p} : /\ pc[q] \notin {"lock_epoch", "unlock_epoch"}
                               /\ waitlist[q] = 1 <=> pc[q] \in {"recv", "held", "unlock_win"}
  BY DEF LockWinUnlock, CloseEpoch, WindowInv, Registered
<1>2. SomeoneElse(copy[p]) <=> \E q \in Proc \ {p} : waitlist[q] = 1
  <2>1. waitlist \in [Proc -> {0, 1}]
    OBVIOUS
  <2>2. QED
    <3> HIDE DEF Inv, TypeOK, PC
    <3>1. QED
      BY <1>1, <2>1, SomeoneElseMeaning
<1>3. ~Token(p)
  BY DEF LockWinUnlock, CloseEpoch, Token, Holding, OneToken
<1>4. \A q \in Proc \ {p} : Token(q)' <=> Token(q)
  BY DEF LockWinUnlock, CloseEpoch, Token, Holding
<1>5. \A q \in Proc \ {p} : pc'[q] = pc[q]
  BY DEF LockWinUnlock, CloseEpoch
<1>6. p # NoRank
  BY NAssumption DEF Proc, NoRank
<1>7. CASE SomeoneElse(copy[p])
  <2>1. PICK o \in Proc : Token(o)
    BY <1>1, <1>2, <1>7 DEF NoLostWakeup, Token, Holding
  <2>2. Token(o)' /\ o # p
    BY <1>3, <1>4, <2>1
  <2>3. Owner = o /\ Owner' = o
    BY <2>1, <2>2, OwnerIs, OwnerIsPrime
  <2>4. o # NoRank
    BY NAssumption DEF Proc, NoRank
  <2>5. pc'[p] = "recv" /\ pc[p] # "recv" /\ ~Token(p)'
    BY <1>7, <2>2 DEF LockWinUnlock, CloseEpoch, OneToken
  <2>6. Waiting' = Waiting \cup {p} /\ p \notin Waiting
    BY <1>4, <1>5, <2>5 DEF Waiting
  <2>7. QED
    BY <2>2, <2>3, <2>4, <2>6 DEF RRL!Arrive, RRL!Nobody, NoRank
<1>8. CASE ~SomeoneElse(copy[p])
  <2>1. pc'[p] = "held" /\ pc[p] = "lock_epoch"
    BY <1>8 DEF LockWinUnlock, CloseEpoch
  <2>2. \A q \in Proc : ~Token(q)
    BY <1>1, <1>2, <1>3, <1>8 DEF Token, Holding, OneToken
  <2>3. Token(p)'
    BY <2>1 DEF Token, Holding
  <2>4. Owner = NoRank /\ Owner' = p
    BY <2>2, <2>3, OwnerIs, OwnerIsPrime
  <2>5. Waiting' = Waiting /\ p \notin Waiting
    BY <1>4, <1>5, <2>1 DEF Waiting
  <2>6. QED
    BY <1>6, <2>4, <2>5 DEF RRL!Arrive, RRL!Nobody, NoRank
<1>9. QED
  BY <1>7, <1>8

(* The end of Unlock's epoch hands the abstract lock to the next waiter.   *)
LEMMA UnlockIsRelease ==
  ASSUME Inv, Inv', NEW p \in Proc, UnlockWinUnlock(p)
  PROVE  RRL!Release(p)
<1> USE DEF Inv, TypeOK, PC
<1>1. /\ copy[p] = Others(p, waitlist)
      /\ \A q \in Proc \ {p} : /\ pc[q] \notin {"lock_epoch", "unlock_epoch"}
                               /\ waitlist[q] = 1 <=> pc[q] \in {"recv", "held", "unlock_win"}
  BY DEF UnlockWinUnlock, CloseEpoch, WindowInv, Registered
<1>2. waitlist \in [Proc -> {0, 1}]
  OBVIOUS
<1>3. Token(p) /\ Owner = p /\ \A q \in Proc \ {p} : ~Token(q)
  <2>1. Token(p)
    BY DEF UnlockWinUnlock, CloseEpoch, Token, Holding
  <2>2. QED
    BY <2>1, OwnerIs DEF OneToken
<1>4. Waiting = {q \in Proc \ {p} : waitlist[q] = 1}
  <2>1. \A q \in Proc \ {p} : waitlist[q] = 1 <=> pc[q] = "recv"
    BY <1>1, <1>3 DEF Token, Holding
  <2>2. QED
    BY <1>3, <2>1 DEF Waiting, UnlockWinUnlock, CloseEpoch
<1>5. SomeoneElse(copy[p]) <=> Waiting # {}
  <2> HIDE DEF Inv, TypeOK, PC
  <2>1. QED
    BY <1>1, <1>2, <1>4, SomeoneElseMeaning
<1>6. \A q \in Proc \ {p} : pc'[q] = pc[q]
  BY DEF UnlockWinUnlock, CloseEpoch
<1>7. CASE SomeoneElse(copy[p])
  <2>1. PICK n \in Proc \ {p} :
          /\ NextRank(p, copy[p]) = n
          /\ waitlist[n] = 1
          /\ \A r \in Proc \ {p} : waitlist[r] = 1 => Gap(p, n) <= Gap(p, r)
    <3> HIDE DEF Inv, TypeOK, PC
    <3>1. QED
      BY <1>1, <1>2, <1>4, <1>5, <1>7, NextRankMeaning
  <2>2. n \in Waiting /\ \A r \in Waiting : RRL!Dist(p, n) <= RRL!Dist(p, r)
    BY <2>1, <1>4, NAssumption DEF Gap, RRL!Dist, Proc
  <2>3. \A q \in Waiting : (\A r \in Waiting : RRL!Dist(p, q) <= RRL!Dist(p, r)) => q = n
    <3>1. ASSUME NEW q \in Waiting, RRL!Dist(p, q) <= RRL!Dist(p, n) PROVE q = n
      <4>1. q \in Proc \ {p} /\ RRL!Dist(p, n) <= RRL!Dist(p, q)
        BY <2>2, <1>4
      <4>2. p \in Nat /\ n \in Nat /\ q \in Nat /\ q < N /\ n < N /\ N \in Nat
        BY <4>1, <2>1, NAssumption DEF Proc
      <4>3. QED
        <5> HIDE DEF Inv, TypeOK, PC
        <5>1. QED
          BY <3>1, <4>1, <4>2 DEF RRL!Dist
    <3>2. QED
      BY <2>2, <3>1
  <2>4. RRL!Successor(p, Waiting) = n
    BY <2>2, <2>3 DEF RRL!Successor
  <2>5. pc'[p] = "notify" /\ next'[p] = n
    BY <1>7, <2>1 DEF UnlockWinUnlock, CloseEpoch
  <2>6. Token(n)' /\ Owner' = n
    <3>1. Token(n)'
      BY <2>5 DEF Token
    <3>2. QED
      BY <3>1, <2>1, OwnerIsPrime
  <2>7. \A q \in Proc : q # n => ~Token(q)'
    BY <2>1, <2>6 DEF OneToken
  <2>8. Waiting' = Waiting \ {n}
    <3>1. \A q \in Proc : q \in Waiting' <=> q \in Waiting /\ q # n
      BY <1>3, <1>6, <2>5, <2>6, <2>7 DEF Waiting, UnlockWinUnlock, CloseEpoch
    <3>2. QED
      BY <3>1 DEF Waiting
  <2>9. QED
    BY <1>3, <1>5, <1>7, <2>4, <2>6, <2>8 DEF RRL!Release
<1>8. CASE ~SomeoneElse(copy[p])
  <2>1. \A q \in Proc : ~Token(q)'
    <3>1. pc[p] = "unlock_epoch" /\ pc' = [pc EXCEPT ![p] = "idle"] /\ wakeups' = wakeups
      BY <1>8 DEF UnlockWinUnlock, CloseEpoch
    <3>2. \A q \in Proc : pc[q] # "notify"
      BY <1>3, <3>1 DEF Token, OneToken, NextInv
    <3>3. \A q \in Proc : ~(wakeups[q] > 0)
      BY <1>3, <3>1 DEF Token, OneToken
    <3>4. QED
      BY <1>3, <3>1, <3>2, <3>3 DEF Token, Holding
  <2>2. Owner' = NoRank
    BY <2>1, OwnerIsPrime
  <2>3. Waiting = {} /\ Waiting' = {}
    BY <1>5, <1>6, <1>8, <1>3 DEF Waiting, UnlockWinUnlock, CloseEpoch
  <2>4. QED
    BY <1>3, <2>2, <2>3 DEF RRL!Release, RRL!Nobody, NoRank
<1>9. QED
  BY <1>7, <1>8

(* Every other step moves no token.                                        *)
LEMMA OtherIsStutter ==
  ASSUME Inv, Inv', NEW p \in Proc,
         \/ LockEnter(p) \/ UnlockEnter(p) \/ WinLock(p) \/ Get(p) \/ Put(p)
         \/ Notify(p) \/ Wakeup(p)
  PROVE  Owner' = Owner /\ Waiting' = Waiting
<1> SUFFICES /\ \A q \in Proc : Token(q)' <=> Token(q)
             /\ \A q \in Proc : ~Token(q) => (pc'[q] = "recv" <=> pc[q] = "recv")
  BY Stutter
<1> USE DEF Inv, TypeOK, PC, Token, Holding, OneToken, NextInv
<1>1. CASE LockEnter(p)
  BY <1>1 DEF LockEnter
<1>2. CASE UnlockEnter(p)
  BY <1>2 DEF UnlockEnter
<1>3. CASE WinLock(p)
  BY <1>3 DEF WinLock, WindowFree
<1>4. CASE Get(p)
  BY <1>4 DEF Get
<1>5. CASE Put(p)
  BY <1>5 DEF Put, ByteToPut
<1>6. CASE Notify(p)
  BY <1>6 DEF Notify
<1>7. CASE Wakeup(p)
  BY <1>7 DEF Wakeup
<1>8. QED
  BY <1>1, <1>2, <1>3, <1>4, <1>5, <1>6, <1>7

(* MPIMUTEX_Lock and MPIMUTEX_Unlock implement the lock that is handed     *)
(* round the ring of ranks (its safety part: fairness is model-checked).   *)
THEOREM Refinement == Spec => RRL!Spec
<1>1. Init => RRL!Init
  <2>1. SUFFICES ASSUME Init PROVE RRL!Init
    OBVIOUS
  <2>2. Inv
    BY <2>1, InitInv
  <2>3. \A q \in Proc : ~Token(q) /\ pc[q] # "recv"
    BY <2>1 DEF Init, Token, Holding
  <2>4. Owner = NoRank
    BY <2>2, <2>3, OwnerIs DEF Inv
  <2>5. QED
    BY <2>3, <2>4 DEF RRL!Init, RRL!Nobody, NoRank, Waiting
<1>2. Inv /\ Inv' /\ [Next]_vars => [RRL!Next]_(RRL!vars)
  <2> SUFFICES ASSUME Inv, Inv', [Next]_vars PROVE [RRL!Next]_(RRL!vars)
    OBVIOUS
  <2>1. ASSUME NEW p \in Proc, LockWinUnlock(p) PROVE RRL!Next
    BY <2>1, LockIsArrive DEF RRL!Next, RRL!Proc, Proc
  <2>2. ASSUME NEW p \in Proc, UnlockWinUnlock(p) PROVE RRL!Next
    BY <2>2, UnlockIsRelease DEF RRL!Next, RRL!Proc, Proc
  <2>3. ASSUME NEW p \in Proc,
               \/ LockEnter(p) \/ UnlockEnter(p) \/ WinLock(p) \/ Get(p)
               \/ Put(p) \/ Notify(p) \/ Wakeup(p)
        PROVE  UNCHANGED RRL!vars
    BY <2>3, OtherIsStutter DEF RRL!vars
  <2>4. CASE UNCHANGED vars
    BY <2>4 DEF vars, RRL!vars, Owner, Waiting, Token, Holding
  <2>5. QED
    BY <2>1, <2>2, <2>3, <2>4 DEF Next, Step
<1>3. QED
  BY <1>1, <1>2, Invariance, PTL DEF Spec, RRL!Spec

(* While a process waits, each change of owner brings the turn closer to   *)
(* it: it is passed over at most N - 1 times, each time by another rank.   *)
THEOREM Fairness == Spec => BoundedBypass
<1> DEFINE Closer == \A p \in Proc :
                       /\ pc[p] = "recv" /\ pc'[p] = "recv"
                       /\ Owner' # Owner
                       => Gap(Owner', p) < Gap(Owner, p)
<1>1. Inv /\ Inv' /\ [Next]_vars => [Closer]_vars
  <2> SUFFICES ASSUME Inv, Inv', Next PROVE Closer
    OBVIOUS
  <2> SUFFICES ASSUME NEW w \in Proc, pc[w] = "recv", Owner' # Owner
               PROVE  Gap(Owner', w) < Gap(Owner, w)
    OBVIOUS
  <2>1. PICK t \in Proc : Token(t)
    BY DEF Inv, NoLostWakeup
  <2>2. Owner = t /\ t # NoRank
    BY <2>1, OwnerIs, NAssumption DEF Inv, Proc, NoRank
  <2>3. PICK p \in Proc : LockWinUnlock(p) \/ UnlockWinUnlock(p)
    BY OtherIsStutter DEF Next, Step
  <2>4. UnlockWinUnlock(p)
    <3>1. CASE LockWinUnlock(p)
      BY <3>1, <2>2, LockIsArrive DEF RRL!Arrive, RRL!Nobody, NoRank
    <3>2. QED
      BY <2>3, <3>1
  <2>5. RRL!Release(p) /\ p = t
    BY <2>2, <2>4, UnlockIsRelease DEF RRL!Release
  <2>6. w # p /\ w \in Waiting
    <3>1. pc[p] = "unlock_epoch"
      BY <2>4 DEF UnlockWinUnlock, CloseEpoch
    <3>2. QED
      BY <2>1, <2>5, <3>1 DEF Waiting, Inv, OneToken
  <2>7. Owner' = RRL!Successor(p, Waiting)
    BY <2>5, <2>6 DEF RRL!Release
  <2>8. PICK n \in Waiting : \A r \in Waiting : RRL!Dist(p, n) <= RRL!Dist(p, r)
    <3> DEFINE D == {RRL!Dist(p, r) : r \in Waiting}
    <3>1. D \subseteq Nat /\ D # {}
      BY <2>6, NAssumption DEF RRL!Dist, Waiting, Proc
    <3>2. PICK d \in D : \A k \in D : d <= k
      <4> HIDE DEF D
      <4>1. QED
        BY <3>1, LeastElement
    <3>3. QED
      BY <3>2
  <2>9. /\ Owner' \in Waiting
        /\ RRL!Dist(p, Owner') <= RRL!Dist(p, w)
    BY <2>6, <2>7, <2>8 DEF RRL!Successor
  <2>10. Owner' \in Proc /\ Owner' # p
    BY <2>2, <2>5, <2>9 DEF Waiting
  <2>11. QED
    <3> DEFINE o == Owner'
    <3>1. /\ o \in Nat /\ p \in Nat /\ w \in Nat /\ N \in Nat
          /\ o < N /\ p < N /\ w < N /\ o # p /\ w # p
          /\ Owner = p
      BY <2>2, <2>5, <2>6, <2>10, NAssumption DEF Proc
    <3>2. RRL!Dist(p, o) <= RRL!Dist(p, w)
      BY <2>9
    <3> HIDE DEF o
    <3>3. Gap(o, w) < Gap(p, w)
      BY <3>1, <3>2 DEF Gap, RRL!Dist
    <3>4. QED
      BY <3>1, <3>3 DEF o
<1>2. QED
  BY <1>1, Invariance, PTL DEF Spec, BoundedBypass
=============================================================================
