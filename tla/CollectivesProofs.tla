-------------------------- MODULE CollectivesProofs --------------------------
(***************************************************************************)
(* For any number of processes, blocks and writes: the mutex' Create and   *)
(* Free, the file copy, the programs that write a file per process, the    *)
(* reading of a sparse matrix and the start of mlife.c give all processes  *)
(* the same answer and keep what they promise, whichever calls fail and in *)
(* whatever order the processes go on.                                     *)
(***************************************************************************)
EXTENDS MCCollectives, SharedLemmas

(* MutexLifecycle: the places in Create, and in the releases of either     *)
(* function.                                                               *)
MutexStage == {"start", "type", "commit", "dup", "in_dup", "alloc", "create", "in_create",
               "ready", "done", "failed"} \cup Mutex!Release
WinBehind == {"free_mem", "free_type", "free_comm", "in_comm_free", "free_struct", "done",
              "failed"}      \* the window has been looked at
MemBehind == WinBehind \ {"free_mem"}

Memory(p) == IF p = Home THEN {"mem"} ELSE {}

(* What the structure names on the way through Create, and what is left of *)
(* it on the way out.                                                      *)
Named(p, s) ==
  CASE s = "start"                       -> {}
    [] s = "type"                        -> {"struct"}
    [] s \in {"commit", "dup", "in_dup"} -> {"struct", "type"}
    [] s = "alloc"                       -> {"struct", "type", "comm"}
    [] s \in {"create", "in_create"}     -> {"struct", "type", "comm"} \cup Memory(p)
    [] s = "ready"                       -> {"struct", "type", "comm", "win"} \cup Memory(p)

Cleared(s) == (IF s \in WinBehind THEN {"win"} ELSE {})
              \cup (IF s \in MemBehind \ {"free_type"} THEN {"type"} ELSE {})
              \cup (IF s \in {"free_struct", "done", "failed"} THEN {"comm"} ELSE {})

NamesByStage ==
  \A p \in Proc :
    /\ stage[p] \notin Mutex!Release \cup {"done", "failed"} => named[p] = Named(p, stage[p])
    /\ stage[p] \in Mutex!Release => "struct" \in named[p]
    /\ stage[p] = "in_win_free" => "win" \in named[p]
    /\ stage[p] = "in_comm_free" => "comm" \in named[p]
    /\ named[p] \cap Cleared(stage[p]) = {}

(* Pointers keep their value when the memory is gone.                      *)
Dangling(s) == (IF s \in MemBehind THEN {"mem"} ELSE {})
               \cup (IF s \in {"done", "failed"} THEN {"struct"} ELSE {})

LifeTypeOK == /\ stage \in [Proc -> MutexStage]
              /\ entered \in [Mutex!Collective -> SUBSET Proc]
              /\ owns \in [Proc -> [Mutex!Resource -> Int]]
              /\ named \in [Proc -> SUBSET Mutex!Resource]
              /\ given \in SUBSET Proc

(* What a process owns is what the structure names and is not dangling.    *)
OwnsNamed ==
  \A p \in Proc : \A r \in Mutex!Resource :
    owns[p][r] = IF r \in named[p] \ Dangling(stage[p]) THEN 1 ELSE 0

(* Who has entered MPI_Win_create is in it or has a mutex, or has had one; *)
(* who has a mutex knows that everybody entered it.                        *)
CreatedTogether ==
  \A p \in Proc :
    /\ p \in entered["Win_create"] =>
         stage[p] \in {"in_create", "ready", "done"} \cup Mutex!Release
    /\ p \in given => stage[p] \in {"ready"} \cup Mutex!Release
    /\ stage[p] \in {"ready"} => p \in given
    /\ stage[p] \in Mutex!Release => (p \in entered["Win_create"] <=> p \in given)
    /\ p \in given => entered["Win_create"] = Proc /\ Memory(p) \subseteq named[p]
    /\ p \in given /\ stage[p] = "free_win" => "win" \in named[p]

(* Nobody who has a mutex is past MPI_Win_free before all have entered it. *)
FreedTogether ==
  \A p \in Proc :
    /\ p \in entered["Win_free"] => stage[p] \in {"in_win_free"} \cup WinBehind
    /\ p \in given /\ stage[p] \in WinBehind => entered["Win_free"] = Proc
    /\ stage[p] = "done" => entered["Win_free"] = Proc

LifeInv == LifeTypeOK /\ NamesByStage /\ OwnsNamed /\ CreatedTogether /\ FreedTogether

LEMMA LifeInvInit == Mutex!Init => LifeInv
BY DEF Mutex!Init, LifeInv, LifeTypeOK, MutexStage, NamesByStage, Named, Cleared,
   WinBehind, MemBehind, OwnsNamed, CreatedTogether, FreedTogether, Mutex!Collective,
   Mutex!Release, Mutex!Resource

(* A step of p is one of these, a late or an early return among them.      *)
LifeStep(p) == Mutex!Creating(p) \/ Mutex!CallFree(p) \/ Mutex!Releasing(p) \/ Mutex!CommFreed(p)

(* A process is at one place: what the others have and where they are is   *)
(* as before, and who has entered a collective call stays in it.           *)
LEMMA LifeStepLocal ==
  ASSUME LifeInv, NEW p \in Proc, LifeStep(p)
  PROVE  /\ LifeTypeOK'
         /\ \A q \in Proc \ {p} : /\ stage'[q] = stage[q] /\ named'[q] = named[q]
                                 /\ owns'[q] = owns[q] /\ (q \in given' <=> q \in given)
         /\ \A c \in Mutex!Collective :
              entered'[c] = entered[c] \/ entered'[c] = entered[c] \cup {p}
<1> USE DEF Mutex!Goto, Mutex!Gain, Mutex!Lose, Mutex!Null, Mutex!Enter, Mutex!Fail,
            Mutex!Pass, Mutex!Allocate, LifeInv, LifeTypeOK, MutexStage, Mutex!Release,
            Mutex!Resource, Mutex!Collective
<1>1. CASE Mutex!MallocStruct(p)
  BY <1>1 DEF Mutex!MallocStruct
<1>2. CASE Mutex!BuildType(p)
  <2>1. UNCHANGED <<entered, given>>
    BY <1>2 DEF Mutex!BuildType
  <2>2. CASE Mutex!Goto(p, "commit") /\ Mutex!Gain(p, "type")
    BY <2>1, <2>2
  <2>3. CASE Mutex!Goto(p, "free_win") /\ UNCHANGED <<owns, named>>
    BY <2>1, <2>3
  <2>4. QED
    BY <1>2, <2>2, <2>3 DEF Mutex!BuildType
<1>3. CASE Mutex!CommitType(p)
  BY <1>3 DEF Mutex!CommitType
<1>4. CASE Mutex!EnterDup(p)
  BY <1>4 DEF Mutex!EnterDup
<1>5. CASE Mutex!LeaveDup(p)
  BY <1>5 DEF Mutex!LeaveDup
<1>6. CASE Mutex!AllocWaitlist(p)
  <2>1. UNCHANGED <<entered, given>>
    BY <1>6 DEF Mutex!AllocWaitlist
  <2>2. CASE Mutex!Goto(p, "create") /\ Mutex!Gain(p, "mem")
    BY <2>1, <2>2
  <2>3. CASE stage' \in {[stage EXCEPT ![p] = "create"], [stage EXCEPT ![p] = "free_win"]}
             /\ UNCHANGED <<owns, named>>
    BY <2>1, <2>3
  <2>4. QED
    BY <1>6, <2>2, <2>3 DEF Mutex!AllocWaitlist
<1>7. CASE Mutex!EnterWinCreate(p)
  BY <1>7 DEF Mutex!EnterWinCreate
<1>8. CASE Mutex!LeaveWinCreate(p)
  BY <1>8 DEF Mutex!LeaveWinCreate
<1>9. CASE Mutex!CallFree(p)
  BY <1>9 DEF Mutex!CallFree
<1>10. CASE Mutex!EnterWinFree(p)
  BY <1>10 DEF Mutex!EnterWinFree
<1>11. CASE Mutex!LeaveWinFree(p)
  BY <1>11 DEF Mutex!LeaveWinFree
<1>12. CASE Mutex!FreeMem(p)
  <2>1. UNCHANGED <<entered, named, given>>
    BY <1>12 DEF Mutex!FreeMem
  <2>2. CASE Mutex!Goto(p, "free_type") /\ Mutex!Lose(p, "mem")
    BY <2>1, <2>2
  <2>3. CASE Mutex!Goto(p, "free_type") /\ UNCHANGED owns
    BY <2>1, <2>3
  <2>4. QED
    BY <1>12, <2>2, <2>3 DEF Mutex!FreeMem
<1>13. CASE Mutex!FreeType(p)
  <2>1. CASE "type" \in named[p]
    BY <1>13, <2>1 DEF Mutex!FreeType
  <2>2. CASE "type" \notin named[p]
    BY <1>13, <2>2 DEF Mutex!FreeType
  <2>3. QED
    BY <1>13, <2>1, <2>2 DEF Mutex!FreeType
<1>14. CASE Mutex!EnterCommFree(p)
  BY <1>14 DEF Mutex!EnterCommFree
<1>15. CASE Mutex!CommFreed(p)
  BY <1>15 DEF Mutex!CommFreed
<1>16. CASE Mutex!FreeStruct(p)
  BY <1>16 DEF Mutex!FreeStruct
<1>17. QED
  BY <1>1, <1>2, <1>3, <1>4, <1>5, <1>6, <1>7, <1>8, <1>9, <1>10, <1>11, <1>12,
     <1>13, <1>14, <1>15, <1>16 DEF LifeStep,
     Mutex!Creating, Mutex!Releasing

(* What the structure of p names and what p owns, action by action.        *)
LEMMA LifeStepOwns ==
  ASSUME LifeInv, NEW p \in Proc, LifeStep(p)
  PROVE  NamesByStage' /\ OwnsNamed'
<1>1. /\ LifeTypeOK'
      /\ \A q \in Proc \ {p} : stage'[q] = stage[q] /\ named'[q] = named[q] /\ owns'[q] = owns[q]
  BY LifeStepLocal
<1> DEFINE NamesAt ==
      /\ stage[p] \notin Mutex!Release \cup {"done", "failed"} => named[p] = Named(p, stage[p])
      /\ stage[p] \in Mutex!Release => "struct" \in named[p]
      /\ stage[p] = "in_win_free" => "win" \in named[p]
      /\ stage[p] = "in_comm_free" => "comm" \in named[p]
      /\ named[p] \cap Cleared(stage[p]) = {}
    OwnsAt == \A r \in Mutex!Resource :
      owns[p][r] = IF r \in named[p] \ Dangling(stage[p]) THEN 1 ELSE 0
<1>2. NamesAt /\ OwnsAt /\ LifeTypeOK
  BY DEF LifeInv, NamesByStage, OwnsNamed
<1>3. NamesAt' /\ OwnsAt'
  <2> USE <1>2 DEF Mutex!Goto, Mutex!Gain, Mutex!Lose, Mutex!Null, Mutex!Enter, Mutex!Pass,
              Mutex!Allocate, LifeTypeOK, Mutex!Release, Mutex!Resource, Named, Cleared,
              Dangling, WinBehind, MemBehind, Memory
  <2>1. CASE Mutex!MallocStruct(p)
    <3>1. stage[p] = "start"
      BY <2>1 DEF Mutex!MallocStruct
    <3>2. CASE Mutex!Goto(p, "failed") /\ UNCHANGED <<owns, named>>
      BY <3>1, <3>2
    <3>3. CASE Mutex!Goto(p, "type") /\ Mutex!Gain(p, "struct")
      BY <3>1, <3>3
    <3>4. QED
      BY <2>1, <3>2, <3>3 DEF Mutex!MallocStruct
  <2>2. CASE Mutex!BuildType(p)
    <3>1. stage[p] = "type"
      BY <2>2 DEF Mutex!BuildType
    <3>2. CASE Mutex!Goto(p, "free_win") /\ UNCHANGED <<owns, named>>
      BY <3>1, <3>2
    <3>3. CASE Mutex!Goto(p, "commit") /\ Mutex!Gain(p, "type")
      BY <3>1, <3>3
    <3>4. QED
      BY <2>2, <3>2, <3>3 DEF Mutex!BuildType
  <2>3. CASE Mutex!CommitType(p)
    BY <2>3 DEF Mutex!CommitType
  <2>4. CASE Mutex!EnterDup(p)
    BY <2>4 DEF Mutex!EnterDup
  <2>5. CASE Mutex!LeaveDup(p)
    BY <2>5 DEF Mutex!LeaveDup
  <2>6. CASE Mutex!AllocWaitlist(p)
    <3>1. stage[p] = "alloc"
      BY <2>6 DEF Mutex!AllocWaitlist
    <3>2. CASE p = Home /\ Mutex!Goto(p, "create") /\ Mutex!Gain(p, "mem")
      BY <3>1, <3>2
    <3>3. CASE p = Home /\ Mutex!Goto(p, "free_win") /\ UNCHANGED <<owns, named>>
      BY <3>1, <3>3
    <3>4. CASE p # Home /\ Mutex!Goto(p, "create") /\ UNCHANGED <<owns, named>>
      BY <3>1, <3>4
    <3>5. QED
      BY <2>6, <3>2, <3>3, <3>4 DEF Mutex!AllocWaitlist
  <2>7. CASE Mutex!EnterWinCreate(p)
    BY <2>7 DEF Mutex!EnterWinCreate
  <2>8. CASE Mutex!LeaveWinCreate(p)
    BY <2>8 DEF Mutex!LeaveWinCreate
  <2>9. CASE Mutex!CallFree(p)
    BY <2>9 DEF Mutex!CallFree
  <2>10. CASE Mutex!EnterWinFree(p)
    BY <2>10 DEF Mutex!EnterWinFree
  <2>11. CASE Mutex!LeaveWinFree(p)
    BY <2>11 DEF Mutex!LeaveWinFree
  <2>12. CASE Mutex!FreeMem(p)
    BY <2>12 DEF Mutex!FreeMem
  <2>13. CASE Mutex!FreeType(p)
    BY <2>13 DEF Mutex!FreeType
  <2>14. CASE Mutex!EnterCommFree(p)
    BY <2>14 DEF Mutex!EnterCommFree
  <2>15. CASE Mutex!CommFreed(p)
    BY <2>15 DEF Mutex!CommFreed
  <2>16. CASE Mutex!FreeStruct(p)
    BY <2>16 DEF Mutex!FreeStruct
  <2>17. QED
    BY <2>1, <2>2, <2>3, <2>4, <2>5, <2>6, <2>7, <2>8, <2>9, <2>10, <2>11, <2>12,
       <2>13, <2>14, <2>15, <2>16 DEF LifeStep,
       Mutex!Creating, Mutex!Releasing
<1>4. NamesByStage'
  BY <1>1, <1>2, <1>3 DEF LifeInv, NamesByStage
<1>5. OwnsNamed'
  BY <1>1, <1>2, <1>3 DEF LifeInv, OwnsNamed
<1>6. QED
  BY <1>4, <1>5

(* The collective calls, action by action.                                 *)
LEMMA LifeStepTogether ==
  ASSUME LifeInv, NEW p \in Proc, LifeStep(p)
  PROVE  CreatedTogether' /\ FreedTogether'
<1> USE LifeStepLocal DEF Mutex!Goto, Mutex!Enter, Mutex!Gain, Mutex!Null, Mutex!Pass, Mutex!Allocate,
            Mutex!Complete, LifeInv, LifeTypeOK, Mutex!Release, Mutex!Collective,
            CreatedTogether, FreedTogether, NamesByStage, Named, Memory, WinBehind
<1>1. CASE Mutex!MallocStruct(p)
  BY <1>1 DEF Mutex!MallocStruct
<1>2. CASE Mutex!BuildType(p)
  BY <1>2 DEF Mutex!BuildType
<1>3. CASE Mutex!CommitType(p)
  BY <1>3 DEF Mutex!CommitType
<1>4. CASE Mutex!EnterDup(p)
  BY <1>4 DEF Mutex!EnterDup
<1>5. CASE Mutex!LeaveDup(p)
  BY <1>5 DEF Mutex!LeaveDup
<1>6. CASE Mutex!AllocWaitlist(p)
  BY <1>6 DEF Mutex!AllocWaitlist
<1>7. CASE Mutex!EnterWinCreate(p)
  BY <1>7 DEF Mutex!EnterWinCreate
<1>8. CASE Mutex!LeaveWinCreate(p)
  BY <1>8 DEF Mutex!LeaveWinCreate
<1>9. CASE Mutex!CallFree(p)
  BY <1>9 DEF Mutex!CallFree
<1>10. CASE Mutex!EnterWinFree(p)
  BY <1>10 DEF Mutex!EnterWinFree
<1>11. CASE Mutex!LeaveWinFree(p)
  BY <1>11 DEF Mutex!LeaveWinFree
<1>12. CASE Mutex!FreeMem(p)
  BY <1>12 DEF Mutex!FreeMem
<1>13. CASE Mutex!FreeType(p)
  BY <1>13 DEF Mutex!FreeType
<1>14. CASE Mutex!EnterCommFree(p)
  <2>1. CASE "comm" \in named[p]
    BY <1>14, <2>1 DEF Mutex!EnterCommFree
  <2>2. CASE "comm" \notin named[p]
    BY <1>14, <2>2 DEF Mutex!EnterCommFree
  <2>3. QED
    BY <1>14, <2>1, <2>2 DEF Mutex!EnterCommFree
<1>15. CASE Mutex!CommFreed(p)
  BY <1>15 DEF Mutex!CommFreed
<1>16. CASE Mutex!FreeStruct(p)
  BY <1>16 DEF Mutex!FreeStruct
<1>17. QED
  BY <1>1, <1>2, <1>3, <1>4, <1>5, <1>6, <1>7, <1>8, <1>9, <1>10, <1>11, <1>12,
     <1>13, <1>14, <1>15, <1>16 DEF LifeStep,
     Mutex!Creating, Mutex!Releasing

LEMMA LifeInvStep == ASSUME LifeInv, NEW p \in Proc, LifeStep(p) PROVE LifeInv'
BY LifeStepLocal, LifeStepOwns, LifeStepTogether DEF LifeInv

-----------------------------------------------------------------------------
(* FileCopy: the stages of a process, what it answers to the MPI_Allreduce,*)
(* and what is broadcast.                                                  *)
CopyStage == {"start", "open", "agree", "copy", "ok", "failed"}
Answer    == {"no", "ok", "failed"}
Word      == Nat \cup {"ready", "exit"}

CopyTypeOK == /\ stage \in [Proc -> CopyStage]
              /\ failures \in Nat
              /\ sent \in Seq(Word)
              /\ got \in [Proc -> Nat]
              /\ opened \in [Proc -> Answer]
              /\ out \in [Proc -> Seq(Word)]

-----------------------------------------------------------------------------
(* The first broadcast says whether the input could be opened.  A process  *)
(* has opened its output, or not, by the time it enters MPI_Allreduce, and *)
(* leaves it with the same status as all others.                           *)
Control ==
  /\ stage[Home] = "start" <=> sent = <<>>
  /\ sent # <<>> => sent[1] \in {"ready", "exit"}

Unopened == sent = <<>> \/ sent[1] = "exit"
AllOpened == \A q \in Proc : opened[q] = "ok"
OneNot    == (\A q \in Proc : opened[q] # "no") /\ (\E q \in Proc : opened[q] = "failed")

Silent(p)  == sent = <<>> => stage[p] = "start"
Told(p)    == Unopened => stage[p] \in {"start", "failed"}
Answers(p) == /\ stage[p] \in {"start", "open"} => opened[p] = "no"
              /\ stage[p] \in {"agree", "copy", "ok"} => opened[p] # "no"
              /\ stage[p] \in {"copy", "ok"} => AllOpened
              /\ stage[p] = "failed" => Unopened \/ OneNot

Agreement == \A p \in Proc : Silent(p) /\ Told(p) /\ Answers(p)

CopyInv == CopyTypeOK /\ Control /\ Agreement

LEMMA CopyInvInit == ASSUME Home \in Proc PROVE Copy!Init => CopyInv
BY DEF Copy!Init, CopyInv, CopyTypeOK, CopyStage, Answer, Word, Control, Agreement,
   Silent, Told, Answers, Unopened

(* A sequence keeps its first element when it grows at the end.            *)
LEMMA AppendKeeps ==
  ASSUME NEW S, NEW s \in Seq(S), NEW e \in S
  PROVE  /\ Append(s, e) \in Seq(S) /\ Append(s, e) # <<>>
         /\ Len(Append(s, e)) = Len(s) + 1
         /\ \A i \in 1 .. Len(s) : Append(s, e)[i] = s[i]
         /\ Append(s, e)[Len(s) + 1] = e
OBVIOUS

LEMMA CopyTypeStep ==
  ASSUME Home \in Proc, Blocks \in Nat, CopyInv, NEW p \in Proc, Copy!Step(p)
  PROVE  CopyTypeOK'
<1> USE DEF CopyInv, CopyTypeOK, CopyStage, Copy!Goto
<1>0. Copy!Fail => failures' \in Nat
  BY DEF Copy!Fail
<1>1. CASE p = Home /\ Copy!OpenInput
  <2>1. <<"ready">> \in Seq(Word) /\ <<"exit">> \in Seq(Word)
    BY DEF Word
  <2>2. QED
    BY <1>0, <1>1, <2>1 DEF Copy!OpenInput
<1>2. CASE p = Home /\ Copy!ReadBlock
  <2> DEFINE k == Len(sent)
  <2>1. k \in Word /\ 0 \in Word
    BY DEF Word
  <2>2. Append(sent, k) \in Seq(Word) /\ Append(sent, 0) \in Seq(Word)
        /\ Append(out[p], k) \in Seq(Word)
    BY <2>1
  <2>3. QED
    BY <1>0, <1>2, <2>2 DEF Copy!ReadBlock, Copy!Write
<1>3. CASE Copy!TakeControl(p)
  BY <1>3 DEF Copy!TakeControl
<1>4. CASE Copy!OpenOutput(p)
  BY <1>0, <1>4 DEF Copy!OpenOutput, Answer
<1>5. CASE Copy!Allstatus(p)
  BY <1>5 DEF Copy!Allstatus
<1>6. CASE Copy!TakeBlock(p)
  <2> DEFINE k == sent[got'[p]]
  <2>1. got' \in [Proc -> Nat] /\ got'[p] \in 1 .. Len(sent)
    BY <1>6 DEF Copy!TakeBlock
  <2>2. k \in Word
    BY <2>1
  <2>3. Append(out[p], k) \in Seq(Word)
    BY <2>2
  <2>4. QED
    BY <1>0, <1>6, <2>1, <2>3 DEF Copy!TakeBlock, Copy!Write
<1>7. QED
  BY <1>1, <1>2, <1>3, <1>4, <1>5, <1>6 DEF Copy!Step

LEMMA CopyInvStep ==
  ASSUME Home \in Proc, Blocks \in Nat, CopyInv, NEW p \in Proc, Copy!Step(p)
  PROVE  CopyInv'
<1>1. CopyTypeOK'
  BY CopyTypeStep
<1> USE <1>1 DEF CopyInv, CopyTypeOK, Copy!Goto, Control, Agreement, Unopened, AllOpened, OneNot
<1>2. CASE p = Home /\ Copy!OpenInput
  <2>1. /\ sent = <<>> /\ sent' \in {<<"ready">>, <<"exit">>}
        /\ \A q \in Proc : stage[q] = "start" /\ opened[q] = "no"
    BY <1>2 DEF Copy!OpenInput, Silent, Answers
  <2>2. /\ sent' # <<>> /\ sent'[1] \in {"ready", "exit"}
        /\ stage' = [stage EXCEPT ![Home] = IF sent'[1] = "exit" THEN "failed" ELSE "open"]
        /\ opened' = opened
    BY <1>2, <2>1 DEF Copy!OpenInput
  <2>3. QED
    BY <2>1, <2>2 DEF Silent, Told, Answers
<1>3. CASE p = Home /\ Copy!ReadBlock
  <2>1. /\ sent # <<>> /\ Len(sent) \in Word /\ 0 \in Word
        /\ sent' \in {Append(sent, Len(sent)), Append(sent, 0)}
    BY <1>3 DEF Copy!ReadBlock, Word
  <2>2. sent' # <<>> /\ sent'[1] = sent[1]
    <3>1. 1 \in 1 .. Len(sent)
      BY <2>1
    <3>2. QED
      BY <2>1, <3>1, AppendKeeps
  <2>3. /\ stage[p] = "copy" /\ opened' = opened
        /\ stage' = stage \/ stage' = [stage EXCEPT ![p] = "ok"]
    BY <1>3 DEF Copy!ReadBlock
  <2>4. QED
    BY <1>3, <2>1, <2>2, <2>3 DEF Silent, Told, Answers
<1>4. CASE Copy!TakeControl(p)
  BY <1>4 DEF Copy!TakeControl, Silent, Told, Answers
<1>5. CASE Copy!OpenOutput(p)
  <2>1. /\ stage[p] = "open" /\ stage' = [stage EXCEPT ![p] = "agree"] /\ sent' = sent
        /\ \E a \in {"ok", "failed"} : opened' = [opened EXCEPT ![p] = a]
    BY <1>5 DEF Copy!OpenOutput
  <2>2. opened[p] = "no"
    BY <2>1 DEF Answers
  <2>3. QED
    BY <2>1, <2>2 DEF Silent, Told, Answers
<1>6. CASE Copy!Allstatus(p)
  <2>1. \A q \in Proc : opened[q] \in {"ok", "failed"}
    BY <1>6 DEF Copy!Allstatus, Answer
  <2>2. QED
    BY <1>6, <2>1 DEF Copy!Allstatus, Silent, Told, Answers
<1>7. CASE Copy!TakeBlock(p)
  <2>1. /\ stage[p] = "copy" /\ opened' = opened /\ sent' = sent /\ p # Home
        /\ stage' = stage \/ stage' = [stage EXCEPT ![p] = "ok"]
    BY <1>7 DEF Copy!TakeBlock
  <2>2. QED
    BY <2>1 DEF Silent, Told, Answers
<1>8. QED
  BY <1>2, <1>3, <1>4, <1>5, <1>6, <1>7 DEF Copy!Step

-----------------------------------------------------------------------------
(* o has the blocks 1 to n in order, less those lost in f failures.        *)
Holds(o, n, f) ==
  /\ \A i \in DOMAIN o : o[i] \in 1 .. n
  /\ \A i, j \in DOMAIN o : i < j => o[i] < o[j]
  /\ Len(o) <= n /\ n <= Len(o) + f

(* How many of the broadcasts p has taken; the master has those it made.   *)
Taken(p) == IF p = Home THEN Len(sent) ELSE got[p]

(* Block k is broadcast number k+1; a broadcast of 0 is the last one.      *)
InOrder == \A i \in 2 .. Len(sent) :
             /\ sent[i] \in {0, i - 1}
             /\ sent[i] = 0 => i = Len(sent) /\ stage[Home] = "ok"

MasterReads ==
  /\ stage[Home] \in {"open", "agree", "copy"} => Len(sent) \in 1 .. Blocks + 1
  /\ stage[Home] = "ok" => /\ Len(sent) \in 2 .. Blocks + 2
                           /\ failures = 0 => Len(sent) = Blocks + 2

Progress(p) ==
  /\ stage[p] \in {"start", "open", "agree"} => out[p] = <<>>
  /\ stage[p] \in {"open", "agree"} => Taken(p) = 1 /\ sent # <<>>
  /\ stage[p] = "copy" => Taken(p) \in 1 .. Len(sent) /\ Holds(out[p], Taken(p) - 1, failures)
  /\ stage[p] = "ok" => /\ stage[Home] = "ok"
                        /\ Holds(out[p], Len(sent) - 2, failures)

DataInv == InOrder /\ MasterReads /\ \A p \in Proc : Progress(p)

(* A block more is written, or one failure more is counted.                *)
LEMMA HoldsNext ==
  ASSUME NEW o \in Seq(Word), NEW n \in Nat, NEW f \in Nat, Holds(o, n, f)
  PROVE  /\ Holds(Append(o, n + 1), n + 1, f)
         /\ Holds(o, n + 1, f + 1)
         /\ Holds(o, n, f + 1)
<1>0. n + 1 \in Word /\ Len(o) \in Nat /\ DOMAIN o = 1 .. Len(o)
  BY DEF Word
<1>1. /\ Holds(o, n + 1, f + 1)
      /\ Holds(o, n, f + 1)
  BY <1>0 DEF Holds
<1>2. Holds(Append(o, n + 1), n + 1, f)
  <2> DEFINE a == Append(o, n + 1)
  <2>1. /\ Len(a) = Len(o) + 1 /\ DOMAIN a = 1 .. Len(o) + 1
        /\ \A i \in 1 .. Len(o) : a[i] = o[i] /\ o[i] \in 1 .. n
        /\ a[Len(o) + 1] = n + 1
    BY <1>0 DEF Holds
  <2> HIDE DEF a
  <2>2. \A i, j \in DOMAIN a : i < j => a[i] < a[j]
    <3> SUFFICES ASSUME NEW i \in DOMAIN a, NEW j \in DOMAIN a, i < j PROVE a[i] < a[j]
      OBVIOUS
    <3>1. i \in 1 .. Len(o)
      BY <1>0, <2>1
    <3>2. CASE j = Len(o) + 1
      BY <2>1, <3>1, <3>2
    <3>3. CASE j \in 1 .. Len(o)
      BY <1>0, <2>1, <3>1, <3>3 DEF Holds
    <3>4. QED
      BY <1>0, <2>1, <3>2, <3>3
  <2>3. \A i \in DOMAIN a : a[i] \in 1 .. n + 1
    BY <1>0, <2>1
  <2>4. Len(a) <= n + 1 /\ n + 1 <= Len(a) + f
    BY <1>0, <2>1 DEF Holds
  <2>5. Holds(a, n + 1, f)
    BY <2>2, <2>3, <2>4, Zenon DEF Holds
  <2>6. QED
    BY <2>5 DEF a
<1>3. QED
  BY <1>1, <1>2

LEMMA EmptyHolds == ASSUME NEW f \in Nat PROVE Holds(<<>>, 0, f)
BY DEF Holds

LEMMA WriteHolds ==
  ASSUME CopyTypeOK, NEW p \in Proc, NEW n \in Nat, Holds(out[p], n, failures),
         Copy!Write(p, n + 1)
  PROVE  Holds(out'[p], n + 1, failures')
<1>1. CASE out' = [out EXCEPT ![p] = Append(@, n + 1)] /\ UNCHANGED failures
  <2>1. Holds(Append(out[p], n + 1), n + 1, failures)
    BY HoldsNext DEF CopyTypeOK
  <2>2. QED
    BY <1>1, <2>1 DEF CopyTypeOK
<1>2. CASE Copy!Fail /\ UNCHANGED out
  <2>1. Holds(out[p], n + 1, failures + 1)
    BY HoldsNext DEF CopyTypeOK
  <2>2. QED
    BY <1>2, <2>1 DEF Copy!Fail
<1>3. QED
  BY <1>1, <1>2 DEF Copy!Write

(* What others write or lose does not change what p holds.                 *)
LEMMA OthersKeep ==
  ASSUME CopyTypeOK, NEW p \in Proc, NEW n \in Nat, Holds(out[p], n, failures),
         out'[p] = out[p], failures' = failures \/ Copy!Fail
  PROVE  Holds(out'[p], n, failures')
<1>1. Holds(out[p], n, failures + 1)
  BY HoldsNext DEF CopyTypeOK
<1>2. QED
  BY <1>1 DEF Copy!Fail

LEMMA DataInvInit == ASSUME Home \in Proc, Blocks \in Nat PROVE Copy!Init => DataInv
BY DEF Copy!Init, DataInv, InOrder, MasterReads, Progress

(* Whoever is not the one that steps keeps what he has.                    *)
LEMMA OthersProgress ==
  ASSUME Home \in Proc, CopyInv, MasterReads, NEW q \in Proc, Progress(q),
         stage'[q] = stage[q], out'[q] = out[q], Taken(q)' = Taken(q), sent' \in Seq(Word),
         failures' = failures \/ Copy!Fail,
         sent # <<>> => Len(sent') >= Len(sent) /\ sent' # <<>>,
         stage[Home] = "ok" => stage'[Home] = "ok" /\ sent' = sent
  PROVE  Progress(q)'
<1>1. Len(sent) \in Nat /\ Taken(q) \in Nat
  BY DEF CopyInv, CopyTypeOK, Taken
<1>2. CASE stage[q] = "copy"
  <2>1. Taken(q) - 1 \in Nat /\ Holds(out[q], Taken(q) - 1, failures)
    BY <1>1, <1>2 DEF Progress
  <2>2. Holds(out'[q], Taken(q) - 1, failures')
    BY <2>1, OthersKeep DEF CopyInv
  <2>3. sent # <<>> /\ Len(sent') \in Nat
    BY <1>1, <1>2 DEF CopyInv, Agreement, Silent
  <2>4. Taken(q)' \in 1 .. Len(sent')
    BY <1>1, <1>2, <2>3 DEF Progress
  <2>5. QED
    BY <1>2, <2>2, <2>4 DEF Progress
<1>3. CASE stage[q] = "ok"
  <2>1. sent # <<>> /\ stage[Home] = "ok" /\ Holds(out[q], Len(sent) - 2, failures)
    BY <1>3 DEF Progress, CopyInv, Agreement, Silent
  <2>2. Len(sent) - 2 \in Nat
    BY <2>1 DEF MasterReads
  <2>3. QED
    BY <1>3, <2>1, <2>2, OthersKeep DEF Progress, CopyInv
<1>4. CASE stage[q] \notin {"copy", "ok"}
  BY <1>4 DEF Progress
<1>5. QED
  BY <1>2, <1>3, <1>4

LEMMA DataInvStep ==
  ASSUME Home \in Proc, Blocks \in Nat, CopyInv, DataInv, NEW p \in Proc, Copy!Step(p)
  PROVE  DataInv'
<1>1. CopyTypeOK' /\ CopyTypeOK /\ MasterReads
  BY CopyTypeStep DEF CopyInv, DataInv
<1> USE <1>1 DEF CopyTypeOK, Copy!Goto
<1>2. CASE p = Home /\ Copy!OpenInput
  <2>0. \E w \in {"ready", "exit"} : sent' = <<w>>
    BY <1>2 DEF Copy!OpenInput
  <2>1. /\ p = Home /\ sent = <<>> /\ stage[p] = "start"
        /\ Len(sent') = 1 /\ sent' # <<>>
        /\ stage'[p] \in {"open", "failed"}
        /\ \A q \in Proc \ {p} : stage'[q] = stage[q]
        /\ out' = out /\ got' = got /\ (failures' = failures \/ Copy!Fail)
    <3>1. p = Home /\ sent = <<>> /\ stage[p] = "start"
      BY <1>2 DEF Copy!OpenInput, CopyInv, Control
    <3>2. Len(sent') = 1 /\ sent' # <<>>
      BY <2>0
    <3>3. /\ stage'[p] \in {"open", "failed"}
          /\ \A q \in Proc \ {p} : stage'[q] = stage[q]
          /\ out' = out /\ got' = got /\ (failures' = failures \/ Copy!Fail)
      BY <1>2 DEF Copy!OpenInput
    <3>4. QED
      BY <3>1, <3>2, <3>3
  <2>2. InOrder' /\ MasterReads'
    BY <1>2, <2>1 DEF InOrder, MasterReads
  <2>3. Progress(p)'
    <3>1. Taken(p)' = 1 /\ out'[p] = <<>>
      <4>1. Taken(p)' = Len(sent')
        BY <2>1 DEF Taken
      <4>2. Progress(p)
        BY DEF DataInv
      <4>3. QED
        BY <2>1, <4>1, <4>2 DEF Progress
    <3>2. QED
      BY <2>1, <3>1 DEF Progress
  <2>4. ASSUME NEW q \in Proc \ {p} PROVE Progress(q)'
    <3>1. /\ stage'[q] = stage[q] /\ out'[q] = out[q] /\ Taken(q)' = Taken(q)
          /\ stage[Home] # "ok"
      BY <2>1 DEF Taken
    <3>2. Progress(q)
      BY DEF DataInv
    <3>3. QED
      BY <2>1, <3>1, <3>2, OthersProgress
  <2>5. QED
    BY <2>2, <2>3, <2>4 DEF DataInv
<1>3. CASE p = Home /\ Copy!ReadBlock
  <2> DEFINE k == Len(sent)
  <2>1. /\ stage[p] = "copy" /\ k \in 1 .. Blocks + 1 /\ sent # <<>>
        /\ \A i \in 2 .. k : sent[i] = i - 1
        /\ Holds(out[p], k - 1, failures)
    BY <1>3 DEF Copy!ReadBlock, DataInv, InOrder, MasterReads, Progress, Taken
  <2>2. CASE k <= Blocks /\ sent' = Append(sent, k) /\ Copy!Write(Home, k) /\ UNCHANGED stage
    <3>1. /\ Len(sent') = k + 1 /\ sent'[k + 1] = k
          /\ \A i \in 1 .. k : sent'[i] = sent[i]
      BY <2>1, <2>2 DEF Word
    <3>2. Holds(out'[p], k, failures')
      <4>1. k - 1 \in Nat /\ (k - 1) + 1 = k
        BY <2>1
      <4>2. QED
        BY <1>3, <2>1, <2>2, <4>1, WriteHolds
    <3>3. InOrder' /\ MasterReads'
      BY <1>3, <2>1, <2>2, <3>1 DEF InOrder, MasterReads
    <3>4. Progress(p)'
      BY <1>3, <2>1, <2>2, <3>1, <3>2 DEF Progress, Taken
    <3>5. ASSUME NEW q \in Proc \ {p} PROVE Progress(q)'
      <4>1. out'[q] = out[q] /\ (failures' = failures \/ Copy!Fail) /\ got' = got
        BY <1>3, <2>2 DEF Copy!Write, Copy!ReadBlock
      <4>2. /\ stage'[q] = stage[q] /\ Taken(q)' = Taken(q) /\ Progress(q)
            /\ stage[Home] # "ok" /\ Len(sent') >= Len(sent) /\ sent' # <<>>
        BY <1>3, <2>1, <2>2, <3>1, <4>1 DEF DataInv, Taken
      <4>3. QED
        BY <4>1, <4>2, OthersProgress
    <3>6. QED
      BY <3>3, <3>4, <3>5 DEF DataInv
  <2>3. CASE /\ sent' = Append(sent, 0) /\ Copy!Goto(Home, "ok") /\ UNCHANGED out
             /\ IF k > Blocks THEN UNCHANGED failures ELSE Copy!Fail
    <3>1. /\ Len(sent') = k + 1 /\ sent'[k + 1] = 0
          /\ \A i \in 1 .. k : sent'[i] = sent[i]
      BY <2>1, <2>3 DEF Word
    <3>2. Holds(out'[p], k - 1, failures')
      BY <2>1, <2>3, OthersKeep
    <3>3. InOrder' /\ MasterReads'
      BY <1>3, <2>1, <2>3, <3>1 DEF InOrder, MasterReads, Copy!Fail
    <3>4. Progress(p)'
      BY <1>3, <2>1, <2>3, <3>1, <3>2 DEF Progress, Taken
    <3>5. ASSUME NEW q \in Proc \ {p} PROVE Progress(q)'
      <4>1. out'[q] = out[q] /\ (failures' = failures \/ Copy!Fail) /\ got' = got
        BY <1>3, <2>3 DEF Copy!ReadBlock
      <4>2. /\ stage'[q] = stage[q] /\ Taken(q)' = Taken(q) /\ Progress(q)
            /\ stage[Home] # "ok" /\ Len(sent') >= Len(sent) /\ sent' # <<>>
        BY <1>3, <2>1, <2>3, <3>1, <4>1 DEF DataInv, Taken
      <4>3. QED
        BY <4>1, <4>2, OthersProgress
    <3>6. QED
      BY <3>3, <3>4, <3>5 DEF DataInv
  <2>4. QED
    BY <1>3, <2>2, <2>3 DEF Copy!ReadBlock
<1>4. CASE Copy!TakeControl(p)
  <2>1. /\ p # Home /\ stage[p] = "start" /\ sent # <<>> /\ got'[p] = 1
        /\ stage'[p] \in {"open", "failed"}
        /\ sent' = sent /\ out' = out /\ failures' = failures
        /\ \A q \in Proc \ {p} : stage'[q] = stage[q] /\ got'[q] = got[q]
    BY <1>4 DEF Copy!TakeControl
  <2>2. InOrder' /\ MasterReads'
    BY <2>1 DEF DataInv, InOrder, MasterReads
  <2>3. Progress(p)'
    BY <2>1 DEF DataInv, Progress, Taken
  <2>4. ASSUME NEW q \in Proc \ {p} PROVE Progress(q)'
    BY <2>1, OthersProgress DEF DataInv, Taken
  <2>5. QED
    BY <2>2, <2>3, <2>4 DEF DataInv
<1>5. CASE Copy!OpenOutput(p) \/ Copy!Allstatus(p)
  <2>1. /\ sent' = sent /\ out' = out /\ got' = got
        /\ stage[p] \in {"open", "agree"} /\ stage'[p] \in {"agree", "copy", "failed"}
        /\ (failures' = failures \/ Copy!Fail)
        /\ \A q \in Proc \ {p} : stage'[q] = stage[q]
    BY <1>5 DEF Copy!OpenOutput, Copy!Allstatus
  <2>2. InOrder' /\ MasterReads'
    BY <2>1 DEF DataInv, InOrder, MasterReads, Copy!Fail
  <2>3. Progress(p)'
    <3>1. out[p] = <<>> /\ Taken(p) = 1 /\ Len(sent) \in Nat \ {0}
      BY <2>1 DEF DataInv, Progress
    <3>2. Holds(out'[p], 0, failures')
      BY <2>1, <3>1, EmptyHolds
    <3>3. Taken(p)' = 1 /\ 1 \in 1 .. Len(sent') /\ sent' # <<>> /\ 1 - 1 = 0
      BY <2>1, <3>1 DEF Taken, DataInv, Progress
    <3>4. QED
      BY <2>1, <3>1, <3>2, <3>3 DEF Progress
  <2>4. ASSUME NEW q \in Proc \ {p} PROVE Progress(q)'
    BY <2>1, OthersProgress DEF DataInv, Taken
  <2>5. QED
    BY <2>2, <2>3, <2>4 DEF DataInv
<1>6. CASE Copy!TakeBlock(p)
  <2> DEFINE g == got[p]
             k == sent[g + 1]
  <2>0. /\ p # Home /\ stage[p] = "copy" /\ g < Len(sent)
        /\ got' = [got EXCEPT ![p] = g + 1] /\ sent' = sent /\ got'[p] = g + 1
    BY <1>6 DEF Copy!TakeBlock
  <2>1. /\ p # Home /\ stage[p] = "copy" /\ g \in 1 .. Len(sent) - 1
        /\ Holds(out[p], g - 1, failures) /\ got' = [got EXCEPT ![p] = g + 1]
        /\ sent' = sent /\ got'[p] = g + 1
    <3>1. g \in 1 .. Len(sent) /\ Holds(out[p], g - 1, failures)
      BY <2>0 DEF DataInv, Progress, Taken
    <3>2. g \in 1 .. Len(sent) - 1
      BY <2>0, <3>1
    <3>3. QED
      BY <2>0, <3>1, <3>2
  <2>2. k \in {0, g} /\ (k = 0 => g + 1 = Len(sent) /\ stage[Home] = "ok")
    <3>1. g + 1 \in 2 .. Len(sent) /\ (g + 1) - 1 = g
      <4>1. g \in Nat /\ Len(sent) \in Nat
        OBVIOUS
      <4>2. QED
        BY <2>1, <4>1
    <3>2. QED
      BY <3>1 DEF DataInv, InOrder
  <2>3. CASE k = g /\ Copy!Write(p, g) /\ UNCHANGED stage
    <3>1. Holds(out'[p], g, failures')
      <4>1. g - 1 \in Nat /\ (g - 1) + 1 = g
        BY <2>1
      <4>2. QED
        BY <2>1, <2>3, <4>1, WriteHolds
    <3>2. out' = [out EXCEPT ![p] = out'[p]] /\ (failures' = failures \/ Copy!Fail)
      BY <2>3 DEF Copy!Write
    <3>3. Progress(p)'
      <4>1. Taken(p)' = g + 1 /\ (g + 1) - 1 = g /\ g + 1 \in 1 .. Len(sent')
        BY <2>1 DEF Taken
      <4>2. QED
        BY <2>1, <2>3, <3>1, <4>1 DEF Progress
    <3>4. QED
      <4>1. InOrder' /\ MasterReads'
        BY <2>1, <2>3, <3>2 DEF DataInv, InOrder, MasterReads, Copy!Fail
      <4>2. ASSUME NEW q \in Proc \ {p} PROVE Progress(q)'
        BY <2>1, <2>3, <3>2, OthersProgress DEF DataInv, Taken
      <4>3. QED
        BY <3>3, <4>1, <4>2 DEF DataInv
  <2>4. CASE k = 0 /\ Copy!Goto(p, "ok") /\ UNCHANGED <<failures, out>>
    <3>1. Progress(p)'
      <4>1. Len(sent) - 2 = g - 1
        BY <2>1, <2>2, <2>4
      <4>2. QED
        BY <2>1, <2>2, <2>4, <4>1 DEF Progress
    <3>2. InOrder' /\ MasterReads'
      BY <2>1, <2>4 DEF DataInv, InOrder, MasterReads
    <3>3. ASSUME NEW q \in Proc \ {p} PROVE Progress(q)'
      BY <2>1, <2>4, OthersProgress DEF DataInv, Taken
    <3>4. QED
      BY <3>1, <3>2, <3>3 DEF DataInv
  <2>5. QED
    BY <1>6, <2>1, <2>2, <2>3, <2>4 DEF Copy!TakeBlock
<1>7. QED
  BY <1>2, <1>3, <1>4, <1>5, <1>6 DEF Copy!Step

-----------------------------------------------------------------------------
(* OwnFiles.                                                               *)
OwnTypeOK == /\ stage \in [Proc -> {"start", "begin", "write", "closed", "check",
                                    "reduce", "ok", "failed"}]
             /\ size \in [Proc -> 0 .. Own!Missing]

(* A file that was closed is complete; who is past the barrier knows that  *)
(* every file was.  A process may still fail there, its file is not lost.  *)
ClosedComplete == \A p \in Proc : stage[p] = "closed" => size[p] = Writes
PastBarrier    ==
  (\E p \in Proc : stage[p] \in {"check", "reduce", "ok"}) =>
     \A q \in Proc : stage[q] \notin {"start", "begin", "write"} /\ size[q] = Writes

OwnInv == OwnTypeOK /\ ClosedComplete /\ PastBarrier

LEMMA OwnInvInit == ASSUME Writes \in Nat PROVE Own!Init => OwnInv
BY DEF Own!Init, OwnInv, OwnTypeOK, Own!Missing, ClosedComplete, PastBarrier

LEMMA OwnInvStep ==
  ASSUME Writes \in Nat, OwnInv, NEW p \in Proc, Own!Step(p)
  PROVE  OwnInv'
<1> USE DEF OwnInv, OwnTypeOK, Own!Missing, Own!Goto, Own!Fail
<1>1. CASE Own!EnterMain(p)
  BY <1>1 DEF Own!EnterMain, ClosedComplete, PastBarrier
<1>2. CASE Own!Creat(p)
  BY <1>2 DEF Own!Creat, ClosedComplete, PastBarrier
<1>3. CASE Own!Write(p)
  BY <1>3 DEF Own!Write, ClosedComplete, PastBarrier
<1>4. CASE Own!Close(p)
  BY <1>4 DEF Own!Close, ClosedComplete, PastBarrier
<1>5. CASE Own!LeaveBarrier(p)
  <2>1. Own!AfterCheck \in {"reduce", "ok"}
    BY DEF Own!AfterCheck
  <2>2. \A q \in Proc : stage[q] \notin {"start", "begin", "write"} /\ size[q] = Writes
    BY <1>5 DEF Own!LeaveBarrier, Own!BarrierDone, ClosedComplete, PastBarrier
  <2>3. QED
    BY <1>5, <2>1, <2>2 DEF Own!LeaveBarrier, ClosedComplete, PastBarrier
<1>6. CASE Own!Check(p)
  BY <1>6 DEF Own!Check, Own!AfterCheck, ClosedComplete, PastBarrier
<1>7. CASE Own!Reduce(p)
  BY <1>7 DEF Own!Reduce, ClosedComplete, PastBarrier
<1>8. QED
  BY <1>1, <1>2, <1>3, <1>4, <1>5, <1>6, <1>7 DEF Own!Step

-----------------------------------------------------------------------------
(* CsrFile, as far as its answers go.                                      *)
CsrStage == {"start", "reduced", "writing", "written", "header", "open", "starts",
             "reducing", "columns", "values", "printing", "aborted", "ok", "failed", "error"}

(* Before a job reads, nobody has anything in mem.                         *)
Writing == \A q \in Proc :
             /\ stage[q] \in {"start", "reduced", "writing", "written", "failed", "error"}
             /\ mem[q] = << >>

(* While a job reads: a process has entered MPI_Allreduce with its answer  *)
(* in mem, which nobody takes back; it goes on, or returns, with the       *)
(* answer of all.  A file call that fails changes none of this.            *)
HeaderFailed == stage[0] = "failed" /\ mem[0] = << >>
AllEntered   == \A q \in Proc : mem[q] # << >>
AllAllocated == \A q \in Proc : mem[q].ok

ReaderAt(q) ==
  /\ stage[q] \in {"header", "open", "starts", "reducing", "columns", "values", "ok",
                   "failed", "error"}
  /\ stage[q] \in {"header", "open", "starts"} => mem[q] = << >>
  /\ stage[q] = "reducing" => mem[q] # << >>
  /\ stage[q] \in {"columns", "values", "ok"} => AllEntered /\ AllAllocated
  /\ stage[q] = "failed" => HeaderFailed \/ (AllEntered /\ ~AllAllocated)
  /\ stage[0] = "header" => stage[q] = "header"
  /\ HeaderFailed => stage[q] \in {"header", "failed"}

ReadingInv == \A q \in Proc : ReaderAt(q)
Aborted    == \A q \in Proc : stage[q] = "aborted"

CsrInv == /\ stage \in [Proc -> CsrStage] /\ DOMAIN mem = Proc
          /\ csrLib = "mpiio" => Writing \/ ReadingInv \/ Aborted

LEMMA CsrInvInit == Csr!Init => CsrInv
BY DEF Csr!Init, CsrInv, CsrStage, Writing

CsrMove(p) == Csr!Step(p) \/ Csr!CollectiveRead(p)

LEMMA CsrTypeStep ==
  ASSUME CsrInv, NEW p \in Proc, CsrMove(p)
  PROVE  stage' \in [Proc -> CsrStage] /\ DOMAIN mem' = Proc /\ csrLib' = csrLib
<1> USE DEF CsrInv, CsrStage, Csr!Goto, Csr!Meet, Csr!Error
<1>1. CASE Csr!Reduce(p) \/ Csr!WriteRows(p) \/ Csr!Send(p) \/ Csr!Written(p)
  BY <1>1 DEF Csr!Reduce, Csr!WriteRows, Csr!Send, Csr!Written
<1>2. CASE p = 0 /\ (Csr!PrintMatrix \/ Csr!StartReading)
  BY <1>2 DEF Csr!PrintMatrix, Csr!StartReading
<1>3. CASE Csr!Read_header(p)
  BY <1>3 DEF Csr!Read_header, Csr!Abort
<1>4. CASE Csr!OpenRows(p) \/ Csr!Reduced(p)
  BY <1>4 DEF Csr!OpenRows, Csr!Reduced
<1>5. CASE Csr!ReadStarts(p)
  BY <1>5 DEF Csr!ReadStarts
<1>6. CASE Csr!ReadColumns(p)
  BY <1>6 DEF Csr!ReadColumns
<1>7. CASE Csr!ReadValues(p)
  BY <1>7 DEF Csr!ReadValues
<1>8. QED
  BY <1>1, <1>2, <1>3, <1>4, <1>5, <1>6, <1>7 DEF CsrMove, Csr!Step, Csr!CollectiveRead

LEMMA CsrInvStep ==
  ASSUME 0 \in Proc, CsrInv, NEW p \in Proc, CsrMove(p)
  PROVE  CsrInv'
<1>1. stage' \in [Proc -> CsrStage] /\ DOMAIN mem' = Proc /\ csrLib' = csrLib
  BY CsrTypeStep
<1>2. stage \in [Proc -> CsrStage] /\ DOMAIN mem = Proc
  BY DEF CsrInv
<1> SUFFICES ASSUME csrLib = "mpiio" PROVE (Writing \/ ReadingInv \/ Aborted)'
  BY <1>1 DEF CsrInv
<1> USE <1>2 DEF Csr!Goto, Csr!Everybody, Csr!Meet, Csr!Error
<1>3. CASE Csr!Reduce(p) \/ Csr!WriteRows(p) \/ Csr!Written(p)
  <2>1. /\ stage[p] \in {"start", "reduced", "writing"} /\ mem' = mem
        /\ \E s \in {"reduced", "writing", "written", "failed", "error"} :
             stage' = [stage EXCEPT ![p] = s]
    BY <1>3 DEF Csr!Reduce, Csr!WriteRows, Csr!Written
  <2>2. Writing
    BY <2>1 DEF CsrInv, ReadingInv, ReaderAt, Aborted
  <2>3. QED
    BY <2>1, <2>2 DEF Writing
<1>4. CASE p = 0 /\ Csr!PrintMatrix
  BY <1>4 DEF Csr!PrintMatrix, CsrInv, Writing, ReadingInv, ReaderAt, Aborted
<1>5. CASE p = 0 /\ Csr!StartReading
  <2>1. Writing
    BY <1>5 DEF Csr!StartReading, CsrInv, ReadingInv, ReaderAt, Aborted
  <2>2. QED
    BY <1>5, <2>1 DEF Csr!StartReading, Writing, ReadingInv, ReaderAt, HeaderFailed
<1>6. CASE Csr!Read_header(p) \/ Csr!OpenRows(p) \/ Csr!Reduced(p) \/ Csr!CollectiveRead(p)
  <2>0. stage[p] \in {"header", "open", "starts", "reducing", "columns", "values"} /\ ReadingInv
    BY <1>6 DEF CsrInv, Writing, Aborted, Csr!Read_header, Csr!OpenRows, Csr!Reduced,
       Csr!CollectiveRead, Csr!ReadStarts, Csr!ReadColumns, Csr!ReadValues
  <2>1. CASE Csr!Read_header(p)
    <3>0. CASE Csr!Abort
      BY <3>0 DEF Csr!Abort, Aborted
    <3>1. CASE ~Csr!Abort
      <4>1. /\ stage[p] = "header" /\ mem' = mem /\ mem[p] = << >>
            /\ stage' = [stage EXCEPT ![p] = "open"] \/ stage' = [stage EXCEPT ![p] = "failed"]
            /\ p # 0 => stage[0] # "header"
                        /\ stage' = [stage EXCEPT ![p] = IF stage[0] = "failed" THEN "failed" ELSE "open"]
        BY <2>0, <2>1, <3>1 DEF Csr!Read_header, ReadingInv, ReaderAt
      <4>2. ~AllEntered /\ (stage[0] = "failed" => HeaderFailed)
        BY <2>0, <4>1 DEF AllEntered, ReadingInv, ReaderAt
      <4>3. CASE p = 0
        BY <2>0, <4>1, <4>2, <4>3 DEF ReadingInv, ReaderAt, HeaderFailed, AllEntered
      <4>4. CASE p # 0
        BY <2>0, <4>1, <4>2, <4>4 DEF ReadingInv, ReaderAt, HeaderFailed, AllEntered
      <4>5. QED
        BY <4>3, <4>4
    <3>2. QED
      BY <3>0, <3>1
  <2>2. CASE Csr!OpenRows(p)
    <3>1. /\ stage[p] = "open" /\ mem' = mem
          /\ \E s \in {"starts", "error"} : stage' = [stage EXCEPT ![p] = s]
      BY <2>2 DEF Csr!OpenRows
    <3>2. QED
      BY <2>0, <3>1 DEF ReadingInv, ReaderAt, HeaderFailed, AllEntered, AllAllocated
  <2>3. CASE Csr!ReadStarts(p)
    <3>1. /\ stage[p] = "starts" /\ mem[p] = << >> /\ ~AllEntered /\ ~HeaderFailed
          /\ \A q \in Proc \ {p} : mem'[q] = mem[q] /\ stage'[q] = stage[q]
      BY <2>0, <2>3 DEF Csr!ReadStarts, ReadingInv, ReaderAt, AllEntered
    <3>2. \/ stage'[p] = "error" /\ mem' = mem
          \/ stage'[p] = "reducing" /\ mem'[p] # << >>
      BY <2>3 DEF Csr!ReadStarts
    <3>3. QED
      BY <2>0, <3>1, <3>2 DEF ReadingInv, ReaderAt, HeaderFailed, AllEntered
  <2>4. CASE Csr!Reduced(p)
    <3>1. /\ stage[p] = "reducing" /\ AllEntered /\ mem' = mem
          /\ stage' = [stage EXCEPT ![p] = IF AllAllocated THEN "columns" ELSE "failed"]
      BY <2>4 DEF Csr!Reduced, Csr!all_mem_ok, AllEntered, AllAllocated
    <3>2. QED
      BY <2>0, <3>1 DEF ReadingInv, ReaderAt, HeaderFailed, AllEntered, AllAllocated
  <2>5. CASE Csr!ReadColumns(p) \/ Csr!ReadValues(p)
    <3>1. /\ stage[p] \in {"columns", "values"} /\ AllEntered /\ AllAllocated
          /\ \A q \in Proc \ {p} : stage'[q] = stage[q]
          /\ stage'[p] \in {"values", "ok", "error"}
      BY <2>0, <2>5 DEF Csr!ReadColumns, Csr!ReadValues, ReadingInv, ReaderAt
    <3>2. AllEntered' /\ AllAllocated'
      <4>1. /\ mem'[p] = mem[p] \/ (mem'[p].ok /\ mem'[p] # << >>)
            /\ \A q \in Proc \ {p} : mem'[q] = mem[q]
        BY <2>5 DEF Csr!ReadColumns, Csr!ReadValues
      <4>2. QED
        BY <3>1, <4>1 DEF AllEntered, AllAllocated
    <3>3. ~HeaderFailed /\ ~HeaderFailed'
      BY <3>1, <3>2 DEF HeaderFailed, AllEntered
    <3>4. QED
      BY <2>0, <3>1, <3>2, <3>3 DEF ReadingInv, ReaderAt
  <2>6. QED
    BY <1>6, <2>1, <2>2, <2>3, <2>4, <2>5 DEF Csr!CollectiveRead
<1>7. ~Csr!Send(p)
  BY DEF Csr!Send
<1>8. QED
  BY <1>3, <1>4, <1>5, <1>6, <1>7 DEF CsrMove, Csr!Step

-----------------------------------------------------------------------------
(* mlife.c up to its first generation.  A prefix is one of the texts of    *)
(* the command line or the default.                                        *)
Words(line) == {"mlife"} \cup {line[k][2] : k \in 1 .. Len(line)}

OptionType == [rows : Int, cols : Int, iter : Int, restart : Int, prefix : Words(argv)]

Place == {"parse", "args", "prefix", "io_init", "restart", "exchange", "loop", "aborted"}
Calls == {"args", "prefix", "io_init", "restart", "exchange"}

StartTypeOK ==
  /\ nprocs \in Nat \ {0} /\ argv \in Argvs
  /\ opts \in [Start!Rank -> OptionType]
  /\ pc \in [Start!Rank -> Place]
  /\ called \in [Start!Rank -> SUBSET Calls]
  /\ source \in [Start!Rank -> {"none", "fresh", "file"}]

(* Rank 0 keeps what it parsed; a rank that is past a broadcast has what   *)
(* rank 0 has.                                                             *)
RootOptions == /\ pc[0] = "parse" => called[0] = {}
               /\ "args" \in called[0] => opts[0] = Start!Parsed

PastArgs(p) ==
  pc[p] \in {"prefix"} \cup Start!Past =>
    /\ "args" \in called[0]
    /\ \A f \in {"rows", "cols", "iter"} : opts[p][f] = opts[0][f]

PastPrefix(p) == pc[p] \in Start!Past => opts[p].prefix = opts[0].prefix

(* Which of the two branches of life() a rank took shows in its calls.     *)
Branch(p) ==
  /\ "restart" \in called[p] => /\ pc[p] \in {"restart", "exchange", "loop", "aborted"}
                                /\ opts[p].restart # -1
  /\ "exchange" \in called[p] => /\ pc[p] \in {"exchange", "loop", "aborted"}
                                 /\ \/ source[p] = "fresh" /\ opts[p].restart = -1
                                    \/ source[p] = "file" /\ Start!Completed("restart")
  /\ pc[p] = "loop" => Start!Completed("exchange")

StartInv == StartTypeOK /\ RootOptions /\ \A p \in Start!Rank : PastArgs(p) /\ PastPrefix(p) /\ Branch(p)

LEMMA ParseOptionType ==
  ASSUME NEW o \in OptionType, NEW arg, arg[2] \in Words(argv)
  PROVE  Start!ParseOption(o, arg) \in OptionType
<1>1. Start!Atoi(arg[2]) \in Int
  BY DEF Start!Atoi
<1>2. QED
  BY <1>1 DEF Start!ParseOption, OptionType

LEMMA DefaultsType == Start!Defaults \in OptionType
<1>1. "mlife" \in Words(argv)
  BY DEF Words
<1>2. QED
  BY <1>1 DEF Start!Defaults, OptionType

(* Whatever the command line, every option has a value of its kind.        *)
LEMMA ParsedUpTo ==
  ASSUME NEW n \in Nat, \A k \in 1 .. n : argv[k][2] \in Words(argv)
  PROVE  LET parsed[k \in 0 .. n] ==
               IF k = 0 THEN Start!Defaults ELSE Start!ParseOption(parsed[k - 1], argv[k])
         IN  parsed[n] \in OptionType
<1> DEFINE Parse(h) == [k \in 0 .. n |-> IF k = 0 THEN Start!Defaults
                                         ELSE Start!ParseOption(h[k - 1], argv[k])]
           F == [k \in 1 .. n |-> [o \in OptionType |-> Start!ParseOption(o, argv[k])]]
           f == CHOOSE f : f = Parse(f)
<1>2. \A k \in 1 .. n, o \in OptionType : Start!ParseOption(o, argv[k]) \in OptionType
  BY ParseOptionType
<1>3. F \in [1 .. n -> [OptionType -> OptionType]]
  BY <1>2
<1>4. PICK g \in [0 .. n -> OptionType] :
             g[0] = Start!Defaults /\ \A k \in 1 .. n : g[k] = F[k][g[k - 1]]
  <2> HIDE DEF F
  <2>1. Start!Defaults \in OptionType
    BY DefaultsType
  <2>2. QED
    BY ONLY n \in Nat, <1>3, <2>1, Recursion
<1>5. g = Parse(g)
  <2>1. \A k \in 1 .. n : k - 1 \in 0 .. n /\ g[k - 1] \in OptionType
    OBVIOUS
  <2>2. \A k \in 1 .. n : g[k] = Start!ParseOption(g[k - 1], argv[k])
    BY <1>4, <2>1
  <2> HIDE DEF F
  <2>3. QED
    BY <1>4, <2>2
<1>6. f = Parse(f)
  BY <1>5
<1>7. ASSUME NEW h, h = Parse(h)
      PROVE  h[n] \in OptionType
  <2> DEFINE T == {m \in 0 .. n : h[m] \notin OptionType}
  <2> SUFFICES ASSUME h[n] \notin OptionType PROVE FALSE
    OBVIOUS
  <2>1. T \subseteq Nat /\ T # {}
    OBVIOUS
  <2>2. PICK m \in T : \A k \in T : m <= k
    <3> HIDE DEF T
    <3>1. QED
      BY <2>1, LeastElement
  <2>3. m \in 0 .. n /\ m # 0
    BY DefaultsType, <1>7
  <2>4. m \in 1 .. n /\ m - 1 \in 0 .. n /\ m - 1 \notin T
    BY <2>2, <2>3
  <2>5. h[m] = Start!ParseOption(h[m - 1], argv[m])
    BY <1>7, <2>3
  <2>6. QED
    BY <1>2, <2>4, <2>5
<1>8. QED
  BY <1>6, <1>7

LEMMA ParsedType == ASSUME argv \in Argvs PROVE Start!Parsed \in OptionType
<1> DEFINE n == Len(argv)
<1>1. n \in Nat
  BY CollectivesAssumption DEF CollectivesAssumption
<1>2. \A k \in 1 .. n : argv[k][2] \in Words(argv)
  BY DEF Words
<1>3. Start!Parsed = LET parsed[k \in 0 .. n] ==
                         IF k = 0 THEN Start!Defaults
                         ELSE Start!ParseOption(parsed[k - 1], argv[k])
                     IN  parsed[n]
  BY DEF Start!Parsed
<1> HIDE DEF n
<1>4. QED
  BY <1>1, <1>2, <1>3, ParsedUpTo

LEMMA StartInvInit == Start!Init => StartInv
<1> SUFFICES ASSUME Start!Init PROVE StartInv
  OBVIOUS
<1>1. Start!Defaults \in OptionType /\ nprocs \in Nat \ {0}
  BY DefaultsType, CollectivesAssumption DEF CollectivesAssumption, Start!Init
<1>2. QED
  BY <1>1 DEF Start!Init, StartInv, StartTypeOK, RootOptions, PastArgs, PastPrefix,
     Branch, Start!Rank, Start!Past, Place

LEMMA StartInvStep ==
  ASSUME StartInv, NEW p \in Start!Rank, Start!Step(p)
  PROVE  StartInv'
<1> USE DEF StartInv, StartTypeOK, Start!Call, Start!job
<1>1. /\ Start!Parsed \in OptionType /\ 0 \in Start!Rank
      /\ UNCHANGED Start!job /\ Start!Rank' = Start!Rank /\ OptionType' = OptionType
      /\ Start!Parsed' = Start!Parsed
  <2>1. UNCHANGED <<nprocs, argv, backend>>
    BY DEF Start!Step, Start!Parse, Start!EnterBcast, Start!BcastArgs,
       Start!BcastPrefix, Start!FreshStart, Start!EnterRestart,
       Start!RestartUnsupported, Start!RestartReturns, Start!EnterLoop
  <2>2. QED
    BY <2>1, ParsedType DEF Start!Rank, OptionType, Start!Parsed
<1> USE <1>1
<1>2. CASE p = 0 /\ Start!Parse
  <2>1. /\ pc[0] = "parse" /\ called[0] = {} /\ "args" \notin called[0]
        /\ opts' = [opts EXCEPT ![0] = Start!Parsed]
        /\ pc' = [pc EXCEPT ![0] = "args"]
        /\ called' = [called EXCEPT ![0] = {"args"}]
        /\ source' = source
    BY <1>2 DEF Start!Parse, RootOptions
  <2>2. QED
    BY <2>1 DEF RootOptions, PastArgs, PastPrefix, Branch, Start!Past, Place, Calls,
       Start!Completed
<1>3. CASE Start!EnterBcast(p)
  BY <1>3 DEF Start!EnterBcast, RootOptions, PastArgs, PastPrefix, Branch,
     Start!Past, Place, Calls, Start!Completed
<1>4. CASE Start!BcastArgs(p)
  <2>1. /\ pc[p] = "args" /\ "args" \in called[0]
        /\ opts' = [opts EXCEPT ![p] = Start!ArgsTaken(p)]
        /\ Start!ArgsTaken(p) \in OptionType
        /\ Start!ArgsTaken(0) = opts[0]
        /\ \A f \in {"rows", "cols", "iter"} : Start!ArgsTaken(p)[f] = opts[0][f]
        /\ Start!Call(p, "prefix", "prefix")
        /\ source' = source
    BY <1>4 DEF Start!BcastArgs, Start!ArgsTaken, Start!Broadcast, OptionType
  <2>2. opts'[0] = opts[0]
    BY <2>1
  <2>3. RootOptions'
    BY <2>1, <2>2 DEF RootOptions
  <2>4. ASSUME NEW q \in Start!Rank PROVE PastArgs(q)' /\ PastPrefix(q)'
    BY <2>1, <2>2 DEF PastArgs, PastPrefix, Start!Past
  <2>5. ASSUME NEW q \in Start!Rank PROVE Branch(q)'
    BY <2>1, <2>2 DEF Branch, Start!Completed
  <2>6. StartTypeOK'
    BY <2>1 DEF Place, Calls
  <2>7. QED
    BY <2>3, <2>4, <2>5, <2>6
<1>5. CASE Start!BcastPrefix(p)
  <2>1. /\ pc[p] = "prefix" /\ "args" \in called[0]
        /\ opts' = [opts EXCEPT ![p].prefix = opts[0].prefix]
        /\ Start!Call(p, "io_init", "io_init")
        /\ source' = source
    BY <1>5 DEF Start!BcastPrefix, PastArgs
  <2>2. /\ opts' \in [Start!Rank -> OptionType]
        /\ opts'[0] = opts[0]
        /\ \A q \in Start!Rank : \A f \in {"rows", "cols", "iter", "restart"} :
             opts'[q][f] = opts[q][f]
        /\ opts'[p].prefix = opts[0].prefix
        /\ \A q \in Start!Rank \ {p} : opts'[q] = opts[q]
    BY <2>1 DEF OptionType
  <2>3. RootOptions'
    BY <2>1, <2>2 DEF RootOptions
  <2>4. ASSUME NEW q \in Start!Rank PROVE PastArgs(q)' /\ PastPrefix(q)'
    BY <2>1, <2>2 DEF PastArgs, PastPrefix, Start!Past
  <2>5. ASSUME NEW q \in Start!Rank PROVE Branch(q)'
    BY <2>1, <2>2 DEF Branch, Start!Completed
  <2>6. StartTypeOK'
    BY <2>1, <2>2 DEF Place, Calls
  <2>7. QED
    BY <2>3, <2>4, <2>5, <2>6
<1>6. CASE Start!FreshStart(p)
  BY <1>6 DEF Start!FreshStart, Start!Fresh, RootOptions, PastArgs, PastPrefix, Branch,
     Start!Past, Place, Calls, Start!Completed
<1>7. CASE Start!EnterRestart(p)
  BY <1>7 DEF Start!EnterRestart, Start!Fresh, RootOptions, PastArgs, PastPrefix,
     Branch, Start!Past, Place, Calls, Start!Completed
<1>8. CASE Start!RestartUnsupported(p)
  BY <1>8 DEF Start!RestartUnsupported, Start!Abort, RootOptions, PastArgs, PastPrefix,
     Branch, Start!Past, Place, Calls, Start!Completed
<1>9. CASE Start!RestartReturns(p)
  BY <1>9 DEF Start!RestartReturns, Start!Abort, RootOptions, PastArgs, PastPrefix,
     Branch, Start!Past, Place, Calls, Start!Completed
<1>10. CASE Start!EnterLoop(p)
  BY <1>10 DEF Start!EnterLoop, RootOptions, PastArgs, PastPrefix, Branch,
     Start!Past, Place, Calls, Start!Completed
<1>11. QED
  BY <1>2, <1>3, <1>4, <1>5, <1>6, <1>7, <1>8, <1>9, <1>10 DEF Start!Step

LEMMA StartInvProperties == StartInv => Start!SizesAgree /\ Start!RestartNotIgnored
<1> SUFFICES ASSUME StartInv PROVE Start!SizesAgree /\ Start!RestartNotIgnored
  OBVIOUS
<1> USE DEF StartInv
<1>1. Start!SizesAgree
  BY DEF Start!SizesAgree, PastArgs, PastPrefix, Start!Past
<1>2. ASSUME NEW p \in Start!Rank, pc[p] = "loop", Start!Parsed.restart # -1, NEW q \in Start!Rank
      PROVE  source[q] = "file"
  <2>1. /\ \A r \in Start!Rank : "exchange" \in called[r]
        /\ 0 \in Start!Rank /\ opts[0] = Start!Parsed
    BY <1>2 DEF Branch, Start!Completed, PastArgs, Start!Past, RootOptions,
       StartTypeOK, Start!Rank
  <2>2. Start!Completed("restart")
    BY <1>2, <2>1 DEF Branch
  <2>3. QED
    BY <2>1, <2>2 DEF Branch, Start!Completed
<1>3. QED
  BY <1>1, <1>2 DEF Start!RestartNotIgnored

-----------------------------------------------------------------------------
(* The program that was chosen keeps its invariant, whatever the others'   *)
(* variables are.                                                          *)
Inv == /\ program = "mutex" => LifeInv
       /\ program = "copy"  => CopyInv /\ DataInv
       /\ program = "own"   => OwnInv
       /\ program = "csr"   => CsrInv
       /\ program = "start" => StartInv

LEMMA InvInit == Init => Inv
<1> SUFFICES ASSUME Init PROVE Inv
  OBVIOUS
<1>1. program = "mutex" => LifeInv
  BY LifeInvInit DEF Init
<1>2. program = "copy" => CopyInv /\ DataInv
  BY CollectivesAssumption, CopyInvInit, DataInvInit DEF Init, CollectivesAssumption
<1>3. program = "own" => OwnInv
  BY CollectivesAssumption, OwnInvInit DEF Init, CollectivesAssumption
<1>4. program = "csr" => CsrInv
  BY CsrInvInit DEF Init
<1>5. program = "start" => StartInv
  BY StartInvInit DEF Init
<1>6. QED
  BY <1>1, <1>2, <1>3, <1>4, <1>5 DEF Inv

LEMMA LifeInvStutter == LifeInv /\ UNCHANGED <<stage, mutexOnly>> => LifeInv'
BY DEF mutexOnly, LifeInv, LifeTypeOK, NamesByStage, OwnsNamed, CreatedTogether, FreedTogether

LEMMA CopyInvStutter ==
  CopyInv /\ DataInv /\ UNCHANGED <<stage, failures, copyOnly>> => CopyInv' /\ DataInv'
BY DEF copyOnly, CopyInv, CopyTypeOK, Control, Agreement, Silent, Told, Answers,
   Unopened, AllOpened, OneNot, DataInv, InOrder, MasterReads, Progress, Taken, Holds

LEMMA OwnInvStutter == OwnInv /\ UNCHANGED <<stage, ownOnly>> => OwnInv'
BY DEF ownOnly, OwnInv, OwnTypeOK, Own!Missing, ClosedComplete, PastBarrier

LEMMA CsrInvStutter == CsrInv /\ UNCHANGED <<stage, csrOnly>> => CsrInv'
BY DEF csrOnly, CsrInv, Writing, ReadingInv, ReaderAt, HeaderFailed, AllEntered,
   AllAllocated, Aborted

LEMMA StartInvStutter == StartInv /\ UNCHANGED startOnly => StartInv'
BY DEF startOnly, StartInv, StartTypeOK, RootOptions, PastArgs, PastPrefix, Branch,
   Start!Rank, Start!Completed, Start!Parsed, OptionType

LEMMA InvStep == Inv /\ [Next]_vars => Inv'
<1> SUFFICES ASSUME Inv, [Next]_vars PROVE Inv'
  OBVIOUS
<1> USE DEF Inv
<1>1. CASE UNCHANGED vars
  <2>1. /\ UNCHANGED <<program, startOnly>>
        /\ UNCHANGED <<stage, mutexOnly>> /\ UNCHANGED <<stage, failures, copyOnly>>
        /\ UNCHANGED <<stage, ownOnly>> /\ UNCHANGED <<stage, csrOnly>>
    BY <1>1 DEF vars, others
  <2>2. QED
    BY <2>1, LifeInvStutter, CopyInvStutter, OwnInvStutter, CsrInvStutter,
       StartInvStutter
<1>2. ASSUME NEW p \in Proc, FailingStep(p) PROVE Inv'
  <2>1. program' = program
    BY <1>2 DEF FailingStep
  <2>2. CASE program = "copy" /\ Copy!Step(p)
    BY <2>1, <2>2, CollectivesAssumption, CopyInvStep, DataInvStep DEF
       CollectivesAssumption
  <2>3. CASE program = "own" /\ Own!Step(p)
    BY <2>1, <2>3, CollectivesAssumption, OwnInvStep DEF CollectivesAssumption
  <2>4. QED
    BY <1>2, <2>2, <2>3 DEF FailingStep
<1>3. ASSUME NEW p \in Proc, StartStep(p) PROVE Inv'
  BY <1>3, StartInvStep DEF StartStep
<1>4. ASSUME NEW p \in Proc, MutexStep(p, Mutex!Step) \/ MutexStep(p, Mutex!ReturnEarly)
      PROVE Inv'
  BY <1>4, LifeInvStep DEF MutexStep, LifeStep, Mutex!Step, Mutex!ReturnEarly
<1>5. ASSUME NEW p \in Proc, CsrStep(p, Csr!Step) \/ CsrStep(p, Csr!ReturnEarly)
      PROVE Inv'
  BY <1>5, CollectivesAssumption, CsrInvStep DEF CollectivesAssumption, CsrStep, CsrMove,
     Csr!ReturnEarly
<1>6. ASSUME NEW p \in Proc, SharedStep(p, Shared!Step) \/ SharedStep(p, Shared!ReturnEarly)
      PROVE Inv'
  BY <1>6 DEF SharedStep
<1>7. QED
  BY <1>1, <1>2, <1>3, <1>4, <1>5, <1>6 DEF Next, Step, Early

LEMMA AlwaysInv == Spec => []Inv
BY InvInit, InvStep, PTL DEF Spec

-----------------------------------------------------------------------------
(* The variables of Create and Free keep their types, and a process owns   *)
(* what its structure names and what is not behind it on the way out:      *)
(* whichever of the releases are due are done, each once.                  *)
THEOREM OwnershipFollowsNames ==
  Spec => [](program = "mutex" => LifeTypeOK /\ OwnsNamed)
<1>1. Inv => (program = "mutex" => LifeTypeOK /\ OwnsNamed)
  BY DEF Inv, LifeInv
<1>2. QED
  BY <1>1, AlwaysInv, PTL

(* When Create has failed or Free has returned, the process owns nothing,  *)
(* whichever call failed: the tests of the members find all that had been  *)
(* allocated by then, release none of it twice, and read no member of a    *)
(* structure that is gone.                                                 *)
THEOREM NothingIsLeft == Spec => []NothingLeaks
<1>1. Inv => NothingLeaks
  <2> SUFFICES ASSUME LifeInv, NEW p \in Proc
               PROVE  /\ \A r \in Mutex!Resource : owns[p][r] \in 0 .. 1
                      /\ stage[p] \in Mutex!Release => owns[p]["struct"] = 1
                      /\ stage[p] \in {"failed", "done"} =>
                           \A r \in Mutex!Resource : owns[p][r] = 0
    BY DEF Inv, NothingLeaks, Mutex!NothingLeaks
  <2>1. \A r \in Mutex!Resource : owns[p][r] \in 0 .. 1
    BY DEF LifeInv, OwnsNamed
  <2>2. stage[p] \in Mutex!Release => owns[p]["struct"] = 1
    BY DEF LifeInv, OwnsNamed, NamesByStage, Dangling, MemBehind, WinBehind, Mutex!Release,
       Mutex!Resource
  <2>3. ASSUME stage[p] \in {"failed", "done"}, NEW r \in Mutex!Resource PROVE owns[p][r] = 0
    BY <2>3 DEF LifeInv, OwnsNamed, NamesByStage, Dangling, Cleared, MemBehind, WinBehind,
       Mutex!Resource
  <2>4. QED
    BY <2>1, <2>2, <2>3
<1>2. QED
  BY <1>1, AlwaysInv, PTL

(* The waitlist at the home rank is there as long as any process has the   *)
(* mutex and has not called Free: the home rank frees the memory after     *)
(* MPI_Win_free, which waits for that process.                             *)
THEOREM WaitlistOutlives == Spec => []WaitlistOutlivesUse
<1>1. Inv => WaitlistOutlivesUse
  <2> SUFFICES ASSUME LifeInv, NEW p \in Proc, stage[p] = "ready"
               PROVE  owns[Home]["mem"] = 1
    BY DEF Inv, WaitlistOutlivesUse, Mutex!WaitlistOutlivesUse
  <2>0. Home \in Proc
    BY CollectivesAssumption DEF CollectivesAssumption
  <2>1. Home \in entered["Win_create"] /\ entered["Win_free"] # Proc
    BY <2>0 DEF LifeInv, CreatedTogether, FreedTogether, WinBehind
  <2>2. stage[Home] \in {"in_create", "ready", "free_win", "in_win_free"}
    BY <2>0, <2>1 DEF LifeInv, CreatedTogether, FreedTogether, WinBehind, Mutex!Release
  <2>3. "mem" \in named[Home]
    BY <2>0, <2>1, <2>2 DEF LifeInv, NamesByStage, CreatedTogether, Named, Memory, Mutex!Release
  <2>4. QED
    BY <2>0, <2>2, <2>3 DEF LifeInv, OwnsNamed, Dangling, MemBehind, WinBehind, Mutex!Resource
<1>2. QED
  BY <1>1, AlwaysInv, PTL

(* What the processes agree on they are all told.  In Create, who is given *)
(* a mutex has seen everybody enter MPI_Win_create, and nobody fails after *)
(* that; in the copy the first broadcast and the MPI_Allreduce of the      *)
(* statuses reach all; in the reading of a matrix the header's broadcast   *)
(* and the MPI_Allreduce of the allocations do, although any process may   *)
(* drop out with an error of a file call before, between or behind them.   *)
THEOREM OneAnswer == Spec => []SameAnswer
<1>1. LifeInv => Mutex!NoHalfCreate
  BY DEF LifeInv, LifeTypeOK, CreatedTogether, Mutex!NoHalfCreate, Mutex!Release
<1>2. CopyInv => Copy!SameAnswer
  <2> SUFFICES ASSUME CopyInv, NEW p \in Proc, NEW q \in Proc,
                      stage[p] = "failed", stage[q] \in {"copy", "ok"}
               PROVE  FALSE
    BY DEF Copy!SameAnswer
  <2>1. ~ Unopened /\ AllOpened
    BY DEF CopyInv, Agreement, Told, Answers
  <2>2. OneNot
    BY <2>1 DEF CopyInv, Agreement, Answers
  <2>3. QED
    BY <2>1, <2>2 DEF AllOpened, OneNot
<1>3. CsrInv => Csr!SameAnswer
  BY DEF CsrInv, Writing, ReadingInv, ReaderAt, HeaderFailed, AllEntered, AllAllocated, Aborted,
     Csr!SameAnswer
<1>4. Inv => SameAnswer
  BY <1>1, <1>2, <1>3 DEF Inv, SameAnswer
<1>5. QED
  BY <1>4, AlwaysInv, PTL

(* Every output that is finished holds the blocks the master has read, in  *)
(* their order and each at most once, less those whose write failed; when  *)
(* nothing failed it is the whole file.                                    *)
THEOREM CopiesComplete == Spec => []CopiesEqual
<1>1. CopyInv /\ DataInv => Copy!CopiesEqual
  <2> SUFFICES ASSUME CopyInv, DataInv, NEW p \in Proc, stage[p] = "ok"
               PROVE  /\ \A i \in DOMAIN out[p] : out[p][i] \in 1 .. Len(sent) - 2
                      /\ \A i, j \in DOMAIN out[p] : i < j => out[p][i] < out[p][j]
                      /\ Len(out[p]) + failures >= Len(sent) - 2
                      /\ failures = 0 => Len(out[p]) = Blocks
    BY DEF Copy!CopiesEqual
  <2>1. Holds(out[p], Len(sent) - 2, failures) /\ stage[Home] = "ok"
    BY DEF DataInv, Progress
  <2>2. Len(sent) \in 2 .. Blocks + 2 /\ (failures = 0 => Len(sent) = Blocks + 2)
    BY <2>1 DEF DataInv, MasterReads
  <2>3. out[p] \in Seq(Word) /\ Len(out[p]) \in Nat /\ failures \in Nat
    BY DEF CopyInv, CopyTypeOK
  <2>4. /\ \A i \in DOMAIN out[p] : out[p][i] \in 1 .. Len(sent) - 2
        /\ \A i, j \in DOMAIN out[p] : i < j => out[p][i] < out[p][j]
    BY <2>1, Zenon DEF Holds
  <2>5. Len(out[p]) <= Len(sent) - 2 /\ Len(sent) - 2 <= Len(out[p]) + failures
    BY <2>1, Zenon DEF Holds
  <2>6. Blocks \in Nat
    BY CollectivesAssumption DEF CollectivesAssumption
  <2>7. /\ Len(out[p]) + failures >= Len(sent) - 2
        /\ failures = 0 => Len(out[p]) = Blocks
    BY ONLY <2>2, <2>3, <2>5, <2>6
  <2>8. QED
    BY <2>4, <2>7, Zenon
<1>2. Inv => CopiesEqual
  BY <1>1 DEF Inv, CopiesEqual
<1>3. QED
  BY <1>2, AlwaysInv, PTL

(* Past the barrier, and past the stat that checks it, every file of every *)
(* process has all its bytes, also when a process fails there.             *)
THEOREM SizesAlwaysHold == Spec => []SizesHold
<1>1. Inv => SizesHold
  BY DEF Inv, OwnInv, PastBarrier, SizesHold, Own!SizesHold
<1>2. QED
  BY <1>1, AlwaysInv, PTL

(* Whatever the command line, the ranks of mlife.c that are past the       *)
(* broadcasts have the same sizes, the same number of generations and the  *)
(* same prefix: they agree on the blocks and on how often they meet.       *)
THEOREM RanksAgree == Spec => []OptionsAgree
<1>1. Inv => OptionsAgree
  BY StartInvProperties DEF Inv, OptionsAgree
<1>2. QED
  BY <1>1, AlwaysInv, PTL

(* When the command line asks for a restart no rank gets to the generations*)
(* with a matrix that is not from the file, although the restart option    *)
(* itself is not distributed: MLIFE_exchange_init keeps back a rank that   *)
(* did restart, and its own MLIFEIO_Restart never returns.                 *)
THEOREM RestartsHonoured == Spec => []RestartNotIgnored
<1>1. Inv => RestartNotIgnored
  BY StartInvProperties DEF Inv, RestartNotIgnored
<1>2. QED
  BY <1>1, AlwaysInv, PTL
=============================================================================
