------------------------------ MODULE IorTest ------------------------------
(***************************************************************************)
(* One test of IOR (TestIoSys and WriteOrRead of ior.c): the tasks write   *)
(* their parts of a shared file or files of their own, check what was      *)
(* written, read each other's parts back, and remove the files, for each   *)
(* repetition.  Files are counted in transfers; a transfer holds the       *)
(* pattern FillBuffer put into it.  Time is abstracted to choices: a       *)
(* transfer loop may meet its deadline after any transfer.                 *)
(***************************************************************************)
EXTENDS Integers, FiniteSets, SequencesExt, TLC

CONSTANTS NumTasksWorld, TasksPerNode,
          Repetitions,
          Cases,              \* the tests: records of options
          Draws               \* what random() may give: units -> tasks

(* MPI_Comm_size, and the tasks that share a node.                         *)
IorAssumption == NumTasksWorld \in Nat \ {0} /\ TasksPerNode \in Nat \ {0}

VARIABLES opt,                \* the options of the test
          draw,               \* the random owners of the units of a shared file
          task,               \* the variables of each task
          file,               \* the files that exist
          corrupt,            \* units the storage has corrupted
          aborted             \* MPI_Abort was called

vars == <<opt, draw, task, file, corrupt, aborted>>

World == 0 .. NumTasksWorld - 1
(* tasks of testComm                                                       *)
Task  == 0 .. opt.numTasks - 1

WriteKinds == {"write", "writecheck"}

(* ValidateTests, the options that are modelled.                           *)
ValidateTests(o) ==
  /\ o.write \/ o.read \/ o.checkWrite \/ o.checkRead
  /\ o.reorder \in {"none", "constant", "random"}
  /\ o.numTasks \in 1 .. NumTasksWorld
  /\ o.segmentCount \in Nat /\ o.transfersPerBlock \in Nat \ {0}
  /\ ~(o.randomOffset /\ o.reorder # "none" /\ ~o.filePerProc)
  /\ ~(o.randomOffset /\ (o.checkRead \/ o.storeFileOffset \/ o.collective \/ o.useFileView))

-----------------------------------------------------------------------------
(* Where a task's data goes.                                               *)
pretendRank(t) == (t + task[t].rankOffset) % opt.numTasks

SegmentCount == opt.segmentCount
(* blockSize / transferSize                                                *)
TransfersPerBlock == opt.transfersPerBlock
FileUnits == SegmentCount * TransfersPerBlock * opt.numTasks

BugNoStride(rank, k) ==
  k + (IF opt.filePerProc THEN 0 ELSE rank * TransfersPerBlock)
Offset(rank, k) ==
  LET i == k \div TransfersPerBlock
      j == k % TransfersPerBlock
  IN  IF opt.filePerProc THEN j + i * TransfersPerBlock
      ELSE j + i * opt.numTasks * TransfersPerBlock + rank * TransfersPerBlock

GetOffsetArraySequential(rank) ==
  [k \in 1 .. TransfersPerBlock * SegmentCount |-> Offset(rank, k - 1)]

Owned(d, rank) == SelectSeq([k \in 1 .. FileUnits |-> k - 1], LAMBDA u : d[u] = rank)

BugOwnSeed(rank, access) == Owned(draw[(rank % 2) + 1], rank)
(* The seeds of all tasks are the same, so each unit of a shared file      *)
(* falls to one task.  (The order the array is mixed into is left out.)    *)
GetOffsetArrayRandom(rank, access) ==
  IF opt.filePerProc THEN GetOffsetArraySequential(rank)
  ELSE Owned(draw[IF access \in WriteKinds THEN 1 ELSE 2], rank)

OffsetArray(t) == IF opt.randomOffset
                    THEN GetOffsetArrayRandom(pretendRank(t), task[t].access)
                    ELSE GetOffsetArraySequential(pretendRank(t))

(* MPIIO with a file view: the position in the view that SeekOffset makes  *)
(* of an offset, and the unit of the file the view has there.              *)
TasksPerFile == IF opt.filePerProc THEN 1 ELSE opt.numTasks
OffsetFactor(t) == IF opt.filePerProc THEN 0 ELSE pretendRank(t)

SeekOffset(t, off) ==
  LET segment == TransfersPerBlock * TasksPerFile
  IN  IF opt.filePerProc THEN off
      ELSE TransfersPerBlock * (off \div segment)
             + (off % segment) - OffsetFactor(t) * TransfersPerBlock

InView(t, v) == (v \div TransfersPerBlock) * TransfersPerBlock * TasksPerFile
                  + TransfersPerBlock * OffsetFactor(t) + (v % TransfersPerBlock)

Unit(t, off) == IF opt.useFileView THEN InView(t, SeekOffset(t, off)) ELSE off

(* GetTestFileName: a number, and the repetition with multiFile.           *)
TestFileName(t, offset) ==
  <<IF opt.filePerProc THEN (t + offset) % opt.numTasks ELSE 0,
    IF opt.multiFile THEN task[t].rep ELSE 0>>

-----------------------------------------------------------------------------
(* What a buffer holds.                                                    *)
Hole == <<0, 0, 0>>
Bad  == <<0, 0, -1>>

BugOwnRank(t, off, fillrank) ==
  [pattern |-> <<t + 1, task[t].rep, off>>, prng |-> task[t].prng]
(* FillBuffer: the pattern of a rank with the time stamp of the test and,  *)
(* with storeFileOffset, the offset; or the next numbers of the task's own *)
(* sequence, which reseed_incompressible_prng restarts.                    *)
FillBuffer(t, off, fillrank) ==
  IF opt.incompressible
    THEN LET n == IF task[t].reseed THEN 1 ELSE task[t].prng + 1
         IN  [pattern |-> <<t + 1, 0, n>>, prng |-> n]
    ELSE [pattern |-> <<fillrank + 1, task[t].rep, off>>, prng |-> task[t].prng]

(* write() at a unit; what was never written reads as zero.                *)
Written(f, u, x) ==
  [v \in 1 .. IF u < Len(f) THEN Len(f) ELSE u + 1 |->
     IF v = u + 1 THEN x ELSE IF v <= Len(f) THEN f[v] ELSE Hole]

-----------------------------------------------------------------------------
(* The calls all tasks of testComm make, by the place in the program.      *)
Call == [stamp  |-> "MPI_Bcast",     wbarrier |-> "MPI_Barrier",
         xcoll  |-> "MPI_File",      minmax   |-> "MPI_Allreduce",
         errors |-> "MPI_Reduce",    wclosed  |-> "MPI_Barrier",
         stat   |-> "MPI_Allreduce", moved    |-> "MPI_Allreduce",
         cbarrier |-> "MPI_Barrier", rbarrier |-> "MPI_Barrier",
         ebarrier |-> "MPI_Barrier", eremoved |-> "MPI_Barrier",
         free   |-> "MPI_Comm_free"]

AtCollective(t) == task[t].pc \in DOMAIN Call
CallOf(t) == Call[task[t].pc]

Init ==
  /\ opt \in {o \in Cases : ValidateTests(o)}
  /\ draw \in IF opt.randomOffset THEN Draws \X Draws ELSE {<<0, 0>>}
  /\ file = <<>> /\ corrupt = FALSE /\ aborted = FALSE
  /\ task = [t \in World |->
               [pc |-> IF t \in Task THEN "stamp" ELSE "world", rep |-> 0, phase |-> 1,
                access |-> "write", rankOffset |-> 0, name |-> <<>>, pair |-> 0,
                wearOutIterations |-> 0, pairsAccessed |-> 0, errors |-> 0,
                errorFound |-> FALSE, buffer |-> Hole, readCheckBuffer |-> Hole,
                reseed |-> TRUE, prng |-> 0, elapsed |-> FALSE]]

(* Task t goes on with some of its variables changed.                      *)
Go(t, r) == task' = [task EXCEPT ![t] = r @@ @]
Keep == UNCHANGED <<opt, draw, corrupt>>

-----------------------------------------------------------------------------
(* The next phase that the options ask for, unless the time is up, which   *)
(* every task finds out for itself (test_time_elapsed).                    *)
Wanted(phase) == {q \in phase .. 3 : \/ q = 1 /\ opt.write
                                     \/ q = 2 /\ opt.checkWrite
                                     \/ q = 3 /\ (opt.read \/ opt.checkRead)}
PhaseStart == <<"wremove", "cbarrier", "rname">>

Phase(t) ==
  /\ task[t].pc = "phase"
  /\ \E late \in {FALSE, opt.maxTime} :
       LET over == task[t].elapsed \/ late
           left == Wanted(task[t].phase)
       IN  Go(t, [elapsed |-> over,
                  pc |-> IF over \/ left = {} THEN "ebarrier"
                         ELSE PhaseStart[CHOOSE q \in left : \A r \in left : q <= r]])
  /\ Keep /\ UNCHANGED <<file, aborted>>

(* The buffer of the repetition.                                           *)
Fill(t) ==
  /\ task[t].pc = "fill"
  /\ LET b == FillBuffer(t, 0, pretendRank(t))
     IN  Go(t, [pc |-> "phase", phase |-> 1, buffer |-> b.pattern, prng |-> b.prng,
                reseed |-> FALSE])
  /\ Keep /\ UNCHANGED <<file, aborted>>

BugReadersFile(t) == task[t].name
(* RemoveFile: the own file, also when another one was read in random      *)
(* order; a shared file is rank 0's.                                       *)
RemovedName(t) == IF opt.filePerProc /\ opt.reorder = "random"
                    THEN TestFileName(t, 0) ELSE task[t].name
RemoveFile(t, name) ==
  file' = IF (opt.filePerProc \/ t = 0) /\ name \in DOMAIN file
            THEN [n \in DOMAIN file \ {name} |-> file[n]] ELSE file

WriteRemove(t) ==
  /\ task[t].pc = "wremove"
  /\ LET name == TestFileName(t, task[t].rankOffset)
     IN  /\ IF opt.useExistingTestFile THEN UNCHANGED file ELSE RemoveFile(t, name)
         /\ Go(t, [pc |-> "wbarrier", name |-> name, access |-> "write",
                   wearOutIterations |-> 0])
  /\ Keep /\ UNCHANGED aborted

(* The check of what was written, two nodes away from the writer.          *)
CheckOpen(t) ==
  /\ task[t].pc = "copen"
  /\ LET o == IF opt.reorder = "constant" THEN (2 * TasksPerNode) % opt.numTasks
              ELSE task[t].rankOffset
         b == FillBuffer(t, 0, (t + o) % opt.numTasks)
     IN  Go(t, [pc |-> "open", rankOffset |-> o, name |-> TestFileName(t, o),
                access |-> "writecheck", readCheckBuffer |-> b.pattern,
                prng |-> b.prng, reseed |-> TRUE])
  /\ Keep /\ UNCHANGED <<file, aborted>>

(* params->nodes, which InitTests computes before numTasks has got its     *)
(* value when -N does not give one.                                        *)
nodes == IF opt.numTasksGiven THEN opt.numTasks \div TasksPerNode ELSE 0

(* Whose part a task reads: so many nodes away, or at random but not       *)
(* nearer than that, or anyone's when there are no nodes.                  *)
ReadOffsets(t) ==
  IF opt.reorder = "constant" THEN {(opt.taskPerNodeOffset * TasksPerNode) % opt.numTasks}
  ELSE IF opt.reorder = "random"
    THEN LET off == IF opt.taskPerNodeOffset < nodes THEN opt.taskPerNodeOffset ELSE nodes - 1
         IN  {r \in 0 .. opt.numTasks - 1 : r >= off * TasksPerNode}
  ELSE {task[t].rankOffset}

ReadName(t) ==
  /\ task[t].pc = "rname"
  /\ \E o \in ReadOffsets(t) :
       LET b == IF opt.checkRead THEN FillBuffer(t, 0, (t + o) % opt.numTasks)
                ELSE [pattern |-> task[t].readCheckBuffer, prng |-> task[t].prng]
       IN  Go(t, [pc |-> "rbarrier", rankOffset |-> o, name |-> TestFileName(t, o),
                  access |-> IF opt.checkRead THEN "readcheck" ELSE "read",
                  readCheckBuffer |-> b.pattern, prng |-> b.prng,
                  reseed |-> task[t].reseed /\ ~opt.checkRead])
  /\ Keep /\ UNCHANGED <<file, aborted>>

-----------------------------------------------------------------------------
(* WriteOrRead.                                                            *)
AfterLoop == IF opt.wearOut THEN "minmax"
             ELSE IF opt.checkWrite \/ opt.checkRead THEN "errors" ELSE "close"
NextTransfer(t, pair, hitStonewall) ==
  IF pair < Len(OffsetArray(t)) /\ ~hitStonewall
    THEN IF opt.collective THEN "xcoll" ELSE "xfer"
    ELSE AfterLoop

(* create and open of the backend: all tasks may create the shared file.   *)
Open(t) ==
  /\ task[t].pc = "open"
  /\ LET name == task[t].name
         found == name \in DOMAIN file
     IN  /\ aborted' = (~found /\ task[t].access # "write")
         /\ file' = IF found \/ aborted' THEN file ELSE (name :> <<>>) @@ file
         /\ Go(t, [pair |-> 0, errors |-> 0, pc |-> NextTransfer(t, 0, FALSE)])
  /\ Keep

(* WriteOrReadSingle: transfer number pair, and the next place.  A         *)
(* transfer that cannot be completed aborts the job.                       *)
WriteOrReadSingle(t, next) ==
  LET x   == task[t]
      a   == OffsetArray(t)
      off == a[x.pair + 1]
      u   == Unit(t, off)
      b   == IF opt.storeFileOffset THEN FillBuffer(t, off, pretendRank(t))
             ELSE [pattern |-> IF x.access = "write" THEN x.buffer ELSE x.readCheckBuffer,
                   prng |-> x.prng]
      r   == [pc |-> next, pair |-> x.pair + 1, prng |-> b.prng,
              reseed |-> x.reseed /\ ~opt.storeFileOffset]
      bad == x.access \in {"writecheck", "readcheck"} /\ file[x.name][u + 1] # b.pattern
  IN  CASE x.pair >= Len(a) -> aborted' = TRUE /\ UNCHANGED <<task, file>>
        [] x.pair < Len(a) /\ x.access = "write" ->
             /\ file' = [file EXCEPT ![x.name] = Written(@, u, b.pattern)]
             /\ Go(t, r) /\ UNCHANGED aborted
        [] x.pair < Len(a) /\ x.access # "write" /\ u >= Len(file[x.name]) ->
             aborted' = TRUE /\ UNCHANGED <<task, file>>
        [] OTHER -> /\ Go(t, [errors |-> x.errors + IF bad THEN 1 ELSE 0] @@ r)
                    /\ UNCHANGED <<file, aborted>>

(* The loop over the offsets, up to the deadline or the number of          *)
(* transfers an earlier loop has made.                                     *)
Transfer(t) ==
  /\ task[t].pc = "xfer"
  /\ \E late \in {FALSE, opt.deadline} :
       WriteOrReadSingle(t, NextTransfer(t, task[t].pair + 1,
          late \/ (task[t].wearOutIterations # 0 /\ task[t].pair + 1 = task[t].wearOutIterations)))
  /\ Keep

(* "some work needs still to be done !"                                    *)
WearOut(t) ==
  /\ task[t].pc = "wear"
  /\ IF task[t].pair < task[t].pairsAccessed THEN WriteOrReadSingle(t, "wear")
     ELSE /\ Go(t, [pc |-> IF opt.checkWrite \/ opt.checkRead THEN "errors" ELSE "close"])
          /\ UNCHANGED <<file, aborted>>
  /\ Keep

Close(t) ==
  /\ task[t].pc = "close"
  /\ LET x == task[t]
         n == IF opt.wearOut THEN x.pairsAccessed ELSE x.pair
     IN  Go(t, [pairsAccessed |-> n] @@
               CASE x.access = "write" -> [pc |-> "wclosed"]
                 [] x.access = "writecheck" -> [pc |-> "phase", phase |-> 3, rankOffset |-> 0]
                 [] OTHER -> [pc |-> "stat"])
  /\ Keep /\ UNCHANGED <<file, aborted>>

EndRemove(t) ==
  /\ task[t].pc = "eremove"
  /\ RemoveFile(t, RemovedName(t))
  /\ Go(t, [pc |-> "eremoved"])
  /\ Keep /\ UNCHANGED aborted

EndOfRepetition(t) ==
  /\ task[t].pc = "again"
  /\ Go(t, [errorFound |-> FALSE, rankOffset |-> 0, rep |-> task[t].rep + 1,
            pc |-> IF task[t].rep + 1 < Repetitions THEN "stamp" ELSE "free"])
  /\ Keep /\ UNCHANGED <<file, aborted>>

-----------------------------------------------------------------------------
BugOwnPairs(t) == task[t].pair
(* MPI_Allreduce of the transfers, with MPI_MAX.                           *)
MostPairs(t) == LET S == {task[u].pair : u \in Task}
                IN  CHOOSE n \in S : \A m \in S : m <= n

BugOwnErrors(t) == task[t].errors # 0
(* CountErrors, which tells all tasks what rank 0 has added up.            *)
AnyErrors(t) == \E u \in Task : task[u].errors # 0

(* What task t goes on with when all are in the same call.                 *)
AfterCall(t) ==
  LET x == task[t]
  IN  CASE x.pc = "stamp"    -> [pc |-> "fill"]
        [] x.pc = "wbarrier" -> [pc |-> "open"]
        [] x.pc = "cbarrier" -> [pc |-> "copen"]
        [] x.pc = "rbarrier" -> [pc |-> "open"]
        [] x.pc = "xcoll"    -> [pc |-> "xfer"]
        [] x.pc = "minmax"   -> [pc |-> "wear", pairsAccessed |-> MostPairs(t)]
        [] x.pc = "errors"   -> [pc |-> "close", errorFound |-> x.errorFound \/ AnyErrors(t)]
        [] x.pc = "wclosed"  -> [pc |-> "stat"]
        [] x.pc = "stat"     -> [pc |-> "moved"]
        [] x.pc = "moved" /\ x.access = "write" ->
             [pc |-> "phase", phase |-> 2,
              wearOutIterations |-> IF opt.deadline THEN x.pairsAccessed
                                    ELSE x.wearOutIterations]
        [] x.pc = "moved" /\ x.access # "write" -> [pc |-> "phase", phase |-> 4]
        [] x.pc = "ebarrier" ->
             [pc |-> IF opt.keepFile \/ (x.errorFound /\ opt.keepFileWithError)
                       THEN "again" ELSE "eremove"]
        [] x.pc = "eremoved" -> [pc |-> "again"]
        [] x.pc = "free"     -> [pc |-> "world"]

Collective ==
  /\ \A t, u \in Task : AtCollective(t) /\ AtCollective(u) /\ CallOf(t) = CallOf(u)
  /\ task' = [t \in World |-> IF t \in Task THEN AfterCall(t) @@ task[t] ELSE task[t]]
  /\ Keep /\ UNCHANGED <<file, aborted>>

(* The barrier with the tasks that have no part in the test.               *)
WorldBarrier ==
  /\ \A t \in World : task[t].pc = "world"
  /\ task' = [t \in World |-> [task[t] EXCEPT !.pc = "done"]]
  /\ Keep /\ UNCHANGED <<file, aborted>>

(* The storage gives back something else than what was written.            *)
Corruption ==
  /\ opt.faulty /\ ~corrupt
  /\ \E n \in DOMAIN file : \E u \in DOMAIN file[n] : file' = [file EXCEPT ![n][u] = Bad]
  /\ corrupt' = TRUE
  /\ UNCHANGED <<opt, draw, task, aborted>>

Step(t) == \/ Phase(t) \/ Fill(t) \/ WriteRemove(t) \/ CheckOpen(t) \/ ReadName(t) \/ Open(t)
           \/ Transfer(t) \/ WearOut(t) \/ Close(t) \/ EndRemove(t) \/ EndOfRepetition(t)

Running == \/ \E t \in Task : Step(t)
           \/ Collective
           \/ WorldBarrier

Next == ~aborted /\ (Running \/ Corruption)

Spec == Init /\ [][Next]_vars

(* Tasks run, and MPI lets go whom it may let go.                          *)
FairSpec == Spec /\ WF_vars(~aborted /\ Running)

-----------------------------------------------------------------------------
(* The checks of IOR report no error when there is none: the storage has   *)
(* what was written, and nothing is read that was not.                     *)
NoFalseAlarm == ~corrupt => ~aborted /\ \A t \in Task : task[t].errors = 0

(* Nobody writes over what another task has written: while it writes, and  *)
(* until all have, each task's transfers are in the file.                  *)
PartsHold ==
  \A t \in Task : ~corrupt /\ task[t].access = "write" /\ task[t].pc \in {"xfer", "wear", "wclosed"} =>
    \A k \in 1 .. task[t].pair :
      LET off == OffsetArray(t)[k]
          x   == file[task[t].name][Unit(t, off) + 1]
      IN  x[1] = t + 1 /\ (opt.storeFileOffset => x[3] = off)

(* CheckFileSize has nothing to warn of without a deadline: what the tasks *)
(* have moved, what the files hold and what was expected are the same.     *)
SizesAgree ==
  (~opt.deadline /\ ~aborted /\ \A t \in Task : task[t].pc = "moved") =>
    LET names == IF opt.filePerProc THEN {task[t].name : t \in Task} ELSE {task[0].name}
    IN  /\ FoldFunction(LAMBDA x, n : x.pair + n, 0, [t \in Task |-> task[t]]) = FileUnits
        /\ \A n \in names : /\ Len(file[n]) = FileUnits \div (IF opt.filePerProc THEN opt.numTasks ELSE 1)
                            /\ \A v \in DOMAIN file[n] : file[n][v] # Hole

(* "each process has to write the same amount": with stoneWallingWearOut   *)
(* the tasks have made the same number of transfers when they are done.    *)
EvenWearOut == opt.wearOut /\ ~opt.randomOffset =>
  \A t, u \in Task : task[t].pc \in {"wclosed", "stat"} /\ task[u].pc \in {"wclosed", "stat"}
                       => task[t].pair = task[u].pair

(* Files are left only if they are to be kept, and those that are, are     *)
(* all there.                                                              *)
FilesAtEnd ==
  (\A t \in World : task[t].pc = "done") =>
    /\ DOMAIN file # {} => opt.keepFile \/ (opt.keepFileWithError /\ corrupt)
    /\ opt.keepFile => Cardinality(DOMAIN file) = (IF opt.filePerProc THEN opt.numTasks ELSE 1)
                                                    * (IF opt.multiFile THEN Repetitions ELSE 1)

(* The end of the test, for the tasks that have no part in it too.         *)
Ended == aborted \/ \A t \in World : task[t].pc = "done"
=============================================================================
