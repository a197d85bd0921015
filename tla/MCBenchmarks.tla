---------------------------- MODULE MCBenchmarks ----------------------------
(***************************************************************************)
(* A test of IOR or a series of jobs of mdtest, for TLC.  The variables of *)
(* the one that does not run keep a value.                                 *)
(***************************************************************************)
EXTENDS Integers, Sequences

CONSTANTS NumTasksWorld, TasksPerNode, Repetitions, Cases, Draws,  \* IorTest
          Size, Jobs,                                              \* Mdtest
          Benchmarks          \* the ones to check

VARIABLES benchmark,
          opt, draw, task, file, corrupt, aborted,                 \* IorTest
          jobs, job, program, mdtask, calls, fs, seen, status, failed  \* Mdtest

Ior == INSTANCE IorTest
Md  == INSTANCE Mdtest WITH task <- mdtask

ASSUME Ior!IorAssumption /\ Md!MdtestAssumption

iorOnly == <<opt, draw, task, file, corrupt, aborted>>
mdOnly  == <<jobs, job, program, mdtask, calls, fs, seen, status, failed>>
vars    == <<benchmark, iorOnly, mdOnly>>

Init ==
  \/ /\ benchmark = "ior" /\ "ior" \in Benchmarks /\ Ior!Init
     /\ jobs = 0 /\ job = 0 /\ program = 0 /\ mdtask = 0 /\ calls = 0 /\ fs = 0
     /\ seen = 0 /\ status = 0 /\ failed = FALSE
  \/ /\ benchmark = "mdtest" /\ "mdtest" \in Benchmarks /\ Md!Init
     /\ opt = 0 /\ draw = 0 /\ task = 0 /\ file = 0 /\ corrupt = FALSE /\ aborted = FALSE

OfIor(A)    == benchmark = "ior" /\ A /\ UNCHANGED <<benchmark, mdOnly>>
OfMdtest(A) == benchmark = "mdtest" /\ A /\ UNCHANGED <<benchmark, iorOnly>>

Next == OfIor(Ior!Next) \/ OfMdtest(Md!Next)

(* Tasks run, MPI lets go whom it may let go, and jobs are started.        *)
FairSpec == /\ Init /\ [][Next]_vars
            /\ WF_vars(OfIor(~aborted /\ Ior!Running))
            /\ WF_vars(OfMdtest(~failed /\ Md!Running))

-----------------------------------------------------------------------------
NoFalseAlarm == benchmark = "ior" => Ior!NoFalseAlarm
PartsHold    == benchmark = "ior" => Ior!PartsHold
SizesAgree   == benchmark = "ior" => Ior!SizesAgree
EvenWearOut  == benchmark = "ior" => Ior!EvenWearOut
NoFailure         == benchmark = "mdtest" => Md!NoFailure
EveryItemVisited  == benchmark = "mdtest" => Md!EveryItemVisited
SameNumberOfItems == benchmark = "mdtest" => Md!SameNumberOfItems

(* IOR leaves the files it is told to keep, and mdtest none if it is to    *)
(* remove.                                                                 *)
FilesLeft == IF benchmark = "ior" THEN Ior!FilesAtEnd ELSE Md!NothingLeftBehind

(* Tests of IOR without -T and jobs of mdtest come to their end: whichever *)
(* tasks meet the deadline, and when, all make the same collective calls   *)
(* until the last one, or the job is aborted.                              *)
BenchmarksEnd == <>(IF benchmark = "ior" THEN Ior!Ended ELSE Md!Ended)
-----------------------------------------------------------------------------
(* What is promised and, with RandomCases and TimedCases, not kept.        *)

(* "The last array element is set to -1 as end marker": no transfer is     *)
(* made from behind the end of the offsets.                                *)
StopsAtEndMarker == benchmark = "ior" =>
  \A t \in Ior!Task : task[t].pc = "wear" /\ task[t].pair < task[t].pairsAccessed
                   => task[t].pair < Len(Ior!OffsetArray(t))

(* "it aborts only between iterations and not within a test": a task at    *)
(* the end of a repetition has done all that was asked, or nothing.        *)
AbortsBetweenIterations == benchmark = "ior" =>
  \A t \in Ior!Task : task[t].pc = "ebarrier" => task[t].phase # 2

-----------------------------------------------------------------------------
(* Tests of IOR and jobs of mdtest: records of options.                    *)
Shared == [numTasks |-> 3, numTasksGiven |-> FALSE, segmentCount |-> 2, transfersPerBlock |-> 2,
           write |-> TRUE, checkWrite |-> FALSE, read |-> TRUE,
           checkRead |-> FALSE, filePerProc |-> FALSE, reorder |-> "none",
           taskPerNodeOffset |-> 1, randomOffset |-> FALSE, storeFileOffset |-> FALSE,
           incompressible |-> FALSE, useFileView |-> FALSE, collective |-> FALSE,
           multiFile |-> FALSE, keepFile |-> FALSE, keepFileWithError |-> FALSE,
           useExistingTestFile |-> FALSE, deadline |-> FALSE, wearOut |-> FALSE,
           maxTime |-> FALSE, faulty |-> FALSE]

Check(o) == [o EXCEPT !.checkWrite = TRUE, !.checkRead = TRUE]
Reordered(o) == [o EXCEPT !.reorder = "constant"]
OwnFile == [Shared EXCEPT !.filePerProc = TRUE]

(* -C, -Z, -F, -W, -R, -z, -V, -c, -m, -k, -D with and without wearing     *)
(* out, fewer tasks than there are, and storage that fails.                *)
IorCases ==
  {Check(Reordered(Shared)),
   [Check(Reordered(OwnFile)) EXCEPT !.storeFileOffset = TRUE],
   [Check(OwnFile) EXCEPT !.reorder = "random"],
   [Check(Reordered(Shared)) EXCEPT !.segmentCount = 1, !.deadline = TRUE, !.wearOut = TRUE],
   [Check(OwnFile) EXCEPT !.segmentCount = 1, !.deadline = TRUE],
   [Shared EXCEPT !.randomOffset = TRUE, !.checkWrite = TRUE],
   [Check(Reordered(Shared)) EXCEPT !.useFileView = TRUE, !.collective = TRUE],
   [Check(OwnFile) EXCEPT !.numTasks = 2, !.numTasksGiven = TRUE, !.multiFile = TRUE,
                          !.keepFile = TRUE],
   [Check(Reordered(OwnFile)) EXCEPT !.keepFileWithError = TRUE, !.faulty = TRUE]}

IorDraws == {[u \in 0 .. 11 |-> u % 3], [u \in 0 .. 11 |-> IF u < 9 THEN 0 ELSE u - 9]}

(* Random offsets in a shared file, with the stonewall to be worn out.     *)
RandomCases == {[Shared EXCEPT !.randomOffset = TRUE, !.wearOut = TRUE]}

(* -l incompressible -W                                                    *)
IncompressibleCases == {[OwnFile EXCEPT !.checkWrite = TRUE, !.incompressible = TRUE]}

(* -T                                                                      *)
TimedCases == {[OwnFile EXCEPT !.maxTime = TRUE]}

-----------------------------------------------------------------------------
Plain == [phases |-> {}, dirs_only |-> FALSE, files_only |-> FALSE, branch_factor |-> 1,
          depth |-> 0, items |-> 2, items_per_dir |-> 0, iterations |-> 1, leaf_only |-> FALSE,
          shared_file |-> FALSE, unique_dir |-> FALSE, collective_creates |-> FALSE,
          nstride |-> 0, barriers |-> TRUE, path_count |-> 1, random |-> FALSE, wall |-> FALSE,
          status_file |-> FALSE, fragile |-> FALSE, first |-> 0, last |-> 0]

Files == [Plain EXCEPT !.files_only = TRUE]
Tree  == [Files EXCEPT !.branch_factor = 2, !.depth = 1, !.items = 3]
Walled == [Files EXCEPT !.wall = TRUE]

(* -N, -u -N, -z -b -R, -L, -c -N, -S, -n -I, -u on two paths, -W, and the *)
(* phases in jobs of their own.                                            *)
MdtestJobs ==
  {<<[Plain EXCEPT !.nstride = 1, !.iterations = 2]>>,
   <<[Files EXCEPT !.unique_dir = TRUE, !.nstride = 1]>>,
   <<[Tree EXCEPT !.random = TRUE, !.nstride = 1]>>,
   <<[Tree EXCEPT !.leaf_only = TRUE, !.depth = 2, !.items = 4]>>,
   <<[Plain EXCEPT !.collective_creates = TRUE, !.nstride = 1]>>,
   <<[Plain EXCEPT !.shared_file = TRUE]>>,
   <<[Files EXCEPT !.items_per_dir = 1, !.nstride = 1, !.iterations = 2]>>,
   <<[Tree EXCEPT !.unique_dir = TRUE, !.path_count = 2]>>,
   <<[Walled EXCEPT !.nstride = 1, !.items = 3]>>,
   <<[Walled EXCEPT !.status_file = TRUE, !.phases = {"create"}],
     [Files EXCEPT !.status_file = TRUE, !.phases = {"stat", "read"}],
     [Files EXCEPT !.status_file = TRUE, !.phases = {"remove"}]>>}

(* -W with directories, -W -R, -c -u, -u -N -z, -n -I -z -i 3, -x after a  *)
(* job that was killed.                                                    *)
WallDirs   == {<<[Plain EXCEPT !.wall = TRUE]>>}
WallRandom == {<<[Walled EXCEPT !.random = TRUE]>>}
CollectUnique == {<<[Files EXCEPT !.collective_creates = TRUE, !.unique_dir = TRUE]>>}
UniqueTree == {<<[Tree EXCEPT !.unique_dir = TRUE, !.nstride = 1]>>}
GrowingItems == {<<[Tree EXCEPT !.items = 2, !.items_per_dir = 2, !.iterations = 3]>>}
WallTwice == {<<[Walled EXCEPT !.items = 3, !.iterations = 2, !.nstride = 1]>>}
KilledJob == {<<[Walled EXCEPT !.status_file = TRUE, !.phases = {"create"}, !.fragile = TRUE],
               [Files EXCEPT !.status_file = TRUE, !.phases = {"stat"}]>>}
=============================================================================
