--------------------------- MODULE MCCollectives ---------------------------
(***************************************************************************)
(* The programs whose processes go from one collective call to the next    *)
(* while any of them may fail in between, for TLC: the mutex' Create and   *)
(* Free, the file copy, the sparse matrices, the programs that write a     *)
(* file per process, and mlife.c up to its first generation.  The          *)
(* variables of the others keep a value.                                   *)
(***************************************************************************)
EXTENDS Integers, Sequences, FiniteSets

CONSTANTS Proc, Home, MaxFailures,
          Blocks,             \* FileCopy
          Writes,             \* OwnFiles
          N, Matrices, Junk,  \* CsrFile
          Sizes, Argvs, Backends,  \* LifeStartup
          Rounds,             \* FilePrograms
          Programs            \* the programs to check

ASSUME CollectivesAssumption ==
  /\ Home \in Proc /\ 0 \in Proc
  /\ Blocks \in Nat /\ Writes \in Nat
  /\ Sizes \subseteq Nat \ {0}
  /\ \A line \in Argvs : Len(line) \in Nat

VARIABLES program, stage, failures,
          entered, owns, named, given,                \* MutexLifecycle
          sent, got, opened, out,                     \* FileCopy
          demo, size,                                 \* OwnFiles
          csrLib, nzOf, rows, prev, file, mem, met,   \* CsrFile
          nprocs, argv, backend, opts, pc, called, source, verdict,  \* LifeStartup
          job, todo, joined, store, seen              \* SharedFile

Mutex == INSTANCE MutexLifecycle
Copy  == INSTANCE FileCopy
Own   == INSTANCE OwnFiles
Csr   == INSTANCE CsrFile
Start == INSTANCE LifeStartup

Prog  == INSTANCE FilePrograms

(* Every program, and every daos reader after every daos writer.           *)
MCJobs ==
  {<<name>> : name \in
     {"hello-mpiio", "hello-noncontig", "hello-view", "hello-pnetcdf", "hello-hdf5",
      "array-mpiio", "array-mpiio-read", "array-mpiio-exercise", "array-nc", "array-nc-read",
      "array-nc-exercise", "op-combine", "compare", "compare-combine", "master", "posix",
      "helloworld", "warpdriveA", "warpdriveB", "ex1a", "ex1b", "ex1c", "ex2b",
      "comparison", "comparison-coll"}}
  \cup {"mpiio-write", "posix-write", "dfs-write"} \X {"mpiio-read", "posix-read", "dfs-read"}

Shared == INSTANCE SharedFile WITH Jobs <- MCJobs, Calls <- Prog!CallsOf

Running  == UNION {{j[k] : k \in DOMAIN j} : j \in MCJobs}
MCLayout == [name \in Running |-> Prog!LayoutOf(name)]
MCWanted == [name \in Running |-> [p \in Proc |-> Prog!WantedOf(name, p)]]

mutexOnly == <<entered, owns, named, given>>
copyOnly  == <<sent, got, opened, out>>
ownOnly   == <<demo, size>>
csrOnly   == <<csrLib, nzOf, rows, prev, file, mem, met>>
startOnly == <<nprocs, argv, backend, opts, pc, called, source, verdict>>
sharedOnly == <<job, todo, joined, store, seen>>
others    == <<stage, failures, mutexOnly, copyOnly, ownOnly, csrOnly, sharedOnly>>

vars == <<program, others, startOnly>>

Init == /\ program \in Programs
        /\ IF program = "mutex" THEN Mutex!Init
           ELSE entered = 0 /\ owns = 0 /\ named = 0 /\ given = 0
        /\ IF program = "copy" THEN Copy!Init
           ELSE sent = 0 /\ got = 0 /\ opened = 0 /\ out = 0
        /\ IF program = "own" THEN Own!Init ELSE demo = 0 /\ size = 0
        /\ IF program = "csr" THEN Csr!Init
           ELSE csrLib = 0 /\ nzOf = 0 /\ rows = 0 /\ prev = 0 /\ file = 0 /\ mem = 0
                /\ met = 0
        /\ IF program = "shared" THEN Shared!Init
           ELSE job = 0 /\ todo = 0 /\ joined = 0 /\ store = 0 /\ seen = 0
        /\ IF program = "start" THEN Start!Init /\ stage = 0 /\ failures = 0
           ELSE /\ nprocs = 0 /\ argv = 0 /\ backend = 0 /\ opts = 0 /\ pc = 0
                /\ called = 0 /\ source = 0 /\ verdict = 0

MutexStep(p, Do(_)) == /\ program = "mutex" /\ Do(p)
                       /\ UNCHANGED <<program, startOnly, copyOnly, ownOnly, csrOnly, sharedOnly>>

CsrStep(p, Do(_)) == /\ program = "csr" /\ Do(p)
                     /\ UNCHANGED <<program, startOnly, mutexOnly, copyOnly, ownOnly, sharedOnly>>

FailingStep(p) ==
  /\ UNCHANGED <<program, startOnly>>
  /\ \/ program = "copy" /\ Copy!Step(p) /\ UNCHANGED <<mutexOnly, ownOnly, csrOnly, sharedOnly>>
     \/ program = "own" /\ Own!Step(p) /\ UNCHANGED <<mutexOnly, copyOnly, csrOnly, sharedOnly>>

StartStep(p) == /\ program = "start" /\ p \in Start!Rank /\ Start!Step(p)
                /\ UNCHANGED <<program, others>>

SharedStep(p, Do(_)) == /\ program = "shared" /\ Do(p)
                        /\ UNCHANGED <<program, startOnly, mutexOnly, copyOnly, ownOnly, csrOnly>>

Step(p) == \/ MutexStep(p, Mutex!Step) \/ CsrStep(p, Csr!Step) \/ FailingStep(p)
           \/ StartStep(p) \/ SharedStep(p, Shared!Step)

(* A collective call need not return before all ranks are in it.           *)
Early(p) == \/ SharedStep(p, Shared!ReturnEarly) \/ CsrStep(p, Csr!ReturnEarly)
            \/ MutexStep(p, Mutex!ReturnEarly)

Next == \E p \in Proc : Step(p) \/ Early(p)

Spec == Init /\ [][Next]_vars

(* A process that is not waiting for others goes on.                       *)
FairSpec == Spec /\ \A p \in Proc : WF_vars(Step(p))

MCMatrices == {[r \in 0 .. 3 |-> <<1, 2, 0, 1>>[r + 1]],
               [r \in 0 .. 3 |-> <<0, 1, 2, 1>>[r + 1]]}

(* Command lines: none, sizes, a prefix, and restarts with the prefix given*)
(* before, after, or not at all.                                           *)
Plain    == {<<>>, <<<<"x", "7">>, <<"y", "2">>>>, <<<<"p", "ck">>, <<"i", "2">>>>,
             <<<<"r", "-1">>, <<"p", "ck">>>>, <<<<"q", "2">>>>}
Restarts == {<<<<"r", "2">>>>, <<<<"p", "ck">>, <<"r", "2">>>>,
             <<<<"y", "7">>, <<"r", "2">>, <<"p", "ck">>>>}
MCArgvs == Plain \cup Restarts

-----------------------------------------------------------------------------
OptionsAgree == program = "start" => Start!SizesAgree
RestartNotIgnored == program = "start" => Start!RestartNotIgnored
OptionsDistributed == program = "start" => Start!OptionsDistributed
WaitlistOutlivesUse == program = "mutex" => Mutex!WaitlistOutlivesUse
NothingLeaks == program = "mutex" => Mutex!NothingLeaks
CopiesEqual  == program = "copy" => Copy!CopiesEqual
SizesHold    == program = "own" => Own!SizesHold
RowsReadBack == program = "csr" => Csr!RowsReadBack
LastRowsReadBack == program = "csr" => Csr!LastRowsReadBack
FilesRight   == program = "shared" => Shared!FilesRight(MCLayout[job[1]])
ReadBack     == program = "shared" => Shared!ReadBack(MCWanted[job[1]])

(* What the processes of a program agree on they are all told: none goes   *)
(* on when another one has left because Create failed, because a file of   *)
(* the copy could not be opened, or because the header of a matrix could   *)
(* not be read or memory was wanting for it.  (A single call on the file   *)
(* of the matrix, or on a file of one's own, that fails is not agreed on.) *)
SameAnswer == CASE program = "mutex" -> Mutex!NoHalfCreate
                [] program = "copy"  -> Copy!SameAnswer
                [] program = "csr"   -> Csr!SameAnswer
                [] OTHER             -> TRUE

Returned(p) == stage[p] \in {"ok", "done", "failed", "error"}

(* A rank of mlife.c has got to its first generation, or all are aborted;  *)
(* unless -r is given, which ranks cannot all know of.                     *)
Started(p) == \/ p \notin Start!Rank \/ pc[p] \in {"loop", "aborted"}
              \/ nprocs > 1 /\ Start!Parsed.restart # -1

(* A failure that leaves the others in a collective call for ever: any in  *)
(* Create, in a file of one's own or in a shared file; in CSRIO_Write the  *)
(* want of memory and the failed open, in CSRIO_Read_rows every failed     *)
(* call on the file.                                                       *)
LeftAlone(p) ==
  \/ program \in {"mutex", "own", "shared"} /\ failures > 0
  \/ program = "csr" /\ \E q \in Proc : stage[q] = "error"
  \/ failures > 0 /\ stage[p] \in {"writing", "printing"}

(* Every process returns, or its job is aborted: from the copy whatever    *)
(* fails, from the reading of a matrix when the header cannot be read or   *)
(* memory is wanting, and from the others when nothing fails.              *)
EveryoneReturns ==
  \A p \in Proc : <>(IF program = "start" THEN Started(p)
                     ELSE Returned(p) \/ LeftAlone(p) \/ stage[0] = "aborted")
=============================================================================
