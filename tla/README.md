# Verification of hands-on

The repository holds the exercises of a course on parallel I/O and message
passing, and the benchmarks the course uses. This project models the programs in
TLA+, checks them with TLC and proves properties of them with TLAPS.

In what follows a file without a path is in `src/mpi2tutorial/examples/`, and
`ior.c`, `mdtest.c`, `utilities.c`, `parse_options.c` are in
`src/benchmarking/ior-3.2.1+atpesc/src/`.

## 1. The system

### Components

| component | state | operations | what is hard | what makes it correct |
|---|---|---|---|---|
| **MPI mutex** (`mutex/mpimutex.c`) | one byte per process in a window at the home rank; WAKEUP messages | `MPIMUTEX_Create`, `_Lock`, `_Unlock`, `_Free` | epochs of several processes in any order; the read and the write of an epoch in any order; a WAKEUP is chosen from a copy that is stale when it is sent; a failing allocation in the middle of collective calls, after which each member of the structure must be released once | one holder; one WAKEUP at a time, to somebody who waits; no waiter forgotten; nobody overtaken more than N-1 times; every call returns; no half-created mutex |
| **Game of life, 1-D** (`life/mlife.c`, three exchanges, three I/O modules) | two matrices per rank, windows, requests, options, checkpoint file, screen | `main`, `MLIFE_parse_args`, `life`, `MLIFE_exchange` (messages, fences, post-start-complete-wait), `MLIFEIO_Checkpoint`, `MLIFEIO_Restart` | ranks are in different generations; a message or a put must land in the halo of the right matrix; options known to one rank only; a job restarts with another number of ranks, after a crash or after an error | the ranks together compute the game of life; no put while its target computes; all ranks start, or none; a restart puts every row back |
| **Threaded life** (`life/mlifeomp.c`, `life/sweepomp*.c`) | the same matrices, several threads per rank | `MLIFE_Sweep` | exchange and computation overlap | the same generations as the plain loop |
| **Game of life, 2-D** (`life/mlife2d.c`, two exchanges, two displays) | the same, on a Cartesian grid of processes | the same, with columns first and rows with their corners after them | corners come from ranks one never talks to | the same |
| **pNeo** (`pneo/pneo_fence.c`, `pneo/pneo_pscw.c`) | a cell per process, its window of incoming spikes | `compute_state`, `output_spikes`, `reset_state` between fences, or between post, start, complete and wait | with different groups for post and start cells drift apart without bound | every spike is counted once, one round after it was sent |
| **Parallel file copy** (`spawn/`) | who has opened the file, blocks on their way | master and spawned slaves: broadcasts and a reduction | failing opens, reads and writes | all copy or all give up; copies are complete |
| **Sparse matrix I/O** (`sparsemat/`) | a file in three parts | `CSRIO_Write`, `CSRIO_Read_header`, `CSRIO_Read_rows` | offsets computed from sums over ranks; two jobs with different rows; a file call that fails on one rank only | what is read is what was written; no rank goes on to the data when another gave up for want of memory |
| **A file per process** (`src/variance`, `src/darshan-demos/fidgetspinner`) | the size of each file | create, write, close, a barrier, a check of all sizes | a rank that fails does not come to the barrier | nobody looks at a file that is not complete |
| **Programs that share a file** (`src/hello-io`, `src/array`, `src/daos`, `src/darshan-demos`, `src/hdf5`) | the file | collective and independent reads and writes at offsets or through views | offsets of different ranks; what a collective call waits for; a program that reads what another program wrote | each byte is where it belongs; what is read is what was written |
| **IOR** (`ior.c`) | files in transfers, what each task has moved, its phase | write, check, read, check, remove, for each repetition | a task reads what another one wrote; deadlines met anywhere; random offsets | checks that say an error only when there is one; parts that do not overlap; the same number of transfers; an end |
| **mdtest** (`mdtest.c`) | a tree of directories and files, the counters of items | create, stat, read and remove of directories and files, phase by phase, iteration by iteration | a task touches what another one made; time limits; phases in different jobs | no call fails; each item is visited; the same number of items; nothing left |
| Fortran life, vision-transformer checkpoints, job scripts, other backends of IOR | | | | not modelled: section 5 |

### How they interact

Ranks of one program talk by point-to-point messages, by one-sided access to
windows, and by collective calls; programs of different runs talk through files:
life through checkpoints, `CSRIO_Write` and `CSRIO_Read_rows`, the writers and
the readers of the DAOS demos, jobs of mdtest that do one phase each (and their
status file). `life/mlife.c` is linked with one of three exchanges and with
one of three I/O modules, `life/mlife2d.c` with one of two exchanges and one of
two displays; the exchange is what keeps the ranks together, so what the display
may rely on depends on it. `mlifeomp.c` is linked with one of three sweeps.

### MPI, as the models take it

The models state in their headers what they assume of MPI calls, and assume the
least the standard promises:

* A message or a put leaves its buffer at some moment between the call and the
  one that completes it. Messages of one pair with one tag stay in order;
  nothing is said about messages of different senders.
* `MPI_Send` may return when the message is buffered or only when it is
  received: both happen in the models, and liveness may rely only on the second.
  `MPI_Isend` likewise may be complete before its message is received, but need
  not be. `MPI_Win_start`, a put and `MPI_Win_complete` may return at once or wait
  for the post of each target, and a fence for all the ranks.
* A fence that ends an epoch returns when every rank has entered it and its puts
  are done; one that ends none may return at once. The n-th access to a window
  matches its n-th exposure, and a put arrives within that exposure.
* Operations of one epoch on different places are done in any order.
* A collective call with data from everybody returns when all have entered it, a
  broadcast when the root has. Three need not wait for all and may (`ReturnEarly`):
  in `SharedFile` a collective read or write returns when the ranks it needs are
  there (opening needs rank 0, closing needs all, and what was written is visible
  after the closing), in `CsrFile` a collective read, and in `MutexLifecycle`
  `MPI_Comm_free`.
* An error of a communication call aborts the job, which is what MPI does unless
  told otherwise; nothing in the repository tells it. File calls return their
  errors, on any process and not on others, and so do `malloc` and, where the code
  looks at the result, the building of a datatype and `MPI_Alloc_mem` in
  `MPIMUTEX_Create`. A file that was not opened and a datatype that was not committed
  are used by the code and must not be: the call may work or abort the job
  (`CsrFile!Abort`). An assertion that fails ends the job.

## 2. The modules

`Rounds`, `RoundRobinLock` are abstract specifications; the others follow the
code. `PROJECT.json` maps every definition to its lines.

| module | models | state and actions |
|---|---|---|
| `RoundRobinLock` | what the mutex promises | an owner, a set of waiters; the lock passes to the next waiter round the ring |
| `MpiMutex` | `MPIMUTEX_Lock`, `_Unlock` | `waitlist` is the window, `copy` is `waitlistcopy`, `pending` the two operations of an open epoch; one action per MPI call, `Get` and `Put` when the library carries them out. `NextRank` is the search for `nextrank`, `RankOfSlot` the datatype that leaves out the caller's byte |
| `MutexLifecycle` | `MPIMUTEX_Create`, `_Free` | `owns` counts, per process and resource, allocations less releases; `named` are the members of the structure that are not null, `given` who has `*mutex_p`, `entered` who is in which collective call. One action per allocation and per release: `err_return` and `MPIMUTEX_Free` look at the same members in the same order, and release or pass each. Allocations may fail up to `MaxFailures` times |
| `RowBlocks`, `LifeGrid` | `MLIFE_myrows`, `MLIFE_myrowoffset`, `MLIFE_nextstate` | operators; `World` is the game of life of the whole matrix |
| `Rounds` | what a program in rounds promises | a process computes its part of a generation when those it depends on have reached the one before |
| `LifeLoop` | `life()` without its exchange | `buf` are the two matrices, `cur` says which of them is `matrix` |
| `LifePt2pt`, `LifeFence`, `LifePscw` | `MLIFE_exchange` of `mlife-pt2pt.c`, `mlife-fence.c`, `mlife-pscw.c` | requests and channels; fences entered and puts outstanding; exposures, accesses and rows in flight, with post and start as two calls. Each has an `Unblocked`: when its next call has no right to wait any longer |
| `LifeSweep` | `MLIFE_Sweep` of `sweepomp1.c`, `sweepomp2.c`, `sweepomp3.c` | where each thread is, the rows left in the loop, the request of the exchange |
| `Life2dMesh`, `Life2dLoop`, `Life2dPt2pt`, `Life2dFence`, `MCLife2d` | `mlife2d.c` and its exchanges | as in one dimension; a cell is its place and generation, so a wrong neighbour shows whatever the rule |
| `MCLife` | the eight life programs for TLC | `program` is what was linked; start matrices |
| `LifeStartup` | `MLIFE_parse_args` and the start of `life()` | the options of each rank, the collective calls it has made |
| `LifeCheckpoint` | `mlife-io-mpiio.c` | the file by position in ints; jobs one after the other, crashes, errors of opens, reads, writes and closes |
| `LifePnetcdf`, `MCLifeCheckpoint` | `mlife-io-pnetcdf.c`; both for TLC | the file by dimension and by column and row; failing allocations and calls |
| `LifeDisplay` | `mlife-io-stdout.c` | messages to rank 0, the screen by row |
| `Life2dDisplay` | `mlife2d-io-stdout1.c` | messages per sender and row, the parts of the row rank 0 assembles |
| `MCDisplay` | both displays for TLC | `program` is the one that runs |
| `PneoNet`, `PneoFence`, `PneoPscw`, `MCPneo` | `pneo_fence.c`, `pneo_pscw.c` | `inarray` is the window as ints, `state` the cell; `Network` is the network computed without processes |
| `MCRounds` | life and pNeo for TLC | everything that computes in rounds, in one next-state relation |
| `FileCopy` | `pcp-spawn-master.c`, `pcp-spawn-slave.c` | `sent` is what was broadcast, `got` how much of it each slave has taken, `out` the copies |
| `CsrFile` | `csrio-mpiio.c`, `csrio-stdout.c` | the file in ints, with row starts, columns and data where the code computes their offsets; a job that writes, a job that reads, with one action per collective call of `CSRIO_Read_rows`, which each process may leave with an error of its own; `met` is the call a process has come to |
| `OwnFiles` | `variance.c`, `fidgetspinnerA.c`, `fidgetspinnerB.c` | `size` of the files; who is at the barrier |
| `FilePrograms` | what the programs that share a file call | a program is, for each rank, a list of calls: what is put where, what is got from where, whom the call waits for, what a failure does. `LayoutOf` and `WantedOf` say what the file should hold and a reader should have read, without the calls |
| `SharedFile` | how the calls of a list are carried out | `todo` of each rank, `joined` the call it is in, `store` the file, `seen` what was read |
| `MCCollectives` | the mutex' life cycle, the copy, the matrices, the files, the start of life for TLC | `program` is the one that runs |
| `IorTest` | a test of IOR | a record per task: its phase, where it is in it, the transfers made; `file` holds, per name and transfer, the pattern `FillBuffer` puts into it |
| `Mdtest` | mdtest | `program` is the list of phases an iteration makes of its options, `calls` what a task is to create, stat, read or remove in its phase, `fs` the tree |
| `MCBenchmarks` | the options of the tests and jobs; both benchmarks for TLC | `benchmark` is the one that runs |
| `SharedLemmas`, `MpiMutexProofs`, `LifeProofs`, `RoundsProofs`, `LifeDisplayProofs`, `Life2dMeshProofs`, `CheckpointProofs`, `CollectivesProofs` | proofs | those of `LifeProofs` and `RoundsProofs` are about the specification of `MCRounds`, those of `LifeDisplayProofs`, `CheckpointProofs` and `CollectivesProofs` about those of `MCDisplay`, `MCLifeCheckpoint` and `MCCollectives`, for all values of their constants |

The definitions whose names begin with `Bug` model nothing. Each is a slip a
programmer could make in the definition after it, and each property of a run is
violated by one of them; `PROJECT.json` lists which under "mutants".

How the modules compose: `MpiMutex` implements `RoundRobinLock` (INSTANCE with
`Owner` and `Waiting`). The life programs extend `LifeLoop` or `Life2dLoop`
and implement `Rounds` with blocks of cells; `pneo_pscw` implements it with the
state of a cell (`RoundsComputed`). `LifeCheckpoint` and `LifeDisplay` use the
distribution of `RowBlocks`, `Life2dDisplay` that of `Life2dMesh`; the displays
contain as much of the exchange as keeps ranks together (`Exchanged`, `Meets`).
`SharedFile` takes the calls of `FilePrograms` as a constant. In the MC modules
that hold several programs, one variable says which of them runs and the
variables of the others keep a value.

## 3. The runs

| run | instance | what it shows |
|---|---|---|
| `mutex` | 3 processes that lock and unlock for ever | one holder (`MutualExclusion`), one token, at somebody who waits (`OneToken`), no lost wakeup, bounded overtaking, refinement of the round-robin lock with its progress, and `CallsReturn`: a waiter gets the mutex and Unlock returns |
| `rounds` | life, 1-D: 7 rows on 3 ranks, 3 generations, patterns that cross borders, three exchanges, and three sweeps of 2 threads; 2-D: 3x3 cells on 2x2 ranks, both exchanges; pNeo: 3 cells with a cycle, 9 iterations, both programs | the ranks together compute what one process would (`RoundsComputed`, a refinement of `Rounds`), nothing is written into a process that computes (`NothingOutsideEpoch`), at most so many messages are under way, none is left over, everybody ends |
| `display` | 1-D: 5 rows, 4 ranks, 5 generations; 2-D: 2x3 cells on 2x3 ranks, 2 generations, fences | each frame is one generation with each row in its place although ranks run ahead, the number of buffered messages is bounded, both displays end, also without buffering |
| `checkpoint` | three jobs one after the other, 1 to 3 ranks, two other shapes; crashes, failing calls; MPI-IO and PnetCDF | what is in the file is restored to its row (with MPI-IO by any number of ranks), other shapes are rejected, ranks restart together or not at all |
| `collectives` | 3 processes, up to 2 failures; the mutex, a file of 3 blocks, two 4-row matrices written and read, the programs with a file per process, 30 small programs and pairs of programs on one file; eight command lines of life | nobody has a mutex, a copy or the rows of a matrix while another was told of a failure they should agree on (`SameAnswer`; the errors of single calls on the matrix' file are not agreed on), nothing leaks or is released twice, the waitlist outlives its use, copies are complete, sizes and rows are what they should, every shared file has every byte in its place (`FilesRight`) and is read back (`ReadBack`), the options agree, a restart is never replaced by a fresh matrix, everyone returns unless left alone by a failure nobody is told of (`LeftAlone`) |
| `benchmarks` | IOR: 3 tasks on 3 nodes, 2 repetitions, nine sets of options; mdtest: 3 tasks, ten series of jobs | no false alarm, no part overwritten, sizes as expected, as many transfers on each task with `stoneWallingWearOut`, no call of mdtest fails, every item is visited, the same number of items after a stonewall, nothing left but what is to be kept, and both end (IOR without `-T`) |
| `startup_options` | 1 or 3 ranks, eight command lines | a violation: finding 1 |
| `checkpoint_rank0` | two jobs, no errors | a violation: finding 2 |
| `display2d_race` | 3x2 cells on 3x2 ranks, 2 generations, messages | a violation: finding 3 |
| `pneo_entries` | the connection file of the repository, 7 cells, `pneo_fence` | a violation: finding 4 |
| `sweep3` | 5 rows on 2 ranks, one generation, `sweepomp3.c` | a violation: finding 5 |
| `mdtest_twice` | 2 tasks, `-W -N 1 -i 2`, 3 items | a violation: finding 6 |

### Bounds, and why they are enough

* Three processes are the least for the mutex at which the search wraps around
  and one waiter can be passed over for another; the safety properties are proved
  for every number, so the run is there for liveness and for the mutants.
* Three ranks give a middle rank with two neighbours, and seven rows ranks with
  different numbers of them, a first, a last and inner rows. Three generations
  use both matrices and both windows twice. Six ranks are needed to break the 2-D
  display (a fast rank two steps from rank 0 and a slow one in the same row),
  four to see a corner. The threaded programs start from a full matrix: its
  generations are such that the last row of a rank is what `sweepomp3.c` makes of
  it by its mistake too (finding 5), so that the rest of that sweep is checked.
* The counters of fences, posts and epochs are bounded by the number of
  generations and need no bound of their own. `MaxFailures` and `MaxJobs` bound
  failures and jobs; two failures let two ranks fail on different sides of a
  collective call, three jobs write, restart and write over, and restart again.
* `pneo` needs nine iterations: in the eighth two cells put into the same window,
  in the ninth both spikes must be counted.
* `FilePrograms` has the sizes of the code where they are small (`XDIM` is 5,
  `YDIM` is 1). Where they only repeat, they are 2: `Rounds` for the iterations
  (10, 6 and 512 in the code), `NVARS` (10), the lengths of arrays (`DIM` is 30,
  the HDF5 ones 230000). Texts have two or three units.
* IOR's three tasks on a node each are the least at which "the next node but one"
  (`-C` for checks) is neither the task itself nor the one it reads from; two
  segments of two transfers make offsets of all four kinds. `Draws` are two
  shuffles of the random offsets, since every task computes the same ones from
  the same seed. Two repetitions show what one leaves to the next.
* mdtest has two to four items per task and trees of a branching factor 2 and a
  depth up to 2: directories above, below and beside each other. Clocks are
  choices: a task may meet the time limit after any item.

### Fairness, and why the code justifies it

Every run with a liveness property assumes weak fairness of the steps of a
process inside of a call: the code has no way to stop there, and MPI promises
progress. Nobody is assumed to call `MPIMUTEX_Lock`; who holds the mutex is
assumed to call `MPIMUTEX_Unlock` some day. Where MPI may let a call wait,
fairness holds only once it need not wait any more: the completion of a send whose
receiver is there, a start, a put or a complete whose targets have posted, a
fence which all have entered, a collective call in which all ranks are (so
`ReturnEarly` has no fairness). In the modules of the exchanges and of pNeo this
condition is `Unblocked`, and `FairSpec` of the MC modules is weak fairness of a
step that is `Unblocked`: that everybody finishes (`RoundsEnd`) therefore holds in the
MPI that makes every one of these calls wait. A `post` after the `start`
(`BugPostAfterStart`), harmless to any order of calls that never wait, is a deadlock
under it. Strong fairness appears once, as an assumption inside of
`CallsReturn`: a process that calls `MPI_Win_lock` again and again must be
granted the window for `MPIMUTEX_Lock` to return. The standard does not promise
it, so the other two parts of the property do without.
Failures, crashes and corruption of storage have no fairness, and `checkpoint`
has no liveness property: jobs may crash. `EveryoneReturns` allows for what the
code does not provide for (`LeftAlone`): it says nothing of the mutex' `Create` and
of a program with files of its own after a failure, where a rank that gives up
leaves the others in a collective call, and nothing of the writing of a matrix after
a failed open or allocation and of its reading after a failed call on the file. It
does hold when the header cannot be read or memory is wanting.

All runs but `mutex` switch the deadlock check off because the programs end.

### Findings

1. `-r` is not distributed (`life/mlife.c:255`): rank 0 restarts, the others
   start afresh, and the program stops in two different collective calls. Found
   by `startup_options`; the comment at `life/mlife.c:210` promises otherwise.
2. The rows of rank 0 are not in a checkpoint (`life/mlife-io-mpiio.c:203`): the
   type of the header and the rows is made of three of its four blocks. Found by
   `checkpoint_rank0`; see the comment at `life/mlife-io-mpiio.c:165`.
3. The 2-D display receives parts of a row from any source and counts them
   (`life/mlife2d-io-stdout1.c:97`): with the exchange by messages the part of a
   fast rank's next generation can take the place of a slow rank's part. Found
   by `display2d_race`; with fences the display is right (`display`).
4. The window of `pneo_fence` is one of ints, its entries are pairs of ints, and
   displacements count entries (`pneo/pneo_fence.c:83`): a spike overwrites the
   source of an entry. Found by `pneo_entries`; see `pneo/pneo_fence.c:36`.
5. `sweepomp3.c` computes the last row of a rank from the neighbours of its first
   (`life/sweepomp3.c:40`). Found by `sweep3`.
6. `mdtest -W` compares the number of items with a mean that is rounded down and
   known to task 0 only (`mdtest.c:1062`), so with several iterations task 0 may
   stop before the others. Found by `mdtest_twice`; see `mdtest.c:1360`.

The models contain more of what the code does than these runs show. Each of the
following is what the model does too, and the properties of the runs say what
they leave out because of it:

* *PnetCDF checkpoint.* The restart stores column j into `matrix[i+1][j]`, not
  `[j+1]` (`life/mlife-io-pnetcdf.c:187`). The variable is (column, row) but rows
  are written one after the other, so another number of ranks finds the rows mixed
  up. The file is never closed after a restart. `RowsRestored` is about the cells
  of a row, in whatever column, for as many ranks as before.
* *Checkpoint.* The result of a failed read or write is replaced by that of the
  close (`life/mlife-io-mpiio.c:106` and 159), and a torn file is accepted; a close that
  fails on some ranks leaves them with an error the others do not see.
* *Sparse matrices.* `prev_nz` of rank 0 is not initialized before `MPI_Exscan`
  (`sparsemat/csrio-mpiio.c:308`), and n row starts are written where the reader
  looks at n + 1 (212): the number of entries of the last row is wrong.
  `RowsReadBack` supposes a `prev_nz` of 0 and leaves the last row out;
  `LastRowsReadBack` does not, and is violated. `CSRIO_Read_header` broadcasts with a
  datatype it has not committed (130) and closes a file that may not be open (114).
  `CSRIO_Read_rows` returns from a failed open or read before the calls the others
  go on to (187, 206, 244): one process has an error and the others data, or wait.
  So `SameAnswer` and `EveryoneReturns` are about the errors the code does exchange.
* *File copy.* A read or a write that fails in the middle looks like the end of the
  file (`spawn/pcp-spawn-master.c:82`), and everybody returns 0.
* *IOR.* Random offsets in a shared file differ in number between tasks, and with
  `stoneWallingWearOut` a task reads past its end marker (`ior.c:1900`; set `Cases`
  to `RandomCases`, property `StopsAtEndMarker`). `-l incompressible -W` reseeds
  after the check buffer is filled (`ior.c:1328`; `IncompressibleCases`,
  `NoFalseAlarm`). `-T` is looked at by each task on its own clock between the
  phases (`ior.c:1079`; `TimedCases`, `AbortsBetweenIterations` and the end of the
  test), although the help says "it aborts only between iterations".
* *mdtest.* With directories a stonewall leaves the others of the wrong number
  (`WallDirs`), `-R` with a stonewall (`WallRandom`), `-c -u` (`CollectUnique`),
  `-u -N -z` (`UniqueTree`) and `-n -I -z -i 3` (`GrowingItems`, `mdtest.c:1262`)
  meet items that are not there, and a status file without a number
  (`utilities.c:593`) leaves task 0 alone (`KilledJob`). These are the sets of
  jobs of `MCBenchmarks` that are in no run: with `Jobs` set to one of them a property
  of `Mdtest` is violated.

## 4. The proofs

Everything here holds for every value of the constants. Nothing is assumed but
the named ASSUMEs of the modules: numbers of rows, blocks, generations are
natural numbers; there is at least one process, thread and row of processes; the
home rank and rank 0 are processes; start matrices are matrices with a dead
boundary (`GridAssumption`); jobs have shapes and ranks (`CheckpointAssumption`),
and are linked with one of the two I/O modules (`BackendsAssumption`); command
lines are finite (`CollectivesAssumption`); connections are between cells
(`PneoAssumption`). The proofs use no more of sequences
than that their domain is `1 .. Len(s)`; functions with other domains (the
arguments of a program, rows from 0) never meet `Len`.

* **Mutex** (`MpiMutexProofs`). The inductive invariant is `Inv` of `MpiMutex`:
  the types, `WindowInv`, `NextInv`, `OneToken` and `NoLostWakeup`. The safety
  properties alone are not inductive, because they do not say what the bytes of
  the window mean: `WindowInv` says that the byte of a process is set exactly
  from its put in Lock to its put in Unlock, that the window lock is held exactly
  by the process in an epoch, and that a copy taken in the open epoch is still
  what the window holds. From it follow `TypeCorrect`, `Exclusion`,
  `TokenUnique`, `WakeupNotLost`; `Fairness` (bounded overtaking) and
  `Refinement` (each step is a step of the round-robin lock or a stutter) use it
  at both ends of a step, with the facts about `Scan` and `NextRank` as lemmas.
* **Rows** (`SharedLemmas`). `Tiling`: blocks follow one another without gap
  or overlap. `EveryRowOnce`: each row has exactly one rank, also with more ranks
  than rows. The remainder of the division goes to the first ranks; the proof
  compares `r * (rows \div n) + Min(r, rows % n)` for neighbours.
* **Life, 1-D** (`LifeProofs`). `LinesComputeLife`: with each of the three
  exchanges the ranks implement `Rounds`, hence compute the game of life of the
  whole matrix, for every matrix, number of generations and of ranks, also with
  ranks that have no rows. `FewMessagesHeld` (`BoundedMessages`) and
  `NothingIsLeftOver` (`NothingLeftOver`) are about all programs, the threaded
  and the two-dimensional ones included. `LifeInv` is inductive; its parts are:
  * `LoopInv`: in every state, also within an exchange, the inner rows of a rank
    are those of its generation, and the boundary of both matrices is dead.
    `LoopComputed` is the step from there to the next generation, from right
    halos (`HaloRight`); `World` is a recursive function, whose value is got from
    the lemma `Recursion`.
  * Two-sided (`CountInv`, `PtInv`): what is under way from p to q is counted by
    what p has sent and q received, each at most one exchange ahead of its
    generation, and the n-th message is the row of the n-th generation not yet
    received. So a receive stores the row of the receiver's generation, and there
    are at most two messages. The threads add that they compute the edges after
    the requests are done (`ThreadInv`).
  * Fences (`FenceInv`): the calls are counted per window, so a count is that of
    every other generation (`Count`), and a rank could be taken for one two
    generations away. The invariant says that generations differ by less than
    that: a rank is past a fence that ends an epoch only when all have entered it.
  * Post, start, complete, wait (`PscwInv`): of the two windows of a target, the
    current one holds at most the row of its generation, and the other at most
    that of the next, which a neighbour one generation ahead may have put
    already; a third cannot come before the target has gone on.
  * A rank without rows passes on rows that are not of the matrix, but the ranks
    without rows are the last ones, and what they send goes to a halo nobody
    computes from (`Sane`, `Right`).
  * Two dimensions (`MeshInv`): the messages between two ranks are counted by
    halves of the exchange, in which ranks beside and above each other are
    partners of one another in the same half (`SameHalf`).
* **Everything that computes in rounds** (`RoundsProofs`). `RoundsComputedRight`:
  every program of life and `pneo_pscw` implement `Rounds`, for every matrix, mesh,
  number of threads and network (`RoundsComputed`); `pneo_fence`, whose spikes do not
  arrive (finding 4), is not held to it. `NothingOutsideEpochHolds`: nothing is
  written into a process outside of the exchange that is to receive it, with
  `pneo_fence` too (`NothingOutsideEpoch`). The invariants are one per program:
  * *Two dimensions* (`MeshRight`, with `MeshComputesLife`, `MeshInsideEpochs`).
    `MeshLoop` is what `LoopInv` is in one dimension, less the row below a rank
    without rows and the column behind one without columns, which hold whatever
    came by (`Sees`). With messages (`MeshSent`) the n-th message under way is the
    edge of the generation its receiver is to have next. An edge of columns is as
    high as the rank, an edge of rows has the corners with it, and these are
    right because the second half of the exchange starts when the first is done:
    what a rank sends up or down was given to it by the ranks beside it
    (`HasEdge`). With fences (`MeshFences`) a rank counts three in a generation
    (`Reached`); who has begun a generation, or the rows of it, knows how many fences
    all the others have at least entered, a put is carried out in the epoch it
    was made in (`MeshEpoch`), and `MeshPair` says for each pair whose edge is there
    at which place.
  * *pNeo* (`PneoRight`, with `PneoComputesNetwork`, `NoSpikeOutsideEpoch`). With
    `pneo_pscw` cells drift apart without bound, so `Spikes` is about all the
    rounds the source of a connection is ahead: the spikes of those its target
    still has to come to are on their way, in the order of the rounds, and the
    spike of the target's own round is in the window unless it is among them.
    `CellRight` says that `state` is that of the cell in `Network`.
    `pneo_fence` needs `FenceSpikes`, the counting of fences.
  * *Threads* (`SweptIn`, `Working`). Of the matrix under computation it says which
    cells are done (`Done`): for the first two sweeps the rows of the threads that
    are at the barrier, for the third the rows taken from the loop, and the parts of
    the first and the last row of those past the edges. These are right
    (`TempRight`), and no thread reads a halo before the request of its rank is
    done. The third sweep computes something else than the game of life (finding
    5). So the lemmas of `LifeProofs` speak of any rows `W` that the sweep makes of
    a matrix (`Sweeps`), with `W` the game of life or `WorldOmp3`.
  * `NothingOutsideEpoch` is a property of steps: each step leaves a halo as it is
    or its rank is in the exchange of that halo (`HalosInside`), which the lemma of
    each step shows together with the invariant.

  The two theorems have one hypothesis, that there are no more ranks than rows if
  `sweepomp3.c` is among the programs: it computes the first and the last row of a
  rank without looking whether it has any, from rows its matrix does not have.
  For the other programs, ranks without rows, columns or cells are included.
* **Mesh** (`Life2dMeshProofs`). `MeshTiling`: each cell of the 2-D matrix has
  exactly one rank. A slab lemma for one direction, and the numbering of the grid
  for both.
* **1-D display** (`LifeDisplayProofs`). `Invariance`, and from it `TypeCorrect`,
  `FramesCorrect`, `BacklogIsBounded`. The invariant adds to the properties that
  the channel of a rank holds, in order and without gaps, the generations
  between those rank 0 has received and those the rank has sent; that rows
  already on the screen are those of the ranks before `from`; and that neighbours
  differ by at most one, which summed up from rank 0 to rank p gives the bound p.
* **2-D display** (`LifeDisplayProofs`). `LinesCorrect` (`LinesRight`): every row on
  the screen has one part of each rank that holds it, of one frame, if the exchange
  keeps the ranks together (`Lockstep`): with fences; with messages in a mesh of
  one column; or with messages in at most two rows and two columns, where rank 0
  touches everybody. The hypothesis is what finding 3 is about: with messages a rank
  two steps from rank 0 can be two frames ahead of it. The invariant (`MeshInv`)
  says how far ranks that meet may be apart (`MeshPaced`), that the channel of a
  rank and row holds, in order, the frames it has sent and rank 0 not received
  (`MeshQueues`), and that the parts of the line come from different ranks of its
  row and are of the frame being printed (`MeshLine`).
* **Checkpoint** (`CheckpointProofs`). `CheckpointRestored`, `ShapeRefused`,
  `RestartsTogether`, for any series of jobs, crashes and failures. The invariant
  `CInv` says what a whole file holds (`FileWhole`, `NcFileWhole`: the shape and
  the matrix of the last job that wrote all of it), what of its rows a rank has
  written when it is past the collective call, what is known of the header by
  those past the reading of it, and that ranks are in one call or the next
  (`WritersTogether`). Places in the file are numbers: that two cells are
  at two places, and a row of one rank at none of another's, is arithmetic with
  products, in lemmas of its own. For PnetCDF the rows come back only for as many
  ranks as wrote them, because the variable is transposed (section 3).
* **Collective programs** (`CollectivesProofs`). The invariant is a conjunction
  with one part per program.
  * *Mutex.* `NothingIsLeft`, `WaitlistOutlives`, `OwnershipFollowsNames`. The
    releases look at the members of the structure, not at what is allocated; so the
    invariant says which members are set at each place (`NamesByStage`), and that
    these are what the process owns, once each, but for a pointer that dangles
    between `MPI_Free_mem` and `free` (`OwnsNamed`). A release that is left out, or
    done twice, breaks the one or the other. `WaitlistOutlives` speaks of two
    processes at their places, which the collective calls tie together: who has
    a mutex has seen everybody enter `MPI_Win_create` (`CreatedTogether`), who is
    past `MPI_Win_free` has seen everybody enter that (`FreedTogether`). Were one
    process ready while the home rank is past `MPI_Win_free`, that process would
    have entered `MPI_Win_free`, which who is ready has not.
  * *Same answer* (`OneAnswer`). For the copy: a process returns an error only if
    all were told to exit, or if all have a status and one of them is a failure;
    a process copies only if all statuses are good (`Agreement`). For the matrices
    the same of the header's broadcast and the allocations (`CsrInv`), while any
    process may drop out of the calls in between with an error of its own, which
    the theorem does not speak of.
  * *Copy.* `CopiesComplete`: block k is broadcast k+1 and only the last broadcast
    is empty (`InOrder`); who has taken n broadcasts has the first n-1 blocks, in
    order, less at most as many as there were failures (`Progress`, `Holds`). That
    an output cannot be too long is part of the invariant, since counting an
    increasing sequence would take induction.
  * *Files of their own.* `SizesAlwaysHold`: a closed file is complete, and who is
    past the barrier knows that all files were closed, also when a process fails
    later (`OwnInv`).
  * *Start of life.* `RanksAgree`, `RestartsHonoured`: who is past a broadcast has
    what rank 0 sent (`PastArgs`, `PastPrefix`), and a rank with another opinion
    of the restart is kept back in another collective call (`Branch`). The getopt
    loop is a recursive function over the words of a command line, which has a
    value at each of them by the lemma `Recursion`.
* `SharedLemmas` also holds the arithmetic: division with remainder, products, the
  least element of a set of naturals and what follows from it, which take the
  place of induction.

Only model-checked:

* All liveness: `RoundsEnd`, `CallsReturn`, `EveryoneReturns` and the ends of the
  displays and the benchmarks. TLAPS has no fairness and no ENABLED here.
* What is read back from sparse matrices and shared files (`RowsReadBack`,
  `FilesRight`, `ReadBack`). Offsets are sums over ranks and the calls of a
  program an interpreter of lists: what these folds are for all arguments takes
  induction over data.
* The benchmarks (`NoFalseAlarm`, `PartsHold`, `SizesAgree`, `EvenWearOut` of IOR;
  `NoFailure`, `EveryItemVisited`, `SameNumberOfItems`, `FilesLeft` of mdtest). Their
  phases and trees are recursive operators and folds over the options.

`World`, `WorldOmp3` and `Network` are recursive functions over generations; the
proofs need one step of them, which the lemma `Recursion` gives, and no induction.

## 5. What is not modelled

* Timing: `MPI_Wtime`, the reductions of times, the tables of results and the
  pause between frames. (The gathering of times by `summarize_results` of
  `mdtest.c`, 1388-1440, is written in one order and read in another; it is left
  out with the rest of the output.)
* The contents of a row on the screen, the width of a line, and the output of
  debugging. `mlife2d-io-stdout.c` prints in turn between barriers; whether the
  terminal keeps that order is outside of the code.
* The values of options beyond those of `MCCollectives`; the parsing in
  `mlife2d.c` and `mlifeomp.c`, which is that of `mlife.c` with other options; the
  parsing of IOR and mdtest. Cases that cannot start are left out: `mdtest -B`,
  which `valid_tests` always refuses (1585), and `-f`, `-l` with fewer tasks, which
  ends in a barrier on `MPI_COMM_NULL`.
* Ranks without rows or cells in the runs, which have at least one per rank. The
  proofs are about them too, but for the third sweep (section 4).
* The Fortran life, a translation of the 2-D program.
* Of IOR: the backends but POSIX and MPIIO, which are calls into other libraries;
  the status file of the stonewall (`ior.c:1344`), which before the reading all tasks
  learn the number of transfers from in a broadcast, and its writing by the summary
  (`ior-output.c:390`);
  `file_hits_histogram`; hints; read data of mdtest; `size = k` with `-W -c -u`.
* Of the small programs: `h5par_ex2a.c`, which breaks the rule that all ranks pass
  the same arguments to a call on metadata, on purpose; the exercises with gaps to
  be filled in (`array-mpiio-write.c`, `array-pnetcdf-write.c`,
  `array-pnetcdf-op-combine.c`, `master.c`, `posix.c` and `description.c` in
  `src/array`); the main program of `dfs-read.c`, that of `dfs-write.c`; a wrong
  number of arguments of the Darshan demos, with which only rank 0 finalizes;
  `daos-hello-world.c` and `BENCH_*.c`, programs of one process; that `posix.c`
  returns 0 when it has failed; `sparsemat/test1.c`. The readers of the DAOS
  demos never look at the array they have read; `ReadBack` does.
* Spawning the slaves of the file copy, and failures of MPI itself: of
  `MPI_Comm_dup`, whose result `MPIMUTEX_Create` drops, and of `MPI_Win_create`
  (`mutex/mpimutex.c:75`). Were one to return an error on some processes only,
  these would fail and the others have a mutex.
* The result of writing the header of a matrix (`sparsemat/csrio-mpiio.c:328`), which
  the code drops; a matrix of which the reader has the memory already.
* Python, shell scripts and configurations.

## 6. Plan

1. That the parts of `FileOffset` and of IOR's offsets do not overlap, for all
   sizes: arithmetic with products, as in `CheckpointProofs`. What is left of
   `NoFalseAlarm` is then the phases.
2. `mlife2d-io-stdout.c`, and the gathers of `summarize_results`.
3. The backends of IOR that keep state between calls.
