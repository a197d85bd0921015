--------------------------- MODULE LifeCheckpoint ---------------------------
(***************************************************************************)
(* Checkpoint and restart of mlife-io-mpiio.c, for the file of one         *)
(* checkpoint number.  Jobs, runs of mlife, follow one another: each may   *)
(* restart from the file, and then writes it; a job may crash at any       *)
(* moment.  The file is a function from the positions written, in ints, to *)
(* what is there: three ints of header and the rows in matrix order.  A    *)
(* cell is not a value but <<job, row, column>>: which one it is.          *)
(***************************************************************************)
EXTENDS RowBlocks

CONSTANTS Options,            \* possible jobs: [rows, cols, np, restart]
          MaxJobs,            \* how many jobs follow one another
          IOErrors            \* may a read or a write of a rank fail?

ASSUME CheckpointAssumption ==
  /\ MaxJobs \in Nat /\ IOErrors \in BOOLEAN
  /\ \A o \in Options : /\ o.rows \in Nat \ {0} /\ o.cols \in Nat \ {0}
                        /\ o.np \in Nat \ {0} /\ o.restart \in BOOLEAN

VARIABLES id,                 \* number of the running job
          job,                \* its options
          pc,                 \* where each of its ranks is
          ret,                \* what the last I/O call returned to each rank
          header,             \* buf of MLIFEIO_Restart: does it fit?
          mem,                \* inner cells of matrix on each rank
          hurt,               \* ranks with a failed read or write
          file,               \* the contents
          exists,             \* has the file been created?
          whole               \* the job that wrote all of the file, or None

vars == <<id, job, pc, ret, header, mem, hurt, file, exists, whole>>

None == [id |-> 0]
Ranks == 0 .. job.np - 1
Everywhere(v) == [p \in Ranks |-> v]

MyRows(p)   == MLIFE_myrows(job.rows, p, job.np)
MyOffset(p) == MLIFE_myrowoffset(job.rows, p, job.np)

(* myfileoffset of the rows of rank p.                                     *)
FileOffset(p) == MyOffset(p) * job.cols + 3

(* The inner cells of rank p, and where its rowblk type puts them.         *)
Cells(p) == (1 .. MyRows(p)) \X (1 .. job.cols)

Position(p, c) == FileOffset(p) + (c[1] - 1) * job.cols + (c[2] - 1)

(* What is found in memory or in the file besides header and cells.        *)
Junk == <<"junk">>
Hole == <<>>

StartJob(o) ==
  /\ job' = o
  /\ pc' = [p \in 0 .. o.np - 1 |-> IF o.restart THEN "start" ELSE "compute"]
  /\ ret' = [p \in 0 .. o.np - 1 |-> "none"]
  /\ header' = [p \in 0 .. o.np - 1 |-> FALSE]
  /\ mem' = [p \in 0 .. o.np - 1 |-> <<>>]
  /\ hurt' = {}

Init == /\ id = 1
        /\ job \in {o \in Options : ~o.restart}
        /\ pc = Everywhere("compute")
        /\ ret = Everywhere("none")
        /\ header = Everywhere(FALSE)
        /\ mem = Everywhere(<<>>)
        /\ hurt = {}
        /\ file = <<>> /\ exists = FALSE /\ whole = None

AllAt(c) == \A p \in Ranks : pc[p] = c

(* MPI_File_open is collective; a missing file ends the restart.           *)
OpenForReading ==
  /\ AllAt("start")
  /\ IF exists THEN pc' = Everywhere("header") /\ UNCHANGED ret
               ELSE pc' = Everywhere("failed") /\ ret' = Everywhere("error")
  /\ UNCHANGED <<id, job, header, mem, hurt, file, exists, whole>>

BugRowsOnly == 0 \in DOMAIN file /\ file[0] = <<job.rows>>
HeaderFits ==
  /\ {0, 1} \subseteq DOMAIN file
  /\ file[0] = <<job.rows>> /\ file[1] = <<job.cols>>

(* A file that ends before the header leaves buf as it was on the stack.   *)
ReadHeader(p) ==
  /\ pc[p] = "header"
  /\ \/ /\ \E fits \in (IF file = <<>> THEN BOOLEAN ELSE {HeaderFits}) :
             header' = [header EXCEPT ![p] = fits]
        /\ UNCHANGED hurt
     \/ /\ IOErrors
        /\ hurt' = hurt \cup {p}
        /\ UNCHANGED header
  /\ pc' = [pc EXCEPT ![p] = "reduce"]
  /\ UNCHANGED <<id, job, ret, mem, file, exists, whole>>

BugOwnError(p) == p \in hurt
(* MPI_Allreduce of err with MPI_MAX.                                      *)
GlobalError(p) == hurt # {}

(* After the MPI_Allreduce each rank decides for itself.                   *)
CheckHeader ==
  /\ AllAt("reduce")
  /\ LET fails(p) == GlobalError(p) \/ ~header[p]
     IN  /\ pc' = [p \in Ranks |-> IF fails(p) THEN "failed" ELSE "rows"]
         /\ ret' = [p \in Ranks |-> IF fails(p) THEN "error" ELSE "none"]
  /\ UNCHANGED <<id, job, header, mem, hurt, file, exists, whole>>

(* What a read finds at position x: past the end it leaves the memory.     *)
Contents(x) ==
  IF x \in DOMAIN file THEN file[x]
  ELSE IF \E y \in DOMAIN file : y > x THEN Hole ELSE Junk

ReadRows(p) ==
  /\ pc[p] = "rows"
  /\ \/ /\ mem' = [mem EXCEPT ![p] = [c \in Cells(p) |-> Contents(Position(p, c))]]
        /\ UNCHANGED hurt
     \/ /\ IOErrors
        /\ hurt' = hurt \cup {p}
        /\ mem' = [mem EXCEPT ![p] = [c \in Cells(p) |-> Junk]]
  /\ pc' = [pc EXCEPT ![p] = "close"]
  /\ UNCHANGED <<id, job, ret, header, file, exists, whole>>

(* The ranks on which a call with all ranks may fail.                      *)
Failing == IF IOErrors THEN SUBSET Ranks ELSE {{}}

(* MPI_File_close is collective, and its result replaces that of the read. *)
CloseAfterReading ==
  /\ AllAt("close")
  /\ \E bad \in Failing :
       /\ pc' = [p \in Ranks |-> IF p \in bad THEN "failed" ELSE "compute"]
       /\ ret' = [p \in Ranks |-> IF p \in bad THEN "error" ELSE "ok"]
  /\ UNCHANGED <<id, job, header, mem, hurt, file, exists, whole>>

(* life() calls MPI_Abort when MLIFEIO_Restart fails.                      *)
Abort ==
  /\ \E p \in Ranks : pc[p] = "failed"
  /\ pc' = Everywhere("over")
  /\ UNCHANGED <<id, job, ret, header, mem, hurt, file, exists, whole>>

(* MPI_MODE_CREATE without a truncation: an older file is written over.    *)
OpenForWriting ==
  /\ AllAt("compute")
  /\ \/ /\ exists' = TRUE
        /\ pc' = Everywhere("write") /\ ret' = Everywhere("none")
     \/ /\ IOErrors
        /\ pc' = Everywhere("done") /\ ret' = Everywhere("error")
        /\ UNCHANGED exists
  /\ UNCHANGED <<id, job, header, mem, hurt, file, whole>>

HeaderData == [x \in 0 .. 2 |-> CASE x = 0 -> <<job.rows>>
                                   [] x = 1 -> <<job.cols>>
                                   [] x = 2 -> <<"iter">>]
RowData(p) == [x \in {Position(p, c) : c \in Cells(p)} |->
                 LET c == CHOOSE c \in Cells(p) : Position(p, c) = x
                 IN  <<id, MyOffset(p) + c[1], c[2]>>]

(* What is new hides what was there before.                                *)
Over(new, old) ==
  [x \in DOMAIN new \cup DOMAIN old |-> IF x \in DOMAIN new THEN new[x] ELSE old[x]]

(* The type of rank 0 is made of three of the four blocks that describe    *)
(* the header and the rows.                                                *)
Data(p) == IF p = 0 THEN HeaderData ELSE RowData(p)

WriteRank(p) ==
  /\ pc[p] = "write"
  /\ \/ /\ file' = Over(Data(p), file)
        /\ UNCHANGED hurt
     \/ /\ IOErrors
        /\ hurt' = hurt \cup {p}
        /\ UNCHANGED file
  /\ whole' = None
  /\ pc' = [pc EXCEPT ![p] = "closing"]
  /\ UNCHANGED <<id, job, ret, header, mem, exists>>

(* The result of the close replaces that of the write.  What a close that  *)
(* failed leaves in the file is not known to be whole.                     *)
CloseAfterWriting ==
  /\ AllAt("closing")
  /\ pc' = Everywhere("done")
  /\ \E bad \in Failing :
       /\ ret' = [p \in Ranks |-> IF p \in bad THEN "error" ELSE "ok"]
       /\ whole' = IF hurt = {} /\ bad = {} THEN [id |-> id, job |-> job] ELSE None
  /\ UNCHANGED <<id, job, header, mem, hurt, file, exists>>

(* The job is killed.                                                      *)
Crash ==
  /\ ~AllAt("done") /\ ~AllAt("over")
  /\ pc' = Everywhere("over")
  /\ UNCHANGED <<id, job, ret, header, mem, hurt, file, exists, whole>>

NextJob ==
  /\ AllAt("done") \/ AllAt("over")
  /\ id < MaxJobs
  /\ id' = id + 1
  /\ \E o \in Options : StartJob(o)
  /\ UNCHANGED <<file, exists, whole>>

Next == \/ OpenForReading \/ CheckHeader \/ CloseAfterReading \/ Abort
        \/ OpenForWriting \/ CloseAfterWriting \/ Crash \/ NextJob
        \/ \E p \in Ranks : ReadHeader(p) \/ ReadRows(p) \/ WriteRank(p)

Spec == Init /\ [][Next]_vars

-----------------------------------------------------------------------------
Restored == job.restart /\ AllAt("compute")

(* The rows the writing job's rank 0 held, which are not in the file.      *)
Missing == IF whole = None THEN 0
           ELSE MLIFE_myrows(whole.job.rows, 0, whole.job.np)

(* The row rank p restored as its i-th is that row of the checkpoint.      *)
RowRight(p, i) ==
  \A j \in 1 .. job.cols :
    mem[p][<<i, j>>] = <<whole.id, MyOffset(p) + i, j>>

(* Restart (mlife-io-mpiio.c:111) finds each row where Checkpoint put it,  *)
(* whatever the number of ranks of the two jobs, for all rows that are in  *)
(* the file, unless the checkpoint or a read failed.                       *)
RestoresRows ==
  Restored /\ whole # None /\ hurt = {} =>
    \A p \in Ranks : \A i \in 1 .. MyRows(p) :
      MyOffset(p) + i > Missing => RowRight(p, i)

(* "describes both the header data for a checkpoint and its contribution   *)
(* to the stored matrix" (mlife-io-mpiio.c:165): rank 0's rows as well.    *)
RestoresAllRows ==
  Restored /\ whole # None /\ hurt = {} =>
    \A p \in Ranks : \A i \in 1 .. MyRows(p) : RowRight(p, i)

(* A job of another shape than the checkpoint's does not restart from it   *)
(* (mlife-io-mpiio.c:138).                                                 *)
OtherShapeRejected ==
  Restored /\ whole # None =>
    job.rows = whole.job.rows /\ job.cols = whole.job.cols

(* "Have all process check that nothing went wrong" (mlife-io-mpiio.c:143):*)
(* from a checkpoint that is all there the ranks restart together or not   *)
(* at all, so that none is left waiting in a collective read.              *)
RestartTogether ==
  whole # None =>
    ~ \E p, q \in Ranks : pc[p] = "failed" /\ pc[q] \in {"rows", "close"}
=============================================================================
