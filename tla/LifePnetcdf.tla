---------------------------- MODULE LifePnetcdf -----------------------------
(***************************************************************************)
(* Checkpoint and restart of mlife-io-pnetcdf.c, for the same jobs as in   *)
(* LifeCheckpoint.  The file is a function from <<dimension>> to its       *)
(* length, and from the <<column, row>> of the variable "matrix" to what   *)
(* is there.  Opening, creating and the _all calls are collective; all     *)
(* ranks learn the same header when they open the file.                    *)
(***************************************************************************)
EXTENDS LifeCheckpoint

(* start and count name columns first, the rows in memory come one after   *)
(* the other: where the k-th int of rank p is.                             *)
NcPosition(p, k) == <<k \div MyRows(p), MyOffset(p) + (k % MyRows(p))>>

NcHeaderFits ==
  /\ {<<"col">>, <<"row">>} \subseteq DOMAIN file
  /\ file[<<"col">>] = <<job.cols>> /\ file[<<"row">>] = <<job.rows>>

(* A file that does not exist or fit is left open when the restart ends.   *)
NcOpenForReading ==
  /\ AllAt("start")
  /\ IF exists /\ NcHeaderFits
       THEN pc' = Everywhere("alloc") /\ UNCHANGED ret
       ELSE pc' = Everywhere("failed") /\ ret' = Everywhere("error")
  /\ UNCHANGED <<id, job, header, mem, hurt, file, exists, whole>>

Allocate(p) ==
  /\ pc[p] = "alloc"
  /\ \/ UNCHANGED hurt
     \/ IOErrors /\ hurt' = hurt \cup {p}
  /\ pc' = [pc EXCEPT ![p] = "reduce"]
  /\ UNCHANGED <<id, job, ret, header, mem, file, exists, whole>>

(* MPI_Allreduce of flag with MPI_LOR.                                     *)
NoBuffer(p) == hurt # {}

AgreeOnBuffers ==
  /\ AllAt("reduce")
  /\ pc' = [p \in Ranks |-> IF NoBuffer(p) THEN "failed" ELSE "rows"]
  /\ ret' = [p \in Ranks |-> IF NoBuffer(p) THEN "error" ELSE "none"]
  /\ UNCHANGED <<id, job, header, mem, hurt, file, exists, whole>>

(* What ncmpi_get_vara_int_all finds at position x: fill values.           *)
NcContents(x) == IF x \in DOMAIN file THEN file[x] ELSE Hole

BugWrongRow(i, j) == IF i = 1 THEN 0 ELSE (i - 2) * job.cols + j
(* The index in buf of what is stored into matrix[i][j].                   *)
BufIndex(i, j) == (i - 1) * job.cols + j

(* matrix[i+1][j] for j from 0: the last column keeps what malloc left     *)
(* there.  The result of the call is ignored, and the file stays open.     *)
NcReadRows(p) ==
  /\ pc[p] = "rows"
  /\ LET stored == (1 .. MyRows(p)) \X (0 .. job.cols - 1)
         matrix(buf) == Over(buf, [c \in Cells(p) |-> Junk])
     IN  \/ /\ mem' = [mem EXCEPT ![p] = matrix(
                 [c \in stored |-> NcContents(NcPosition(p, BufIndex(c[1], c[2])))])]
            /\ UNCHANGED hurt
         \/ /\ IOErrors
            /\ hurt' = hurt \cup {p}
            /\ mem' = [mem EXCEPT ![p] = matrix([c \in stored |-> Junk])]
  /\ pc' = [pc EXCEPT ![p] = "compute"] /\ ret' = [ret EXCEPT ![p] = "ok"]
  /\ UNCHANGED <<id, job, header, file, exists, whole>>

(* A new file takes the place of an older one (cmode is 0: NC_CLOBBER).    *)
Create ==
  /\ AllAt("compute")
  /\ \/ /\ exists' = TRUE /\ file' = <<>> /\ whole' = None
        /\ pc' = Everywhere("define") /\ ret' = Everywhere("none")
     \/ /\ IOErrors
        /\ pc' = Everywhere("done") /\ ret' = Everywhere("error")
        /\ UNCHANGED <<exists, file, whole>>
  /\ UNCHANGED <<id, job, header, mem, hurt>>

NcHeader == [x \in {<<"col">>, <<"row">>} |->
               IF x = <<"col">> THEN <<job.cols>> ELSE <<job.rows>>]

(* Without a header ncmpi_put_vara_all fails too; nobody looks at errors.  *)
EndDefinitions ==
  /\ AllAt("define")
  /\ \/ file' = NcHeader /\ UNCHANGED hurt
     \/ IOErrors /\ hurt' = Ranks /\ UNCHANGED file
  /\ pc' = Everywhere("write")
  /\ UNCHANGED <<id, job, ret, header, mem, exists, whole>>

NcRowData(p) ==
  LET index(c) == (c[1] - 1) * job.cols + c[2] - 1
  IN  [x \in {NcPosition(p, index(c)) : c \in Cells(p)} |->
         LET c == CHOOSE c \in Cells(p) : NcPosition(p, index(c)) = x
         IN  <<id, MyOffset(p) + c[1], c[2]>>]

NcWriteRank(p) ==
  /\ pc[p] = "write"
  /\ \/ /\ <<"row">> \in DOMAIN file
        /\ file' = Over(NcRowData(p), file)
        /\ UNCHANGED hurt
     \/ /\ IOErrors
        /\ hurt' = hurt \cup {p}
        /\ UNCHANGED file
  /\ pc' = [pc EXCEPT ![p] = "closing"]
  /\ UNCHANGED <<id, job, ret, header, mem, exists, whole>>

NcClose == CloseAfterWriting

NcNext == \/ NcOpenForReading \/ AgreeOnBuffers \/ Abort
          \/ Create \/ EndDefinitions \/ NcClose \/ Crash \/ NextJob
          \/ \E p \in Ranks : Allocate(p) \/ NcReadRows(p) \/ NcWriteRank(p)

-----------------------------------------------------------------------------
(* A job of as many ranks as the one that wrote the checkpoint finds in    *)
(* each of its rows the cells of that row, though in the columns before    *)
(* their own (mlife-io-pnetcdf.c:187).                                     *)
NcRowsRestored ==
  \A p \in Ranks : \A i \in 1 .. MyRows(p) :
    {mem[p][<<i, j>>] : j \in 0 .. job.cols - 1}
      = {<<whole.id, MyOffset(p) + i, j>> : j \in 1 .. job.cols}
=============================================================================
