---------------------------- MODULE FilePrograms ----------------------------
(***************************************************************************)
(* The small programs that share one file: hello-io, the array exercises   *)
(* and their solutions, the DAOS readers and writers, helloworld and       *)
(* warpdrive of darshan-demos, and the HDF5 examples.  A program is, for   *)
(* each rank, the list of its calls; SharedFile carries them out.          *)
(*                                                                         *)
(* A file maps positions to values: ints in a flat file, <<variable, row,  *)
(* column>> in a netCDF file, <<row, column>> in a HDF5 dataset.           *)
(***************************************************************************)
EXTENDS Integers, Sequences, FiniteSets, FiniteSetsExt, SequencesExt

CONSTANTS Proc,               \* 0 .. nprocs - 1
          Home,               \* rank 0
          Rounds              \* ITER, IOITS and the 512 rounds of warpdrive

nprocs == Cardinality(Proc)
Empty  == [x \in {} |-> 0]
At(offset, s) == [x \in offset .. offset + Len(s) - 1 |-> s[x - offset + 1]]

-----------------------------------------------------------------------------
(* Calls: of all ranks, which returns once those in ready have come to it; *)
(* or of one rank.  A call that fails aborts the job ("abort"), takes the  *)
(* rank to MPI_Finalize ("return"), or goes unnoticed ("goon").  A call    *)
(* may put cells into the file, or get what is at some places of it and    *)
(* expect certain values there.                                            *)
Call(name, all, ready, fails) ==
  [name |-> name, all |-> all, ready |-> ready, fails |-> fails,
   put |-> Empty, get |-> Empty, want |-> Empty]
All(name, ready, fails)  == Call(name, TRUE, ready, fails)
Own(name, fails)         == Call(name, FALSE, {}, fails)
Put(call, cells)         == [call EXCEPT !.put = cells]
Get(call, places)        == [call EXCEPT !.get = places]
Expect(call, values)     == [call EXCEPT !.want = values]

Exscan(p)      == All("MPI_Exscan", 0 .. p, "never")
Bcast(root)    == All("MPI_Bcast", {root}, "never")
Barrier        == All("MPI_Barrier", Proc, "never")
Reduce(p)      == All("MPI_Reduce", IF p = Home THEN Proc ELSE {}, "never")
Open(fails)    == All("open", {Home}, fails)
Close(fails)   == All("close", Proc, fails)
OnHome(p, calls) == IF p = Home THEN calls ELSE <<>>

-----------------------------------------------------------------------------
(* hello-io: "Hello from rank r of n".  Rank 0 is one with fewer digits.   *)
TextLen(p) == IF p = 0 THEN 2 ELSE 3
Text(p)    == [i \in 1 .. TextLen(p) |-> 100 * p + i]
SumBelow(len(_), p) == MapThenSumSet(len, 0 .. p - 1)

HelloMpiio(p) ==
  <<Exscan(p), Open("abort"),
    Put(All("MPI_File_write_at_all", {}, "abort"), At(SumBelow(TextLen, p), Text(p))),
    Close("abort")>>

(* The first and the last piece of each text.                              *)
HelloNoncontig(p) ==
  <<Exscan(p), Open("abort"),
    Put(All("MPI_File_write_at_all", {}, "abort"),
        At(SumBelow(LAMBDA q : 2, p), <<Text(p)[1], Text(p)[TextLen(p)]>>)),
    Close("abort")>>

(* Texts of one length; the view of a rank is every nprocs-th position.    *)
ViewText(p) == [i \in 1 .. 3 |-> 100 * p + i]
HelloView(p) ==
  LET displacements == [i \in 0 .. 2 |-> p + i * nprocs]
      view == [x \in Range(displacements) |->
                 ViewText(p)[1 + CHOOSE i \in 0 .. 2 : displacements[i] = x]]
  IN <<Open("abort"), All("MPI_File_set_view", {}, "abort"),
       Put(All("MPI_File_write_at_all", {}, "abort"), view), Close("abort")>>

(* The last rank tells the others how long the variable is.                *)
HelloPnetcdf(p) ==
  <<Exscan(p), Bcast(nprocs - 1), Open("abort"),
    All("ncmpi_enddef", {Home}, "abort"),
    Put(All("ncmpi_put_vara_text_all", {}, "abort"), At(SumBelow(TextLen, p), Text(p))),
    Close("abort")>>

(* Nobody looks at what H5Fcreate and H5Dwrite return.  Without the file   *)
(* all later calls return at once.                                         *)
HelloHdf5(p) ==
  <<Exscan(p), Bcast(nprocs - 1), Open("return"), All("H5Dcreate", {}, "never"),
    Put(All("H5Dwrite", {}, "goon"), At(SumBelow(TextLen, p), Text(p))),
    Close("goon")>>

-----------------------------------------------------------------------------
(* array: rank r has the row r of an array of nprocs rows, XDIM columns.   *)
XDIM == 5
YDIM == 1
buffer_create(seed, x, y) == [i \in 1 .. x * y |-> seed * 10 + i - 1]
Header(row, col, iter)    == <<row, col, iter>>

(* The header by rank 0, then the rows behind it.                          *)
ArrayMpiioWrite(p) ==
  <<Open("abort")>>
  \o OnHome(p, <<Put(Own("MPI_File_write", "abort"), At(0, Header(nprocs * YDIM, XDIM, 1)))>>)
  \o <<All("MPI_File_set_view", {}, "abort"),
       Put(All("MPI_File_write_at_all", {}, "abort"),
           At(3 + p * XDIM * YDIM, buffer_create(p, XDIM, YDIM))),
       Close("abort")>>

(* Each rank reads the column in the middle of all rows.                   *)
BugIgnoresStarts(sizes, starts) == [i \in 0 .. nprocs - 1 |-> 3 + i * sizes]
ColumnOf(sizes, starts) == [i \in 0 .. nprocs - 1 |-> 3 + i * sizes + starts]
HeaderPlaces == [i \in {-3, -2, -1} |-> i + 3]
ArrayMpiioRead(p) ==
  <<Open("abort")>>
  \o OnHome(p, <<Get(Own("MPI_File_read", "abort"), HeaderPlaces)>>)
  \o <<All("MPI_File_set_view", {}, "abort"),
       Get(All("MPI_File_read_all", {}, "abort"), ColumnOf(XDIM, XDIM \div 2)),
       Close("abort")>>
ArrayMpiioWriteRead(p) == ArrayMpiioWrite(p) \o ArrayMpiioRead(p)

(* The exercise still lacks the column.                                    *)
ExerciseMpiioWriteRead(p) ==
  ArrayMpiioWrite(p) \o <<Open("abort")>>
  \o OnHome(p, <<Get(Own("MPI_File_read", "abort"), HeaderPlaces)>>) \o <<Close("abort")>>

(* PnetCDF: the attribute "iteration", and the rows of some variables.     *)
Iteration == [x \in {<<0, -1, -1>>} |-> 1]
Row(v, p) == LET b == buffer_create(p, XDIM, YDIM) IN
             [x \in {v} \X {p * YDIM} \X (0 .. XDIM - 1) |-> b[x[3] + 1]]
NcDefine  == <<Open("abort"), Put(All("ncmpi_enddef", {Home}, "abort"), Iteration)>>
PutRow(v, p) == Put(All("ncmpi_put_vara_int_all", {}, "abort"), Row(v, p))

ArrayPnetcdfWrite(p) == NcDefine \o <<PutRow(0, p), Close("abort")>>
ArrayPnetcdfRead(p) ==
  <<Open("abort"),
    Get(Own("ncmpi_get_att_int", "abort"), [i \in {-1} |-> <<0, -1, -1>>]),
    Get(All("ncmpi_get_vara_int_all", {}, "abort"),
        [i \in 0 .. nprocs - 1 |-> <<0, i, XDIM \div 2>>]),
    Close("abort")>>
ArrayPnetcdfWriteRead(p) == ArrayPnetcdfWrite(p) \o ArrayPnetcdfRead(p)
ExercisePnetcdfWriteRead(p) == ArrayPnetcdfWrite(p) \o <<Open("abort"), Close("abort")>>

(* Writes that are posted, one for each variable, and done by wait_all.    *)
Combined(vars, p) ==
  [v \in 1 .. vars |-> Own("ncmpi_iput_vara_int", "abort")]
  \o <<Put(All("ncmpi_wait_all", {}, "abort"),
           [x \in UNION {DOMAIN Row(v, p) : v \in 0 .. vars - 1} |-> Row(x[1], p)[x]])>>
ArrayOpCombine(p) == NcDefine \o Combined(2, p) \o <<Close("abort")>> \o ArrayPnetcdfRead(p)

NVARS == 2                    \* 10 in the code
ArrayCompare(p, combine) ==
  NcDefine
  \o (IF combine THEN Combined(NVARS, p) ELSE [v \in 1 .. NVARS |-> PutRow(v - 1, p)])
  \o <<Close("abort")>>

(* Rank 0 gathers the rows and writes the file; the others have done.      *)
ArrayMaster(p) ==
  LET rows == FlattenSeq([r \in 1 .. nprocs |-> buffer_create(r - 1, XDIM, YDIM)]) IN
  <<All("MPI_Gather", IF p = Home THEN Proc ELSE {}, "abort")>>
  \o OnHome(p, <<Own("open", "return"),
                 Put(Own("write", "return"), At(0, Header(YDIM * nprocs, XDIM, 1))),
                 Put(Own("write", "return"), At(3, rows)),
                 Own("close", "return")>>)

(* A program of one process.                                               *)
ArrayPosix(p) ==
  OnHome(p, <<Own("open", "return"),
              Put(Own("write", "return"), At(0, Header(YDIM, XDIM, 1))),
              Put(Own("write", "return"), At(3, buffer_create(0, XDIM, YDIM))),
              Own("close", "return")>>)

-----------------------------------------------------------------------------
(* daos: each rank has Rounds records, a header and an array of DIM x DIM, *)
(* the same on all ranks.  XDIM and YDIM are both 30 in the code: writers  *)
(* put YDIM into row and XDIM into col, readers look for the opposite.     *)
DIM      == 2
Record   == 3 + DIM * DIM
totalsz  == Record * Rounds
Start(p) == SumBelow(LAMBDA q : totalsz, p)
Place(p, i)  == Start(p) + (i - 1) * Record
Data(i)      == Header(DIM, DIM, i)
Array        == buffer_create(0, DIM, DIM)

(* MPI_Exscan leaves off as it was on rank 0, which does not use it.       *)
BugSeekOnRank0(p, i) == (IF p = 0 THEN Record ELSE Start(p)) + (i - 1) * Record
Sought(p, i) == (IF p > 0 THEN Start(p) ELSE 0) + (i - 1) * Record

PutHeader(call, p, i) == Put(call, At(Sought(p, i), Data(i)))
PutArray(call, p, i)  == Put(call, At(Sought(p, i) + 3, Array))
GetHeader(call, p, i) ==
  LET header == At(Sought(p, i), Data(i)) IN
  Expect(Get(call, [x \in DOMAIN header |-> x]), header)
GetArray(call, p, i)  == Get(call, [x \in DOMAIN At(Sought(p, i) + 3, Array) |-> x])

EachRound(calls(_)) == FlattenSeq([i \in 1 .. Rounds |-> calls(i)])
Timed(p) == <<Barrier, Reduce(p)>>

MpiioWrite(p) ==
  <<Open("abort"), Exscan(p), Barrier>>
  \o EachRound(LAMBDA i : <<PutHeader(Own("MPI_File_write", "abort"), p, i),
                            PutArray(Own("MPI_File_write", "abort"), p, i)>>)
  \o <<Close("abort")>> \o Timed(p)
MpiioRead(p) ==
  <<Open("abort"), Exscan(p), Barrier>>
  \o EachRound(LAMBDA i : <<GetHeader(Own("MPI_File_read", "abort"), p, i),
                            GetArray(Own("MPI_File_read", "abort"), p, i)>>)
  \o <<Close("abort")>> \o Timed(p)

(* Nothing is aborted here: a rank that fails leaves the others waiting.   *)
PosixWrite(p) ==
  <<Own("open", "return"), Exscan(p), Barrier>>
  \o EachRound(LAMBDA i : <<PutHeader(Own("write", "return"), p, i),
                            PutArray(Own("write", "return"), p, i)>>)
  \o <<Own("close", "return")>> \o Timed(p)
PosixRead(p) ==
  <<Own("open", "return"), Exscan(p), Barrier>>
  \o EachRound(LAMBDA i : <<GetHeader(Own("read", "return"), p, i),
                            GetArray(Own("read", "return"), p, i)>>)
  \o <<Own("close", "return")>> \o Timed(p)

(* The handles of the container, and of the object, come from rank 0:      *)
(* first the length and then the bytes.                                    *)
Handle(p, make, take) ==
  OnHome(p, <<Own(make, "abort")>>) \o <<Bcast(Home), Bcast(Home)>>
  \o (IF p = Home THEN <<>> ELSE <<take>>)
DfsMain(p)   == Handle(p, "dfs_connect", Own("dfs_global2local_all", "never"))
DfsObject(p) == Handle(p, "dfs_open", Own("dfs_obj_global2local", "abort"))
               \o <<Exscan(p), Barrier>>
DfsWrite(p) ==
  DfsMain(p) \o DfsObject(p)
  \o EachRound(LAMBDA i : <<Put(Own("dfs_write", "abort"),
                                At(Place(p, i), Data(i) \o Array))>>)
  \o <<Own("dfs_release", "abort")>> \o Timed(p)
DfsRead(p) ==
  DfsMain(p) \o DfsObject(p)
  \o EachRound(LAMBDA i :
       LET cells == At(Place(p, i), Data(i) \o Array) IN
       <<Expect(Get(Own("dfs_read", "abort"), [x \in DOMAIN cells |-> x]),
                At(Place(p, i), Data(i)))>>)
  \o <<Own("dfs_release", "abort")>> \o Timed(p)

-----------------------------------------------------------------------------
(* darshan-demos.  The buffers hold anything; a cell names its writer.     *)
Block(p, n) == [i \in 1 .. n |-> 100 * p + i]
EachPhase(calls(_)) == FlattenSeq([i \in 1 .. Rounds |-> calls(i - 1)])

(* Each phase writes twice as much as the one before it.                   *)
HelloWorld(p) ==
  LET io_size(i) == 2 ^ i
      phase_offset(i) == MapThenSumSet(LAMBDA j : nprocs * io_size(j), 0 .. i - 1)
  IN <<Barrier, Open("return")>>
     \o EachPhase(LAMBDA i : <<Put(All("MPI_File_write_at_all", {}, "return"),
                                   At(phase_offset(i) + p * io_size(i), Block(p, io_size(i))))>>)
     \o <<Close("return")>>

WarpOffset(p, i) == nprocs * i + p
WarpdriveA(p) ==
  <<Barrier, Open("return")>>
  \o EachPhase(LAMBDA i : <<Put(All("MPI_File_write_at_all", {}, "return"),
                                At(WarpOffset(p, i), Block(p, 1)))>>)
  \o <<Close("return")>>
WarpdriveB(p) ==
  <<Barrier, Open("return")>>
  \o EachPhase(LAMBDA i : <<Put(Own("MPI_File_write_at", "return"),
                                At(WarpOffset(p, i), Block(p, 1)))>>)
  \o <<Close("return")>>

-----------------------------------------------------------------------------
(* HDF5: a dataset of DIM0 rows, a column for each rank.  DIM1 is 4 in the *)
(* code, "Should be same as MPI rank", that is nprocs.  A failed assertion *)
(* ends the job.                                                           *)
DIM0 == 2                     \* 230,000 in the code
Column(p, value(_)) == [x \in (0 .. DIM0 - 1) \X {p} |-> value(x[1])]
Skipped(i)     == 0           \* write_buf is left as it is
Create         == <<Open("abort"), All("H5Dcreate2", {}, "abort")>>
CloseAll       == <<All("H5Dclose", {}, "abort"), Close("abort")>>
WriteAlone(p, value(_))    == Put(Own("H5Dwrite", "abort"), Column(p, value))
WriteTogether(p, value(_)) == Put(All("H5Dwrite", {}, "abort"), Column(p, value))

H5Ex1a(p) == Create \o <<WriteAlone(p, Skipped)>> \o CloseAll
H5Ex1b(p) == Create \o <<WriteTogether(p, Skipped)>> \o CloseAll
H5Ex1c(p) == Create \o <<WriteAlone(p, Skipped)>> \o CloseAll   \* a chunk is a column

(* All ranks create the groups of all ranks, with a dataset in each.       *)
H5Ex2b(p) ==
  <<Open("abort")>>
  \o FlattenSeq([i \in 1 .. nprocs |->
       <<Put(All("H5Gcreate", {}, "abort"), [x \in {<<"Group", i - 1>>} |-> 1]),
         All("H5Dcreate2", {}, "abort"), All("H5Dclose", {}, "abort"),
         All("H5Gclose", {}, "abort")>>])
  \o <<Close("abort")>>

(* Each rank reads its own column back; nobody looks at the result, and    *)
(* the file is not closed.  collective is USE_COLL_DATA.                   *)
H5Comparison(p, collective) ==
  LET write_buf(i) == (100 + i) * p
      mine == Column(p, write_buf)
  IN Create
     \o <<IF collective THEN WriteTogether(p, write_buf) ELSE WriteAlone(p, write_buf)>>
     \o CloseAll
     \o <<Open("abort"), Own("H5Dopen2", "abort"),
          Get(IF collective THEN All("H5Dread", {}, "goon") ELSE Own("H5Dread", "goon"),
              [x \in DOMAIN mine |-> x])>>

CallsOf(program, p) ==
  CASE program = "hello-mpiio"      -> HelloMpiio(p)
    [] program = "hello-noncontig"  -> HelloNoncontig(p)
    [] program = "hello-view"       -> HelloView(p)
    [] program = "hello-pnetcdf"    -> HelloPnetcdf(p)
    [] program = "hello-hdf5"       -> HelloHdf5(p)
    [] program = "array-mpiio"      -> ArrayMpiioWrite(p)
    [] program = "array-mpiio-read" -> ArrayMpiioWriteRead(p)
    [] program = "array-mpiio-exercise" -> ExerciseMpiioWriteRead(p)
    [] program = "array-nc"         -> ArrayPnetcdfWrite(p)
    [] program = "array-nc-read"    -> ArrayPnetcdfWriteRead(p)
    [] program = "array-nc-exercise" -> ExercisePnetcdfWriteRead(p)
    [] program = "op-combine"       -> ArrayOpCombine(p)
    [] program = "compare"          -> ArrayCompare(p, FALSE)
    [] program = "compare-combine"  -> ArrayCompare(p, TRUE)
    [] program = "master"           -> ArrayMaster(p)
    [] program = "posix"            -> ArrayPosix(p)
    [] program = "mpiio-write"      -> MpiioWrite(p)
    [] program = "mpiio-read"       -> MpiioRead(p)
    [] program = "posix-write"      -> PosixWrite(p)
    [] program = "posix-read"       -> PosixRead(p)
    [] program = "dfs-write"        -> DfsWrite(p)
    [] program = "dfs-read"         -> DfsRead(p)
    [] program = "helloworld"       -> HelloWorld(p)
    [] program = "warpdriveA"       -> WarpdriveA(p)
    [] program = "warpdriveB"       -> WarpdriveB(p)
    [] program = "ex1a"             -> H5Ex1a(p)
    [] program = "ex1b"             -> H5Ex1b(p)
    [] program = "ex1c"             -> H5Ex1c(p)
    [] program = "ex2b"             -> H5Ex2b(p)
    [] program = "comparison"       -> H5Comparison(p, FALSE)
    [] program = "comparison-coll"  -> H5Comparison(p, TRUE)

-----------------------------------------------------------------------------
(* What the files have to hold, without the offsets of the programs.       *)
InRankOrder(piece(_)) == At(0, FlattenSeq([r \in 1 .. nprocs |-> piece(r - 1)]))
Interleaved == [x \in 0 .. 3 * nprocs - 1 |-> ViewText(x % nprocs)[(x \div nprocs) + 1]]
GlobalArray(rows) ==
  [x \in 0 .. 2 + rows * XDIM |->
     IF x < 3 THEN <<rows, XDIM, 1>>[x + 1]
     ELSE 10 * ((x - 3) \div XDIM) + ((x - 3) % XDIM)]
NcArrays(vars) == [x \in DOMAIN Iteration \cup ((0 .. vars - 1) \X Proc \X (0 .. XDIM - 1)) |->
                     IF x \in DOMAIN Iteration THEN 1 ELSE 10 * x[2] + x[3]]
Records == InRankOrder(LAMBDA p : FlattenSeq([i \in 1 .. Rounds |->
                                    <<DIM, DIM, i>> \o [k \in 1 .. DIM * DIM |-> k - 1]]))
Phases(size(_)) == At(0, FlattenSeq([i \in 1 .. Rounds |->
                     FlattenSeq([r \in 1 .. nprocs |-> Block(r - 1, size(i - 1))])]))
Dataset(value(_, _)) == [x \in (0 .. DIM0 - 1) \X Proc |-> value(x[1], x[2])]

LayoutOf(writer) ==
  CASE writer \in {"hello-mpiio", "hello-pnetcdf", "hello-hdf5"} -> InRankOrder(Text)
    [] writer = "hello-noncontig" -> InRankOrder(LAMBDA p : <<Text(p)[1], Last(Text(p))>>)
    [] writer = "hello-view" -> Interleaved
    [] writer \in {"array-mpiio", "array-mpiio-read", "array-mpiio-exercise", "master"} ->
         GlobalArray(nprocs)
    [] writer = "posix" -> GlobalArray(1)
    [] writer \in {"array-nc", "array-nc-read", "array-nc-exercise"} -> NcArrays(1)
    [] writer = "op-combine" -> NcArrays(2)
    [] writer \in {"compare", "compare-combine"} -> NcArrays(NVARS)
    [] writer \in {"mpiio-write", "posix-write", "dfs-write",
                    "mpiio-read", "posix-read", "dfs-read"} -> Records
    [] writer = "helloworld" -> Phases(LAMBDA i : 2 ^ i)
    [] writer \in {"warpdriveA", "warpdriveB"} -> Phases(LAMBDA i : 1)
    [] writer \in {"ex1a", "ex1b", "ex1c"} -> Dataset(LAMBDA i, p : 0)
    [] writer = "ex2b" -> [x \in {"Group"} \X Proc |-> 1]
    [] writer \in {"comparison", "comparison-coll"} -> Dataset(LAMBDA i, p : (100 + i) * p)

(* What each rank has to read: places in its memory, and values.           *)
WantedOf(reader, p) ==
  CASE reader = "array-mpiio-read" ->
         {<<i, 10 * i + 2>> : i \in 0 .. nprocs - 1}
         \cup (IF p = Home THEN {<<-3, nprocs>>, <<-2, XDIM>>, <<-1, 1>>} ELSE {})
    [] reader \in {"array-nc-read", "op-combine"} ->
         {<<-1, 1>>} \cup {<<i, 10 * i + 2>> : i \in 0 .. nprocs - 1}
    [] reader \in {"mpiio-read", "posix-read", "dfs-read"} ->
         {<<x, Records[x]>> : x \in p * totalsz .. (p + 1) * totalsz - 1}
    [] reader \in {"comparison", "comparison-coll"} ->
         {<<<<i, p>>, (100 + i) * p>> : i \in 0 .. DIM0 - 1}
    [] OTHER -> {}
=============================================================================
