------------------------------ MODULE CsrFile ------------------------------
(***************************************************************************)
(* Sparse matrices in a file, examples/sparsemat: CSRIO_Write of           *)
(* csrio-mpiio.c by the processes of a job, CSRIO_Read_header and          *)
(* CSRIO_Read_rows by those of another, and CSRIO_Write of csrio-stdout.c. *)
(* The file is an array of units of an int; it begins behind the title.    *)
(* Entry k of the matrix is in column k and has the value 100 + k.         *)
(* MPI_File_open, MPI_Exscan, MPI_Allreduce and the _all calls are         *)
(* collective.  Allocations may fail; a file call may fail on any process  *)
(* and not on others, and the process then returns without them.           *)
(***************************************************************************)
EXTENDS Integers, Functions, FiniteSetsExt, TLC

CONSTANTS Proc,               \* 0 .. the number of processes - 1
          MaxFailures,
          N,                  \* rows of the matrix
          Matrices,           \* the entries of each row, per matrix
          Junk                \* what an uninitialized int may hold

VARIABLES stage, failures,
          csrLib,             \* the module linked: "mpiio" or "stdout"
          nzOf,               \* the matrix
          rows,               \* row_start and row_end of each process
          prev,               \* prev_nz of each process
          file,               \* what has been written
          mem,                \* what each process has read
          met                 \* collective calls of Read_rows entered by each

csrVars == <<stage, failures, csrLib, nzOf, rows, prev, file, mem, met>>

(* Each process has the rows behind those of the one before it.            *)
Partition(n) == {r \in [Proc -> (0 .. n - 1) \X (0 .. n - 1)] :
                   /\ r[0][1] = 0 /\ r[Max(Proc)][2] = n - 1
                   /\ \A p \in Proc : /\ r[p][1] <= r[p][2]
                                      /\ p > 0 => r[p][1] = r[p - 1][2] + 1}

first(p) == rows[p][1]
last(p)  == rows[p][2]

(* Entries before row r, of the whole matrix, and of process p.            *)
Before(r) == SumFunctionOnSet(nzOf, 0 .. r - 1)
tot_nz    == Before(N)
my_nz(p)  == Before(last(p) + 1) - Before(first(p))

Init == /\ stage = [p \in Proc |-> "start"]
        /\ failures = 0
        /\ csrLib \in {"mpiio", "stdout"}
        /\ nzOf \in Matrices
        /\ rows \in Partition(N)
        /\ \E j \in Junk : prev = [p \in Proc |-> IF p = 0 THEN j ELSE Before(first(p))]
        /\ file = << >>
        /\ mem = [p \in Proc |-> << >>]
        /\ met = [p \in Proc |-> 0]

Goto(p, s)   == stage' = [stage EXCEPT ![p] = s]
Fail         == failures < MaxFailures /\ failures' = failures + 1
Everybody(S) == \A q \in Proc : stage[q] \in S

-----------------------------------------------------------------------------
(* The two reductions; the result of MPI_Exscan on rank 0 is not defined.  *)
Reduce(p) ==
  /\ stage[p] = "start" /\ Goto(p, "reduced")
  /\ UNCHANGED <<failures, csrLib, nzOf, rows, prev, file, mem, met>>

(* Where row starts, columns and values are, in units behind the title.    *)
IaUnit(r) == 2 + r
JaUnit(k) == 2 + N + k
AUnit(k)  == 2 + N + tot_nz + 2 * k

BugLocalStarts(p) == [u \in {IaUnit(r) : r \in first(p) .. last(p)} |->
                        Before(u - 2) - Before(first(p))]
(* tmp_ia, and the blocks of the file type with what goes there.           *)
Starts(p) == [u \in {IaUnit(r) : r \in first(p) .. last(p)} |->
                Before(u - 2) - Before(first(p)) + prev[p]]
Columns(p) == [u \in {JaUnit(prev[p] + i) : i \in 0 .. my_nz(p) - 1} |->
                 u - JaUnit(prev[p]) + Before(first(p))]
Values(p) == [u \in {AUnit(prev[p]) + i : i \in 0 .. 2 * my_nz(p) - 1} |->
                100 + (u - AUnit(prev[p])) \div 2 + Before(first(p))]
Header(p) == IF p = 0 THEN (0 :> N) @@ (1 :> tot_nz) ELSE << >>

(* The collective open, the header, and the one collective write.  An      *)
(* error of the open, or want of memory after the header, is returned.     *)
WriteRows(p) ==
  /\ csrLib = "mpiio" /\ stage[p] = "reduced"
  /\ \A q \in Proc : stage[q] # "start"
  /\ \/ /\ Goto(p, "writing") /\ UNCHANGED failures
        /\ file' = Starts(p) @@ Columns(p) @@ Values(p) @@ Header(p) @@ file
     \/ /\ Goto(p, "failed") /\ Fail
        /\ file' \in {file, Header(p) @@ file}
  /\ UNCHANGED <<csrLib, nzOf, rows, prev, mem, met>>

(* csrio-stdout.c: the counts, row starts, columns and values are gathered *)
(* at rank 0; the other processes do not wait for each other.              *)
Send(p) ==
  /\ csrLib = "stdout" /\ stage[p] = "reduced" /\ \A q \in Proc : stage[q] # "start"
  /\ \/ Goto(p, IF p = 0 THEN "printing" ELSE "ok") /\ UNCHANGED failures
     \/ Goto(p, "failed") /\ Fail
  /\ UNCHANGED <<csrLib, nzOf, rows, prev, file, mem, met>>

(* n_disp and nz_disp.                                                     *)
Lower(p)   == {q \in Proc : q < p}
n_disp(p)  == MapThenSumSet(LAMBDA q : last(q) - first(q) + 1, Lower(p))
nz_disp(p) == MapThenSumSet(my_nz, Lower(p))

(* What is printed, at the units of the file.                              *)
Row(p, r)   == (IaUnit(n_disp(p) + r - first(p)) :> Starts(p)[IaUnit(r)])
Entry(p, i) == (JaUnit(nz_disp(p) + i) :> Columns(p)[JaUnit(prev[p] + i)])
Value(p, i) == LET v == Values(p)[AUnit(prev[p]) + 2 * i]
                   u == AUnit(nz_disp(p) + i)
               IN  (u :> v) @@ (u + 1 :> v)
Joined(F(_, _), G(_)) == FoldSet(LAMBDA x, f : F(x[1], x[2]) @@ f, << >>,
                                 UNION {{p} \X G(p) : p \in Proc})

(* all_ia is freed twice, before the values are gathered: the process may  *)
(* abort there.                                                            *)
PrintMatrix ==
  /\ stage[0] = "printing" /\ \A q \in Proc \ {0} : stage[q] = "ok"
  /\ LET ints == Joined(Row, LAMBDA p : first(p) .. last(p))
                 @@ Joined(Entry, LAMBDA p : 0 .. my_nz(p) - 1) @@ Header(0)
     IN  \/ /\ Goto(0, "ok")
            /\ file' = ints @@ Joined(Value, LAMBDA p : 0 .. my_nz(p) - 1)
         \/ Goto(0, "aborted") /\ file' = ints
  /\ UNCHANGED <<failures, csrLib, nzOf, rows, prev, mem, met>>

(* MPI_File_write_all returns, with an error perhaps.                      *)
Written(p) ==
  /\ stage[p] = "writing" /\ Everybody({"writing", "written", "error"})
  /\ \/ Goto(p, "written") /\ UNCHANGED failures
     \/ Goto(p, "error") /\ Fail
  /\ UNCHANGED <<csrLib, nzOf, rows, prev, file, mem, met>>

-----------------------------------------------------------------------------
(* Another job reads rows of a matrix that all have written, perhaps not   *)
(* all rows.  It reads the header first, or knows n and nz.                *)
StartReading ==
  /\ Everybody({"written"})
  /\ \/ stage' = [p \in Proc |-> "header"] /\ UNCHANGED met
     \/ stage' = [p \in Proc |-> "open"] /\ met' = [p \in Proc |-> 1]
  /\ \E n \in Cardinality(Proc) .. N : rows' \in Partition(n)
  /\ UNCHANGED <<failures, csrLib, nzOf, prev, file, mem>>

(* The collective call that p is in has been entered by all.               *)
AllMet(p) == \A q \in Proc : met[q] >= met[p]

(* Into the next collective call of Read_rows, or out of it with an error. *)
Meet(p, s) == Goto(p, s) /\ met' = [met EXCEPT ![p] = @ + 1] /\ UNCHANGED failures
Error(p)   == Goto(p, "error") /\ Fail /\ UNCHANGED met

(* Rank 0 reads the header and broadcasts it with the error, if any; it    *)
(* closes the file even when it was not opened.  The type that describes   *)
(* the data is not committed: the broadcast may abort the job, as may that *)
(* close, or work.                                                         *)
Abort == stage' = [q \in Proc |-> "aborted"] /\ UNCHANGED <<failures, met>>
Read_header(p) ==
  /\ stage[p] = "header"
  /\ p # 0 => stage[0] # "header"
  /\ \/ (p # 0 => stage[0] # "failed") /\ Meet(p, "open")
     \/ p = 0 /\ Goto(p, "failed") /\ Fail /\ UNCHANGED met
     \/ p # 0 /\ stage[0] = "failed" /\ Goto(p, "failed") /\ UNCHANGED <<failures, met>>
     \/ Abort
  /\ UNCHANGED <<csrLib, nzOf, rows, prev, file, mem>>

(* MPI_File_open returns when all are in it.                               *)
OpenRows(p) ==
  /\ stage[p] = "open" /\ AllMet(p)
  /\ Meet(p, "starts") \/ Error(p)
  /\ UNCHANGED <<csrLib, nzOf, rows, prev, file, mem>>

(* A read behind the end of the file leaves the buffer as it was.          *)
Unset == -100
At(u) == IF u \in DOMAIN file THEN file[u] ELSE Unset

(* How many entries a process reads: up to the next row's start.           *)
Count(p) == At(IaUnit(last(p) + 1)) - At(IaUnit(first(p)))
my_ia(p) == [r \in first(p) .. last(p) |-> At(IaUnit(r))]

(* The row starts are read, memory is allocated (never for a negative      *)
(* count), and MPI_Allreduce is entered.                                   *)
ReadStarts(p) ==
  /\ stage[p] = "starts"
  /\ \/ /\ Meet(p, "reducing")
        /\ mem' = [mem EXCEPT ![p] = [ok |-> Count(p) >= 0, ia |-> my_ia(p)]]
     \/ /\ Goto(p, "reducing") /\ Fail /\ met' = [met EXCEPT ![p] = @ + 1]
        /\ mem' = [mem EXCEPT ![p] = [ok |-> FALSE, ia |-> my_ia(p)]]
     \/ Error(p) /\ UNCHANGED mem
  /\ UNCHANGED <<csrLib, nzOf, rows, prev, file>>

all_mem_ok == \A q \in Proc : mem[q].ok

(* MPI_Allreduce returns the same on all, and everybody goes on or not.    *)
Reduced(p) ==
  /\ stage[p] = "reducing" /\ \A q \in Proc : mem[q] # << >>
  /\ IF all_mem_ok THEN Meet(p, "columns")
     ELSE Goto(p, "failed") /\ UNCHANGED <<failures, met>>
  /\ UNCHANGED <<csrLib, nzOf, rows, prev, file, mem>>

(* Columns and values from where the first row starts.                     *)
Entries(p, Unit(_)) ==
  [i \in 0 .. Count(p) - 1 |-> At(Unit(mem[p].ia[first(p)] + i))]

ReadColumns(p) ==
  /\ stage[p] = "columns"
  /\ \/ Meet(p, "values") /\ mem' = [mem EXCEPT ![p] =
                                     [ok |-> TRUE, ia |-> @.ia, ja |-> Entries(p, JaUnit)]]
     \/ Error(p) /\ UNCHANGED mem
  /\ UNCHANGED <<csrLib, nzOf, rows, prev, file>>

(* At last the row starts become relative to the first one.                *)
Relative(p) ==
  [r \in first(p) .. last(p) |->
     IF r = first(p) THEN 0 ELSE mem[p].ia[r] - mem[p].ia[first(p)]]
ReadValues(p) ==
  /\ stage[p] = "values"
  /\ \/ /\ Goto(p, "ok") /\ UNCHANGED <<failures, met>>
        /\ mem' = [mem EXCEPT ![p] = [ok |-> TRUE, ia |-> Relative(p),
                                     ja |-> @.ja, a |-> Entries(p, AUnit)]]
     \/ Error(p) /\ UNCHANGED mem
  /\ UNCHANGED <<csrLib, nzOf, rows, prev, file>>

(* A collective read may return when all are in it, or before.             *)
CollectiveRead(p) == ReadStarts(p) \/ ReadColumns(p) \/ ReadValues(p)
ReturnEarly(p)    == CollectiveRead(p)

Step(p) == \/ Reduce(p) \/ WriteRows(p) \/ Send(p) \/ (p = 0 /\ PrintMatrix) \/ Written(p)
           \/ (p = 0 /\ StartReading) \/ Read_header(p) \/ OpenRows(p) \/ Reduced(p)
           \/ (AllMet(p) /\ CollectiveRead(p))

-----------------------------------------------------------------------------
(* The rows of the matrix as p should have them.                           *)
RowsOf(p) ==
  LET k == Before(first(p)) IN
  [ok |-> TRUE,
   ia |-> [r \in first(p) .. last(p) |-> Before(r) - k],
   ja |-> [i \in 0 .. my_nz(p) - 1 |-> k + i],
   a  |-> [i \in 0 .. my_nz(p) - 1 |-> 100 + k + i]]

(* Rows written by one set of processes are read back by another, whatever *)
(* the rows of each, and what is printed is the matrix.  This is about the *)
(* offsets and the order of the calls.  It does not hold, and is not       *)
(* stated, for the last row of the matrix (LastRowsReadBack) nor when      *)
(* prev_nz of rank 0 does not happen to be 0.                              *)
RowsReadBack ==
  prev[0] = 0 =>
    /\ csrLib = "stdout" /\ stage[0] = "ok" =>
         \A k \in 0 .. tot_nz - 1 : file[JaUnit(k)] = k /\ file[AUnit(k)] = 100 + k
    /\ csrLib = "stdout" /\ stage[0] = "ok" =>
         \A r \in 0 .. N - 1 : file[IaUnit(r)] = Before(r)
    /\ csrLib = "mpiio" =>
         \A p \in Proc : stage[p] = "ok" /\ last(p) < N - 1 => mem[p] = RowsOf(p)

(* When the reading fails for the header or for want of memory, it fails   *)
(* on all processes: none goes on to the columns.  An error of a file call *)
(* is returned by the process that has it alone ("error").                 *)
SameAnswer ==
  csrLib = "mpiio" =>
    ~ \E p, q \in Proc : stage[p] = "failed" /\ stage[q] \in {"columns", "values", "ok"}

(* CSRIO_Read_rows gives each process its rows, the last one of the matrix *)
(* too.                                                                    *)
LastRowsReadBack ==
  prev[0] = 0 /\ failures = 0 /\ csrLib = "mpiio" =>
    \A p \in Proc : stage[p] \in {"ok", "failed"} => mem[p] = RowsOf(p)
=============================================================================
