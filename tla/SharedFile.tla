----------------------------- MODULE SharedFile -----------------------------
(***************************************************************************)
(* Carries out the calls of FilePrograms.  A job is one program, or a      *)
(* writer and then a reader of what it wrote.  A collective call returns   *)
(* at the latest when every rank is in it, and may return as soon as the   *)
(* ranks whose data it needs are: both happen.                             *)
(***************************************************************************)
EXTENDS Integers, Sequences, TLC

CONSTANTS Proc, Home, MaxFailures,
          Jobs,               \* sequences of names of programs
          Calls(_, _)         \* the calls of each program and rank

VARIABLES stage, failures,
          job,                \* the programs still to run, the running one first
          todo,               \* the calls left to each rank, the one it is in first
          joined,             \* how many collective calls each rank has left
          store,              \* the file
          seen                \* what each rank has read

sharedVars == <<stage, failures, job, todo, joined, store, seen>>

Load(program) == /\ todo' = [p \in Proc |-> Calls(program, p)]
                 /\ joined' = [p \in Proc |-> 0]
                 /\ seen' = [p \in Proc |-> <<>>]

Init == /\ job \in Jobs
        /\ stage = [p \in Proc |-> "start"] /\ failures = 0
        /\ todo = [p \in Proc |-> Calls(job[1], p)]
        /\ joined = [p \in Proc |-> 0]
        /\ store = <<>>
        /\ seen = [p \in Proc |-> <<>>]

-----------------------------------------------------------------------------
Inside(p)  == stage[p] = "start" /\ todo[p] # <<>>
Current(p) == todo[p][1]

(* The collective calls a rank has come to; a rank that failed in one has. *)
Entered(q) == joined[q] + (IF todo[q] # <<>> /\ Current(q).all THEN 1 ELSE 0)
Come(p, ranks) == \A q \in ranks : Entered(q) >= Entered(p)

Advance(p) == /\ todo' = [todo EXCEPT ![p] = Tail(@)]
              /\ joined' = [joined EXCEPT ![p] = Entered(p)]

(* The call of p has failed.                                               *)
Stop(p) ==
  /\ UNCHANGED <<job, store, seen>>
  /\ LET fails == Current(p).fails IN
     \/ /\ fails = "abort" /\ stage' = [q \in Proc |-> "aborted"]
        /\ UNCHANGED <<todo, joined>>
     \/ /\ fails = "return" /\ stage' = [stage EXCEPT ![p] = "failed"]
        /\ UNCHANGED <<todo, joined>>
     \/ fails = "goon" /\ Advance(p) /\ UNCHANGED stage

(* What p reads is not what it expects: an error like any other.           *)
Matches(call) == \A x \in DOMAIN call.want : x \in DOMAIN store /\ store[x] = call.want[x]

Work(p) ==
  LET call == Current(p)
      got  == [i \in DOMAIN call.get |->
                 IF call.get[i] \in DOMAIN store THEN store[call.get[i]] ELSE -1]
  IN /\ Matches(call) /\ Advance(p)
     /\ store' = call.put @@ store
     /\ seen' = [seen EXCEPT ![p] = got @@ @]
     /\ UNCHANGED <<stage, failures, job>>

Mismatch(p) == ~ Matches(Current(p)) /\ Stop(p) /\ UNCHANGED failures

Complete(p) == /\ Inside(p) /\ (Current(p).all => Come(p, Proc))
               /\ Work(p) \/ Mismatch(p)

ReturnEarly(p) == /\ Inside(p) /\ Current(p).all
                  /\ ~ Come(p, Proc) /\ Come(p, Current(p).ready)
                  /\ Work(p)

Fail(p) == /\ Inside(p)
           /\ failures < MaxFailures /\ failures' = failures + 1
           /\ Stop(p)

(* MPI_Finalize, and the next program of the job when all have got there.  *)
Through(p) == stage[p] = "start" /\ todo[p] = <<>>

Finalize(p) == /\ Through(p) /\ Len(job) = 1
               /\ stage' = [stage EXCEPT ![p] = "ok"]
               /\ UNCHANGED <<failures, job, todo, joined, store, seen>>

NextProgram(p) == /\ p = Home /\ Len(job) > 1 /\ \A q \in Proc : Through(q)
                  /\ job' = Tail(job) /\ Load(job[2])
                  /\ UNCHANGED <<stage, failures, store>>

Step(p) == Complete(p) \/ Fail(p) \/ Finalize(p) \/ NextProgram(p)

-----------------------------------------------------------------------------
(* Whatever happens, no rank writes over the data of another, outside the  *)
(* part that is meant for it; and once all ranks have returned the file    *)
(* has every byte of every rank, unless a failure went unnoticed.          *)
FilesRight(layout) ==
  /\ \A x \in DOMAIN store : x \in DOMAIN layout /\ store[x] = layout[x]
  /\ (\A p \in Proc : stage[p] = "ok") /\ failures = 0 => DOMAIN store = DOMAIN layout

(* A rank that has got to the end of a program that reads has read what    *)
(* the writers wrote: the column in the middle of the array, its own       *)
(* records, its own column.  Any daos reader reads what any writer wrote.  *)
(* (H5Dread of h5par-comparison may fail unnoticed.)                       *)
ReadBack(wanted) ==
  \A p \in Proc : stage[p] = "ok" /\ failures = 0 =>
    \A w \in wanted[p] : w[1] \in DOMAIN seen[p] /\ seen[p][w[1]] = w[2]
=============================================================================
