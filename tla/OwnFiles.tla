------------------------------ MODULE OwnFiles ------------------------------
(***************************************************************************)
(* The programs that write a file per process and look at the sizes after  *)
(* a barrier: fidgetspinnerA and fidgetspinnerB of darshan-demos, and      *)
(* variance.  A process whose creat, write or close fails returns without  *)
(* a barrier: the others wait for it in vain.                              *)
(***************************************************************************)
EXTENDS Naturals

CONSTANTS Proc, Home, MaxFailures,
          Writes              \* writes of IOSIZE per file, 20 in the code

VARIABLES stage, failures,
          demo,               \* the program
          size                \* the size of each file in writes, Missing before creat

ownVars == <<stage, failures, demo, size>>

(* Which processes look at the files, and whether times are reduced.       *)
fidgetspinnerA == [checkers |-> Proc, reduces |-> FALSE]
fidgetspinnerB == [checkers |-> {Home}, reduces |-> FALSE]
variance       == [checkers |-> {Home}, reduces |-> TRUE]

Missing == Writes + 1

Init == /\ stage = [p \in Proc |-> "start"]
        /\ failures = 0
        /\ demo \in {fidgetspinnerA, fidgetspinnerB, variance}
        /\ size = [p \in Proc |-> Missing]

Goto(p, s) == stage' = [stage EXCEPT ![p] = s]
Fail       == failures < MaxFailures /\ failures' = failures + 1

(* Every process has come to the barrier of main.                          *)
MainBarrierDone == \A q \in Proc : stage[q] # "start"

(* sleep and the first MPI_Barrier of main.                                *)
EnterMain(p) == stage[p] = "start" /\ Goto(p, "begin") /\ UNCHANGED <<failures, demo, size>>

Creat(p) ==
  /\ stage[p] = "begin" /\ MainBarrierDone
  /\ \/ Goto(p, "write") /\ size' = [size EXCEPT ![p] = 0] /\ UNCHANGED failures
     \/ Goto(p, "failed") /\ Fail /\ UNCHANGED size
  /\ UNCHANGED demo

(* A write that fails, or is short, ends the program.                      *)
Write(p) ==
  /\ stage[p] = "write" /\ size[p] < Writes
  /\ \/ size' = [size EXCEPT ![p] = @ + 1] /\ UNCHANGED <<stage, failures>>
     \/ Goto(p, "failed") /\ Fail /\ UNCHANGED size
  /\ UNCHANGED demo

(* close, then the barrier of example1A is entered.                        *)
Close(p) ==
  /\ stage[p] = "write" /\ size[p] = Writes
  /\ \/ Goto(p, "closed") /\ UNCHANGED failures
     \/ Goto(p, "failed") /\ Fail
  /\ UNCHANGED <<demo, size>>

BugNoBarrier == TRUE
(* A process that failed does not come to the barrier of the others.       *)
BarrierDone == \A q \in Proc : stage[q] \notin {"start", "begin", "write", "failed"}

AfterCheck == IF demo.reduces THEN "reduce" ELSE "ok"

LeaveBarrier(p) ==
  /\ stage[p] = "closed" /\ BarrierDone
  /\ Goto(p, IF p \in demo.checkers THEN "check" ELSE AfterCheck)
  /\ UNCHANGED <<failures, demo, size>>

(* stat of every file, which may fail, and the assertion on its size.      *)
Check(p) ==
  /\ stage[p] = "check"
  /\ \/ Goto(p, AfterCheck) /\ UNCHANGED failures
     \/ Goto(p, "failed") /\ Fail
  /\ UNCHANGED <<demo, size>>

(* MPI_Reduce of the times: rank 0 waits for the others.                   *)
Reduce(p) ==
  /\ stage[p] = "reduce"
  /\ p = Home => \A q \in Proc : stage[q] \in {"reduce", "ok"}
  /\ Goto(p, "ok") /\ UNCHANGED <<failures, demo, size>>

Step(p) == \/ EnterMain(p) \/ Creat(p) \/ Write(p) \/ Close(p)
           \/ LeaveBarrier(p) \/ Check(p) \/ Reduce(p)

(* assert(statbuf.st_size == 20 * IOSIZE) holds for every file, on every   *)
(* process that gets to it, even when a process has failed.                *)
SizesHold == \A p \in Proc : stage[p] = "check" => \A q \in Proc : size[q] = Writes
=============================================================================
