------------------------------ MODULE FileCopy ------------------------------
(***************************************************************************)
(* The parallel copy of examples/spawn: pcp-spawn-master.c (Home) reads a  *)
(* file and broadcasts it block by block; the slaves it spawned, and the   *)
(* master itself, write the blocks to a file of their own.  A broadcast is *)
(* a message each slave takes in its turn; MPI_Allreduce returns when      *)
(* everybody has entered it.  Opening, reading and writing may fail.       *)
(***************************************************************************)
EXTENDS Naturals, Sequences

CONSTANTS Proc, Home, MaxFailures,
          Blocks              \* length of the input, in buffers of BUFSIZE

VARIABLES stage, failures,
          sent,               \* what the master has broadcast
          got,                \* how many of the broadcasts each slave has taken
          opened,             \* mystatus: "no" before open, then "ok" or "failed"
          out                 \* the blocks in each output file

copyVars == <<stage, failures, sent, got, opened, out>>

(* The stages "ok" and "failed" are a return of 0 and of another value.    *)
Init == /\ stage = [p \in Proc |-> "start"]
        /\ failures = 0
        /\ sent = <<>>
        /\ got = [p \in Proc |-> 0]
        /\ opened = [p \in Proc |-> "no"]
        /\ out = [p \in Proc |-> <<>>]

Goto(p, s) == stage' = [stage EXCEPT ![p] = s]
Fail       == failures < MaxFailures /\ failures' = failures + 1

(* open of the input; the slaves are told to go on or to exit.             *)
OpenInput ==
  /\ stage[Home] = "start"
  /\ \/ Goto(Home, "open") /\ sent' = <<"ready">> /\ UNCHANGED failures
     \/ Goto(Home, "failed") /\ sent' = <<"exit">> /\ Fail
  /\ UNCHANGED <<got, opened, out>>

BugIgnoresExit(p) ==
  /\ p # Home /\ stage[p] = "start" /\ sent # <<>>
  /\ Goto(p, "open")
  /\ got' = [got EXCEPT ![p] = 1]
  /\ UNCHANGED <<failures, sent, opened, out>>
TakeControl(p) ==
  /\ p # Home /\ stage[p] = "start" /\ sent # <<>>
  /\ Goto(p, IF sent[1] = "exit" THEN "failed" ELSE "open")
  /\ got' = [got EXCEPT ![p] = 1]
  /\ UNCHANGED <<failures, sent, opened, out>>

(* open of the output, then MPI_Allreduce is entered.                      *)
OpenOutput(p) ==
  /\ stage[p] = "open"
  /\ Goto(p, "agree")
  /\ \/ opened' = [opened EXCEPT ![p] = "ok"] /\ UNCHANGED failures
     \/ opened' = [opened EXCEPT ![p] = "failed"] /\ Fail
  /\ UNCHANGED <<sent, got, out>>

BugOwnStatus(p) ==
  /\ stage[p] = "agree" /\ \A q \in Proc : opened[q] # "no"
  /\ Goto(p, IF opened[p] = "failed" THEN "failed" ELSE "copy")
  /\ UNCHANGED <<failures, sent, got, opened, out>>
Allstatus(p) ==
  /\ stage[p] = "agree" /\ \A q \in Proc : opened[q] # "no"
  /\ Goto(p, IF \E q \in Proc : opened[q] = "failed" THEN "failed" ELSE "copy")
  /\ UNCHANGED <<failures, sent, got, opened, out>>

(* The result of write is ignored, a block that is not written too.        *)
Write(p, k) == \/ out' = [out EXCEPT ![p] = Append(@, k)] /\ UNCHANGED failures
               \/ Fail /\ UNCHANGED out

BugShortBlockEnds ==
  LET k == Len(sent) IN
  /\ stage[Home] = "copy"
  /\ IF k < Blocks THEN sent' = Append(sent, k) /\ Write(Home, k) /\ UNCHANGED stage
     ELSE sent' = Append(sent, 0) /\ Goto(Home, "ok") /\ UNCHANGED <<failures, out>>
  /\ UNCHANGED <<got, opened>>
(* The next block, or the end: a read of nothing, and a read that fails.   *)
ReadBlock ==
  LET k == Len(sent) IN
  /\ stage[Home] = "copy"
  /\ \/ /\ k <= Blocks
        /\ sent' = Append(sent, k) /\ Write(Home, k) /\ UNCHANGED stage
     \/ /\ IF k > Blocks THEN UNCHANGED failures ELSE Fail
        /\ sent' = Append(sent, 0) /\ Goto(Home, "ok") /\ UNCHANGED out
  /\ UNCHANGED <<got, opened>>

TakeBlock(p) ==
  /\ p # Home /\ stage[p] = "copy" /\ got[p] < Len(sent)
  /\ got' = [got EXCEPT ![p] = @ + 1]
  /\ LET k == sent[got'[p]] IN
       IF k > 0 THEN Write(p, k) /\ UNCHANGED stage
                ELSE Goto(p, "ok") /\ UNCHANGED <<failures, out>>
  /\ UNCHANGED <<sent, opened>>

Step(p) == \/ p = Home /\ (OpenInput \/ ReadBlock)
           \/ TakeControl(p) \/ OpenOutput(p) \/ Allstatus(p) \/ TakeBlock(p)

(* Nobody copies unless every output is open, and then everybody returns 0.*)
SameAnswer == ~ \E p, q \in Proc : stage[p] = "failed" /\ stage[q] \in {"copy", "ok"}

(* What the master has read reaches every output in order and once, less   *)
(* the blocks a write lost; without failures that is the whole file.       *)
CopiesEqual ==
  \A p \in Proc : stage[p] = "ok" =>
    /\ \A i \in DOMAIN out[p] : out[p][i] \in 1 .. Len(sent) - 2
    /\ \A i, j \in DOMAIN out[p] : i < j => out[p][i] < out[p][j]
    /\ Len(out[p]) + failures >= Len(sent) - 2
    /\ failures = 0 => Len(out[p]) = Blocks
=============================================================================
