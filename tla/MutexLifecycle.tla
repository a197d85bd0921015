--------------------------- MODULE MutexLifecycle ---------------------------
(***************************************************************************)
(* MPIMUTEX_Create and MPIMUTEX_Free of examples/mutex/mpimutex.c.         *)
(*                                                                         *)
(* Every process fills a structure of its own; MPI_Comm_dup,               *)
(* MPI_Win_create and MPI_Win_free are collective: no process leaves one   *)
(* before all have entered it.  MPI_Comm_free is collective and may wait   *)
(* for the others or not.  The home rank owns the memory behind the        *)
(* window.  Local calls may fail; the failing process releases what the    *)
(* structure names, member by member, and returns an error without         *)
(* entering the collectives that follow.                                   *)
(***************************************************************************)
EXTENDS Integers, FiniteSets

CONSTANTS Proc, Home,
          MaxFailures         \* bound: how many calls fail in a run

VARIABLES
  stage,      \* where each process is in Create or Free
  entered,    \* who has entered each collective call
  owns,       \* how often each resource is allocated and not yet released
  named,      \* the pointers and handles that are not null
  given,      \* the processes whose *mutex_p is set
  failures    \* calls that failed so far

vars == <<stage, entered, owns, named, given, failures>>

Collective == {"Comm_dup", "Win_create", "Win_free", "Comm_free"}
Resource   == {"struct", "type", "comm", "mem", "win"}

Init == /\ stage = [p \in Proc |-> "start"]
        /\ entered = [c \in Collective |-> {}]
        /\ owns = [p \in Proc |-> [r \in Resource |-> 0]]
        /\ named = [p \in Proc |-> {}]
        /\ given = {}
        /\ failures = 0

(* Everybody has entered the collective call c.                           *)
Complete(c)   == entered[c] = Proc

Goto(p, s)    == stage' = [stage EXCEPT ![p] = s]
Enter(p, c)   == entered' = [entered EXCEPT ![c] = @ \cup {p}]
Fail          == failures < MaxFailures /\ failures' = failures + 1
Gain(p, r)    == /\ owns' = [owns EXCEPT ![p][r] = @ + 1]
                 /\ named' = [named EXCEPT ![p] = @ \cup {r}]
Lose(p, r)    == owns' = [owns EXCEPT ![p][r] = @ - 1]
Null(p, r)    == named' = [named EXCEPT ![p] = @ \ {r}]  \* by MPI_..._free

(* A call that allocates r, or fails and leaves for err_return.            *)
Allocate(p, r, s) ==
  \/ Goto(p, s) /\ Gain(p, r) /\ UNCHANGED failures
  \/ Goto(p, "free_win") /\ Fail /\ UNCHANGED <<owns, named>>

-----------------------------------------------------------------------------
(* malloc of the structure; without it err_return has nothing to release.  *)
MallocStruct(p) ==
  /\ stage[p] = "start"
  /\ \/ Goto(p, "type") /\ Gain(p, "struct") /\ UNCHANGED failures
     \/ Goto(p, "failed") /\ Fail /\ UNCHANGED <<owns, named>>
  /\ UNCHANGED <<entered, given>>

(* waitlisttype is built and committed.                                    *)
BuildType(p) ==
  /\ stage[p] = "type" /\ Allocate(p, "type", "commit")
  /\ UNCHANGED <<entered, given>>

CommitType(p) ==
  /\ stage[p] = "commit"
  /\ \/ Goto(p, "dup") /\ UNCHANGED failures
     \/ Goto(p, "free_win") /\ Fail
  /\ UNCHANGED <<entered, owns, named, given>>

EnterDup(p) ==
  /\ stage[p] = "dup" /\ Goto(p, "in_dup") /\ Enter(p, "Comm_dup")
  /\ UNCHANGED <<owns, named, given, failures>>

LeaveDup(p) ==
  /\ stage[p] = "in_dup" /\ Complete("Comm_dup")
  /\ Goto(p, "alloc") /\ Gain(p, "comm")
  /\ UNCHANGED <<entered, given, failures>>

(* The home rank allocates and clears the waitlist, the others contribute  *)
(* nothing to the window.                                                  *)
AllocWaitlist(p) ==
  /\ stage[p] = "alloc"
  /\ IF p = Home THEN Allocate(p, "mem", "create")
     ELSE Goto(p, "create") /\ UNCHANGED <<owns, named, failures>>
  /\ UNCHANGED <<entered, given>>

EnterWinCreate(p) ==
  /\ stage[p] = "create" /\ Goto(p, "in_create") /\ Enter(p, "Win_create")
  /\ UNCHANGED <<owns, named, given, failures>>

(* The last that Create does is to set *mutex_p.                           *)
LeaveWinCreate(p) ==
  /\ stage[p] = "in_create" /\ Complete("Win_create")
  /\ Goto(p, "ready") /\ Gain(p, "win") /\ given' = given \cup {p}
  /\ UNCHANGED <<entered, failures>>

(* The process has used the mutex, or not, and calls Free.                 *)
CallFree(p) ==
  /\ stage[p] = "ready" /\ Goto(p, "free_win")
  /\ UNCHANGED <<entered, owns, named, given, failures>>

-----------------------------------------------------------------------------
(* The releases, which err_return and MPIMUTEX_Free do in the same order:  *)
(* each member is looked at, released when it is set, and passed when not. *)
Pass(p, r, s) ==
  r \notin named[p] /\ Goto(p, s) /\ UNCHANGED <<entered, owns, named>>

BugMemoryFirst(p) ==
  /\ stage[p] = "free_win"
  /\ \/ /\ "win" \in named[p] /\ Goto(p, "in_win_free") /\ Enter(p, "Win_free")
        /\ IF "mem" \in named[p] THEN Lose(p, "mem") /\ Null(p, "mem")
           ELSE UNCHANGED <<owns, named>>
     \/ Pass(p, "win", "free_mem")
  /\ UNCHANGED <<given, failures>>
EnterWinFree(p) ==
  /\ stage[p] = "free_win"
  /\ \/ /\ "win" \in named[p] /\ Goto(p, "in_win_free")
        /\ Enter(p, "Win_free") /\ UNCHANGED <<owns, named>>
     \/ Pass(p, "win", "free_mem")
  /\ UNCHANGED <<given, failures>>

LeaveWinFree(p) ==
  /\ stage[p] = "in_win_free" /\ Complete("Win_free")
  /\ Goto(p, "free_mem") /\ Lose(p, "win") /\ Null(p, "win")
  /\ UNCHANGED <<entered, given, failures>>

FreeMem(p) ==
  /\ stage[p] = "free_mem"
  /\ \/ "mem" \in named[p] /\ Goto(p, "free_type") /\ Lose(p, "mem") /\ UNCHANGED <<entered, named>>
     \/ Pass(p, "mem", "free_type")
  /\ UNCHANGED <<given, failures>>

BugOnlyWithComm(p) ==
  /\ stage[p] = "free_type"
  /\ \/ /\ "comm" \in named[p] /\ Goto(p, "free_comm")
        /\ Lose(p, "type") /\ Null(p, "type") /\ UNCHANGED entered
     \/ Pass(p, "comm", "free_comm")
  /\ UNCHANGED <<given, failures>>
FreeType(p) ==
  /\ stage[p] = "free_type"
  /\ \/ /\ "type" \in named[p] /\ Goto(p, "free_comm")
        /\ Lose(p, "type") /\ Null(p, "type") /\ UNCHANGED entered
     \/ Pass(p, "type", "free_comm")
  /\ UNCHANGED <<given, failures>>

EnterCommFree(p) ==
  /\ stage[p] = "free_comm"
  /\ \/ /\ "comm" \in named[p] /\ Goto(p, "in_comm_free")
        /\ Enter(p, "Comm_free") /\ UNCHANGED <<owns, named>>
     \/ Pass(p, "comm", "free_struct")
  /\ UNCHANGED <<given, failures>>

CommFreed(p) ==
  /\ stage[p] = "in_comm_free" /\ Goto(p, "free_struct")
  /\ Lose(p, "comm") /\ Null(p, "comm")
  /\ UNCHANGED <<entered, given, failures>>

(* free(mutex), and Free sets *mutex_p to NULL.                            *)
FreeStruct(p) ==
  /\ stage[p] = "free_struct" /\ Lose(p, "struct")
  /\ Goto(p, IF p \in given THEN "done" ELSE "failed")
  /\ given' = given \ {p}
  /\ UNCHANGED <<entered, named, failures>>

Creating(p)  == \/ MallocStruct(p) \/ BuildType(p) \/ CommitType(p)
                \/ EnterDup(p) \/ LeaveDup(p) \/ AllocWaitlist(p)
                \/ EnterWinCreate(p) \/ LeaveWinCreate(p)
Releasing(p) == \/ EnterWinFree(p) \/ LeaveWinFree(p) \/ FreeMem(p) \/ FreeType(p)
                \/ EnterCommFree(p) \/ FreeStruct(p)

Step(p) == Creating(p) \/ CallFree(p) \/ Releasing(p) \/ (Complete("Comm_free") /\ CommFreed(p))

(* MPI_Comm_free may return before the others have called it.              *)
ReturnEarly(p) == CommFreed(p)

-----------------------------------------------------------------------------
Release == {"free_win", "in_win_free", "free_mem", "free_type", "free_comm",
            "in_comm_free", "free_struct"}

(* A process that has the mutex and has not called Free may reach into the *)
(* window: until then the waitlist is there, cleared, at the home rank.    *)
WaitlistOutlivesUse ==
  (\E p \in Proc : stage[p] = "ready") => owns[Home]["mem"] = 1

(* Create never half succeeds: when it has failed somewhere, no process of *)
(* the communicator gets a mutex.                                          *)
NoHalfCreate ==
  given # {} => \A p \in Proc : stage[p] \in Release \cup {"failed"} => p \in given

(* Neither an error return nor Free leaks, nothing is released twice, and  *)
(* the structure is there until its last member has been looked at.        *)
NothingLeaks ==
  \A p \in Proc :
    /\ \A r \in Resource : owns[p][r] \in 0 .. 1
    /\ stage[p] \in Release => owns[p]["struct"] = 1
    /\ stage[p] \in {"failed", "done"} => \A r \in Resource : owns[p][r] = 0
=============================================================================
