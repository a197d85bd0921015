---------------------------- MODULE LifeStartup ----------------------------
(***************************************************************************)
(* How mlife.c gets from main() to the first generation: rank 0 parses the *)
(* command line and broadcasts the options, every rank decides on its own  *)
(* copy of them whether it restarts from a checkpoint, and all meet in     *)
(* MLIFE_exchange_init.  A collective call returns when every rank has     *)
(* made it; a broadcast, when the root has.                                *)
(***************************************************************************)
EXTENDS Integers, Sequences

CONSTANTS Sizes,              \* how many ranks the program may be run with
          Argvs,              \* command lines: sequences of <<letter, text>>
          Backends            \* the I/O modules: "stdout", "mpiio", "pnetcdf"

VARIABLES nprocs,             \* the size of MPI_COMM_WORLD
          argv,               \* the command line, which rank 0 sees
          backend,            \* the I/O module linked with the program
          opts,               \* opt_rows .. opt_prefix of each rank
          pc,                 \* where each rank is
          called,             \* the collective calls each rank has made
          source,             \* where each rank's matrix comes from
          verdict             \* what MLIFEIO_Restart returned

vars == <<nprocs, argv, backend, opts, pc, called, source, verdict>>

job == <<nprocs, argv, backend>>

Rank == 0 .. nprocs - 1

Defaults == [rows |-> 25, cols |-> 70, iter |-> 10, restart |-> -1,
             prefix |-> "mlife"]

(* atoi: 0 for a text that is not a number.                                *)
Atoi(text) == CASE text = "2"  -> 2
                [] text = "7"  -> 7
                [] text = "-1" -> -1
                [] OTHER       -> 0

(* One round of the getopt loop; 'r' has no break and goes on into 'p'.    *)
ParseOption(o, arg) ==
  LET text == arg[2]
  IN  CASE arg[1] = "x" -> [o EXCEPT !.cols = Atoi(text)]
        [] arg[1] = "y" -> [o EXCEPT !.rows = Atoi(text)]
        [] arg[1] = "i" -> [o EXCEPT !.iter = Atoi(text)]
        [] arg[1] = "r" -> [o EXCEPT !.restart = Atoi(text), !.prefix = text]
        [] arg[1] = "p" -> [o EXCEPT !.prefix = text]
        [] OTHER        -> o

(* The options after the whole command line.                               *)
Parsed ==
  LET parsed[k \in 0 .. Len(argv)] ==
        IF k = 0 THEN Defaults ELSE ParseOption(parsed[k - 1], argv[k])
  IN  parsed[Len(argv)]

Init == /\ nprocs \in Sizes
        /\ argv \in Argvs
        /\ backend \in Backends
        /\ opts = [p \in Rank |-> Defaults]
        /\ pc = [p \in Rank |-> "parse"]
        /\ called = [p \in Rank |-> {}]
        /\ source = [p \in Rank |-> "none"]
        /\ verdict = "none"

(* Rank p makes collective call c and waits for it at the place to.        *)
Call(p, c, to) == /\ called' = [called EXCEPT ![p] = @ \cup {c}]
                  /\ pc' = [pc EXCEPT ![p] = to]

Broadcast(c)  == c \in called[0]
Completed(c)  == \A q \in Rank : c \in called[q]

(* Rank 0 reads the command line.                                          *)
Parse ==
  /\ pc[0] = "parse"
  /\ opts' = [opts EXCEPT ![0] = Parsed]
  /\ Call(0, "args", "args")
  /\ UNCHANGED <<job, source, verdict>>

EnterBcast(p) ==
  /\ p # 0 /\ pc[p] = "parse"
  /\ Call(p, "args", "args")
  /\ UNCHANGED <<job, opts, source, verdict>>

BugIterKept(p) ==
  [opts[p] EXCEPT !.rows = opts[0].rows, !.cols = opts[0].cols]
BugRestartFromIter(p) ==
  [opts[p] EXCEPT !.rows = opts[0].rows, !.cols = opts[0].cols,
                  !.iter = opts[0].iter,
                  !.restart = IF p = 0 THEN @ ELSE opts[0].iter]
(* What a rank takes over from myargs; myargs[3] is left there.            *)
ArgsTaken(p) ==
  [opts[p] EXCEPT !.rows = opts[0].rows, !.cols = opts[0].cols,
                  !.iter = opts[0].iter]

BcastArgs(p) ==
  /\ pc[p] = "args"
  /\ Broadcast("args")
  /\ opts' = [opts EXCEPT ![p] = ArgsTaken(p)]
  /\ Call(p, "prefix", "prefix")
  /\ UNCHANGED <<job, source, verdict>>

(* The second broadcast; then MLIFEIO_Init, a collective.                  *)
BcastPrefix(p) ==
  /\ pc[p] = "prefix"
  /\ Broadcast("prefix")
  /\ opts' = [opts EXCEPT ![p].prefix = opts[0].prefix]
  /\ Call(p, "io_init", "io_init")
  /\ UNCHANGED <<job, source, verdict>>

BugFreshInstead(p) == opts[p].restart = -1 \/ backend = "stdout"
(* The three ways life() goes on; the first is a matrix of its own.        *)
Fresh(p) == opts[p].restart = -1

FreshStart(p) ==
  /\ pc[p] = "io_init" /\ Completed("io_init")
  /\ Fresh(p)
  /\ source' = [source EXCEPT ![p] = "fresh"]
  /\ Call(p, "exchange", "exchange")
  /\ UNCHANGED <<job, opts, verdict>>

MLIFEIO_Can_restart == backend # "stdout"

EnterRestart(p) ==
  /\ pc[p] = "io_init" /\ Completed("io_init")
  /\ ~Fresh(p)
  /\ MLIFEIO_Can_restart
  /\ Call(p, "restart", "restart")
  /\ UNCHANGED <<job, opts, source, verdict>>

(* MPI_Abort takes every rank with it.                                     *)
Abort == pc' = [q \in Rank |-> "aborted"]

RestartUnsupported(p) ==
  /\ pc[p] = "io_init" /\ Completed("io_init")
  /\ ~Fresh(p)
  /\ ~MLIFEIO_Can_restart
  /\ Abort
  /\ UNCHANGED <<job, opts, called, source, verdict>>

(* The file is read, or MLIFEIO_Restart fails, on every rank alike.        *)
RestartReturns(p) ==
  /\ pc[p] = "restart" /\ Completed("restart")
  /\ verdict' \in (IF verdict = "none" THEN {"ok", "error"} ELSE {verdict})
  /\ IF verdict' = "error"
       THEN Abort /\ UNCHANGED <<called, source>>
       ELSE Call(p, "exchange", "exchange")
            /\ source' = [source EXCEPT ![p] = "file"]
  /\ UNCHANGED <<job, opts>>

(* MLIFE_exchange_init is collective; the first generation follows.        *)
EnterLoop(p) ==
  /\ pc[p] = "exchange" /\ Completed("exchange")
  /\ pc' = [pc EXCEPT ![p] = "loop"]
  /\ UNCHANGED <<job, opts, called, source, verdict>>

Step(p) == \/ p = 0 /\ Parse
           \/ EnterBcast(p) \/ BcastArgs(p) \/ BcastPrefix(p)
           \/ FreshStart(p) \/ EnterRestart(p) \/ RestartUnsupported(p)
           \/ RestartReturns(p) \/ EnterLoop(p)

Next == \E p \in Rank : Step(p)

Spec == Init /\ [][Next]_vars

-----------------------------------------------------------------------------
Past == {"io_init", "restart", "exchange", "loop"}

(* "we must process on rank 0 and distribute results" (mlife.c:210): once  *)
(* MLIFE_parse_args has returned, a rank has the options of the command    *)
(* line.                                                                   *)
OptionsDistributed == \A p \in Rank : pc[p] \in Past => opts[p] = Parsed

(* The sizes, the number of generations and the prefix, at least, are the  *)
(* same everywhere: the ranks agree on the decomposition and on how often  *)
(* they meet.                                                              *)
SizesAgree ==
  \A p, q \in Rank : pc[p] \in Past /\ pc[q] \in Past =>
    \A f \in {"rows", "cols", "iter", "prefix"} : opts[p][f] = opts[q][f]

(* No rank computes from a fresh matrix, or next to a rank with a fresh    *)
(* matrix, when the command line asked for a restart.                      *)
RestartNotIgnored ==
  \A p, q \in Rank :
    pc[p] = "loop" /\ Parsed.restart # -1 => source[q] = "file"
=============================================================================
