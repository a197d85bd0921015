---------------------------- MODULE LifeDisplay ----------------------------
(***************************************************************************)
(* The checkpoint of mlife-io-stdout.c, which prints each generation:      *)
(* every rank sends its rows to rank 0, rank 0 prints its own and then     *)
(* receives from the others in rank order.  Between two checkpoints a rank *)
(* waits for its neighbours in MLIFE_exchange, and for nobody else, so     *)
(* ranks far from rank 0 may be several generations ahead of the screen.   *)
(* A row is not its cells but <<generation, number>>: which one it is.     *)
(***************************************************************************)
EXTENDS RowBlocks, Sequences

CONSTANTS Rows, NProcs, Iter

ASSUME DisplayAssumption == Rows \in Nat /\ NProcs \in Nat \ {0} /\ Iter \in Nat

Rank          == 0 .. NProcs - 1
Neighbours(p) == {p - 1, p + 1} \cap Rank

VARIABLES done,               \* checkpoints each rank has finished
          pc,                 \* where each rank is
          chan,               \* generations on their way to rank 0, per sender
          from,               \* the rank rank 0 receives from next
          totrows,            \* rows rank 0 has printed
          screen              \* what is printed, per row number

vars == <<done, pc, chan, from, totrows, screen>>

Blank == <<>>

(* The rows of rank p in generation k, printed from row number n + 1 on.   *)
Printed(s, p, k, n) ==
  [r \in 1 .. Rows |->
     IF r \in n + 1 .. n + MLIFE_myrows(Rows, p, NProcs)
       THEN <<k, MLIFE_myrowoffset(Rows, p, NProcs) + (r - n)>>
       ELSE s[r]]

Init == /\ done = [p \in Rank |-> 0]
        /\ pc = [p \in Rank |-> "exchange"]
        /\ chan = [p \in Rank |-> <<>>]
        /\ from = 1 /\ totrows = 0
        /\ screen = [r \in 1 .. Rows |-> Blank]

MoreToDo(p) == done[p] < Iter

BugNobodyWaits(p) == TRUE
(* MLIFE_exchange returns when the neighbours have sent this generation.   *)
Exchanged(p) == \A q \in Neighbours(p) : done[q] >= done[p]

(* The exchange and the computation; then MLIFEIO_Checkpoint is called.    *)
Generation(p) ==
  /\ pc[p] = "exchange"
  /\ MoreToDo(p) /\ Exchanged(p)
  /\ pc' = [pc EXCEPT ![p] = "checkpoint"]
  /\ UNCHANGED <<done, chan, from, totrows, screen>>

(* The other ranks: MPI_Send, which returns when the message is in a       *)
(* buffer or received, as MPI likes.                                       *)
Send(p) ==
  /\ p # 0 /\ pc[p] = "checkpoint"
  /\ chan' = [chan EXCEPT ![p] = Append(@, done[p] + 1)]
  /\ pc' = [pc EXCEPT ![p] = "sending"]
  /\ UNCHANGED <<done, from, totrows, screen>>

Finish(p) == /\ done' = [done EXCEPT ![p] = @ + 1]
             /\ pc' = [pc EXCEPT ![p] = "exchange"]

Buffered(p) ==
  /\ pc[p] = "sending"
  /\ Finish(p)
  /\ UNCHANGED <<chan, from, totrows, screen>>

Received(p) == Buffered(p) /\ chan[p] = <<>>

FirstSource == 1

(* Rank 0: the heading clears the screen, the rows of rank 0 come first.   *)
Heading ==
  /\ pc[0] = "checkpoint"
  /\ screen' = Printed([r \in 1 .. Rows |-> Blank], 0, done[0] + 1, 0)
  /\ totrows' = MLIFE_myrows(Rows, 0, NProcs)
  /\ from' = FirstSource
  /\ pc' = [pc EXCEPT ![0] = "receiving"]
  /\ UNCHANGED <<done, chan>>

BugAnySource(p) == from < NProcs
(* MPI_Recv names its source.                                              *)
Matches(p) == p = from

ReceiveFrom(p) ==
  /\ pc[0] = "receiving"
  /\ Matches(p) /\ chan[p] # <<>>
  /\ screen' = Printed(screen, p, Head(chan[p]), totrows)
  /\ chan' = [chan EXCEPT ![p] = Tail(@)]
  /\ totrows' = totrows + MLIFE_myrows(Rows, p, NProcs)
  /\ from' = from + 1
  /\ UNCHANGED <<done, pc>>

FrameDone == pc[0] = "receiving" /\ from = NProcs

EndOfFrame ==
  /\ FrameDone
  /\ Finish(0)
  /\ UNCHANGED <<chan, from, totrows, screen>>

Root == Heading \/ EndOfFrame \/ \E p \in Rank : ReceiveFrom(p)

Next == \/ Root
        \/ \E p \in Rank : Generation(p) \/ Send(p) \/ Buffered(p)

Spec == Init /\ [][Next]_vars

(* Ranks keep going and MPI delivers; whether it buffers is left open, so  *)
(* an MPI_Send has to return only when its message is received.            *)
FairSpec == /\ Spec /\ WF_vars(Root)
            /\ \A p \in Rank : /\ WF_vars(Generation(p)) /\ WF_vars(Send(p))
                               /\ WF_vars(Received(p))

-----------------------------------------------------------------------------
TypeOK ==
  /\ done \in [Rank -> 0 .. Iter]
  /\ pc \in [Rank -> {"exchange", "checkpoint", "sending", "receiving"}]
  /\ \A p \in Rank : \A n \in 1 .. Len(chan[p]) : chan[p][n] \in 1 .. Iter
  /\ from \in 0 .. NProcs /\ totrows \in 0 .. Rows
  /\ \A r \in 1 .. Rows : screen[r] = Blank \/ screen[r] \in (1 .. Iter) \X (1 .. Rows)

(* A frame shows one generation, each row under its own number, although   *)
(* the ranks are in different generations (mlife-io-stdout.c:87).          *)
FramesRight ==
  FrameDone => \A r \in 1 .. Rows : screen[r] = <<done[0] + 1, r>>

(* A rank is as many generations ahead of rank 0 as its number at most,    *)
(* because of the exchange: MPI never holds more than that of its messages *)
(* (the source code bounds nothing).                                       *)
BacklogBounded ==
  \A p \in Rank : Len(chan[p]) <= p /\ done[p] - done[0] <= p

(* Every generation is printed and every rank finishes, also when MPI      *)
(* buffers nothing.                                                        *)
Terminates == <>(\A p \in Rank : done[p] = Iter)
=============================================================================
