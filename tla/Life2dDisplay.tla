--------------------------- MODULE Life2dDisplay ---------------------------
(***************************************************************************)
(* The checkpoint of mlife2d-io-stdout1.c, which prints each generation    *)
(* row by row: every rank sends its part of each of its rows to rank 0,    *)
(* with the row as tag, and rank 0 receives, from any source, as many      *)
(* parts as there are columns of processes.  Between checkpoints the ranks *)
(* meet in the exchange: with point-to-point messages a rank waits for its *)
(* neighbours in each half, with fences it waits for everybody.            *)
(***************************************************************************)
EXTENDS Life2dMesh, Sequences

CONSTANTS Iter,               \* opt_iter
          Exchange            \* the exchange linked: "pt2pt" or "fence"

VARIABLES frame,              \* checkpoints each rank has finished
          pc,                 \* where each rank is
          next,               \* the row each rank sends, or rank 0 prints
          chan,               \* per sender and row, the frames under way
          line                \* <<sender, frame>> of the parts of rank 0's row

vars == <<frame, pc, next, chan, line>>

RowsHeld(p) == firstrow(p) .. lastrow(p)

Init == /\ frame = [p \in Rank |-> 0]
        /\ pc = [p \in Rank |-> "columns"]
        /\ next = [p \in Rank |-> 1]
        /\ chan = [p \in Rank |-> [r \in 1 .. GRows |-> <<>>]]
        /\ line = <<>>

MoreToDo(p) == frame[p] < Iter

(* The halves of exchanges p has entered.                                  *)
Posted(p) == 2 * frame[p] + (IF pc[p] = "columns" THEN 1 ELSE 2)

BugNeighboursOnly(p, neighbours) == neighbours
(* Whom a half of the exchange waits for.                                  *)
Meets(p, neighbours) == IF Exchange = "fence" THEN Rank ELSE neighbours

ColumnsExchanged(p) ==
  /\ pc[p] = "columns" /\ MoreToDo(p)
  /\ \A q \in Meets(p, Beside(p)) : Posted(q) >= Posted(p)
  /\ pc' = [pc EXCEPT ![p] = "rows"]
  /\ UNCHANGED <<frame, next, chan, line>>

Own(r) == IF r \in RowsHeld(0) THEN <<<<0, frame[0] + 1>>>> ELSE <<>>

RowsExchanged(p) == \A q \in Meets(p, Stacked(p)) : Posted(q) >= Posted(p)

(* The generation is computed and MLIFEIO_Checkpoint is called.            *)
Generation(p) ==
  /\ pc[p] = "rows"
  /\ RowsExchanged(p)
  /\ pc' = [pc EXCEPT ![p] = "checkpoint"]
  /\ next' = [next EXCEPT ![p] = IF p = 0 THEN 1 ELSE firstrow(p)]
  /\ line' = IF p = 0 THEN Own(1) ELSE line
  /\ UNCHANGED <<frame, chan>>

Finish(p) == /\ frame' = [frame EXCEPT ![p] = @ + 1]
             /\ pc' = [pc EXCEPT ![p] = "columns"]

(* MPI_Send of the next row; it returns when the message is in a buffer or *)
(* received, as MPI likes.                                                 *)
Send(p) ==
  /\ p # 0 /\ pc[p] = "checkpoint"
  /\ next[p] \in RowsHeld(p)
  /\ chan' = [chan EXCEPT ![p][next[p]] = Append(@, frame[p] + 1)]
  /\ pc' = [pc EXCEPT ![p] = "sending"]
  /\ UNCHANGED <<frame, next, line>>

Buffered(p) ==
  /\ pc[p] = "sending"
  /\ next' = [next EXCEPT ![p] = @ + 1]
  /\ pc' = [pc EXCEPT ![p] = "checkpoint"]
  /\ UNCHANGED <<frame, chan, line>>

Received(p) == Buffered(p) /\ chan[p][next[p]] = <<>>

AllSent(p) ==
  /\ p # 0 /\ pc[p] = "checkpoint"
  /\ next[p] > lastrow(p)
  /\ Finish(p)
  /\ UNCHANGED <<next, chan, line>>

BugPartPerProcess == PRows * PCols
(* npcols, set by MLIFE_MeshDecomp.                                        *)
npcols == PCols

(* MPI_Recv with MPI_ANY_SOURCE and the row as tag.                        *)
Receive(p) ==
  /\ pc[0] = "checkpoint" /\ next[0] <= GRows
  /\ Len(line) < npcols
  /\ chan[p][next[0]] # <<>>
  /\ line' = Append(line, <<p, Head(chan[p][next[0]])>>)
  /\ chan' = [chan EXCEPT ![p][next[0]] = Tail(@)]
  /\ UNCHANGED <<frame, pc, next>>

LineDone == pc[0] = "checkpoint" /\ next[0] <= GRows /\ Len(line) >= npcols

NextLine ==
  /\ LineDone
  /\ next' = [next EXCEPT ![0] = @ + 1]
  /\ line' = Own(next[0] + 1)
  /\ UNCHANGED <<frame, pc, chan>>

AllPrinted ==
  /\ pc[0] = "checkpoint" /\ next[0] > GRows
  /\ Finish(0)
  /\ UNCHANGED <<next, chan, line>>

Root == NextLine \/ AllPrinted \/ \E p \in Rank : Receive(p)

Local(p) == ColumnsExchanged(p) \/ Generation(p) \/ Send(p) \/ AllSent(p)

Next == Root \/ \E p \in Rank : Local(p) \/ Buffered(p)

Spec == Init /\ [][Next]_vars

(* Ranks keep going and MPI delivers; an MPI_Send has to return only when  *)
(* its message is received.                                                *)
FairSpec == /\ Spec /\ WF_vars(Root)
            /\ \A p \in Rank : WF_vars(Local(p)) /\ WF_vars(Received(p))

-----------------------------------------------------------------------------
(* "To ensure that there are no errors in updating the display"            *)
(* (mlife2d-io-stdout1.c:65): a printed row has one part of each rank that *)
(* holds it, all of the generation in the heading.                         *)
LinesRight ==
  LineDone =>
    {line[n] : n \in 1 .. Len(line)} =
      {<<p, frame[0] + 1>> : p \in {q \in Rank : next[0] \in RowsHeld(q)}}

(* Everything is printed and every rank finishes, also when MPI buffers    *)
(* nothing.                                                                *)
Terminates == <>(\A p \in Rank : frame[p] = Iter)
=============================================================================
