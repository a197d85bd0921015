------------------------- MODULE LifeDisplayProofs -------------------------
(***************************************************************************)
(* The displays of the two programs are right for every number of ranks,   *)
(* rows and generations.  mlife-io-stdout.c: no frame mixes generations,   *)
(* and the rows under way to rank 0 are bounded although the code has no   *)
(* bound for them.  mlife2d-io-stdout1.c: every line has one part of each  *)
(* rank that holds the row, all of one generation, wherever the exchange   *)
(* keeps the ranks near enough to rank 0.                                  *)
(***************************************************************************)
EXTENDS MCDisplay, SharedLemmas, FiniteSetTheorems, FunctionTheorems

(* Generations rank p has computed, rows of how many it has sent, and of   *)
(* how many rank 0 has received from it.                                   *)
Computed(p) == IF pc[p] = "exchange" THEN done[p] ELSE done[p] + 1
Sent(p)     == IF pc[p] = "sending" THEN done[p] + 1 ELSE done[p]
Got(p)      == IF pc[0] = "receiving" /\ p < from THEN done[0] + 1 ELSE done[0]

Types ==
  /\ done \in [Rank -> Nat]
  /\ pc \in [Rank -> {"exchange", "checkpoint", "sending", "receiving"}]
  /\ \A p \in Rank : /\ pc[p] = "sending" => p # 0
                     /\ pc[p] = "receiving" => p = 0
  /\ chan \in [Rank -> Seq(Nat)]
  /\ from \in 1 .. NProcs

(* No rank computes more than one generation more than a neighbour has     *)
(* finished: it has waited for the neighbour's row.                        *)
Pace(p) == /\ Computed(p) <= Iter
           /\ \A q \in Neighbours(p) : Computed(p) <= done[q] + 1
Paced == \A p \in Rank : Pace(p)

(* A queue holds the generations sent and not received, in order.          *)
Queue(p) == /\ Got(p) <= Sent(p)
            /\ Len(chan[p]) = Sent(p) - Got(p)
            /\ \A n \in 1 .. Len(chan[p]) : chan[p][n] = Got(p) + n
Queues == \A p \in Rank : IF p = 0 THEN chan[p] = <<>> ELSE Queue(p)

(* While rank 0 prints, the rows of the ranks before "from" are on the     *)
(* screen, each under its number.                                          *)
RowShown(r) == screen[r] = <<done[0] + 1, r>>
OnScreen ==
  /\ totrows \in 0 .. Rows
  /\ \A r \in 1 .. Rows : screen[r] = Blank \/ screen[r] \in (1 .. Iter) \X (1 .. Rows)
  /\ pc[0] = "receiving" =>
       /\ totrows = MLIFE_myrowoffset(Rows, from, NProcs)
       /\ \A r \in 1 .. Rows : r <= totrows => RowShown(r)

Inv == Types /\ Paced /\ Queues /\ OnScreen

LEMMA RankFacts == /\ NProcs \in Nat \ {0} /\ Rows \in Nat /\ Iter \in Nat
                   /\ Rank \subseteq Nat /\ 0 \in Rank
                   /\ \A p \in Rank : p < NProcs
                   /\ \A p \in Rank : p # 0 => p - 1 \in Rank /\ p - 1 \in Neighbours(p)
  BY DisplayAssumption DEF Rank, Neighbours

LEMMA Initially == Init => Inv
<1> SUFFICES ASSUME Init PROVE Inv
  OBVIOUS
<1> USE RankFacts
<1>1. Types
  BY DEF Init, Types
<1>2. Paced
  BY DEF Init, Paced, Pace, Computed, Neighbours
<1>3. Queues
  BY DEF Init, Queues, Queue, Sent, Got
<1>4. OnScreen
  BY DEF Init, OnScreen, Blank
<1>5. QED
  BY <1>1, <1>2, <1>3, <1>4 DEF Inv

(* A rank is as many generations ahead of rank 0 as its number.            *)
LEMMA Chain ==
  ASSUME Types, Paced
  PROVE  \A p \in Rank : Computed(p) <= done[0] + p + 1 /\ done[p] <= done[0] + p
<1> USE RankFacts
<1> DEFINE S == {n \in Nat : n \in Rank => done[n] <= done[0] + n}
<1>1. \A p \in Rank : /\ done[p] \in Nat /\ Computed(p) \in Nat
                      /\ done[p] <= Computed(p) /\ Computed(p) <= done[p] + 1
  BY DEF Types, Computed
<1>2. \A p \in Rank : p # 0 => Computed(p) <= done[p - 1] + 1
  BY DEF Paced, Pace
<1>3. 0 \in S
  BY <1>1
<1>4. ASSUME NEW n \in S PROVE n + 1 \in S
  <2>1. n \in Nat /\ n + 1 \in Nat /\ n + 1 # 0 /\ (n + 1) - 1 = n
    OBVIOUS
  <2>2. SUFFICES ASSUME n + 1 \in Rank PROVE done[n + 1] <= done[0] + (n + 1)
    BY <2>1
  <2>3. n \in Rank
    BY <2>1, <2>2
  <2>4. done[n] <= done[0] + n
    BY <2>3
  <2>5. Computed(n + 1) <= done[n] + 1
    BY <1>2, <2>1, <2>2
  <2>6. QED
    BY <1>1, <2>1, <2>2, <2>3, <2>4, <2>5
<1>5. S = Nat
  <2> HIDE DEF S
  <2>1. S \subseteq Nat
    BY DEF S
  <2>2. QED
    BY <1>3, <1>4, <2>1, NatSetInduction
<1>6. \A p \in Rank : done[p] <= done[0] + p
  BY <1>5
<1>7. QED
  BY <1>1, <1>6

(* Printing rank p's rows where the rows before them end.                  *)
LEMMA Printing ==
  ASSUME NEW p \in Rank, NEW s, NEW k
  PROVE  LET n == MLIFE_myrowoffset(Rows, p, NProcs)
             m == n + MLIFE_myrows(Rows, p, NProcs)
         IN  /\ n \in 0 .. Rows /\ m \in n .. Rows
             /\ m = MLIFE_myrowoffset(Rows, p + 1, NProcs)
             /\ \A r \in 1 .. Rows :
                  Printed(s, p, k, n)[r] = IF r \in n + 1 .. m THEN <<k, r>> ELSE s[r]
<1> USE RankFacts
<1> DEFINE n == MLIFE_myrowoffset(Rows, p, NProcs)
           m == n + MLIFE_myrows(Rows, p, NProcs)
           last == MLIFE_myrowoffset(Rows, NProcs, NProcs)
           after == MLIFE_myrowoffset(Rows, p + 1, NProcs)
<1>1. p \in 0 .. NProcs /\ p + 1 \in 0 .. NProcs /\ p \in 0 .. NProcs - 1 /\ NProcs \in 0 .. NProcs
  BY DEF Rank
<1>2. n \in Nat /\ MLIFE_myrows(Rows, p, NProcs) \in Nat
  BY <1>1, BlockTypes
<1>3. after = m /\ last = Rows
  BY <1>1, Tiling
<1>4. after <= last
  <2>1. p + 1 <= NProcs
    BY <1>1
  <2>2. QED
    BY <1>1, <2>1, OffsetsGrow
<1>5. \A r \in 1 .. Rows :
        Printed(s, p, k, n)[r] = IF r \in n + 1 .. m THEN <<k, n + (r - n)>> ELSE s[r]
  BY DEF Printed
<1> HIDE DEF n, m, last, after
<1>6. m \in n .. Rows
  <2>1. m \in Nat /\ m >= n
    BY <1>2 DEF m
  <2>2. QED
    BY <1>2, <1>3, <1>4, <2>1
<1>7. \A r \in 1 .. Rows : n + (r - n) = r
  BY <1>2
<1>8. QED
  BY <1>2, <1>3, <1>5, <1>6, <1>7 DEF n, m, after

(* What holds of the ranks' counters before a step.                        *)
LEMMA Counters ==
  ASSUME Types
  PROVE  /\ done[0] \in Nat /\ from \in Nat
         /\ \A p \in Rank : /\ done[p] \in Nat /\ Computed(p) \in Nat
                            /\ Sent(p) \in Nat /\ Got(p) \in Nat
                            /\ done[p] <= Sent(p) /\ Sent(p) <= Computed(p)
                            /\ done[0] <= Got(p)
                            /\ Neighbours(p) \subseteq Rank
  BY RankFacts DEF Types, Computed, Sent, Got, Neighbours

LEMMA GenerationKeeps ==
  ASSUME Inv, NEW p \in Rank, Generation(p)
  PROVE  Inv'
<1> USE RankFacts DEF Inv
<1>1. Types'
  BY DEF Types, Generation
<1>2. /\ \A q \in Rank : /\ Computed(q)' = IF q = p THEN done[q] + 1 ELSE Computed(q)
                         /\ Sent(q)' = Sent(q) /\ Got(q)' = Got(q)
      /\ UNCHANGED <<done, chan, from, totrows, screen>>
      /\ pc'[0] = "receiving" <=> pc[0] = "receiving"
  BY DEF Types, Generation, Computed, Sent, Got
<1>3. Paced'
  <2> SUFFICES ASSUME NEW q \in Rank PROVE Pace(q)'
    BY DEF Paced
  <2>1. Pace(q)
    BY DEF Paced
  <2>2. q = p => done[q] < Iter /\ \A r \in Neighbours(q) : done[r] >= done[q]
    BY DEF Generation, MoreToDo, Exchanged
  <2>3. \A r \in Neighbours(q) : done[r] \in Nat
    BY Counters
  <2>4. QED
    BY <1>2, <2>1, <2>2, <2>3, Counters DEF Pace
<1>4. Queues'
  <2>1. \A q \in Rank : Queue(q)' <=> Queue(q)
    BY <1>2 DEF Queue
  <2>2. QED
    BY <1>2, <2>1 DEF Queues
<1>5. OnScreen'
  BY <1>2 DEF OnScreen, RowShown
<1>6. QED
  BY <1>1, <1>3, <1>4, <1>5

LEMMA SendKeeps ==
  ASSUME Inv, NEW p \in Rank, Send(p)
  PROVE  Inv'
<1> USE RankFacts DEF Inv
<1>1. Types'
  BY DEF Types, Send
<1>2. /\ \A q \in Rank : /\ Computed(q)' = Computed(q) /\ Got(q)' = Got(q)
                         /\ Sent(q)' = IF q = p THEN Sent(q) + 1 ELSE Sent(q)
                         /\ chan'[q] = IF q = p THEN Append(chan[q], done[q] + 1)
                                                ELSE chan[q]
      /\ UNCHANGED <<done, from, totrows, screen>>
      /\ pc'[0] = pc[0] /\ p # 0 /\ Sent(p) = done[p]
  BY DEF Types, Send, Computed, Sent, Got
<1>3. Paced'
  BY <1>2 DEF Paced, Pace
<1>4. Queues'
  <2> SUFFICES ASSUME NEW q \in Rank, q # 0 PROVE Queue(q)'
    BY <1>2 DEF Queues
  <2>1. Queue(q) /\ chan[q] \in Seq(Nat)
    BY DEF Queues, Types
  <2>2. CASE q # p
    BY <1>2, <2>1, <2>2 DEF Queue
  <2>3. CASE q = p
    <3>1. /\ chan'[q] = Append(chan[q], done[q] + 1)
          /\ Got(q)' = Got(q) /\ Sent(q)' = Sent(q) + 1 /\ Sent(q) = done[q]
      BY <1>2, <2>3
    <3>2. Got(q) \in Nat /\ Sent(q) \in Nat /\ done[q] + 1 \in Nat
      BY Counters
    <3>3. /\ Len(chan'[q]) = Len(chan[q]) + 1
          /\ \A n \in 1 .. Len(chan[q]) : chan'[q][n] = chan[q][n]
          /\ chan'[q][Len(chan[q]) + 1] = done[q] + 1
          /\ Len(chan[q]) \in Nat
      BY <2>1, <3>1, <3>2
    <3>4. /\ Got(q) <= Sent(q) /\ Len(chan[q]) = Sent(q) - Got(q)
          /\ \A n \in 1 .. Len(chan[q]) : chan[q][n] = Got(q) + n
      BY <2>1 DEF Queue
    <3>5. ASSUME NEW n \in 1 .. Len(chan'[q]) PROVE chan'[q][n] = Got(q) + n
      <4>1. CASE n \in 1 .. Len(chan[q])
        BY <3>3, <3>4, <4>1
      <4>2. CASE n \notin 1 .. Len(chan[q])
        <5>1. Len(chan'[q]) = Len(chan[q]) + 1 /\ Len(chan[q]) \in Nat
          BY <3>3
        <5>2. n = Len(chan[q]) + 1
          BY <4>2, <5>1
        <5>3. Len(chan[q]) = done[q] - Got(q) /\ done[q] \in Nat
          BY <3>1, <3>2, <3>4
        <5>4. chan'[q][n] = done[q] + 1
          BY <3>3, <5>2
        <5>5. QED
          BY <3>2, <5>2, <5>3, <5>4
      <4>3. QED
        BY <4>1, <4>2
    <3>6. /\ Got(q)' <= Sent(q)'
          /\ Len(chan'[q]) = Sent(q)' - Got(q)'
          /\ \A n \in 1 .. Len(chan'[q]) : chan'[q][n] = Got(q)' + n
      <4>1. Len(chan[q]) + 1 = (Sent(q) + 1) - Got(q)
        BY <3>2, <3>4
      <4>2. Len(chan'[q]) = Sent(q)' - Got(q)'
        BY ONLY <3>1, <3>3, <4>1
      <4>3. Got(q)' <= Sent(q)'
        BY ONLY <3>1, <3>2, <3>4
      <4>4. \A n \in 1 .. Len(chan'[q]) : chan'[q][n] = Got(q)' + n
        BY ONLY <3>1, <3>5
      <4>5. QED
        BY <4>2, <4>3, <4>4, Zenon
    <3>7. QED
      BY <3>6 DEF Queue
  <2>4. QED
    BY <2>2, <2>3
<1>5. OnScreen'
  BY <1>2 DEF OnScreen, RowShown
<1>6. QED
  BY <1>1, <1>3, <1>4, <1>5

LEMMA BufferedKeeps ==
  ASSUME Inv, NEW p \in Rank, Buffered(p)
  PROVE  Inv'
<1> USE RankFacts DEF Inv
<1>0. p # 0 /\ pc[p] = "sending"
  BY DEF Buffered, Types
<1>1. Types'
  BY DEF Types, Buffered, Finish
<1>2. /\ \A q \in Rank : /\ done'[q] = IF q = p THEN done[q] + 1 ELSE done[q]
                         /\ pc'[q] = IF q = p THEN "exchange" ELSE pc[q]
      /\ UNCHANGED <<chan, from, totrows, screen>>
  BY DEF Types, Buffered, Finish
<1>3. pc'[0] = pc[0] /\ done'[0] = done[0]
  BY <1>0, <1>2
<1>4. \A q \in Rank : /\ Computed(q)' = Computed(q) /\ Got(q)' = Got(q)
                      /\ Sent(q)' = Sent(q)
  BY <1>0, <1>2, <1>3 DEF Computed, Sent, Got
<1>5. Paced'
  <2> SUFFICES ASSUME NEW q \in Rank PROVE Pace(q)'
    BY DEF Paced
  <2>1. Pace(q)
    BY DEF Paced
  <2>2. \A r \in Neighbours(q) : r \in Rank /\ done[r] \in Nat
    BY Counters
  <2>3. \A r \in Neighbours(q) : done[r] <= done'[r] /\ done'[r] \in Nat
    <3> SUFFICES ASSUME NEW r \in Neighbours(q)
                 PROVE  done[r] <= done'[r] /\ done'[r] \in Nat
      OBVIOUS
    <3>1. r \in Rank /\ done[r] \in Nat
      BY <2>2
    <3>2. done'[r] = done[r] + 1 \/ done'[r] = done[r]
      BY <1>2, <3>1
    <3>3. QED
      BY <3>1, <3>2
  <2>4. Computed(q)' = Computed(q) /\ Computed(q) \in Nat
    BY <1>4, Counters
  <2>5. QED
    BY <2>1, <2>2, <2>3, <2>4 DEF Pace
<1>6. Queues'
  <2>1. \A q \in Rank : Queue(q)' <=> Queue(q)
    BY <1>2, <1>4 DEF Queue
  <2>2. QED
    BY <1>2, <2>1 DEF Queues
<1>7. OnScreen'
  BY <1>2, <1>3 DEF OnScreen, RowShown
<1>8. QED
  BY <1>1, <1>5, <1>6, <1>7

LEMMA HeadingKeeps ==
  ASSUME Inv, Heading
  PROVE  Inv'
<1> USE RankFacts DEF Inv
<1>1. Types'
  BY DEF Types, Heading, FirstSource
<1>2. /\ \A q \in Rank : /\ Computed(q)' = Computed(q) /\ Sent(q)' = Sent(q)
                         /\ q # 0 => Got(q)' = Got(q)
      /\ UNCHANGED <<done, chan>>
  BY DEF Types, Heading, Computed, Sent, Got, FirstSource
<1>3. Paced'
  BY <1>2 DEF Paced, Pace
<1>4. Queues'
  <2>1. \A q \in Rank : q # 0 => (Queue(q)' <=> Queue(q))
    BY <1>2 DEF Queue
  <2>2. QED
    BY <1>2, <2>1 DEF Queues
<1>5. OnScreen'
  <2> DEFINE m == MLIFE_myrows(Rows, 0, NProcs)
             blank == [r \in 1 .. Rows |-> Blank]
  <2>1. MLIFE_myrowoffset(Rows, 0, NProcs) = 0
    BY Tiling
  <2>2. /\ m \in 0 .. Rows /\ m = MLIFE_myrowoffset(Rows, 1, NProcs)
        /\ \A r \in 1 .. Rows :
             Printed(blank, 0, done[0] + 1, 0)[r] =
               IF r \in 1 .. m THEN <<done[0] + 1, r>> ELSE Blank
    <3> HIDE DEF blank
    <3>1. blank = [r \in 1 .. Rows |-> Blank]
      BY DEF blank
    <3>2. MLIFE_myrows(Rows, 0, NProcs) \in Nat
      BY BlockTypes
    <3>3. QED
      BY <2>1, <3>1, <3>2, Printing
  <2>3. done[0] + 1 \in 1 .. Iter
    <3>1. pc[0] = "checkpoint" /\ Pace(0) /\ done[0] \in Nat
      BY Counters DEF Heading, Paced
    <3>2. QED
      BY <3>1 DEF Pace, Computed
  <2>4. /\ screen' = Printed(blank, 0, done[0] + 1, 0) /\ totrows' = m
        /\ from' = 1 /\ done' = done
    BY DEF Heading, FirstSource
  <2> HIDE DEF m, blank
  <2>5. \A r \in 1 .. Rows : screen'[r] = IF r \in 1 .. m THEN <<done[0] + 1, r>> ELSE Blank
    BY <2>2, <2>4
  <2>6. ASSUME NEW r \in 1 .. Rows, r <= m PROVE RowShown(r)'
    <3>1. r \in 1 .. m
      BY <2>2, <2>6
    <3>2. screen'[r] = <<done[0] + 1, r>>
      BY <2>5, <3>1
    <3>3. QED
      BY <2>4, <3>2 DEF RowShown
  <2>7. ASSUME NEW r \in 1 .. Rows
        PROVE  screen'[r] = Blank \/ screen'[r] \in (1 .. Iter) \X (1 .. Rows)
    <3>1. <<done[0] + 1, r>> \in (1 .. Iter) \X (1 .. Rows)
      BY <2>3
    <3>2. QED
      BY <2>5, <3>1
  <2>8. totrows' \in 0 .. Rows /\ totrows' = MLIFE_myrowoffset(Rows, from', NProcs)
    BY <2>2, <2>4
  <2>9. \A r \in 1 .. Rows : r <= totrows' => RowShown(r)'
    BY <2>4, <2>6
  <2>10. QED
    BY <2>7, <2>8, <2>9 DEF OnScreen
<1>6. QED
  BY <1>1, <1>3, <1>4, <1>5

LEMMA EndOfFrameKeeps ==
  ASSUME Inv, EndOfFrame
  PROVE  Inv'
<1> USE RankFacts DEF Inv
<1>1. Types'
  BY DEF Types, EndOfFrame, FrameDone, Finish
<1>2. /\ \A q \in Rank : /\ done'[q] = IF q = 0 THEN done[q] + 1 ELSE done[q]
                         /\ pc'[q] = IF q = 0 THEN "exchange" ELSE pc[q]
      /\ UNCHANGED <<chan, from, totrows, screen>>
      /\ pc[0] = "receiving" /\ from = NProcs
  BY DEF Types, EndOfFrame, FrameDone, Finish
<1>3. \A q \in Rank : /\ Computed(q)' = Computed(q) /\ Got(q)' = Got(q)
                      /\ q # 0 => Sent(q)' = Sent(q)
  BY <1>2 DEF Computed, Sent, Got
<1>4. Paced'
  <2> SUFFICES ASSUME NEW q \in Rank PROVE Pace(q)'
    BY DEF Paced
  <2>1. Pace(q)
    BY DEF Paced
  <2>2. ASSUME NEW r \in Neighbours(q)
        PROVE  done[r] <= done'[r] /\ done'[r] \in Nat /\ done[r] \in Nat
    <3>1. r \in Rank /\ done[r] \in Nat
      BY Counters
    <3>2. done'[r] = done[r] + 1 \/ done'[r] = done[r]
      BY <1>2, <3>1
    <3>3. QED
      BY <3>1, <3>2
  <2>3. Computed(q)' = Computed(q) /\ Computed(q) \in Nat
    BY <1>3, Counters
  <2>4. QED
    BY <2>1, <2>2, <2>3 DEF Pace
<1>5. Queues'
  <2>1. \A q \in Rank : q # 0 => (Queue(q)' <=> Queue(q))
    BY <1>2, <1>3 DEF Queue
  <2>2. QED
    BY <1>2, <2>1 DEF Queues
<1>6. OnScreen'
  BY <1>2 DEF OnScreen
<1>7. QED
  BY <1>1, <1>4, <1>5, <1>6

LEMMA TailFacts ==
  ASSUME NEW queue \in Seq(Nat), queue # <<>>
  PROVE  /\ Len(queue) \in Nat \ {0}
         /\ Len(Tail(queue)) = Len(queue) - 1
         /\ \A n \in 1 .. Len(Tail(queue)) : Tail(queue)[n] = queue[n + 1]
  OBVIOUS

LEMMA ReceiveKeeps ==
  ASSUME Inv, NEW p \in Rank, ReceiveFrom(p)
  PROVE  Inv'
<1> USE RankFacts DEF Inv
<1>0. pc[0] = "receiving" /\ p = from /\ chan[p] # <<>> /\ p # 0
  BY DEF ReceiveFrom, Matches, Types
<1>1. p + 1 \in 1 .. NProcs
  OBVIOUS
<1>2. chan[p] \in Seq(Nat) /\ Tail(chan[p]) \in Seq(Nat)
  BY <1>0 DEF Types
<1>3. Types'
  BY <1>0, <1>1, <1>2 DEF Types, ReceiveFrom
<1>4. /\ \A q \in Rank : /\ Computed(q)' = Computed(q) /\ Sent(q)' = Sent(q)
                         /\ Got(q)' = IF q = p THEN Got(q) + 1 ELSE Got(q)
                         /\ chan'[q] = IF q = p THEN Tail(chan[q]) ELSE chan[q]
      /\ UNCHANGED <<done, pc>>
      /\ Got(p) = done[0]
  BY <1>0 DEF Types, ReceiveFrom, Computed, Sent, Got
<1>5. Queue(p) /\ Head(chan[p]) = done[0] + 1
  <2>1. Queue(p)
    BY <1>0 DEF Queues
  <2>2. 1 \in 1 .. Len(chan[p]) /\ Head(chan[p]) = chan[p][1]
    BY <1>0, <1>2
  <2>3. QED
    BY <1>4, <2>1, <2>2 DEF Queue
<1>6. Paced'
  BY <1>4 DEF Paced, Pace
<1>7. Queues'
  <2> SUFFICES ASSUME NEW q \in Rank, q # 0 PROVE Queue(q)'
    BY <1>0, <1>4 DEF Queues
  <2>1. Queue(q)
    BY DEF Queues
  <2>2. CASE q # p
    BY <1>4, <2>1, <2>2 DEF Queue
  <2>3. CASE q = p
    <3>1. Got(q) \in Nat /\ Sent(q) \in Nat /\ Got(q)' = Got(q) + 1 /\ Sent(q)' = Sent(q)
      BY <1>4, <2>3, Counters
    <3>2. /\ chan'[q] = Tail(chan[q]) /\ Len(chan[q]) \in Nat \ {0}
          /\ Len(chan'[q]) = Len(chan[q]) - 1
          /\ \A n \in 1 .. Len(chan'[q]) : chan'[q][n] = chan[q][n + 1]
      <4>1. chan[q] \in Seq(Nat) /\ chan[q] # <<>> /\ chan'[q] = Tail(chan[q])
        BY <1>0, <1>2, <1>4, <2>3
      <4>2. QED
        BY <4>1, TailFacts, Zenon
    <3>3. Len(chan[q]) = Sent(q) - Got(q)
      BY <2>1 DEF Queue
    <3>4. ASSUME NEW n \in 1 .. Len(chan'[q]) PROVE chan'[q][n] = Got(q)' + n
      <4>1. n + 1 \in 1 .. Len(chan[q])
        BY <3>2
      <4>2. chan'[q][n] = Got(q) + (n + 1)
        BY <2>1, <3>2, <4>1 DEF Queue
      <4>3. QED
        BY <3>1, <4>2
    <3>5. Got(q)' <= Sent(q)' /\ Len(chan'[q]) = Sent(q)' - Got(q)'
      BY <3>1, <3>2, <3>3
    <3>6. QED
      BY <3>4, <3>5 DEF Queue
  <2>4. QED
    BY <2>2, <2>3
<1>8. OnScreen'
  <2> DEFINE n == MLIFE_myrowoffset(Rows, p, NProcs)
             m == n + MLIFE_myrows(Rows, p, NProcs)
  <2>1. /\ n \in 0 .. Rows /\ m \in n .. Rows
        /\ m = MLIFE_myrowoffset(Rows, p + 1, NProcs)
        /\ \A r \in 1 .. Rows :
             Printed(screen, p, done[0] + 1, n)[r] =
               IF r \in n + 1 .. m THEN <<done[0] + 1, r>> ELSE screen[r]
    BY Printing
  <2>2. totrows = n
    BY <1>0 DEF OnScreen
  <2>3. /\ screen' = Printed(screen, p, done[0] + 1, n) /\ totrows' = m
        /\ from' = p + 1 /\ done' = done
    BY <1>0, <1>5, <2>2 DEF ReceiveFrom
  <2>4. done[0] + 1 \in 1 .. Iter
    <3>1. Pace(0) /\ done[0] \in Nat
      BY Counters DEF Paced
    <3>2. QED
      BY <1>0, <3>1 DEF Pace, Computed
  <2>5. \A r \in 1 .. Rows : r <= n => RowShown(r)
    BY <1>0, <2>2 DEF OnScreen
  <2> HIDE DEF m, n
  <2>6. \A r \in 1 .. Rows :
          screen'[r] = IF r \in n + 1 .. m THEN <<done[0] + 1, r>> ELSE screen[r]
    BY <2>1, <2>3
  <2>7. ASSUME NEW r \in 1 .. Rows, r <= m PROVE RowShown(r)'
    <3>1. CASE r <= n
      <4>1. r \notin n + 1 .. m /\ RowShown(r)
        BY <2>1, <2>5, <3>1
      <4>2. QED
        BY <2>3, <2>6, <4>1 DEF RowShown
    <3>2. CASE ~(r <= n)
      <4>1. r \in n + 1 .. m
        BY <2>1, <2>7, <3>2
      <4>2. screen'[r] = <<done[0] + 1, r>>
        BY <2>6, <4>1
      <4>3. QED
        BY <2>3, <4>2 DEF RowShown
    <3>3. QED
      BY <3>1, <3>2
  <2>8. ASSUME NEW r \in 1 .. Rows
        PROVE  screen'[r] = Blank \/ screen'[r] \in (1 .. Iter) \X (1 .. Rows)
    <3>1. <<done[0] + 1, r>> \in (1 .. Iter) \X (1 .. Rows)
      BY <2>4
    <3>2. screen[r] = Blank \/ screen[r] \in (1 .. Iter) \X (1 .. Rows)
      BY DEF OnScreen
    <3>3. QED
      BY <2>6, <3>1, <3>2
  <2>9. totrows' \in 0 .. Rows /\ totrows' = MLIFE_myrowoffset(Rows, from', NProcs)
    BY <2>1, <2>3
  <2>10. \A r \in 1 .. Rows : r <= totrows' => RowShown(r)'
    BY <2>3, <2>7
  <2>11. QED
    BY <2>8, <2>9, <2>10 DEF OnScreen
<1>9. QED
  BY <1>3, <1>6, <1>7, <1>8

(* Inv is kept by every step.                                              *)
LEMMA Preserved == Inv /\ [Next]_vars => Inv'
<1>1. CASE UNCHANGED vars
  BY <1>1 DEF vars, Inv, Types, Paced, Pace, Queues, Queue, OnScreen, RowShown,
              Computed, Sent, Got
<1>2. ASSUME Inv, Next PROVE Inv'
  <2>1. ASSUME Root PROVE Inv'
    BY <1>2, <2>1, HeadingKeeps, EndOfFrameKeeps, ReceiveKeeps DEF Root
  <2>2. ASSUME NEW p \in Rank, Generation(p) \/ Send(p) \/ Buffered(p) PROVE Inv'
    BY <1>2, <2>2, GenerationKeeps, SendKeeps, BufferedKeeps
  <2>3. QED
    BY <1>2, <2>1, <2>2 DEF Next
<1>3. QED
  BY <1>1, <1>2

THEOREM Invariance == Spec => []Inv
  BY Initially, Preserved, PTL DEF Spec

(* Every variable keeps its type.                                          *)
THEOREM TypeCorrect == Spec => []TypeOK
<1>1. ASSUME Inv PROVE TypeOK
  <2> USE RankFacts DEF Inv
  <2>1. done \in [Rank -> 0 .. Iter]
    <3>1. \A p \in Rank : done[p] \in Nat /\ done[p] <= Iter
      BY <1>1, Counters DEF Paced, Pace
    <3>2. QED
      BY <1>1, <3>1 DEF Types
  <2>2. ASSUME NEW p \in Rank, NEW n \in 1 .. Len(chan[p])
        PROVE  chan[p][n] \in 1 .. Iter
    <3>1. p # 0
      BY <1>1, <2>2 DEF Queues
    <3>2. Queue(p) /\ Pace(p)
      BY <1>1, <3>1 DEF Queues, Paced
    <3>3. chan[p][n] = Got(p) + n /\ n <= Sent(p) - Got(p)
      BY <3>2 DEF Queue
    <3>4. Got(p) \in Nat /\ Sent(p) \in Nat /\ Computed(p) \in Nat
          /\ Sent(p) <= Computed(p) /\ Computed(p) <= Iter
      BY <1>1, <3>2, Counters DEF Pace
    <3>5. QED
      BY <3>3, <3>4
  <2>3. QED
    BY <1>1, <2>1, <2>2 DEF TypeOK, Types, OnScreen
<1>2. QED
  BY <1>1, Invariance, PTL

(* Every frame of mlife-io-stdout.c shows one generation, and each row     *)
(* under its own number, however far the ranks have run ahead.             *)
THEOREM FramesCorrect == Spec => []FramesRight
<1>1. ASSUME Inv PROVE FramesRight
  <2> USE RankFacts DEF Inv
  <2> SUFFICES ASSUME FrameDone, NEW r \in 1 .. Rows
               PROVE  screen[r] = <<done[0] + 1, r>>
    BY DEF FramesRight
  <2>1. totrows = MLIFE_myrowoffset(Rows, NProcs, NProcs)
    BY <1>1 DEF FrameDone, OnScreen
  <2>2. MLIFE_myrowoffset(Rows, NProcs, NProcs) = Rows
    BY Tiling
  <2>3. RowShown(r)
    BY <1>1, <2>1, <2>2 DEF FrameDone, OnScreen
  <2>4. QED
    BY <2>3 DEF RowShown
<1>2. QED
  BY <1>1, Invariance, PTL

(* Rank p is never more than p generations ahead of rank 0, and MPI never  *)
(* holds more than p of its messages.                                      *)
THEOREM BacklogIsBounded == Spec => []BacklogBounded
<1>1. ASSUME Inv PROVE BacklogBounded
  <2> USE RankFacts DEF Inv
  <2> SUFFICES ASSUME NEW p \in Rank
               PROVE  Len(chan[p]) <= p /\ done[p] - done[0] <= p
    BY DEF BacklogBounded
  <2>1. /\ done[0] \in Nat /\ done[p] \in Nat /\ done[0] <= Got(p)
        /\ Got(p) \in Nat /\ Sent(p) \in Nat /\ Computed(p) \in Nat
        /\ Sent(p) <= Computed(p)
    BY <1>1, Counters
  <2>2. done[p] <= done[0] + p
    BY <1>1, Chain
  <2>3. CASE p = 0
    BY <1>1, <2>1, <2>3 DEF Queues
  <2>4. CASE p # 0
    <3>1. p - 1 \in Rank /\ p - 1 \in Neighbours(p) /\ p \in Nat
      BY <2>4
    <3>2. done[p - 1] <= done[0] + (p - 1) /\ done[p - 1] \in Nat
      BY <1>1, <3>1, Chain, Counters
    <3>3. Computed(p) <= done[p - 1] + 1
      BY <1>1, <3>1 DEF Paced, Pace
    <3>4. Len(chan[p]) = Sent(p) - Got(p)
      BY <1>1, <2>4 DEF Queues, Queue
    <3>5. QED
      BY <2>1, <2>2, <3>1, <3>2, <3>3, <3>4
  <2>5. QED
    BY <2>3, <2>4
<1>2. QED
  BY <1>1, Invariance, PTL
-----------------------------------------------------------------------------
(* The display of mlife2d-io-stdout1.c.  Rank 0 receives the parts of a    *)
(* row from any source, so a rank two frames ahead could send two parts of *)
(* one line: the display is right when the exchange lets no rank that      *)
(* shares its rows be two frames ahead of rank 0.                          *)

Frames == INSTANCE Life2dMeshProofs

(* With fences a rank waits for all the others, and in the smallest meshes *)
(* rank 0 is within one step of everybody, across the corner too; with one *)
(* column of processes a row has only one part.                            *)
RootIsNear == \/ Exchange = "fence"
              \/ PRows <= 2 /\ PCols <= 2
Lockstep == PCols = 1 \/ RootIsNear

(* The generations whose first half p has passed, and whose second half.   *)
MeshBegun(p)    == IF meshPc[p] = "columns" THEN frame[p] ELSE frame[p] + 1
MeshComputed(p) == IF meshPc[p] \in {"checkpoint", "sending"}
                     THEN frame[p] + 1 ELSE frame[p]

(* The frames of row r that p has sent and that rank 0 has received.       *)
RowSent(p, r) ==
  IF \/ meshPc[p] \in {"checkpoint", "sending"} /\ r < next[p]
     \/ meshPc[p] = "sending" /\ r = next[p]
    THEN frame[p] + 1 ELSE frame[p]
InLine(p) == \E n \in 1 .. Len(line) : line[n][1] = p
RowGot(p, r) ==
  IF meshPc[0] = "checkpoint" /\ (r < next[0] \/ (r = next[0] /\ InLine(p)))
    THEN frame[0] + 1 ELSE frame[0]

MeshTypes ==
  /\ frame \in [Mesh!Rank -> Nat]
  /\ meshPc \in [Mesh!Rank -> {"columns", "rows", "checkpoint", "sending"}]
  /\ meshPc[0] # "sending"
  /\ next \in [Mesh!Rank -> Nat \ {0}]
  /\ \A p \in Mesh!Rank : meshPc[p] = "sending" => next[p] \in Mesh!RowsHeld(p)
  /\ meshChan \in [Mesh!Rank -> [1 .. GRows -> Seq(Nat)]]
  /\ line \in Seq(Mesh!Rank \X Nat)

(* A rank has waited, in each half, for those the exchange makes it meet.  *)
MeshPaced ==
  \A p \in Mesh!Rank :
    /\ \A q \in Mesh!Meets(p, Mesh!Beside(p)) :
         Mesh!Posted(q) >= 2 * MeshBegun(p) - 1
    /\ \A q \in Mesh!Meets(p, Mesh!Stacked(p)) :
         Mesh!Posted(q) >= 2 * MeshComputed(p)

(* A channel holds the frames of its row sent and not received, in order.  *)
RowQueue(p, r) ==
  /\ RowGot(p, r) <= RowSent(p, r)
  /\ Len(meshChan[p][r]) = RowSent(p, r) - RowGot(p, r)
  /\ \A n \in 1 .. Len(meshChan[p][r]) : meshChan[p][r][n] = RowGot(p, r) + n
MeshQueues ==
  \A p \in Mesh!Rank, r \in 1 .. GRows :
    IF p # 0 /\ r \in Mesh!RowsHeld(p) THEN RowQueue(p, r)
    ELSE meshChan[p][r] = <<>>

(* The parts received of a line come from different ranks that hold the    *)
(* row, and are of the frame being printed.                                *)
MeshLine ==
  meshPc[0] = "checkpoint" /\ next[0] <= GRows =>
    /\ \A n \in 1 .. Len(line) : /\ line[n][2] = frame[0] + 1
                                 /\ next[0] \in Mesh!RowsHeld(line[n][1])
    /\ \A m, n \in 1 .. Len(line) : line[m][1] = line[n][1] => m = n

MeshInv == MeshTypes /\ MeshPaced /\ MeshQueues /\ MeshLine

LEMMA MeshFacts ==
  /\ GRows \in Nat /\ PRows \in Nat \ {0} /\ PCols \in Nat \ {0}
  /\ Mesh!Rank \subseteq Nat /\ 0 \in Mesh!Rank
  /\ \A p \in Mesh!Rank : Mesh!Beside(p) \subseteq Mesh!Rank /\ Mesh!Stacked(p) \subseteq Mesh!Rank
<1>1. /\ GRows \in Nat /\ PRows \in Nat \ {0} /\ PCols \in Nat \ {0}
  BY MeshDisplayAssumption DEF Mesh!MeshAssumption
<1>2. PRows * PCols \in Nat \ {0}
  <2>1. 1 * PCols <= PRows * PCols /\ 1 * PCols = PCols /\ PRows * PCols \in Nat
    <3>1. 1 \in Nat /\ 1 <= PRows /\ 0 \in Nat /\ 0 + 1 = 1
      BY <1>1
    <3>2. 1 * PCols <= PRows * PCols /\ PRows * PCols \in Nat
      BY <1>1, <3>1, TimesMonotone
    <3>3. QED
      BY <1>1, <3>2
  <2>2. QED
    BY <1>1, <2>1
<1>3. Mesh!Rank \subseteq Nat /\ 0 \in Mesh!Rank
  BY <1>2 DEF Mesh!Rank
<1>4. QED
  BY <1>1, <1>3 DEF Mesh!Beside, Mesh!Stacked

LEMMA MeshPlace ==
  ASSUME NEW p \in Mesh!Rank
  PROVE  /\ Mesh!prow(p) \in 0 .. PRows - 1 /\ Mesh!pcol(p) \in 0 .. PCols - 1
         /\ p = Mesh!prow(p) * PCols + Mesh!pcol(p)
<1>1. Frames!MeshAssumption /\ p \in Frames!Rank
  BY MeshDisplayAssumption DEF Mesh!MeshAssumption, Frames!MeshAssumption,
                               Mesh!Rank, Frames!Rank
<1>2. QED
  BY <1>1, Frames!PlaceOfRank DEF Mesh!prow, Mesh!pcol, Frames!prow, Frames!pcol

(* A rank holds rows of the matrix, and a row is held by the ranks of one  *)
(* row of the mesh.                                                        *)
LEMMA MeshRows ==
  /\ \A p \in Mesh!Rank : /\ Mesh!RowsHeld(p) \subseteq 1 .. GRows
                          /\ Mesh!firstrow(p) \in Nat \ {0}
                          /\ Mesh!lastrow(p) \in Nat
  /\ \A r \in 1 .. GRows : \E a \in 0 .. PRows - 1 :
       \A p \in Mesh!Rank : r \in Mesh!RowsHeld(p) <=> Mesh!prow(p) = a
<1> DEFINE size == GRows \div PRows
           S(a) == Frames!Slab(a, PRows, size, GRows)
<1> USE MeshFacts
<1>1. /\ size \in Nat /\ PRows * size \in Nat /\ PRows * size <= GRows
  <2> DEFINE rest == GRows % PRows
             all == PRows * size
  <2>1. size \in Nat /\ rest \in 0 .. PRows - 1 /\ GRows = all + rest
    BY Division
  <2>2. all \in Nat
    BY <2>1, TimesMonotone
  <2> HIDE DEF size, rest, all
  <2>3. all <= GRows
    BY <2>1, <2>2
  <2>4. QED
    BY <2>1, <2>2, <2>3 DEF all
<1> HIDE DEF size
<1>2. ASSUME NEW p \in Mesh!Rank
      PROVE  /\ Mesh!RowsHeld(p) = S(Mesh!prow(p))
             /\ Mesh!RowsHeld(p) \subseteq 1 .. GRows
             /\ Mesh!firstrow(p) \in Nat \ {0}
             /\ Mesh!lastrow(p) \in Nat
  <2> DEFINE a == Mesh!prow(p)
  <2>1. a \in Nat /\ a + 1 \in Nat /\ a <= PRows - 1
    BY MeshPlace
  <2> HIDE DEF a
  <2>2. /\ a * size \in Nat /\ (a + 1) * size \in Nat
        /\ (a + 1) * size <= PRows * size
    <3>1. a + 1 <= PRows
      BY <2>1
    <3>2. QED
      BY <1>1, <2>1, <3>1, TimesMonotone
  <2>3. /\ Mesh!firstrow(p) = 1 + a * size
        /\ Mesh!lastrow(p) = IF a = PRows - 1 THEN GRows ELSE (a + 1) * size
    BY DEF Mesh!firstrow, Mesh!lastrow, a, size
  <2>4. Mesh!firstrow(p) \in Nat \ {0} /\ Mesh!lastrow(p) \in 0 .. GRows
    BY <1>1, <2>2, <2>3
  <2>5. Mesh!RowsHeld(p) = S(a)
    BY <2>3 DEF Mesh!RowsHeld, Frames!Slab, Frames!Last
  <2>6. QED
    BY <2>4, <2>5 DEF Mesh!RowsHeld, a
<1>3. ASSUME NEW r \in 1 .. GRows
      PROVE  \E a \in 0 .. PRows - 1 :
               \A p \in Mesh!Rank : r \in Mesh!RowsHeld(p) <=> Mesh!prow(p) = a
  <2>1. /\ \E a \in 0 .. PRows - 1 : r \in S(a)
        /\ \A a, b \in 0 .. PRows - 1 : r \in S(a) /\ r \in S(b) => a = b
    BY <1>1, Frames!SlabsTile
  <2> HIDE DEF S
  <2>2. PICK a \in 0 .. PRows - 1 : r \in S(a)
    BY <2>1
  <2>3. ASSUME NEW p \in Mesh!Rank
        PROVE  r \in Mesh!RowsHeld(p) <=> Mesh!prow(p) = a
    <3>1. Mesh!prow(p) \in 0 .. PRows - 1 /\ Mesh!RowsHeld(p) = S(Mesh!prow(p))
      BY <1>2, MeshPlace
    <3>2. QED
      BY <2>1, <2>2, <3>1
  <2>4. QED
    BY <2>3
<1>4. QED
  BY <1>2, <1>3

LEMMA MeshCounters ==
  ASSUME MeshTypes
  PROVE  /\ \A p \in Mesh!Rank :
              /\ frame[p] \in Nat /\ MeshBegun(p) \in Nat /\ MeshComputed(p) \in Nat
              /\ Mesh!Posted(p) \in Nat
              /\ Mesh!Meets(p, Mesh!Beside(p)) \subseteq Mesh!Rank
              /\ Mesh!Meets(p, Mesh!Stacked(p)) \subseteq Mesh!Rank
         /\ \A p \in Mesh!Rank, r \in 1 .. GRows :
              /\ RowSent(p, r) \in Nat /\ RowGot(p, r) \in Nat
              /\ RowSent(p, r) <= MeshComputed(p)
<1> USE MeshFacts
<1>1. \A p \in Mesh!Rank :
              /\ frame[p] \in Nat /\ MeshBegun(p) \in Nat /\ MeshComputed(p) \in Nat
              /\ Mesh!Posted(p) \in Nat
  BY DEF MeshTypes, MeshBegun, MeshComputed, Mesh!Posted
<1>2. \A p \in Mesh!Rank :
              /\ Mesh!Meets(p, Mesh!Beside(p)) \subseteq Mesh!Rank
              /\ Mesh!Meets(p, Mesh!Stacked(p)) \subseteq Mesh!Rank
  BY DEF Mesh!Meets
<1>3. \A p \in Mesh!Rank, r \in 1 .. GRows :
              /\ RowSent(p, r) \in Nat /\ RowGot(p, r) \in Nat
              /\ RowSent(p, r) <= MeshComputed(p)
  BY <1>1 DEF RowSent, RowGot, MeshComputed
<1>4. QED
  BY <1>1, <1>2, <1>3

(* With RootIsNear nobody has computed two generations more than rank 0    *)
(* has printed.                                                            *)
LEMMA NobodyAhead ==
  ASSUME MeshTypes, MeshPaced, RootIsNear, NEW p \in Mesh!Rank
  PROVE  MeshComputed(p) <= frame[0] + 1
<1> USE MeshFacts, MeshCounters
<1>1. \A x, y \in Mesh!Rank :
        /\ y \in Mesh!Meets(x, Mesh!Beside(x)) => MeshBegun(x) <= frame[y] + 1
        /\ y \in Mesh!Meets(x, Mesh!Stacked(x)) => MeshComputed(x) <= MeshBegun(y)
  <2> SUFFICES ASSUME NEW x \in Mesh!Rank, NEW y \in Mesh!Rank
               PROVE  /\ y \in Mesh!Meets(x, Mesh!Beside(x)) => MeshBegun(x) <= frame[y] + 1
                      /\ y \in Mesh!Meets(x, Mesh!Stacked(x)) => MeshComputed(x) <= MeshBegun(y)
    OBVIOUS
  <2>1. y \in Mesh!Meets(x, Mesh!Beside(x)) => Mesh!Posted(y) >= 2 * MeshBegun(x) - 1
    BY DEF MeshPaced
  <2>2. y \in Mesh!Meets(x, Mesh!Stacked(x)) => Mesh!Posted(y) >= 2 * MeshComputed(x)
    BY DEF MeshPaced
  <2>3. Mesh!Posted(y) = 2 * frame[y] + (IF meshPc[y] = "columns" THEN 1 ELSE 2)
    BY DEF Mesh!Posted
  <2>4. MeshBegun(y) = IF meshPc[y] = "columns" THEN frame[y] ELSE frame[y] + 1
    BY DEF MeshBegun
  <2>5. /\ frame[y] \in Nat /\ MeshBegun(x) \in Nat /\ MeshComputed(x) \in Nat
    OBVIOUS
  <2>6. QED
    BY <2>1, <2>2, <2>3, <2>4, <2>5
<1>2. /\ MeshComputed(p) <= frame[p] + 1 /\ MeshComputed(p) <= MeshBegun(p)
      /\ \A q \in Mesh!Rank : MeshBegun(q) <= frame[q] + 1
  BY DEF MeshComputed, MeshBegun, MeshTypes
<1>3. CASE Exchange = "fence"
  <2>1. 0 \in Mesh!Meets(p, Mesh!Stacked(p))
    BY <1>3 DEF Mesh!Meets
  <2>2. MeshComputed(p) <= MeshBegun(0)
    BY <1>1, <2>1
  <2>3. QED
    BY <1>2, <2>2
<1>4. CASE Exchange # "fence" /\ PRows <= 2 /\ PCols <= 2
  <2>0. \A x : Mesh!Meets(x, Mesh!Beside(x)) = Mesh!Beside(x)
               /\ Mesh!Meets(x, Mesh!Stacked(x)) = Mesh!Stacked(x)
    BY <1>4 DEF Mesh!Meets
  <2>1. CASE p = 0
    BY <1>2, <2>1
  <2>2. CASE p # 0 /\ PCols = 1
    <3>1. p = 1
      BY <1>4, <2>2 DEF Mesh!Rank
    <3>2. 0 \in Mesh!Stacked(p)
      BY <2>2, <3>1 DEF Mesh!Stacked
    <3>3. MeshComputed(p) <= MeshBegun(0)
      BY <1>1, <2>0, <3>2
    <3>4. QED
      BY <1>2, <3>3
  <2>3. CASE p # 0 /\ PCols = 2
    <3>0. PRows \in {1, 2}
      BY <1>4
    <3>1. p \in {1, 2, 3} /\ 1 \in Mesh!Rank
      BY <2>3, <3>0 DEF Mesh!Rank
    <3>2. 0 \in Mesh!Beside(1)
      BY <2>3 DEF Mesh!Beside, Mesh!prow
    <3>3. MeshBegun(1) <= frame[0] + 1
      BY <1>1, <2>0, <3>1, <3>2
    <3>4. CASE p = 1
      BY <1>2, <3>3, <3>4
    <3>5. CASE p = 2
      <4>1. 0 \in Mesh!Stacked(p)
        BY <2>3, <3>5 DEF Mesh!Stacked
      <4>2. MeshComputed(p) <= MeshBegun(0)
        BY <1>1, <2>0, <4>1
      <4>3. QED
        BY <1>2, <4>2
    <3>6. CASE p = 3
      <4>1. 1 \in Mesh!Stacked(p)
        BY <2>3, <3>1, <3>6 DEF Mesh!Stacked
      <4>2. MeshComputed(p) <= MeshBegun(1)
        BY <1>1, <2>0, <3>1, <4>1
      <4>3. QED
        BY <3>3, <4>2, <3>1
    <3>7. QED
      BY <3>1, <3>4, <3>5, <3>6
  <2>4. PCols \in {1, 2}
    BY <1>4
  <2>5. QED
    BY <2>1, <2>2, <2>3, <2>4
<1>5. QED
  BY <1>3, <1>4 DEF RootIsNear

LEMMA MeshInitially == Mesh!Init => MeshInv
<1> SUFFICES ASSUME Mesh!Init PROVE MeshInv
  OBVIOUS
<1> USE MeshFacts
<1>1. MeshTypes
  BY DEF Mesh!Init, MeshTypes
<1>2. MeshPaced
  BY MeshCounters, <1>1 DEF Mesh!Init, MeshPaced, MeshBegun, MeshComputed, Mesh!Posted
<1>3. MeshQueues
  BY DEF Mesh!Init, MeshQueues, RowQueue, RowSent, RowGot
<1>4. MeshLine
  BY DEF Mesh!Init, MeshLine
<1>5. QED
  BY <1>1, <1>2, <1>3, <1>4 DEF MeshInv

(* Ranks of one row of the mesh are no more than its columns.              *)
LEMMA HoldersOfRow ==
  ASSUME NEW H, H \subseteq Mesh!Rank, NEW a, \A p \in H : Mesh!prow(p) = a
  PROVE  IsFiniteSet(H) /\ Cardinality(H) <= PCols
<1> USE MeshFacts
<1> DEFINE B == 0 .. PCols - 1
           C == {Mesh!pcol(p) : p \in H}
           f == [p \in H |-> Mesh!pcol(p)]
<1>1. C \subseteq B
  BY MeshPlace
<1>2. IsFiniteSet(B) /\ Cardinality(B) = PCols
  <2>1. 0 \in Int /\ PCols - 1 \in Int /\ ~(0 > PCols - 1) /\ (PCols - 1) - 0 + 1 = PCols
    OBVIOUS
  <2>2. QED
    BY <2>1, FS_Interval
<1>3. IsFiniteSet(C) /\ Cardinality(C) <= PCols
  BY <1>1, <1>2, FS_Subset
<1>4. f \in Bijection(H, C)
  <2>1. \A p, q \in H : Mesh!pcol(p) = Mesh!pcol(q) => p = q
    BY MeshPlace
  <2>2. f \in [H -> C] /\ \A c \in C : \E p \in H : f[p] = c
    OBVIOUS
  <2>3. \A p, q \in H : f[p] = f[q] => p = q
    BY <2>1
  <2> HIDE DEF f, C
  <2>4. QED
    BY <2>2, <2>3, Fun_IsBij
<1> HIDE DEF f, C, B
<1>5. f \in Injection(H, C)
  BY <1>4 DEF Bijection
<1>6. IsFiniteSet(H) /\ Cardinality(H) <= Cardinality(C)
  BY <1>3, <1>5, FS_Injection
<1>7. Cardinality(H) \in Nat /\ Cardinality(C) \in Nat
  BY <1>3, <1>6, FS_CardinalityType
<1>8. QED
  BY <1>3, <1>6, <1>7

(* A row that is done has a part of every rank that holds it.              *)
LEMMA LineHasAll ==
  ASSUME MeshInv, Mesh!LineDone
  PROVE  /\ \A p \in Mesh!Rank : next[0] \in Mesh!RowsHeld(p) => InLine(p)
         /\ LinesRight
<1> USE MeshFacts DEF MeshInv
<1> DEFINE H == {p \in Mesh!Rank : next[0] \in Mesh!RowsHeld(p)}
           N == 1 .. Len(line)
           S == {line[n][1] : n \in N}
           f == [n \in N |-> line[n][1]]
<1>1. /\ meshPc[0] = "checkpoint" /\ next[0] <= GRows /\ Len(line) >= PCols
      /\ next[0] \in 1 .. GRows /\ Len(line) \in Nat
      /\ \A n \in N : line[n] \in Mesh!Rank \X Nat
  BY DEF Mesh!LineDone, Mesh!npcols, MeshTypes
<1>2. /\ \A n \in N : /\ line[n][2] = frame[0] + 1
                      /\ next[0] \in Mesh!RowsHeld(line[n][1])
      /\ \A m, n \in N : line[m][1] = line[n][1] => m = n
  BY <1>1 DEF MeshLine
<1>3. IsFiniteSet(H) /\ Cardinality(H) <= PCols
  <2>1. PICK a \in 0 .. PRows - 1 :
               \A p \in Mesh!Rank : next[0] \in Mesh!RowsHeld(p) <=> Mesh!prow(p) = a
    BY <1>1, MeshRows
  <2>2. H \subseteq Mesh!Rank /\ \A p \in H : Mesh!prow(p) = a
    BY <2>1
  <2> HIDE DEF H
  <2>3. QED
    BY <2>2, HoldersOfRow
<1>4. S \subseteq H
  BY <1>1, <1>2
<1>5. IsFiniteSet(S) /\ Cardinality(S) = Len(line)
  <2>1. IsFiniteSet(N) /\ Cardinality(N) = Len(line)
    <3>1. ASSUME NEW m \in Nat PROVE IsFiniteSet(1 .. m) /\ Cardinality(1 .. m) = m
      <4>1. /\ IsFiniteSet(1 .. m)
            /\ Cardinality(1 .. m) = IF 1 > m THEN 0 ELSE m - 1 + 1
        BY FS_Interval
      <4>2. QED
        BY <4>1
    <3>2. QED
      BY <1>1, <3>1
  <2>2. f \in [N -> S] /\ \A s \in S : \E n \in N : f[n] = s
    OBVIOUS
  <2>3. \A m, n \in N : f[m] = f[n] => m = n
    BY <1>2
  <2> HIDE DEF f, S, N
  <2>4. ExistsBijection(N, S)
    BY <2>2, <2>3, Fun_IsBij DEF ExistsBijection
  <2>5. QED
    BY <2>1, <2>4, FS_Bijection
<1>6. S = H
  <2> HIDE DEF S, H
  <2>1. Cardinality(H) \in Nat /\ Cardinality(S) \in Nat
    BY <1>3, <1>5, FS_CardinalityType
  <2>2. /\ Cardinality(S) <= Cardinality(H)
        /\ Cardinality(H) = Cardinality(S) => H = S
    BY <1>3, <1>4, FS_Subset
  <2>3. PCols \in Nat /\ Len(line) \in Nat /\ PCols <= Len(line)
    BY <1>1
  <2>4. QED
    BY <1>3, <1>5, <2>1, <2>2, <2>3
<1>7. ASSUME NEW p \in Mesh!Rank, next[0] \in Mesh!RowsHeld(p)
      PROVE  \E n \in N : line[n][1] = p
  <2>1. p \in S
    <3>1. p \in H
      BY <1>7
    <3> HIDE DEF S, H
    <3>2. QED
      BY <1>6, <3>1
  <2>2. QED
    BY <2>1
<1>8. \A p \in Mesh!Rank : next[0] \in Mesh!RowsHeld(p) => InLine(p)
  BY <1>7 DEF InLine
<1>9. {line[n] : n \in N} = {<<p, frame[0] + 1>> : p \in H}
  <2>1. ASSUME NEW n \in N PROVE line[n] \in {<<p, frame[0] + 1>> : p \in H}
    <3>1. line[n] = <<line[n][1], frame[0] + 1>> /\ line[n][1] \in H
      BY <1>1, <1>2
    <3>2. QED
      BY <3>1
  <2>2. ASSUME NEW p \in H PROVE <<p, frame[0] + 1>> \in {line[n] : n \in N}
    <3>1. PICK n \in N : line[n][1] = p
      BY <1>7
    <3>2. line[n] = <<p, frame[0] + 1>>
      BY <1>1, <1>2, <3>1
    <3>3. QED
      BY <3>2
  <2>3. QED
    BY <2>1, <2>2
<1>10. QED
  BY <1>8, <1>9 DEF LinesRight, Mesh!LinesRight

(* A step in which p passes a half, or in which nobody does.               *)
LEMMA PacedKept ==
  ASSUME MeshTypes, MeshTypes', MeshPaced, NEW p \in Mesh!Rank,
         \A q \in Mesh!Rank : Mesh!Posted(q)' >= Mesh!Posted(q),
         \A q \in Mesh!Rank \ {p} : /\ MeshBegun(q)' = MeshBegun(q)
                                    /\ MeshComputed(q)' = MeshComputed(q),
         \A q \in Mesh!Meets(p, Mesh!Beside(p)) :
           Mesh!Posted(q) >= 2 * MeshBegun(p)' - 1,
         \A q \in Mesh!Meets(p, Mesh!Stacked(p)) :
           Mesh!Posted(q) >= 2 * MeshComputed(p)'
  PROVE  MeshPaced'
<1>1. \A x : /\ Mesh!Meets(x, Mesh!Beside(x))' = Mesh!Meets(x, Mesh!Beside(x))
             /\ Mesh!Meets(x, Mesh!Stacked(x))' = Mesh!Meets(x, Mesh!Stacked(x))
  OBVIOUS
<1>2. \A x \in Mesh!Rank :
        /\ frame[x] \in Nat /\ Mesh!Posted(x) \in Nat
        /\ Mesh!Meets(x, Mesh!Beside(x)) \subseteq Mesh!Rank
        /\ Mesh!Meets(x, Mesh!Stacked(x)) \subseteq Mesh!Rank
  BY MeshCounters
<1>3. \A x \in Mesh!Rank : /\ MeshBegun(x)' \in Nat /\ MeshComputed(x)' \in Nat
                           /\ Mesh!Posted(x)' \in Nat
  <2>1. \A x \in Mesh!Rank : frame'[x] \in Nat
    BY DEF MeshTypes
  <2>2. QED
    BY <2>1 DEF MeshBegun, MeshComputed, Mesh!Posted
<1>4. ASSUME NEW x \in Mesh!Rank
      PROVE  /\ \A q \in Mesh!Meets(x, Mesh!Beside(x)) :
                  Mesh!Posted(q)' >= 2 * MeshBegun(x)' - 1
             /\ \A q \in Mesh!Meets(x, Mesh!Stacked(x)) :
                  Mesh!Posted(q)' >= 2 * MeshComputed(x)'
  <2>1. /\ \A q \in Mesh!Meets(x, Mesh!Beside(x)) :
             Mesh!Posted(q) >= 2 * MeshBegun(x)' - 1
        /\ \A q \in Mesh!Meets(x, Mesh!Stacked(x)) :
             Mesh!Posted(q) >= 2 * MeshComputed(x)'
    BY <1>1 DEF MeshPaced
  <2>2. QED
    BY <1>2, <1>3, <2>1
<1>5. QED
  BY <1>4 DEF MeshPaced

LEMMA ColumnsKeep ==
  ASSUME MeshInv, NEW p \in Mesh!Rank, Mesh!ColumnsExchanged(p)
  PROVE  MeshInv'
<1> USE MeshFacts DEF MeshInv
<1>1. MeshTypes'
  BY DEF MeshTypes, Mesh!ColumnsExchanged
<1>2. /\ \A q \in Mesh!Rank : meshPc'[q] = IF q = p THEN "rows" ELSE meshPc[q]
      /\ UNCHANGED <<frame, next, meshChan, line>>
      /\ meshPc[p] = "columns"
      /\ \A q \in Mesh!Meets(p, Mesh!Beside(p)) : Mesh!Posted(q) >= Mesh!Posted(p)
  BY DEF MeshTypes, Mesh!ColumnsExchanged
<1>3. /\ \A q \in Mesh!Rank \ {p} : /\ MeshBegun(q)' = MeshBegun(q)
                                    /\ Mesh!Posted(q)' = Mesh!Posted(q)
      /\ \A q \in Mesh!Rank : MeshComputed(q)' = MeshComputed(q)
      /\ MeshBegun(p)' = frame[p] + 1
      /\ Mesh!Posted(p) = 2 * frame[p] + 1 /\ Mesh!Posted(p)' = 2 * frame[p] + 2
  BY <1>2 DEF MeshBegun, MeshComputed, Mesh!Posted
<1>4. MeshPaced'
  <2>1. \A q \in Mesh!Rank : Mesh!Posted(q) \in Nat /\ frame[q] \in Nat
    BY MeshCounters
  <2>2. \A q \in Mesh!Rank : Mesh!Posted(q)' >= Mesh!Posted(q)
    BY <1>3, <2>1
  <2>3. ASSUME NEW q \in Mesh!Meets(p, Mesh!Beside(p))
        PROVE  Mesh!Posted(q) >= 2 * MeshBegun(p)' - 1
    BY <1>2, <1>3, <2>1
  <2>4. ASSUME NEW q \in Mesh!Meets(p, Mesh!Stacked(p))
        PROVE  Mesh!Posted(q) >= 2 * MeshComputed(p)'
    BY <1>3 DEF MeshPaced
  <2>5. QED
    BY <1>1, <1>3, <2>2, <2>3, <2>4, PacedKept
<1>5. \A q \in Mesh!Rank, r \in 1 .. GRows : /\ RowSent(q, r)' = RowSent(q, r)
                                             /\ RowGot(q, r)' = RowGot(q, r)
  BY <1>2 DEF RowSent, RowGot, InLine
<1>6. MeshQueues'
  BY <1>2, <1>5 DEF MeshQueues, RowQueue
<1>7. MeshLine'
  BY <1>2 DEF MeshLine
<1>8. QED
  BY <1>1, <1>4, <1>6, <1>7

LEMMA MeshGenerationKeeps ==
  ASSUME MeshInv, NEW p \in Mesh!Rank, Mesh!Generation(p)
  PROVE  MeshInv'
<1> USE MeshFacts DEF MeshInv
<1>0. Mesh!firstrow(p) \in Nat \ {0} /\ \A q \in Mesh!Rank : Mesh!RowsHeld(q) \subseteq 1 .. GRows
  BY MeshRows
<1>1. /\ \A q \in Mesh!Rank : meshPc'[q] = IF q = p THEN "checkpoint" ELSE meshPc[q]
      /\ \A q \in Mesh!Rank :
           next'[q] = IF q = p THEN IF p = 0 THEN 1 ELSE Mesh!firstrow(p) ELSE next[q]
      /\ line' = IF p = 0 THEN Mesh!Own(1) ELSE line
      /\ UNCHANGED <<frame, meshChan>>
      /\ meshPc[p] = "rows"
      /\ \A q \in Mesh!Meets(p, Mesh!Stacked(p)) : Mesh!Posted(q) >= Mesh!Posted(p)
  BY DEF MeshTypes, Mesh!Generation, Mesh!RowsExchanged
<1>2. Mesh!Own(1) \in Seq(Mesh!Rank \X Nat)
  <2>1. <<0, frame[0] + 1>> \in Mesh!Rank \X Nat
    BY DEF MeshTypes
  <2>2. <<<<0, frame[0] + 1>>>> \in Seq(Mesh!Rank \X Nat) /\ <<>> \in Seq(Mesh!Rank \X Nat)
    BY <2>1
  <2>3. QED
    BY <2>2, Zenon DEF Mesh!Own
<1>3. MeshTypes'
  <2>1. line' \in Seq(Mesh!Rank \X Nat)
    BY <1>1, <1>2 DEF MeshTypes
  <2>2. next' \in [Mesh!Rank -> Nat \ {0}]
    BY <1>0 DEF MeshTypes, Mesh!Generation
  <2>3. meshPc' \in [Mesh!Rank -> {"columns", "rows", "checkpoint", "sending"}]
    BY DEF MeshTypes, Mesh!Generation
  <2>4. QED
    BY <1>1, <2>1, <2>2, <2>3 DEF MeshTypes
<1>4. /\ \A q \in Mesh!Rank \ {p} : MeshComputed(q)' = MeshComputed(q)
      /\ \A q \in Mesh!Rank : /\ MeshBegun(q)' = MeshBegun(q)
                              /\ Mesh!Posted(q)' = Mesh!Posted(q)
      /\ MeshComputed(p)' = frame[p] + 1
      /\ Mesh!Posted(p) = 2 * frame[p] + 2
  BY <1>1 DEF MeshBegun, MeshComputed, Mesh!Posted
<1>5. MeshPaced'
  <2>1. \A q \in Mesh!Rank : Mesh!Posted(q) \in Nat /\ frame[q] \in Nat
    BY MeshCounters
  <2>2. \A q \in Mesh!Rank : Mesh!Posted(q)' >= Mesh!Posted(q)
    BY <1>4, <2>1
  <2>3. ASSUME NEW q \in Mesh!Meets(p, Mesh!Stacked(p))
        PROVE  Mesh!Posted(q) >= 2 * MeshComputed(p)'
    BY <1>1, <1>4, <2>1
  <2>4. ASSUME NEW q \in Mesh!Meets(p, Mesh!Beside(p))
        PROVE  Mesh!Posted(q) >= 2 * MeshBegun(p)' - 1
    BY <1>4 DEF MeshPaced
  <2>5. QED
    BY <1>3, <1>4, <2>2, <2>3, <2>4, PacedKept
<1>6. ASSUME NEW q \in Mesh!Rank, q # 0, NEW r \in 1 .. GRows, r \in Mesh!RowsHeld(q)
      PROVE  RowSent(q, r)' = RowSent(q, r) /\ RowGot(q, r)' = RowGot(q, r)
  <2>1. RowSent(q, r)' = RowSent(q, r)
    <3>1. CASE q = p
      <4>1. r >= Mesh!firstrow(p)
        BY <1>0, <1>6, <3>1 DEF Mesh!RowsHeld
      <4>2. ~(r < next'[p]) /\ meshPc'[p] = "checkpoint"
        BY <1>0, <1>1, <1>6, <3>1, <4>1
      <4>3. QED
        BY <1>1, <3>1, <4>2 DEF RowSent
    <3>2. CASE q # p
      BY <1>1, <3>2 DEF RowSent
    <3>3. QED
      BY <3>1, <3>2
  <2>2. RowGot(q, r)' = RowGot(q, r)
    <3>1. CASE p = 0
      <4>1. ~InLine(q)'
        BY <1>1, <1>6, <3>1 DEF InLine, Mesh!Own
      <4>2. next'[0] = 1 /\ meshPc[0] = "rows" /\ frame' = frame
        BY <1>1, <3>1
      <4>3. QED
        BY <4>1, <4>2 DEF RowGot
    <3>2. CASE p # 0
      BY <1>1, <3>2 DEF RowGot, InLine
    <3>3. QED
      BY <3>1, <3>2
  <2>3. QED
    BY <2>1, <2>2
<1>7. MeshQueues'
  BY <1>1, <1>6 DEF MeshQueues, RowQueue
<1>8. MeshLine'
  <2>1. CASE p # 0
    BY <1>1, <2>1 DEF MeshLine
  <2>2. CASE p = 0
    <3>1. next'[0] = 1 /\ line' = Mesh!Own(1) /\ frame' = frame
      BY <1>1, <2>2
    <3>2. QED
      BY <3>1 DEF MeshLine, Mesh!Own
  <2>3. QED
    BY <2>1, <2>2
<1>9. QED
  BY <1>3, <1>5, <1>7, <1>8

LEMMA MeshSendKeeps ==
  ASSUME MeshInv, NEW p \in Mesh!Rank, Mesh!Send(p)
  PROVE  MeshInv'
<1> USE MeshFacts DEF MeshInv
<1> DEFINE n == next[p]
<1>0. n \in Mesh!RowsHeld(p) /\ n \in 1 .. GRows /\ p # 0
  BY MeshRows DEF Mesh!Send
<1>1. /\ \A q \in Mesh!Rank : meshPc'[q] = IF q = p THEN "sending" ELSE meshPc[q]
      /\ \A q \in Mesh!Rank, r \in 1 .. GRows :
           meshChan'[q][r] = IF q = p /\ r = n THEN Append(meshChan[q][r], frame[p] + 1)
                                               ELSE meshChan[q][r]
      /\ UNCHANGED <<frame, next, line>>
      /\ meshPc[p] = "checkpoint"
  BY <1>0 DEF MeshTypes, Mesh!Send
<1>2. MeshTypes'
  <2>1. meshChan' \in [Mesh!Rank -> [1 .. GRows -> Seq(Nat)]]
    <3>1. frame[p] + 1 \in Nat /\ meshChan[p][n] \in Seq(Nat)
      BY <1>0 DEF MeshTypes
    <3>2. Append(meshChan[p][n], frame[p] + 1) \in Seq(Nat)
      BY <3>1
    <3>3. QED
      BY <1>0, <3>2 DEF MeshTypes, Mesh!Send
  <2>2. QED
    BY <1>0, <1>1, <2>1 DEF MeshTypes, Mesh!Send
<1>3. \A q \in Mesh!Rank : /\ MeshBegun(q)' = MeshBegun(q)
                           /\ MeshComputed(q)' = MeshComputed(q)
                           /\ Mesh!Posted(q)' = Mesh!Posted(q)
  BY <1>1 DEF MeshBegun, MeshComputed, Mesh!Posted
<1>4. MeshPaced'
  <2>1. \A q \in Mesh!Rank : Mesh!Posted(q) \in Nat
    BY MeshCounters
  <2>2. QED
    BY <1>2, <1>3, <2>1, PacedKept DEF MeshPaced
<1>5. \A q \in Mesh!Rank, r \in 1 .. GRows :
        /\ RowGot(q, r)' = RowGot(q, r)
        /\ RowSent(q, r)' = IF q = p /\ r = n THEN frame[p] + 1 ELSE RowSent(q, r)
  BY <1>0, <1>1 DEF RowSent, RowGot, InLine
<1>6. RowSent(p, n) = frame[p]
  BY <1>0, <1>1 DEF RowSent
<1>7. MeshQueues'
  <2> SUFFICES ASSUME NEW q \in Mesh!Rank, NEW r \in 1 .. GRows
               PROVE  IF q # 0 /\ r \in Mesh!RowsHeld(q) THEN RowQueue(q, r)'
                      ELSE meshChan'[q][r] = <<>>
    BY DEF MeshQueues
  <2>1. CASE ~(q = p /\ r = n)
    <3>1. /\ RowGot(q, r)' = RowGot(q, r) /\ RowSent(q, r)' = RowSent(q, r)
          /\ meshChan'[q][r] = meshChan[q][r]
      BY <1>1, <1>5, <2>1
    <3>2. QED
      BY <3>1 DEF MeshQueues, RowQueue
  <2>2. CASE q = p /\ r = n
    <3> DEFINE c == meshChan[p][n]
               g == RowGot(p, n)
               f == frame[p]
    <3>1. /\ g \in Nat /\ f \in Nat /\ c \in Seq(Nat)
      BY <1>0, MeshCounters DEF MeshTypes
    <3>2. g <= f /\ Len(c) = f - g /\ \A i \in 1 .. Len(c) : c[i] = g + i
      BY <1>0, <1>6 DEF MeshQueues, RowQueue
    <3>3. /\ meshChan'[q][r] = Append(c, f + 1)
          /\ RowGot(q, r)' = g /\ RowSent(q, r)' = f + 1
      BY <1>0, <1>1, <1>5, <2>2
    <3> HIDE DEF c, g, f
    <3>4. /\ Len(Append(c, f + 1)) = Len(c) + 1
          /\ \A i \in 1 .. Len(c) : Append(c, f + 1)[i] = c[i]
          /\ Append(c, f + 1)[Len(c) + 1] = f + 1
      BY <3>1
    <3>5. \A i \in 1 .. Len(c) + 1 : Append(c, f + 1)[i] = g + i
      <4> SUFFICES ASSUME NEW i \in 1 .. Len(c) + 1 PROVE Append(c, f + 1)[i] = g + i
        OBVIOUS
      <4>1. CASE i \in 1 .. Len(c)
        BY <3>2, <3>4, <4>1
      <4>2. CASE i = Len(c) + 1
        BY <3>1, <3>2, <3>4, <4>2
      <4>3. QED
        BY <3>1, <3>2, <4>1, <4>2
    <3>6. g <= f + 1 /\ Len(c) + 1 = (f + 1) - g
      BY <3>1, <3>2
    <3>7. RowQueue(q, r)'
      BY <3>3, <3>4, <3>5, <3>6, Zenon DEF RowQueue
    <3>8. QED
      BY <1>0, <2>2, <3>7
  <2>3. QED
    BY <2>1, <2>2
<1>8. MeshLine'
  BY <1>0, <1>1 DEF MeshLine
<1>9. QED
  BY <1>2, <1>4, <1>7, <1>8

LEMMA MeshBufferedKeeps ==
  ASSUME MeshInv, NEW p \in Mesh!Rank, Mesh!Buffered(p)
  PROVE  MeshInv'
<1> USE MeshFacts DEF MeshInv
<1>0. p # 0 /\ next[p] \in Nat \ {0} /\ meshPc[p] = "sending"
  BY DEF MeshTypes, Mesh!Buffered
<1>1. /\ \A q \in Mesh!Rank : meshPc'[q] = IF q = p THEN "checkpoint" ELSE meshPc[q]
      /\ \A q \in Mesh!Rank : next'[q] = IF q = p THEN next[q] + 1 ELSE next[q]
      /\ UNCHANGED <<frame, meshChan, line>>
  BY DEF MeshTypes, Mesh!Buffered
<1>2. MeshTypes'
  <2>1. next[p] + 1 \in Nat \ {0}
    BY <1>0
  <2>2. next' \in [Mesh!Rank -> Nat \ {0}]
    BY <2>1 DEF MeshTypes, Mesh!Buffered
  <2>3. meshPc' \in [Mesh!Rank -> {"columns", "rows", "checkpoint", "sending"}]
    BY DEF MeshTypes, Mesh!Buffered
  <2>4. QED
    BY <1>0, <1>1, <2>2, <2>3 DEF MeshTypes
<1>3. \A q \in Mesh!Rank : /\ MeshBegun(q)' = MeshBegun(q)
                           /\ MeshComputed(q)' = MeshComputed(q)
                           /\ Mesh!Posted(q)' = Mesh!Posted(q)
  BY <1>0, <1>1 DEF MeshBegun, MeshComputed, Mesh!Posted
<1>4. MeshPaced'
  <2>1. \A q \in Mesh!Rank : Mesh!Posted(q) \in Nat
    BY MeshCounters
  <2>2. QED
    BY <1>2, <1>3, <2>1, PacedKept DEF MeshPaced
<1>5. \A q \in Mesh!Rank, r \in 1 .. GRows : /\ RowGot(q, r)' = RowGot(q, r)
                                             /\ RowSent(q, r)' = RowSent(q, r)
  <2> SUFFICES ASSUME NEW q \in Mesh!Rank, NEW r \in 1 .. GRows
               PROVE  RowGot(q, r)' = RowGot(q, r) /\ RowSent(q, r)' = RowSent(q, r)
    OBVIOUS
  <2>1. RowGot(q, r)' = RowGot(q, r)
    BY <1>0, <1>1 DEF RowGot, InLine
  <2>2. CASE q = p
    <3>1. r < next[p] + 1 <=> r < next[p] \/ r = next[p]
      BY <1>0
    <3>2. QED
      BY <1>0, <1>1, <2>1, <2>2, <3>1 DEF RowSent
  <2>3. CASE q # p
    BY <1>1, <2>1, <2>3 DEF RowSent
  <2>4. QED
    BY <2>2, <2>3
<1>6. MeshQueues'
  BY <1>1, <1>5 DEF MeshQueues, RowQueue
<1>7. MeshLine'
  BY <1>0, <1>1 DEF MeshLine
<1>8. QED
  BY <1>2, <1>4, <1>6, <1>7

LEMMA AllSentKeeps ==
  ASSUME MeshInv, NEW p \in Mesh!Rank, Mesh!AllSent(p)
  PROVE  MeshInv'
<1> USE MeshFacts DEF MeshInv
<1>1. /\ \A q \in Mesh!Rank : meshPc'[q] = IF q = p THEN "columns" ELSE meshPc[q]
      /\ \A q \in Mesh!Rank : frame'[q] = IF q = p THEN frame[q] + 1 ELSE frame[q]
      /\ UNCHANGED <<next, meshChan, line>>
      /\ meshPc[p] = "checkpoint" /\ p # 0 /\ next[p] > Mesh!lastrow(p)
  BY DEF MeshTypes, Mesh!AllSent, Mesh!Finish
<1>2. MeshTypes'
  BY DEF MeshTypes, Mesh!AllSent, Mesh!Finish
<1>3. \A q \in Mesh!Rank :
        /\ MeshBegun(q)' = MeshBegun(q) /\ MeshComputed(q)' = MeshComputed(q)
        /\ Mesh!Posted(q)' = IF q = p THEN Mesh!Posted(q) + 1 ELSE Mesh!Posted(q)
  <2>1. \A q \in Mesh!Rank : frame[q] \in Nat
    BY DEF MeshTypes
  <2>2. QED
    BY <1>1, <2>1 DEF MeshBegun, MeshComputed, Mesh!Posted
<1>4. MeshPaced'
  <2>1. \A q \in Mesh!Rank : Mesh!Posted(q) \in Nat
    BY MeshCounters
  <2>2. \A q \in Mesh!Rank : Mesh!Posted(q)' >= Mesh!Posted(q)
    BY <1>3, <2>1
  <2>3. QED
    BY <1>2, <1>3, <2>2, PacedKept DEF MeshPaced
<1>5. ASSUME NEW q \in Mesh!Rank, NEW r \in 1 .. GRows, r \in Mesh!RowsHeld(q)
      PROVE  RowGot(q, r)' = RowGot(q, r) /\ RowSent(q, r)' = RowSent(q, r)
  <2>1. RowGot(q, r)' = RowGot(q, r)
    BY <1>1 DEF RowGot, InLine
  <2>2. CASE q = p
    <3>1. r <= Mesh!lastrow(p) /\ Mesh!lastrow(p) \in Nat /\ next[p] \in Nat
      BY <1>5, <2>2, MeshRows DEF Mesh!RowsHeld, MeshTypes
    <3>2. r < next[p]
      BY <1>1, <3>1
    <3>3. QED
      BY <1>1, <2>1, <2>2, <3>2 DEF RowSent
  <2>3. CASE q # p
    BY <1>1, <2>1, <2>3 DEF RowSent
  <2>4. QED
    BY <2>2, <2>3
<1>6. MeshQueues'
  BY <1>1, <1>5 DEF MeshQueues, RowQueue
<1>7. MeshLine'
  BY <1>1 DEF MeshLine
<1>8. QED
  BY <1>2, <1>4, <1>6, <1>7

LEMMA MeshAllPrintedKeeps ==
  ASSUME MeshInv, Mesh!AllPrinted
  PROVE  MeshInv'
<1> USE MeshFacts DEF MeshInv
<1>1. /\ \A q \in Mesh!Rank : meshPc'[q] = IF q = 0 THEN "columns" ELSE meshPc[q]
      /\ \A q \in Mesh!Rank : frame'[q] = IF q = 0 THEN frame[q] + 1 ELSE frame[q]
      /\ UNCHANGED <<next, meshChan, line>>
      /\ meshPc[0] = "checkpoint" /\ next[0] > GRows /\ next[0] \in Nat
  BY DEF MeshTypes, Mesh!AllPrinted, Mesh!Finish
<1>2. MeshTypes'
  BY DEF MeshTypes, Mesh!AllPrinted, Mesh!Finish
<1>3. \A q \in Mesh!Rank :
        /\ MeshBegun(q)' = MeshBegun(q) /\ MeshComputed(q)' = MeshComputed(q)
        /\ Mesh!Posted(q)' = IF q = 0 THEN Mesh!Posted(q) + 1 ELSE Mesh!Posted(q)
  <2>1. \A q \in Mesh!Rank : frame[q] \in Nat
    BY DEF MeshTypes
  <2>2. QED
    BY <1>1, <2>1 DEF MeshBegun, MeshComputed, Mesh!Posted
<1>4. MeshPaced'
  <2>1. \A q \in Mesh!Rank : Mesh!Posted(q) \in Nat
    BY MeshCounters
  <2>2. \A q \in Mesh!Rank : Mesh!Posted(q)' >= Mesh!Posted(q)
    BY <1>3, <2>1
  <2>3. QED
    BY <1>2, <1>3, <2>2, PacedKept DEF MeshPaced
<1>5. ASSUME NEW q \in Mesh!Rank, q # 0, NEW r \in 1 .. GRows
      PROVE  RowGot(q, r)' = RowGot(q, r) /\ RowSent(q, r)' = RowSent(q, r)
  <2>1. r < next[0]
    BY <1>1
  <2>2. QED
    BY <1>1, <1>5, <2>1 DEF RowGot, RowSent
<1>6. MeshQueues'
  BY <1>1, <1>5 DEF MeshQueues, RowQueue
<1>7. MeshLine'
  BY <1>1 DEF MeshLine
<1>8. QED
  BY <1>2, <1>4, <1>6, <1>7

LEMMA NextLineKeeps ==
  ASSUME MeshInv, Mesh!NextLine
  PROVE  MeshInv'
<1> USE MeshFacts DEF MeshInv
<1>1. /\ \A q \in Mesh!Rank : next'[q] = IF q = 0 THEN next[q] + 1 ELSE next[q]
      /\ UNCHANGED <<frame, meshPc, meshChan>>
      /\ line' = Mesh!Own(next[0] + 1)
      /\ meshPc[0] = "checkpoint" /\ next[0] <= GRows /\ next[0] \in Nat \ {0}
      /\ Mesh!LineDone
  BY DEF MeshTypes, Mesh!NextLine, Mesh!LineDone
<1>2. MeshTypes'
  <2>1. <<0, frame[0] + 1>> \in Mesh!Rank \X Nat
    BY DEF MeshTypes
  <2>2. <<<<0, frame[0] + 1>>>> \in Seq(Mesh!Rank \X Nat) /\ <<>> \in Seq(Mesh!Rank \X Nat)
    BY <2>1
  <2>3. line' \in Seq(Mesh!Rank \X Nat)
    BY <1>1, <2>2, Zenon DEF Mesh!Own
  <2>4. next[0] + 1 \in Nat \ {0}
    BY <1>1
  <2>5. next' \in [Mesh!Rank -> Nat \ {0}]
    BY <2>4 DEF MeshTypes, Mesh!NextLine
  <2>6. QED
    BY <1>1, <2>3, <2>5 DEF MeshTypes
<1>3. MeshPaced'
  <2>1. \A q \in Mesh!Rank : /\ MeshBegun(q)' = MeshBegun(q)
                             /\ MeshComputed(q)' = MeshComputed(q)
                             /\ Mesh!Posted(q)' = Mesh!Posted(q)
    BY <1>1 DEF MeshBegun, MeshComputed, Mesh!Posted
  <2>2. \A q \in Mesh!Rank : Mesh!Posted(q) \in Nat
    BY MeshCounters
  <2>3. QED
    BY <1>2, <2>1, <2>2, PacedKept DEF MeshPaced
<1>4. ASSUME NEW q \in Mesh!Rank, q # 0, NEW r \in 1 .. GRows, r \in Mesh!RowsHeld(q)
      PROVE  RowGot(q, r)' = RowGot(q, r) /\ RowSent(q, r)' = RowSent(q, r)
  <2>1. RowSent(q, r)' = RowSent(q, r)
    BY <1>1, <1>4 DEF RowSent
  <2>2. ~InLine(q)'
    BY <1>1, <1>4 DEF InLine, Mesh!Own
  <2>3. CASE r = next[0]
    <3>1. InLine(q)
      BY <1>1, <1>4, <2>3, LineHasAll
    <3>2. RowGot(q, r) = frame[0] + 1
      BY <1>1, <2>3, <3>1 DEF RowGot
    <3>3. r < next'[0]
      BY <1>1, <2>3
    <3>4. QED
      BY <1>1, <2>1, <3>2, <3>3 DEF RowGot
  <2>4. CASE r # next[0]
    <3>1. r < next'[0] <=> r < next[0]
      BY <1>1, <2>4
    <3>2. QED
      BY <1>1, <2>1, <2>2, <2>4, <3>1 DEF RowGot
  <2>5. QED
    BY <2>3, <2>4
<1>5. MeshQueues'
  BY <1>1, <1>4 DEF MeshQueues, RowQueue
<1>6. MeshLine'
  BY <1>1 DEF MeshLine, Mesh!Own
<1>7. QED
  BY <1>2, <1>3, <1>5, <1>6

(* The part received is the first of its sender in this line: the sender   *)
(* is not two frames ahead, or nobody else holds the row.                  *)
LEMMA MeshReceiveKeeps ==
  ASSUME MeshInv, Lockstep, NEW p \in Mesh!Rank, Mesh!Receive(p)
  PROVE  MeshInv'
<1> USE MeshFacts DEF MeshInv
<1> DEFINE n == next[0]
           c == meshChan[p][n]
<1>0. /\ meshPc[0] = "checkpoint" /\ n \in 1 .. GRows /\ Len(line) < PCols
      /\ c \in Seq(Nat) /\ c # <<>> /\ line \in Seq(Mesh!Rank \X Nat)
  BY DEF MeshTypes, Mesh!Receive, Mesh!npcols
<1>1. /\ \A q \in Mesh!Rank, r \in 1 .. GRows :
           meshChan'[q][r] = IF q = p /\ r = n THEN Tail(meshChan[q][r])
                                               ELSE meshChan[q][r]
      /\ line' = Append(line, <<p, Head(c)>>)
      /\ UNCHANGED <<frame, meshPc, next>>
  BY <1>0 DEF MeshTypes, Mesh!Receive
<1> HIDE DEF c
<1>2. /\ Len(c) \in Nat \ {0} /\ Head(c) = c[1] /\ 1 \in 1 .. Len(c)
      /\ Tail(c) \in Seq(Nat) /\ Len(Tail(c)) = Len(c) - 1
      /\ \A i \in 1 .. Len(Tail(c)) : Tail(c)[i] = c[i + 1]
  <2>1. Head(c) = c[1] /\ Tail(c) \in Seq(Nat) /\ Len(c) \in Nat \ {0}
    BY <1>0
  <2>2. QED
    BY <1>0, <2>1, TailFacts
<1>3. /\ p # 0 /\ n \in Mesh!RowsHeld(p)
      /\ RowGot(p, n) <= RowSent(p, n)
      /\ Len(c) = RowSent(p, n) - RowGot(p, n)
      /\ \A i \in 1 .. Len(c) : c[i] = RowGot(p, n) + i
  BY <1>0 DEF MeshQueues, RowQueue, c
<1>4. /\ RowSent(p, n) \in Nat /\ RowGot(p, n) \in Nat /\ frame[0] \in Nat
      /\ RowSent(p, n) <= MeshComputed(p) /\ MeshComputed(p) \in Nat
  BY <1>0, MeshCounters
<1>5. ~InLine(p)
  <2> SUFFICES ASSUME InLine(p) PROVE FALSE
    OBVIOUS
  <2>1. CASE PCols = 1
    <3>1. PICK i \in 1 .. Len(line) : line[i][1] = p
      BY DEF InLine
    <3>2. Len(line) \in Nat
      BY <1>0
    <3>3. QED
      BY <1>0, <2>1, <3>1, <3>2
  <2>2. CASE RootIsNear
    <3>1. MeshComputed(p) <= frame[0] + 1
      BY <2>2, NobodyAhead
    <3>2. RowGot(p, n) = frame[0] + 1
      BY <1>0 DEF RowGot
    <3>3. Len(c) = RowSent(p, n) - RowGot(p, n) /\ Len(c) \in Nat \ {0}
      BY <1>2, <1>3
    <3>4. QED
      BY <1>4, <3>1, <3>2, <3>3
  <2>3. QED
    BY <2>1, <2>2 DEF Lockstep
<1>6. RowGot(p, n) = frame[0] /\ Head(c) = frame[0] + 1
  <2>1. RowGot(p, n) = frame[0]
    BY <1>0, <1>5 DEF RowGot
  <2>2. QED
    BY <1>2, <1>3, <2>1
<1>7. /\ Len(line') = Len(line) + 1 /\ Len(line) \in Nat
      /\ \A i \in 1 .. Len(line) : line'[i] = line[i]
      /\ line'[Len(line) + 1] = <<p, frame[0] + 1>>
      /\ line' \in Seq(Mesh!Rank \X Nat)
  <2>1. <<p, frame[0] + 1>> \in Mesh!Rank \X Nat
    BY <1>4
  <2>2. line' = Append(line, <<p, frame[0] + 1>>)
    BY <1>1, <1>6
  <2>3. QED
    BY <1>0, <2>1, <2>2
<1>8. MeshTypes'
  <2>1. meshChan' \in [Mesh!Rank -> [1 .. GRows -> Seq(Nat)]]
    BY <1>0, <1>2 DEF MeshTypes, Mesh!Receive, c
  <2>2. QED
    BY <1>1, <1>7, <2>1 DEF MeshTypes
<1>9. MeshPaced'
  <2>1. \A q \in Mesh!Rank : /\ MeshBegun(q)' = MeshBegun(q)
                             /\ MeshComputed(q)' = MeshComputed(q)
                             /\ Mesh!Posted(q)' = Mesh!Posted(q)
    BY <1>1 DEF MeshBegun, MeshComputed, Mesh!Posted
  <2>2. \A q \in Mesh!Rank : Mesh!Posted(q) \in Nat
    BY MeshCounters
  <2>3. QED
    BY <1>8, <2>1, <2>2, PacedKept DEF MeshPaced
<1>10. \A q \in Mesh!Rank : InLine(q)' <=> (InLine(q) \/ q = p)
  <2> SUFFICES ASSUME NEW q \in Mesh!Rank
               PROVE  InLine(q)' <=> (InLine(q) \/ q = p)
    OBVIOUS
  <2>1. ASSUME InLine(q)' PROVE InLine(q) \/ q = p
    <3>1. PICK i \in 1 .. Len(line') : line'[i][1] = q
      BY <2>1 DEF InLine
    <3>2. i \in 1 .. Len(line) \/ i = Len(line) + 1
      BY <1>7, <3>1
    <3>3. CASE i \in 1 .. Len(line)
      BY <1>7, <3>1, <3>3 DEF InLine
    <3>4. CASE i = Len(line) + 1
      BY <1>7, <3>1, <3>4
    <3>5. QED
      BY <3>2, <3>3, <3>4
  <2>2. ASSUME InLine(q) PROVE InLine(q)'
    <3>1. PICK i \in 1 .. Len(line) : line[i][1] = q
      BY <2>2 DEF InLine
    <3>2. i \in 1 .. Len(line') /\ line'[i][1] = q
      BY <1>7, <3>1
    <3>3. QED
      BY <3>2 DEF InLine
  <2>3. ASSUME q = p PROVE InLine(q)'
    <3>1. Len(line) + 1 \in 1 .. Len(line') /\ line'[Len(line) + 1][1] = q
      BY <1>7, <2>3
    <3>2. QED
      BY <3>1 DEF InLine
  <2>4. QED
    BY <2>1, <2>2, <2>3
<1>11. /\ \A q \in Mesh!Rank, r \in 1 .. GRows :
            RowSent(q, r)' = RowSent(q, r)
       /\ \A q \in Mesh!Rank, r \in 1 .. GRows :
            q # p \/ r # n => RowGot(q, r)' = RowGot(q, r)
       /\ RowGot(p, n)' = frame[0] + 1
  <2>1. \A q \in Mesh!Rank, r \in 1 .. GRows : RowSent(q, r)' = RowSent(q, r)
    BY <1>1 DEF RowSent
  <2>2. ASSUME NEW q \in Mesh!Rank, NEW r \in 1 .. GRows, q # p \/ r # n
        PROVE  RowGot(q, r)' = RowGot(q, r)
    <3>1. r = n => q # p
      BY <2>2
    <3>2. r = n => (InLine(q)' <=> InLine(q))
      BY <1>10, <3>1
    <3>3. QED
      BY <1>1, <3>2 DEF RowGot
  <2>3. RowGot(p, n)' = frame[0] + 1
    BY <1>0, <1>1, <1>10 DEF RowGot
  <2>4. QED
    BY <2>1, <2>2, <2>3
<1>12. MeshQueues'
  <2> SUFFICES ASSUME NEW q \in Mesh!Rank, NEW r \in 1 .. GRows
               PROVE  IF q # 0 /\ r \in Mesh!RowsHeld(q) THEN RowQueue(q, r)'
                      ELSE meshChan'[q][r] = <<>>
    BY DEF MeshQueues
  <2>1. CASE q # p \/ r # n
    <3>1. /\ RowGot(q, r)' = RowGot(q, r) /\ RowSent(q, r)' = RowSent(q, r)
          /\ meshChan'[q][r] = meshChan[q][r]
      BY <1>1, <1>11, <2>1
    <3>2. QED
      BY <3>1 DEF MeshQueues, RowQueue
  <2>2. CASE q = p /\ r = n
    <3>1. /\ meshChan'[q][r] = Tail(c) /\ RowGot(q, r)' = RowGot(p, n) + 1
          /\ RowSent(q, r)' = RowSent(p, n)
      BY <1>0, <1>1, <1>6, <1>11, <2>2 DEF c
    <3>2. /\ RowGot(p, n) + 1 <= RowSent(p, n)
          /\ Len(Tail(c)) = RowSent(p, n) - (RowGot(p, n) + 1)
      BY <1>2, <1>3, <1>4
    <3>3. ASSUME NEW i \in 1 .. Len(Tail(c))
          PROVE  Tail(c)[i] = (RowGot(p, n) + 1) + i
      <4>1. i + 1 \in 1 .. Len(c) /\ Tail(c)[i] = c[i + 1]
        BY <1>2
      <4>2. c[i + 1] = RowGot(p, n) + (i + 1)
        BY <1>3, <4>1
      <4>3. QED
        BY <1>4, <4>1, <4>2
    <3>4. RowQueue(q, r)'
      BY <3>1, <3>2, <3>3, Zenon DEF RowQueue
    <3>5. QED
      BY <1>3, <2>2, <3>4
  <2>3. QED
    BY <2>1, <2>2
<1>13. MeshLine'
  <2>1. /\ \A i \in 1 .. Len(line) : /\ line[i][2] = frame[0] + 1
                                     /\ n \in Mesh!RowsHeld(line[i][1])
        /\ \A i, j \in 1 .. Len(line) : line[i][1] = line[j][1] => i = j
    <3>1. n <= GRows
      BY <1>0
    <3>2. QED
      BY <1>0, <3>1 DEF MeshLine
  <2>2. \A i \in 1 .. Len(line') : i \in 1 .. Len(line) \/ i = Len(line) + 1
    BY <1>7
  <2>3. \A i \in 1 .. Len(line) : line'[i][1] # p
    BY <1>5, <1>7 DEF InLine
  <2>4. \A i \in 1 .. Len(line') : /\ line'[i][2] = frame[0] + 1
                                   /\ n \in Mesh!RowsHeld(line'[i][1])
    <3> SUFFICES ASSUME NEW i \in 1 .. Len(line')
                 PROVE  line'[i][2] = frame[0] + 1 /\ n \in Mesh!RowsHeld(line'[i][1])
      OBVIOUS
    <3>1. CASE i \in 1 .. Len(line)
      BY <1>7, <2>1, <3>1
    <3>2. CASE i = Len(line) + 1
      BY <1>3, <1>7, <3>2
    <3>3. QED
      BY <2>2, <3>1, <3>2
  <2>5. ASSUME NEW i \in 1 .. Len(line'), NEW j \in 1 .. Len(line'),
               line'[i][1] = line'[j][1]
        PROVE  i = j
    <3>1. \A k \in 1 .. Len(line') : k = Len(line) + 1 => line'[k][1] = p
      BY <1>7
    <3>2. CASE i \in 1 .. Len(line) /\ j \in 1 .. Len(line)
      BY <1>7, <2>1, <2>5, <3>2
    <3>3. CASE i \in 1 .. Len(line) /\ j = Len(line) + 1
      BY <2>3, <2>5, <3>1, <3>3
    <3>4. CASE i = Len(line) + 1 /\ j \in 1 .. Len(line)
      BY <2>3, <2>5, <3>1, <3>4
    <3>5. CASE i = Len(line) + 1 /\ j = Len(line) + 1
      BY <3>5
    <3>6. QED
      BY <2>2, <3>2, <3>3, <3>4, <3>5
  <2>6. QED
    BY <1>1, <2>4, <2>5 DEF MeshLine
<1>14. QED
  BY <1>8, <1>9, <1>12, <1>13

LEMMA MeshPreserved == Lockstep /\ MeshInv /\ [AnyNext]_allVars => MeshInv'
<1>1. ASSUME MeshInv, UNCHANGED meshVars PROVE MeshInv'
  BY <1>1 DEF meshVars, MeshInv, MeshTypes, MeshPaced, MeshQueues, MeshLine, RowQueue,
              RowSent, RowGot, InLine, MeshBegun, MeshComputed, Mesh!Posted
<1>2. ASSUME Lockstep, MeshInv, Mesh!Next PROVE MeshInv'
  <2>1. ASSUME Mesh!Root PROVE MeshInv'
    BY <1>2, <2>1, NextLineKeeps, MeshAllPrintedKeeps, MeshReceiveKeeps DEF Mesh!Root
  <2>2. ASSUME NEW p \in Mesh!Rank, Mesh!Local(p) \/ Mesh!Buffered(p) PROVE MeshInv'
    BY <1>2, <2>2, ColumnsKeep, MeshGenerationKeeps, MeshSendKeeps, AllSentKeeps,
       MeshBufferedKeeps DEF Mesh!Local
  <2>3. QED
    BY <1>2, <2>1, <2>2 DEF Mesh!Next
<1>3. QED
  BY <1>1, <1>2 DEF AnyNext, Rows1d, Mesh2d, allVars

(* Every row mlife2d-io-stdout1.c prints has one part of each rank that    *)
(* holds it, all of the frame in the heading, for every matrix and number  *)
(* of generations, when the ranks exchange with fences, when the mesh has  *)
(* one column, and with messages when rank 0 touches everybody.            *)
THEOREM LinesCorrect == ASSUME Lockstep PROVE AnySpec => []LinesRight
<1>1. AnyInit => MeshInv
  BY MeshInitially DEF AnyInit
<1>2. MeshInv /\ [AnyNext]_allVars => MeshInv'
  BY MeshPreserved
<1>3. MeshInv => LinesRight
  <2> SUFFICES ASSUME MeshInv PROVE LinesRight
    OBVIOUS
  <2>1. CASE Mesh!LineDone
    BY <2>1, LineHasAll
  <2>2. CASE ~Mesh!LineDone
    BY <2>2 DEF LinesRight, Mesh!LinesRight
  <2>3. QED
    BY <2>1, <2>2
<1>4. QED
  BY <1>1, <1>2, <1>3, PTL DEF AnySpec
=============================================================================
