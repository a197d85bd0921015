----------------------------- MODULE LifeProofs -----------------------------
(***************************************************************************)
(* The game of life in one dimension, for every matrix, every number of    *)
(* ranks (also more ranks than rows) and of generations: with each of the  *)
(* three exchanges the ranks compute the rows of the whole matrix, and MPI *)
(* holds few messages, though nothing in the program bounds them.          *)
(***************************************************************************)
EXTENDS MCRounds, SharedLemmas

-----------------------------------------------------------------------------
(* What the loop of life() keeps true, whatever the exchange.              *)
DeadRow  == [j \in 0 .. Cols + 1 |-> DIES]
Shape(r) == r \in [0 .. Cols + 1 -> Nat] /\ r[0] = DIES /\ r[Cols + 1] = DIES

(* The rows around W[s][k], generation k of a matrix that starts as s.     *)
DeadOutside(W) == \A s \in Starts, k \in 0 .. Iter :
                    W[s][k][0] = DeadRow /\ W[s][k][Rows + 1] = DeadRow

(* No row of the matrix comes after those of rank p.                       *)
Bottom(p) == MyRowOffset(p) + MyRows(p) = Rows

MatrixShape(p) ==
  /\ DOMAIN buf[p] = 0 .. 1
  /\ \A b \in 0 .. 1 :
       /\ DOMAIN buf[p][b] = 0 .. MyRows(p) + 1
       /\ \A i \in 0 .. MyRows(p) + 1 : Shape(buf[p][b][i])
       /\ p = 0 => buf[p][b][0] = DeadRow
       /\ Bottom(p) => buf[p][b][MyRows(p) + 1] = DeadRow

(* W is what the rows of all ranks together are to be, World or what the   *)
(* third sweep makes of it.                                                *)
RowsIn(W, p) ==
  \A i \in 1 .. MyRows(p) : matrix(p)[i] = W[start][gen[p]][MyRowOffset(p) + i]

LoopIn(W) ==
  /\ start \in Starts
  /\ gen \in [Rank -> 0 .. Iter]
  /\ cur = [p \in Rank |-> gen[p] % 2]
  /\ DOMAIN buf = Rank
  /\ \A p \in Rank : MatrixShape(p) /\ RowsIn(W, p)

RowsAreRight(p) == RowsIn(World, p)
LoopInv         == LoopIn(World)

(* A row p gives to its neighbour q: what it always is, and that it is the *)
(* row of generation k; a rank without rows gives the next one just any.   *)
Sane(p, q, r) == Shape(r) /\ (q < p /\ Bottom(q) => r = DeadRow)
RightIn(W, k, p, q, r) ==
  q < p \/ MyRows(q) > 0 => r = W[start][k][MyRowOffset(q) + HaloIndex(p, q)]

(* The halo of q that faces p.                                             *)
HaloIn(W, p, q) == RightIn(W, gen[q], p, q, matrix(q)[HaloIndex(p, q)])

Right(k, p, q, r) == RightIn(World, k, p, q, r)
HaloRight(p, q)   == HaloIn(World, p, q)

-----------------------------------------------------------------------------
(* Two-sided: the rows p has sent to q, and those q has received.          *)
IsSeq(s) == \E S : s \in Seq(S)

Sent(p, q) == gen[p] + (IF gen[p] < Iter /\ <<"send", q>> \notin reqs[p] THEN 1 ELSE 0)
Got(p, q)  == gen[q] + (IF gen[q] < Iter /\ <<"recv", p>> \notin reqs[q] THEN 1 ELSE 0)

CountInv ==
  /\ gen \in [Rank -> 0 .. Iter]
  /\ DOMAIN reqs = Rank /\ DOMAIN chan = Rank
  /\ \A p \in Rank : /\ reqs[p] \subseteq {"send", "recv"} \X Neighbours(p)
                     /\ gen[p] = Iter => reqs[p] = {}
                     /\ DOMAIN chan[p] = Rank
  /\ \A p, q \in Rank :
       /\ IsSeq(chan[p][q])
       /\ q \in Neighbours(p) => /\ Got(p, q) <= Sent(p, q)
                                 /\ Len(chan[p][q]) = Sent(p, q) - Got(p, q)
       /\ q \notin Neighbours(p) => Len(chan[p][q]) = 0

ChanIn(W, p, q) ==
  \A n \in 1 .. Sent(p, q) - Got(p, q) :
    Sane(p, q, chan[p][q][n]) /\ RightIn(W, Got(p, q) + n - 1, p, q, chan[p][q][n])

PtIn(W) ==
  \A p \in Rank : \A q \in Neighbours(p) :
    /\ ChanIn(W, p, q)
    /\ gen[q] < Iter /\ <<"recv", p>> \notin reqs[q] => HaloIn(W, p, q)

ChanRight(p, q) == ChanIn(World, p, q)
PtInv           == PtIn(World)

ThreadInv ==
  /\ DOMAIN at = Rank
  /\ \A p \in Rank :
       /\ DOMAIN at[p] = 0 .. NThreads - 1
       /\ \A t \in 0 .. NThreads - 1 : at[p][t] # "rows" => gen[p] < Iter
       /\ at[p][0] # "rows" => reqs[p] = {}

-----------------------------------------------------------------------------
(* One-sided: of n generations, how many are in window w.                  *)
Count(n, w) == (n + 1 - w) \div 2

Opens(p)  == gen[p] + (IF phase[p] = "compute" THEN 0 ELSE 1)
Closes(p) == gen[p] + (IF phase[p] = "closing" THEN 1 ELSE 0)

FencePair(p, q) ==
  /\ q \in puts[p] => gen[q] <= gen[p]
  /\ gen[q] < gen[p] /\ phase[p] # "compute" => q \in puts[p]
  /\ \/ gen[p] = gen[q] /\ phase[p] # "compute" /\ q \notin puts[p]
     \/ gen[p] = gen[q] + 1
     => HaloRight(p, q)

FenceInv ==
  /\ phase \in [Rank -> {"compute", "epoch", "closing"}]
  /\ puts \in [Rank -> SUBSET Rank]
  /\ opened = [p \in Rank |-> [w \in 0 .. 1 |-> Count(Opens(p), w)]]
  /\ closed = [p \in Rank |-> [w \in 0 .. 1 |-> Count(Closes(p), w)]]
  /\ \A p \in Rank : /\ phase[p] # "compute" => gen[p] < Iter
                     /\ phase[p] = "compute" => puts[p] = {}
                     /\ puts[p] \subseteq Neighbours(p)
                     /\ \A q \in Rank : gen[p] <= Closes(q)
                     /\ \A q \in Neighbours(p) : FencePair(p, q)

Posts(p)     == gen[p] + (IF phase[p] = "compute" THEN 0 ELSE 1)
Completes(p) == gen[p] + (IF phase[p] = "wait" THEN 1 ELSE 0)
Puts(p, q)   == gen[p] + (IF phase[p] \in {"access", "wait"} /\ q \notin toPut[p] THEN 1 ELSE 0)

(* The row of generation k from p to q is all that is in flight.           *)
InFlight(f, k, p, q) ==
  /\ Len(f) = 1 /\ f[1].epoch = Count(k + 1, k % 2)
  /\ Sane(p, q, f[1].row) /\ Right(k, p, q, f[1].row)

PscwPair(p, q) ==
  LET now   == flight[p][q][gen[q] % 2]
      later == flight[p][q][(gen[q] + 1) % 2]
  IN  /\ gen[q] <= Completes(p)
      /\ \/ Len(now) = 0
         \/ gen[q] < Puts(p, q) /\ InFlight(now, gen[q], p, q)
      /\ Len(now) = 0 /\ gen[q] < Puts(p, q) => HaloRight(p, q)
      /\ IF gen[q] + 1 < Puts(p, q) THEN InFlight(later, gen[q] + 1, p, q)
                                    ELSE Len(later) = 0

FlightShape ==
  /\ DOMAIN flight = Rank
  /\ \A p \in Rank :
       /\ DOMAIN flight[p] = Rank
       /\ \A q \in Rank : /\ DOMAIN flight[p][q] = 0 .. 1
                          /\ \A w \in 0 .. 1 : IsSeq(flight[p][q][w])

PscwInv ==
  /\ phase \in [Rank -> {"compute", "start", "access", "wait"}]
  /\ toPut \in [Rank -> SUBSET Rank]
  /\ posted = [p \in Rank |-> [w \in 0 .. 1 |-> Count(Posts(p), w)]]
  /\ completed = [p \in Rank |-> [w \in 0 .. 1 |-> Count(Completes(p), w)]]
  /\ FlightShape
  /\ \A p \in Rank : /\ phase[p] # "compute" => gen[p] < Iter
                     /\ phase[p] # "access" => toPut[p] = {}
                     /\ toPut[p] \subseteq Neighbours(p)
                     /\ \A q \in Neighbours(p) : PscwPair(p, q)
                     /\ \A q \in Rank \ Neighbours(p), w \in 0 .. 1 :
                          Len(flight[p][q][w]) = 0

-----------------------------------------------------------------------------
NoMessages == \A p, q \in Rank : chan[p][q] = <<>>
NoRows     == \A p, q \in Rank, w \in 0 .. 1 : flight[p][q][w] = <<>>
NoPuts     == \A p \in Rank : puts[p] = {}

LifeInv ==
  /\ program \in {"pt2pt", "fence", "pscw"} => LoopInv
  /\ program = "pt2pt" => CountInv /\ PtInv
  /\ program \in Threaded => CountInv /\ ThreadInv
  /\ program \notin {"pt2pt"} \cup Threaded => NoMessages
  /\ program = "fence" => FenceInv
  /\ program = "pscw" => PscwInv
  /\ program # "pscw" => NoRows
  /\ program # "fence" => NoPuts

-----------------------------------------------------------------------------
(* The grid and its blocks.                                                *)
LEMMA GridTypes ==
  ASSUME NEW p \in Rank
  PROVE  /\ Rows \in Nat /\ Cols \in Nat /\ Iter \in Nat /\ NProcs \in Nat \ {0}
         /\ p \in Nat /\ p < NProcs
         /\ MyRows(p) \in Nat /\ MyRowOffset(p) \in Nat
         /\ MyRowOffset(p) + MyRows(p) \in 0 .. Rows
<1>1. /\ Rows \in Nat /\ Cols \in Nat /\ Iter \in Nat /\ NProcs \in Nat \ {0}
      /\ p \in 0 .. NProcs /\ p + 1 \in 0 .. NProcs /\ p \in 0 .. NProcs - 1
      /\ NProcs \in 0 .. NProcs /\ p + 1 <= NProcs
  BY GridAssumption DEF GridAssumption, Rank
<1>2. MyRows(p) \in Nat /\ MyRowOffset(p) \in Nat
  BY <1>1, BlockTypes DEF MyRows, MyRowOffset
<1>3. /\ MLIFE_myrowoffset(Rows, p + 1, NProcs) = MyRowOffset(p) + MyRows(p)
      /\ MLIFE_myrowoffset(Rows, NProcs, NProcs) = Rows
  BY <1>1, Tiling DEF MyRows, MyRowOffset
<1>4. MLIFE_myrowoffset(Rows, p + 1, NProcs) <= MLIFE_myrowoffset(Rows, NProcs, NProcs)
  BY <1>1, OffsetsGrow
<1>5. QED
  BY <1>1, <1>2, <1>3, <1>4

(* A neighbour is the rank before or the rank after.                       *)
LEMMA NeighbourIs ==
  ASSUME NEW p \in Rank, NEW q \in Neighbours(p)
  PROVE  /\ q \in Rank /\ p \in Neighbours(q) /\ p # q
         /\ \/ q + 1 = p /\ q < p
            \/ p + 1 = q /\ p < q
BY GridTypes DEF Neighbours, Rank

(* The rows of a rank follow those of the rank before.                     *)
LEMMA NextBlock ==
  ASSUME NEW p \in Rank, NEW q \in Rank, p + 1 = q
  PROVE  MyRowOffset(q) = MyRowOffset(p) + MyRows(p)
<1>1. Rows \in Nat /\ NProcs \in Nat \ {0} /\ p \in 0 .. NProcs - 1
  BY GridTypes DEF Rank
<1>2. QED
  BY <1>1, Tiling DEF MyRows, MyRowOffset

(* Rank 0 begins with the first row.                                       *)
LEMMA FirstBlock ==
  ASSUME 0 \in Rank
  PROVE  MyRowOffset(0) = 0
<1>1. Rows \in Nat /\ NProcs \in Nat \ {0}
  BY GridTypes
<1>2. QED
  BY <1>1, Tiling DEF MyRowOffset

(* A rank has rows only if those before it have.                           *)
LEMMA NoRowsIsBottom ==
  ASSUME NEW p \in Rank, MyRows(p) = 0
  PROVE  Bottom(p)
<1> DEFINE d == Rows \div NProcs
           m == Rows % NProcs
<1>1. /\ Rows \in Nat /\ NProcs \in Nat \ {0} /\ p \in Nat /\ MyRowOffset(p) \in Nat
      /\ d \in Nat /\ m \in 0 .. NProcs - 1 /\ Rows = NProcs * d + m
  BY GridTypes, Division
<1>2. MyRows(p) = d + (IF p < m THEN 1 ELSE 0)
      /\ MyRowOffset(p) = p * d + (IF p > m THEN m ELSE p)
  BY DEF MyRows, MyRowOffset, MLIFE_myrows, MLIFE_myrowoffset
<1> HIDE DEF d, m
<1>3. d = 0 /\ ~(p < m)
  BY <1>1, <1>2
<1>4. p * d = 0 /\ NProcs * d = 0
  BY <1>1, <1>3
<1>5. MyRowOffset(p) = m /\ Rows = m
  BY <1>1, <1>2, <1>3, <1>4
<1>6. QED
  BY <1>1, <1>5 DEF Bottom

(* The last rank ends with the last row.                                   *)
LEMMA LastIsBottom ==
  ASSUME NEW p \in Rank, p + 1 \notin Rank
  PROVE  Bottom(p)
<1>1. Rows \in Nat /\ NProcs \in Nat \ {0} /\ p \in 0 .. NProcs - 1 /\ p + 1 = NProcs
  BY GridTypes DEF Rank
<1>2. QED
  BY <1>1, Tiling DEF Bottom, MyRows, MyRowOffset

(* After a rank that ends with the last row come ranks without rows.       *)
LEMMA BelowBottom ==
  ASSUME NEW p \in Rank, NEW q \in Rank, q + 1 = p, Bottom(q)
  PROVE  MyRows(p) = 0 /\ Bottom(p)
<1>1. MyRowOffset(p) = Rows
  BY NextBlock DEF Bottom
<1>2. MyRows(p) \in Nat /\ Rows \in Nat /\ MyRowOffset(p) + MyRows(p) <= Rows
  BY GridTypes
<1>3. MyRows(p) = 0
  BY <1>1, <1>2
<1>4. QED
  BY <1>1, <1>2, <1>3 DEF Bottom

-----------------------------------------------------------------------------
(* The whole matrix, generation after generation.                          *)
LEMMA StartTypes ==
  ASSUME NEW s \in Starts
  PROVE  s \in GridType /\ Bounded(s) /\ Rows \in Nat /\ Cols \in Nat /\ Iter \in Nat
BY GridAssumption DEF GridAssumption

(* A generation is a matrix with a dead boundary, like the start.          *)
LEMMA EvolveType ==
  ASSUME NEW m \in GridType
  PROVE  Evolve(m, Rows) \in GridType /\ Bounded(Evolve(m, Rows))
<1>1. Rows \in Nat /\ Cols \in Nat
  BY GridAssumption DEF GridAssumption
<1>2. ASSUME NEW i \in 1 .. Rows, NEW j \in 1 .. Cols
      PROVE  NextState(m, i, j) \in {DIES, BORN}
  <2>1. i \in 0 .. Rows + 1 /\ j \in 0 .. Cols + 1
    BY <1>1
  <2>2. m[i][j] \in {DIES, BORN}
    BY <2>1 DEF GridType, RowType
  <2>3. QED
    BY <2>2 DEF NextState
<1>3. Evolve(m, Rows) \in GridType
  BY <1>2 DEF Evolve, GridType, RowType
<1>4. ASSUME NEW i \in 0 .. Rows + 1, NEW j \in 0 .. Cols + 1,
             i \in {0, Rows + 1} \/ j \in {0, Cols + 1}
      PROVE  Evolve(m, Rows)[i][j] = DIES
  <2>1. ~(i \in 1 .. Rows /\ j \in 1 .. Cols)
    BY <1>1, <1>4
  <2>2. QED
    BY <2>1 DEF Evolve
<1>5. QED
  BY <1>3, <1>4 DEF Bounded

(* World is what its recursive definition says; Recursion stands in for    *)
(* induction.                                                              *)
LEMMA WorldIs ==
  ASSUME NEW s \in Starts
  PROVE  /\ World[s] \in [0 .. Iter -> GridType]
         /\ World[s][0] = s
         /\ \A k \in 1 .. Iter : World[s][k] = Evolve(World[s][k - 1], Rows)
         /\ \A k \in 0 .. Iter : Bounded(World[s][k])
<1> DEFINE Body(w, k) == IF k = 0 THEN s ELSE Evolve(w[k - 1], Rows)
           Def(w) == w = [k \in 0 .. Iter |-> Body(w, k)]
           F == [k \in 1 .. Iter |-> [m \in GridType |-> Evolve(m, Rows)]]
<1>1. s \in GridType /\ Bounded(s) /\ Iter \in Nat
  BY StartTypes
<1>2. F \in [1 .. Iter -> [GridType -> GridType]]
  BY EvolveType
<1>3. PICK f \in [0 .. Iter -> GridType] : f[0] = s /\ \A k \in 1 .. Iter : f[k] = F[k][f[k - 1]]
  <2> HIDE DEF F
  <2>1. QED
    BY <1>1, <1>2, Recursion
<1>4. \A k \in 1 .. Iter : f[k] = Evolve(f[k - 1], Rows)
  <2>1. ASSUME NEW k \in 1 .. Iter
        PROVE  f[k] = Evolve(f[k - 1], Rows)
    <3>1. k - 1 \in 0 .. Iter
      BY <1>1
    <3>2. f[k - 1] \in GridType
      BY <3>1
    <3>3. QED
      BY <1>3, <3>2
  <2>2. QED
    BY <2>1
<1>5. Def(f)
  <2>1. ASSUME NEW k \in 0 .. Iter
        PROVE  f[k] = Body(f, k)
    <3>1. CASE k = 0
      BY <1>3, <3>1
    <3>2. CASE k # 0
      <4>1. k \in 1 .. Iter
        BY <1>1, <3>2
      <4>2. QED
        BY <1>4, <3>2, <4>1
    <3>3. QED
      BY <3>1, <3>2
  <2> HIDE DEF Body
  <2>2. QED
    BY <2>1
<1>6. World[s] = CHOOSE w : Def(w)
  BY DEF World
<1>7. Def(World[s])
  <2> HIDE DEF Def
  <2>1. QED
    BY <1>5, <1>6
<1>8. ASSUME NEW k \in 0 .. Iter
      PROVE  World[s][k] = f[k]
  <2> DEFINE W == World[s]
             S == {n \in Nat : n <= Iter => W[n] = f[n]}
  <2> HIDE DEF W
  <2>1. Def(W)
    BY <1>7 DEF W
  <2>2. W[0] = s
    <3>1. 0 \in 0 .. Iter
      BY <1>1
    <3>2. QED
      BY <2>1, <3>1
  <2>3. ASSUME NEW n \in Nat, n + 1 <= Iter
        PROVE  W[n + 1] = Evolve(W[n], Rows)
    <3>1. n + 1 \in 0 .. Iter /\ n + 1 # 0 /\ (n + 1) - 1 = n
      BY <1>1, <2>3
    <3>2. W[n + 1] = Body(W, n + 1)
      <4> HIDE DEF Body
      <4>1. QED
        BY <2>1, <3>1
    <3>3. QED
      BY <3>1, <3>2
  <2>4. 0 \in S
    BY <1>3, <2>2
  <2>5. ASSUME NEW n \in S
        PROVE  n + 1 \in S
    <3>1. SUFFICES ASSUME n + 1 <= Iter PROVE W[n + 1] = f[n + 1]
      OBVIOUS
    <3>2. n \in Nat /\ n + 1 \in 1 .. Iter /\ W[n] = f[n] /\ (n + 1) - 1 = n
      BY <1>1, <2>5, <3>1
    <3>3. QED
      BY <1>4, <2>3, <3>1, <3>2
  <2>6. S = Nat
    <3>1. S \subseteq Nat
      OBVIOUS
    <3> HIDE DEF S
    <3>2. QED
      BY <2>4, <2>5, <3>1, NatSetInduction
  <2>7. k \in S /\ k <= Iter
    BY <1>1, <1>8, <2>6
  <2>8. QED
    BY <2>7 DEF W
<1>9. DOMAIN World[s] = 0 .. Iter /\ World[s] = [k \in 0 .. Iter |-> World[s][k]]
  BY <1>7
<1>10. World[s] \in [0 .. Iter -> GridType]
  BY <1>3, <1>8, <1>9
<1>11. \A k \in 1 .. Iter : World[s][k] = Evolve(World[s][k - 1], Rows)
  <2>1. ASSUME NEW k \in 1 .. Iter
        PROVE  World[s][k] = Evolve(World[s][k - 1], Rows)
    <3>1. k \in 0 .. Iter /\ k - 1 \in 0 .. Iter
      BY <1>1
    <3>2. QED
      BY <1>4, <1>8, <3>1
  <2>2. QED
    BY <2>1
<1>12. World[s][0] = s
  BY <1>1, <1>3, <1>8
<1>13. ASSUME NEW k \in 0 .. Iter
       PROVE  Bounded(World[s][k])
  <2>1. CASE k = 0
    BY <1>1, <1>12, <2>1
  <2>2. CASE k # 0
    <3>1. k \in 1 .. Iter /\ k - 1 \in 0 .. Iter
      BY <1>1, <2>2
    <3>2. World[s][k - 1] \in GridType
      BY <1>10, <3>1
    <3>3. QED
      BY <1>11, <3>1, <3>2, EvolveType
  <2>3. QED
    BY <2>1, <2>2
<1>14. QED
  BY <1>10, <1>11, <1>12, <1>13

(* The rows around the matrix are dead.                                    *)
LEMMA DeadAround ==
  ASSUME NEW m \in GridType, Bounded(m)
  PROVE  m[0] = DeadRow /\ m[Rows + 1] = DeadRow
<1>1. Rows \in Nat /\ Cols \in Nat
  BY GridAssumption DEF GridAssumption
<1>2. ASSUME NEW i \in {0, Rows + 1}
      PROVE  m[i] = DeadRow
  <2>1. i \in 0 .. Rows + 1
    BY <1>1
  <2>2. m[i] \in [0 .. Cols + 1 -> {DIES, BORN}]
    BY <2>1 DEF GridType, RowType
  <2>3. \A j \in 0 .. Cols + 1 : m[i][j] = DIES
    BY <2>1 DEF Bounded
  <2>4. QED
    BY <2>2, <2>3 DEF DeadRow
<1>3. QED
  BY <1>2

LEMMA WorldIsDead == DeadOutside(World)
<1>1. ASSUME NEW s \in Starts, NEW k \in 0 .. Iter
      PROVE  World[s][k][0] = DeadRow /\ World[s][k][Rows + 1] = DeadRow
  <2>1. World[s][k] \in GridType /\ Bounded(World[s][k])
    BY WorldIs
  <2>2. QED
    BY <2>1, DeadAround
<1>2. QED
  BY <1>1 DEF DeadOutside

-----------------------------------------------------------------------------
(* The loop: its start, a row that lands in a halo, a generation.          *)
LEMMA LoopStart ==
  ASSUME LoopInit
  PROVE  LoopInv
<1>1. /\ start \in Starts /\ start \in GridType /\ Bounded(start)
      /\ Rows \in Nat /\ Cols \in Nat /\ Iter \in Nat
  BY StartTypes DEF LoopInit
<1>2. gen = [p \in Rank |-> 0] /\ cur = [p \in Rank |-> 0] /\ 0 \in 0 .. Iter /\ 0 % 2 = 0
  BY <1>1 DEF LoopInit
<1>3. ASSUME NEW p \in Rank
      PROVE  MatrixShape(p) /\ RowsAreRight(p)
  <2> DEFINE Cell(b, i, j) == IF ~Inner(p, i, j) THEN DIES
                              ELSE IF b = 0 THEN start[MyRowOffset(p) + i][j] ELSE Junk
  <2>1. /\ MyRows(p) \in Nat /\ MyRowOffset(p) \in Nat
        /\ MyRowOffset(p) + MyRows(p) <= Rows
    BY GridTypes
  <2>2. /\ DOMAIN buf[p] = 0 .. 1
        /\ \A b \in 0 .. 1 : DOMAIN buf[p][b] = 0 .. MyRows(p) + 1
        /\ \A b \in 0 .. 1, i \in 0 .. MyRows(p) + 1 :
             buf[p][b][i] = [j \in 0 .. Cols + 1 |-> Cell(b, i, j)]
    <3>1. buf = [r \in Rank |-> [b \in 0 .. 1 |->
                  [i \in 0 .. MyRows(r) + 1 |-> [j \in 0 .. Cols + 1 |->
                     IF ~Inner(r, i, j) THEN DIES
                     ELSE IF b = 0 THEN start[MyRowOffset(r) + i][j] ELSE Junk]]]]
      BY DEF LoopInit
    <3>2. buf[p] = [b \in 0 .. 1 |->
                  [i \in 0 .. MyRows(p) + 1 |-> [j \in 0 .. Cols + 1 |-> Cell(b, i, j)]]]
      BY <3>1
    <3> HIDE DEF Cell
    <3>3. QED
      BY <3>2
  <2>3. ASSUME NEW i \in 1 .. MyRows(p)
        PROVE  /\ start[MyRowOffset(p) + i] \in RowType
               /\ start[MyRowOffset(p) + i][0] = DIES
               /\ start[MyRowOffset(p) + i][Cols + 1] = DIES
    <3>1. MyRowOffset(p) + i \in 0 .. Rows + 1
      BY <1>1, <2>1
    <3>2. 0 \in 0 .. Cols + 1 /\ Cols + 1 \in 0 .. Cols + 1
      BY <1>1
    <3>3. start[MyRowOffset(p) + i] \in RowType
      BY <1>1, <3>1 DEF GridType
    <3>4. QED
      BY <1>1, <3>1, <3>2, <3>3 DEF Bounded
  <2>4. ASSUME NEW b \in 0 .. 1, NEW i \in 0 .. MyRows(p) + 1
        PROVE  /\ Shape(buf[p][b][i])
               /\ i = 0 \/ i = MyRows(p) + 1 => buf[p][b][i] = DeadRow
    <3>1. ASSUME NEW j \in 0 .. Cols + 1
          PROVE  Cell(b, i, j) \in Nat /\ (j \in {0, Cols + 1} => Cell(b, i, j) = DIES)
      <4>1. CASE ~Inner(p, i, j)
        BY <4>1 DEF DIES
      <4>2. CASE Inner(p, i, j)
        <5>1. i \in 1 .. MyRows(p) /\ j \in 1 .. Cols
          BY <4>2 DEF Inner
        <5>2. start[MyRowOffset(p) + i][j] \in Nat /\ j \notin {0, Cols + 1}
          BY <1>1, <2>3, <5>1 DEF RowType, DIES, BORN
        <5>3. QED
          BY <4>2, <5>2 DEF Junk
      <4>3. QED
        BY <4>1, <4>2
    <3>2. ASSUME NEW j \in 0 .. Cols + 1, i = 0 \/ i = MyRows(p) + 1
          PROVE  Cell(b, i, j) = DIES
      BY <2>1, <3>2 DEF Inner
    <3>3. 0 \in 0 .. Cols + 1 /\ Cols + 1 \in 0 .. Cols + 1
      BY <1>1
    <3>4. buf[p][b][i] = [j \in 0 .. Cols + 1 |-> Cell(b, i, j)]
      BY <2>2
    <3> HIDE DEF Cell
    <3>5. QED
      BY <3>1, <3>2, <3>3, <3>4 DEF Shape, DeadRow
  <2>5. ASSUME NEW i \in 1 .. MyRows(p)
        PROVE  matrix(p)[i] = World[start][gen[p]][MyRowOffset(p) + i]
    <3>1. i \in 0 .. MyRows(p) + 1 /\ 0 \in 0 .. 1
      BY <2>1
    <3>2. matrix(p)[i] = [j \in 0 .. Cols + 1 |-> Cell(0, i, j)]
      BY <1>2, <2>2, <3>1 DEF matrix
    <3>3. ASSUME NEW j \in 0 .. Cols + 1
          PROVE  Cell(0, i, j) = start[MyRowOffset(p) + i][j]
      <4>1. CASE j \in {0, Cols + 1}
        <5>1. ~Inner(p, i, j)
          BY <1>1, <4>1 DEF Inner
        <5>2. QED
          BY <2>3, <4>1, <5>1
      <4>2. CASE j \in 1 .. Cols
        BY <4>2 DEF Inner
      <4>3. QED
        BY <1>1, <4>1, <4>2
    <3>4. matrix(p)[i] = start[MyRowOffset(p) + i]
      <4>1. start[MyRowOffset(p) + i] \in [0 .. Cols + 1 -> {DIES, BORN}]
        BY <2>3 DEF RowType
      <4> HIDE DEF Cell
      <4>2. QED
        BY <3>2, <3>3, <4>1
    <3>5. World[start][gen[p]] = start
      BY <1>1, <1>2, WorldIs
    <3>6. QED
      BY <3>4, <3>5
  <2>6. MatrixShape(p)
    <3>1. 0 \in 0 .. MyRows(p) + 1 /\ MyRows(p) + 1 \in 0 .. MyRows(p) + 1
      BY <2>1
    <3>2. QED
      BY <2>2, <2>4, <3>1 DEF MatrixShape
  <2>7. QED
    BY <2>5, <2>6 DEF RowsAreRight, RowsIn
<1>4. gen \in [Rank -> 0 .. Iter] /\ cur = [p \in Rank |-> gen[p] % 2] /\ DOMAIN buf = Rank
  BY <1>2 DEF LoopInit
<1>5. QED
  BY <1>1, <1>3, <1>4 DEF LoopInv, LoopIn, RowsAreRight

(* Types of the variables of the loop, and the parity that tells which     *)
(* matrix is current.  What ends in In is for any rows W that the ranks    *)
(* are to have; the lemma without it is for World.                         *)
LEMMA CurIsIn ==
  ASSUME NEW W, LoopIn(W), NEW p \in Rank
  PROVE  /\ gen[p] \in 0 .. Iter /\ gen[p] \in Nat /\ cur[p] = gen[p] % 2
         /\ cur[p] \in 0 .. 1 /\ 1 - cur[p] \in 0 .. 1 /\ 1 - cur[p] = (gen[p] + 1) % 2
         /\ start \in Starts /\ gen \in [Rank -> 0 .. Iter]
<1>1. /\ start \in Starts /\ gen \in [Rank -> 0 .. Iter] /\ Iter \in Nat
      /\ cur = [s \in Rank |-> gen[s] % 2]
  BY GridAssumption DEF GridAssumption, LoopIn
<1>2. gen[p] \in 0 .. Iter /\ gen[p] \in Nat /\ cur[p] = gen[p] % 2
  BY <1>1
<1>3. QED
  BY <1>1, <1>2

LEMMA CurIs ==
  ASSUME LoopInv, NEW p \in Rank
  PROVE  /\ gen[p] \in 0 .. Iter /\ gen[p] \in Nat /\ cur[p] = gen[p] % 2
         /\ cur[p] \in 0 .. 1 /\ 1 - cur[p] \in 0 .. 1 /\ 1 - cur[p] = (gen[p] + 1) % 2
         /\ start \in Starts /\ gen \in [Rank -> 0 .. Iter]
BY CurIsIn DEF LoopInv

(* A row of another matrix, or another row, stays.                         *)
LEMMA LoopStoredIn ==
  ASSUME NEW W, LoopIn(W), NEW p \in Rank, NEW q \in Neighbours(p), NEW b \in 0 .. 1, NEW r,
         Sane(p, q, r), StoreHalo(p, q, b, r), UNCHANGED <<start, gen, cur>>
  PROVE  /\ LoopIn(W)'
         /\ b = cur[q] /\ RightIn(W, gen[q], p, q, r) => HaloIn(W, p, q)'
         /\ \A s \in Rank : \A t \in Neighbours(s) :
              (s = p /\ t = q => b # cur[q]) => HaloIn(W, s, t)' = HaloIn(W, s, t)
<1>1. q \in Rank /\ p # q /\ (q > p \/ q < p)
  BY NeighbourIs
<1>2. /\ MyRows(q) \in Nat /\ MyRowOffset(q) \in Nat /\ p \in Nat /\ q \in Nat
  BY <1>1, GridTypes
<1>3. cur[q] \in 0 .. 1 /\ 0 \in 0 .. 1 /\ 1 \in 0 .. 1
  BY <1>1, CurIsIn
<1> DEFINE h == HaloIndex(p, q)
<1>4. h \in 0 .. MyRows(q) + 1 /\ h \notin 1 .. MyRows(q)
  BY <1>2 DEF HaloIndex
<1>5. DOMAIN buf = Rank /\ \A s \in Rank : MatrixShape(s)
  BY DEF LoopIn
<1>6. buf' = [buf EXCEPT ![q][b][h] = r]
  BY DEF StoreHalo
<1> HIDE DEF h
<1>7. DOMAIN buf' = Rank
  BY <1>5, <1>6
<1>8. \A s \in Rank : s # q => buf'[s] = buf[s]
  BY <1>5, <1>6
<1>9. buf'[q] = [buf[q] EXCEPT ![b][h] = r]
  BY <1>1, <1>5, <1>6
<1>10. DOMAIN buf'[q] = 0 .. 1 /\ \A c \in 0 .. 1 : c # b => buf'[q][c] = buf[q][c]
  BY <1>1, <1>5, <1>9 DEF MatrixShape
<1>11. buf'[q][b] = [buf[q][b] EXCEPT ![h] = r]
  BY <1>1, <1>5, <1>9 DEF MatrixShape
<1>12. /\ DOMAIN buf'[q][b] = 0 .. MyRows(q) + 1 /\ buf'[q][b][h] = r
       /\ \A i \in 0 .. MyRows(q) + 1 : i # h => buf'[q][b][i] = buf[q][b][i]
  <2>1. DOMAIN buf[q][b] = 0 .. MyRows(q) + 1
    BY <1>1, <1>5 DEF MatrixShape
  <2> DEFINE row == buf[q][b]
             new == buf'[q][b]
  <2>2. DOMAIN row = 0 .. MyRows(q) + 1 /\ new = [row EXCEPT ![h] = r]
    BY <1>11, <2>1
  <2> HIDE DEF row, new
  <2>3. /\ DOMAIN new = 0 .. MyRows(q) + 1 /\ new[h] = r
        /\ \A i \in 0 .. MyRows(q) + 1 : i # h => new[i] = row[i]
    BY <1>4, <2>2
  <2>4. QED
    BY <2>3 DEF row, new
<1>13. ASSUME NEW s \in Rank, NEW c \in 0 .. 1, NEW i \in 0 .. MyRows(s) + 1,
              s = q /\ c = b => i # h
       PROVE  buf'[s][c][i] = buf[s][c][i]
  BY <1>8, <1>10, <1>12, <1>13
<1>14. ASSUME NEW s \in Rank
       PROVE  MatrixShape(s)'
  <2>1. CASE s # q
    BY <1>5, <1>8, <2>1 DEF MatrixShape
  <2>2. CASE s = q
    <3>1. ASSUME NEW c \in 0 .. 1
          PROVE  DOMAIN buf'[q][c] = 0 .. MyRows(q) + 1
      BY <1>1, <1>5, <1>10, <1>12 DEF MatrixShape
    <3>2. ASSUME NEW c \in 0 .. 1, NEW i \in 0 .. MyRows(q) + 1
          PROVE  /\ Shape(buf'[q][c][i])
                 /\ q = 0 /\ i = 0 => buf'[q][c][i] = DeadRow
                 /\ Bottom(q) /\ i = MyRows(q) + 1 => buf'[q][c][i] = DeadRow
      <4>1. CASE c = b /\ i = h
        <5>1. buf'[q][c][i] = r /\ Shape(r)
          BY <1>12, <4>1 DEF Sane
        <5>2. q = 0 => i # 0
          BY <1>1, <1>2, <4>1 DEF h, HaloIndex
        <5>3. i = MyRows(q) + 1 => q < p
          BY <1>1, <1>2, <4>1 DEF h, HaloIndex
        <5>4. QED
          BY <5>1, <5>2, <5>3 DEF Sane
      <4>2. CASE ~(c = b /\ i = h)
        BY <1>1, <1>5, <1>13, <4>2 DEF MatrixShape
      <4>3. QED
        BY <4>1, <4>2
    <3>3. 0 \in 0 .. MyRows(q) + 1 /\ MyRows(q) + 1 \in 0 .. MyRows(q) + 1
      BY <1>2
    <3>4. /\ DOMAIN buf'[q] = 0 .. 1
          /\ \A c \in 0 .. 1 :
               /\ DOMAIN buf'[q][c] = 0 .. MyRows(q) + 1
               /\ \A i \in 0 .. MyRows(q) + 1 : Shape(buf'[q][c][i])
               /\ q = 0 => buf'[q][c][0] = DeadRow
               /\ Bottom(q) => buf'[q][c][MyRows(q) + 1] = DeadRow
      BY <1>10, <3>1, <3>2, <3>3
    <3>5. QED
      BY <2>2, <3>4 DEF MatrixShape, Shape, DeadRow, Bottom
  <2>3. QED
    BY <2>1, <2>2
<1>15. ASSUME NEW s \in Rank
       PROVE  RowsIn(W, s)'
  <2>1. ASSUME NEW i \in 1 .. MyRows(s)
        PROVE  buf'[s][cur[s]][i] = buf[s][cur[s]][i]
    <3>1. i \in 0 .. MyRows(s) + 1 /\ cur[s] \in 0 .. 1
      BY GridTypes, CurIsIn
    <3>2. s = q => i # h
      BY <1>4, <2>1
    <3>3. QED
      BY <1>13, <3>1, <3>2
  <2>2. RowsIn(W, s)
    BY DEF LoopIn
  <2>3. QED
    BY <2>1, <2>2 DEF RowsIn, matrix
<1>16. LoopIn(W)'
  <2>1. /\ start \in Starts /\ gen \in [Rank -> 0 .. Iter]
        /\ cur = [s \in Rank |-> gen[s] % 2]
    BY DEF LoopIn
  <2>2. QED
    BY <1>7, <1>14, <1>15, <2>1 DEF LoopIn
<1>17. ASSUME b = cur[q], RightIn(W, gen[q], p, q, r)
       PROVE  HaloIn(W, p, q)'
  BY <1>12, <1>17 DEF HaloIn, RightIn, matrix, h
<1>18. ASSUME NEW s \in Rank, NEW t \in Neighbours(s), s = p /\ t = q => b # cur[q]
       PROVE  HaloIn(W, s, t)' = HaloIn(W, s, t)
  <2>1. /\ t \in Rank /\ ((t + 1 = s /\ t < s) \/ (s + 1 = t /\ s < t))
        /\ MyRows(t) \in Nat /\ s \in Nat /\ t \in Nat
        /\ ((q + 1 = p /\ q < p) \/ (p + 1 = q /\ p < q))
    <3>1. t \in Rank /\ ((t + 1 = s /\ t < s) \/ (s + 1 = t /\ s < t))
      BY NeighbourIs
    <3>2. (q + 1 = p /\ q < p) \/ (p + 1 = q /\ p < q)
      BY NeighbourIs
    <3>3. MyRows(t) \in Nat /\ s \in Nat /\ t \in Nat
      BY <3>1, GridTypes
    <3>4. QED
      BY <3>1, <3>2, <3>3
  <2>2. HaloIndex(s, t) \in 0 .. MyRows(t) + 1 /\ cur[t] \in 0 .. 1
    BY <2>1, CurIsIn DEF HaloIndex
  <2>3. t = q /\ cur[t] = b => HaloIndex(s, t) # h
    <3>1. SUFFICES ASSUME t = q, cur[t] = b, s # p PROVE HaloIndex(s, t) # h
      BY <1>18
    <3>2. \/ s > t /\ t > p
          \/ s < t /\ t < p
      BY <2>1, <3>1, <1>2
    <3>3. QED
      BY <1>2, <2>1, <3>1, <3>2 DEF HaloIndex, h
  <2>4. buf'[t][cur[t]][HaloIndex(s, t)] = buf[t][cur[t]][HaloIndex(s, t)]
    BY <1>13, <2>1, <2>2, <2>3
  <2>5. QED
    BY <2>4 DEF HaloIn, RightIn, matrix, HaloIndex, MyRows, MyRowOffset, MLIFE_myrows,
                MLIFE_myrowoffset
<1>19. QED
  BY <1>16, <1>17, <1>18

LEMMA LoopStored ==
  ASSUME LoopInv, NEW p \in Rank, NEW q \in Neighbours(p), NEW b \in 0 .. 1, NEW r,
         Sane(p, q, r), StoreHalo(p, q, b, r), UNCHANGED <<start, gen, cur>>
  PROVE  /\ LoopInv'
         /\ b = cur[q] /\ Right(gen[q], p, q, r) => HaloRight(p, q)'
         /\ \A s \in Rank : \A t \in Neighbours(s) :
              (s = p /\ t = q => b # cur[q]) => HaloRight(s, t)' = HaloRight(s, t)
BY LoopStoredIn DEF LoopInv, HaloRight, Right

(* The rows a rank computes from, when its halos are right.                *)
LEMMA AllRowsRightIn ==
  ASSUME NEW W, DeadOutside(W), LoopIn(W), NEW p \in Rank, MyRows(p) > 0,
         \A q \in Neighbours(p) : HaloIn(W, q, p),
         NEW i \in 0 .. MyRows(p) + 1
  PROVE  matrix(p)[i] = W[start][gen[p]][MyRowOffset(p) + i]
<1>1. /\ MyRows(p) \in Nat /\ MyRowOffset(p) \in Nat /\ p \in Nat /\ p < NProcs
      /\ Rows \in Nat /\ NProcs \in Nat
  BY GridTypes
<1>2. cur[p] \in 0 .. 1 /\ gen[p] \in 0 .. Iter /\ start \in Starts
  BY CurIsIn
<1>3. MatrixShape(p) /\ RowsIn(W, p)
  BY DEF LoopIn
<1>4. W[start][gen[p]][0] = DeadRow /\ W[start][gen[p]][Rows + 1] = DeadRow
  BY <1>2 DEF DeadOutside
<1>5. ASSUME NEW q \in Neighbours(p)
      PROVE  matrix(p)[HaloIndex(q, p)] = W[start][gen[p]][MyRowOffset(p) + HaloIndex(q, p)]
  BY <1>5 DEF HaloIn, RightIn
<1>6. CASE i \in 1 .. MyRows(p)
  BY <1>3, <1>6 DEF RowsIn
<1>7. CASE i = 0 /\ p = 0
  <2>1. MyRowOffset(p) = 0
    BY <1>7, FirstBlock
  <2>2. matrix(p)[i] = DeadRow
    BY <1>2, <1>3, <1>7 DEF MatrixShape, matrix
  <2>3. QED
    BY <1>4, <1>7, <2>1, <2>2
<1>8. CASE i = 0 /\ p # 0
  <2>1. p - 1 \in Neighbours(p) /\ p > p - 1
    BY <1>1, <1>8 DEF Neighbours, Rank
  <2>2. HaloIndex(p - 1, p) = 0
    BY <2>1 DEF HaloIndex
  <2>3. QED
    BY <1>5, <1>8, <2>1, <2>2
<1>9. CASE i = MyRows(p) + 1 /\ p + 1 \notin Rank
  <2>1. Bottom(p)
    BY <1>9, LastIsBottom
  <2>2. matrix(p)[i] = DeadRow
    BY <1>2, <1>3, <1>9, <2>1 DEF MatrixShape, matrix
  <2>3. MyRowOffset(p) + i = Rows + 1
    BY <1>1, <1>9, <2>1 DEF Bottom
  <2>4. QED
    BY <1>4, <2>2, <2>3
<1>10. CASE i = MyRows(p) + 1 /\ p + 1 \in Rank
  <2>1. p + 1 \in Neighbours(p) /\ ~(p > p + 1)
    BY <1>1, <1>10 DEF Neighbours
  <2>2. HaloIndex(p + 1, p) = MyRows(p) + 1
    BY <2>1 DEF HaloIndex
  <2>3. QED
    BY <1>5, <1>10, <2>1, <2>2
<1>11. QED
  BY <1>1, <1>6, <1>7, <1>8, <1>9, <1>10

LEMMA AllRowsRight ==
  ASSUME LoopInv, NEW p \in Rank, MyRows(p) > 0,
         \A q \in Neighbours(p) : HaloRight(q, p),
         NEW i \in 0 .. MyRows(p) + 1
  PROVE  matrix(p)[i] = World[start][gen[p]][MyRowOffset(p) + i]
BY AllRowsRightIn, WorldIsDead DEF LoopInv, HaloRight

(* A generation.                                                           *)
LEMMA LoopComputed ==
  ASSUME LoopInv, NEW p \in Rank, gen[p] < Iter, Compute(p),
         \A q \in Neighbours(p) : HaloRight(q, p)
  PROVE  /\ LoopInv'
         /\ gen' = [gen EXCEPT ![p] = @ + 1] /\ start' = start
         /\ \A s \in Rank, t \in Rank : t # p => HaloRight(s, t)' = HaloRight(s, t)
<1>1. /\ MyRows(p) \in Nat /\ MyRowOffset(p) \in Nat /\ MyRowOffset(p) + MyRows(p) <= Rows
      /\ Rows \in Nat /\ Cols \in Nat /\ Iter \in Nat
  BY GridTypes
<1>2. /\ cur[p] \in 0 .. 1 /\ 1 - cur[p] \in 0 .. 1 /\ cur[p] # 1 - cur[p]
      /\ 1 - cur[p] = (gen[p] + 1) % 2
      /\ gen[p] \in Nat /\ gen[p] + 1 \in 0 .. Iter /\ start \in Starts
  BY <1>1, CurIs
<1>3. /\ gen \in [Rank -> 0 .. Iter] /\ cur = [s \in Rank |-> gen[s] % 2]
      /\ DOMAIN buf = Rank /\ \A s \in Rank : MatrixShape(s) /\ RowsAreRight(s)
  BY DEF LoopInv, LoopIn, RowsAreRight
<1>4. gen' = [gen EXCEPT ![p] = @ + 1] /\ start' = start
  BY DEF Compute
<1>5. gen' \in [Rank -> 0 .. Iter] /\ gen'[p] = gen[p] + 1
      /\ \A s \in Rank : s # p => gen'[s] = gen[s]
  BY <1>2, <1>3, <1>4
<1>6. cur' = [s \in Rank |-> gen'[s] % 2]
  <2>1. cur' = [cur EXCEPT ![p] = 1 - @]
    BY DEF Compute
  <2>2. DOMAIN cur' = Rank /\ \A s \in Rank : cur'[s] = IF s = p THEN 1 - cur[p] ELSE cur[s]
    BY <1>3, <2>1
  <2>3. \A s \in Rank : cur'[s] = gen'[s] % 2
    BY <1>2, <1>3, <1>5, <2>2
  <2>4. QED
    BY <1>3, <2>1, <2>2, <2>3
<1> DEFINE n == 1 - cur[p]
           new(i) == [j \in 0 .. Cols + 1 |->
                        IF Inner(p, i, j) THEN NextState(matrix(p), i, j) ELSE buf[p][n][i][j]]
<1>7. buf' = [buf EXCEPT ![p][n] = [i \in 0 .. MyRows(p) + 1 |-> new(i)]]
  BY DEF Compute
<1> HIDE DEF new, n
<1>8. DOMAIN buf' = Rank /\ \A s \in Rank : s # p => buf'[s] = buf[s]
  BY <1>3, <1>7
<1>9. buf'[p] = [buf[p] EXCEPT ![n] = [i \in 0 .. MyRows(p) + 1 |-> new(i)]]
  BY <1>3, <1>7
<1>10. /\ n \in 0 .. 1 /\ DOMAIN buf'[p] = 0 .. 1
       /\ buf'[p][n] = [i \in 0 .. MyRows(p) + 1 |-> new(i)]
       /\ \A b \in 0 .. 1 : b # n => buf'[p][b] = buf[p][b]
  BY <1>2, <1>3, <1>9 DEF MatrixShape, n
<1>11. ASSUME NEW i \in 1 .. MyRows(p)
       PROVE  new(i) = World[start][gen[p] + 1][MyRowOffset(p) + i]
  <2> DEFINE m == World[start][gen[p]]
             off == MyRowOffset(p)
  <2>1. World[start][gen[p] + 1] = Evolve(m, Rows)
    <3>1. gen[p] + 1 \in 1 .. Iter /\ (gen[p] + 1) - 1 = gen[p]
      BY <1>2
    <3>2. QED
      BY <1>2, <3>1, WorldIs
  <2>2. ASSUME NEW k \in 0 .. MyRows(p) + 1
        PROVE  matrix(p)[k] = m[off + k]
    BY <1>1, <1>11, AllRowsRight
  <2>3. /\ i - 1 \in 0 .. MyRows(p) + 1 /\ i \in 0 .. MyRows(p) + 1
        /\ i + 1 \in 0 .. MyRows(p) + 1 /\ off + i \in 1 .. Rows /\ off + i \in 0 .. Rows + 1
        /\ off + (i - 1) = (off + i) - 1 /\ off + (i + 1) = (off + i) + 1
    BY <1>1, <1>11
  <2> HIDE DEF m, off
  <2>4. /\ matrix(p)[i - 1] = m[(off + i) - 1] /\ matrix(p)[i] = m[off + i]
        /\ matrix(p)[i + 1] = m[(off + i) + 1]
    BY <2>2, <2>3
  <2>5. ASSUME NEW j \in 0 .. Cols + 1
        PROVE  (IF Inner(p, i, j) THEN NextState(matrix(p), i, j) ELSE buf[p][n][i][j])
                 = IF off + i \in 1 .. Rows /\ j \in 1 .. Cols
                     THEN NextState(m, off + i, j) ELSE DIES
    <3>1. CASE j \in 1 .. Cols
      <4>1. NextState(matrix(p), i, j) = NextState(m, off + i, j)
        BY <2>4 DEF NextState
      <4>2. QED
        BY <1>11, <2>3, <3>1, <4>1 DEF Inner
    <3>2. CASE j \in {0, Cols + 1}
      <4>1. ~Inner(p, i, j) /\ j \notin 1 .. Cols
        BY <1>1, <3>2 DEF Inner
      <4>2. buf[p][n][i][j] = DIES
        <5>1. n \in 0 .. 1 /\ Shape(buf[p][n][i])
          BY <1>3, <1>10, <2>3 DEF MatrixShape
        <5>2. QED
          BY <3>2, <5>1 DEF Shape
      <4>3. QED
        BY <4>1, <4>2
    <3>3. QED
      BY <1>1, <3>1, <3>2
  <2>6. Evolve(m, Rows)[off + i] = [j \in 0 .. Cols + 1 |->
          IF off + i \in 1 .. Rows /\ j \in 1 .. Cols THEN NextState(m, off + i, j) ELSE DIES]
    BY <2>3 DEF Evolve
  <2>7. QED
    BY <2>1, <2>5, <2>6 DEF new, m, off
<1>12. ASSUME NEW i \in 0 .. MyRows(p) + 1
       PROVE  /\ Shape(new(i))
              /\ p = 0 /\ i = 0 => new(i) = DeadRow
              /\ Bottom(p) /\ i = MyRows(p) + 1 => new(i) = DeadRow
  <2>1. CASE i \in 1 .. MyRows(p)
    <3>1. World[start][gen[p] + 1] \in GridType /\ Bounded(World[start][gen[p] + 1])
      BY <1>2, WorldIs
    <3>2. MyRowOffset(p) + i \in 0 .. Rows + 1 /\ 0 \in 0 .. Cols + 1 /\ Cols + 1 \in 0 .. Cols + 1
      BY <1>1, <2>1
    <3>3. Shape(World[start][gen[p] + 1][MyRowOffset(p) + i])
      <4> DEFINE m == World[start][gen[p] + 1]
                 k == MyRowOffset(p) + i
      <4> HIDE DEF m, k
      <4>1. m \in GridType /\ Bounded(m) /\ k \in 0 .. Rows + 1
        BY <3>1, <3>2 DEF m, k
      <4>2. m[k] \in [0 .. Cols + 1 -> {DIES, BORN}]
        BY <4>1 DEF GridType, RowType
      <4>3. m[k][0] = DIES /\ m[k][Cols + 1] = DIES
        BY <3>2, <4>1 DEF Bounded
      <4>4. m[k] \in [0 .. Cols + 1 -> Nat]
        BY <4>2 DEF DIES, BORN
      <4>5. QED
        BY <4>3, <4>4 DEF Shape, m, k
    <3>4. i # 0 /\ i # MyRows(p) + 1
      BY <1>1, <2>1
    <3>5. QED
      BY <1>11, <2>1, <3>3, <3>4
  <2>2. CASE i \in {0, MyRows(p) + 1}
    <3>1. \A j \in 0 .. Cols + 1 : ~Inner(p, i, j)
      BY <1>1, <2>2 DEF Inner
    <3>2. new(i) = [j \in 0 .. Cols + 1 |-> buf[p][n][i][j]]
      BY <3>1 DEF new
    <3>3. Shape(buf[p][n][i])
      BY <1>3, <1>10 DEF MatrixShape
    <3>4. new(i) = buf[p][n][i]
      BY <3>2, <3>3 DEF Shape
    <3>5. QED
      BY <1>3, <1>10, <3>3, <3>4 DEF MatrixShape
  <2>3. QED
    BY <1>1, <2>1, <2>2
<1>13. ASSUME NEW s \in Rank
       PROVE  MatrixShape(s)'
  <2>1. CASE s # p
    BY <1>3, <1>8, <2>1 DEF MatrixShape
  <2>2. CASE s = p
    <3>1. 0 \in 0 .. MyRows(p) + 1 /\ MyRows(p) + 1 \in 0 .. MyRows(p) + 1
      BY <1>1
    <3>2. ASSUME NEW b \in 0 .. 1
          PROVE  /\ DOMAIN buf'[p][b] = 0 .. MyRows(p) + 1
                 /\ \A i \in 0 .. MyRows(p) + 1 : Shape(buf'[p][b][i])
                 /\ p = 0 => buf'[p][b][0] = DeadRow
                 /\ Bottom(p) => buf'[p][b][MyRows(p) + 1] = DeadRow
      <4>1. CASE b = n
        BY <1>10, <1>12, <3>1, <4>1
      <4>2. CASE b # n
        BY <1>3, <1>10, <4>2 DEF MatrixShape
      <4>3. QED
        BY <4>1, <4>2
    <3>3. QED
      BY <1>10, <2>2, <3>2 DEF MatrixShape, Shape, DeadRow, Bottom
  <2>3. QED
    BY <2>1, <2>2
<1>14. ASSUME NEW s \in Rank
       PROVE  RowsAreRight(s)'
  <2>1. CASE s # p
    <3>1. buf'[s] = buf[s] /\ gen'[s] = gen[s] /\ cur'[s] = cur[s]
      BY <1>3, <1>5, <1>6, <1>8, <2>1
    <3>2. QED
      BY <1>3, <1>4, <3>1 DEF RowsAreRight, RowsIn, matrix
  <2>2. CASE s = p
    <3>1. cur'[p] = n
      BY <1>2, <1>5, <1>6 DEF n
    <3>2. ASSUME NEW i \in 1 .. MyRows(p)
          PROVE  buf'[p][n][i] = World[start][gen[p] + 1][MyRowOffset(p) + i]
      <4>1. i \in 0 .. MyRows(p) + 1
        BY <1>1
      <4>2. QED
        BY <1>10, <1>11, <4>1
    <3>3. QED
      BY <1>4, <1>5, <2>2, <3>1, <3>2 DEF RowsAreRight, RowsIn, matrix
  <2>3. QED
    BY <2>1, <2>2
<1>15. LoopInv'
  BY <1>2, <1>4, <1>5, <1>6, <1>8, <1>13, <1>14 DEF LoopInv, LoopIn, RowsAreRight
<1>16. ASSUME NEW s \in Rank, NEW t \in Rank, t # p
       PROVE  HaloRight(s, t)' = HaloRight(s, t)
  <2>1. buf'[t] = buf[t] /\ gen'[t] = gen[t] /\ cur'[t] = cur[t]
    BY <1>3, <1>5, <1>6, <1>8, <1>16
  <2>2. QED
    BY <1>4, <2>1 DEF HaloRight, HaloIn, Right, RightIn, matrix, HaloIndex, MyRows,
                      MyRowOffset, MLIFE_myrows, MLIFE_myrowoffset
<1>17. QED
  BY <1>4, <1>15, <1>16

(* What a rank sends or puts, also one without rows.                       *)
LEMMA EdgeIsRightIn ==
  ASSUME NEW W, DeadOutside(W), LoopIn(W), NEW p \in Rank, NEW q \in Neighbours(p)
  PROVE  Sane(p, q, EdgeRow(p, q)) /\ RightIn(W, gen[p], p, q, EdgeRow(p, q))
<1>1. /\ q \in Rank /\ ((q + 1 = p /\ q < p) \/ (p + 1 = q /\ p < q))
  BY NeighbourIs
<1>2. /\ MyRows(p) \in Nat /\ MyRowOffset(p) \in Nat /\ MyRows(q) \in Nat
      /\ MyRowOffset(q) \in Nat /\ Rows \in Nat /\ p \in Nat /\ q \in Nat
  BY <1>1, GridTypes
<1>3. cur[p] \in 0 .. 1 /\ gen[p] \in 0 .. Iter /\ start \in Starts
  BY CurIsIn
<1>4. MatrixShape(p) /\ RowsIn(W, p)
  BY DEF LoopIn
<1>5. W[start][gen[p]][Rows + 1] = DeadRow
  BY <1>3 DEF DeadOutside
<1>6. Shape(EdgeRow(p, q))
  <2>1. 1 \in 0 .. MyRows(p) + 1 /\ MyRows(p) \in 0 .. MyRows(p) + 1
    BY <1>2
  <2>2. QED
    BY <1>3, <1>4, <2>1 DEF MatrixShape, matrix, EdgeRow
<1>7. CASE q + 1 = p /\ q < p
  <2>1. /\ EdgeRow(p, q) = matrix(p)[1] /\ HaloIndex(p, q) = MyRows(q) + 1
        /\ MyRowOffset(q) + HaloIndex(p, q) = MyRowOffset(p) + 1
    <3>1. MyRowOffset(p) = MyRowOffset(q) + MyRows(q)
      BY <1>1, <1>7, NextBlock
    <3>2. ~(q > p)
      BY <1>2, <1>7
    <3>3. EdgeRow(p, q) = matrix(p)[1] /\ HaloIndex(p, q) = MyRows(q) + 1
      BY <1>7, <3>2 DEF EdgeRow, HaloIndex
    <3>4. QED
      BY <1>2, <3>1, <3>3
  <2>2. CASE MyRows(p) = 0
    <3>1. Bottom(p)
      BY <2>2, NoRowsIsBottom
    <3>2. matrix(p)[1] = DeadRow
      BY <1>3, <1>4, <2>2, <3>1 DEF MatrixShape, matrix
    <3>3. MyRowOffset(p) + 1 = Rows + 1
      BY <1>2, <2>2, <3>1 DEF Bottom
    <3>4. QED
      BY <1>5, <1>6, <2>1, <3>2, <3>3 DEF Sane, RightIn
  <2>3. CASE MyRows(p) # 0
    <3>1. ~Bottom(q)
      BY <1>1, <1>7, <2>3, BelowBottom
    <3>2. 1 \in 1 .. MyRows(p)
      BY <1>2, <2>3
    <3>3. matrix(p)[1] = W[start][gen[p]][MyRowOffset(p) + 1]
      BY <1>4, <3>2 DEF RowsIn
    <3>4. QED
      BY <1>6, <2>1, <3>1, <3>3 DEF Sane, RightIn
  <2>4. QED
    BY <2>2, <2>3
<1>8. CASE p + 1 = q /\ p < q
  <2>1. /\ ~(q < p) /\ EdgeRow(p, q) = matrix(p)[MyRows(p)] /\ HaloIndex(p, q) = 0
        /\ MyRowOffset(q) + HaloIndex(p, q) = MyRowOffset(p) + MyRows(p)
    <3>1. MyRowOffset(q) = MyRowOffset(p) + MyRows(p)
      BY <1>1, <1>8, NextBlock
    <3>2. ~(q < p) /\ q > p
      BY <1>2, <1>8
    <3>3. EdgeRow(p, q) = matrix(p)[MyRows(p)] /\ HaloIndex(p, q) = 0
      BY <3>2 DEF EdgeRow, HaloIndex
    <3>4. QED
      BY <1>2, <3>1, <3>2, <3>3
  <2>2. ASSUME MyRows(q) > 0
        PROVE  matrix(p)[MyRows(p)] = W[start][gen[p]][MyRowOffset(p) + MyRows(p)]
    <3>1. MyRows(p) # 0
      <4>1. SUFFICES ASSUME MyRows(p) = 0 PROVE FALSE
        OBVIOUS
      <4>2. Bottom(p)
        BY <4>1, NoRowsIsBottom
      <4>3. MyRows(q) = 0
        BY <1>1, <1>8, <4>2, BelowBottom
      <4>4. QED
        BY <2>2, <4>3
    <3>2. MyRows(p) \in 1 .. MyRows(p)
      BY <1>2, <3>1
    <3>3. QED
      BY <1>4, <3>2 DEF RowsIn
  <2>3. QED
    BY <1>6, <2>1, <2>2 DEF Sane, RightIn
<1>9. QED
  BY <1>1, <1>7, <1>8

LEMMA EdgeIsRight ==
  ASSUME LoopInv, NEW p \in Rank, NEW q \in Neighbours(p)
  PROVE  Sane(p, q, EdgeRow(p, q)) /\ Right(gen[p], p, q, EdgeRow(p, q))
BY EdgeIsRightIn, WorldIsDead DEF LoopInv, Right

(* A step that leaves the matrices alone.                                  *)
LEMMA LoopSameIn ==
  ASSUME NEW W, LoopIn(W), UNCHANGED <<start, gen, buf, cur>>
  PROVE  LoopIn(W)' /\ \A s, t : HaloIn(W, s, t)' = HaloIn(W, s, t)
<1>1. ASSUME NEW p
      PROVE  /\ matrix(p)' = matrix(p) /\ MatrixShape(p)' = MatrixShape(p)
             /\ RowsIn(W, p)' = RowsIn(W, p)
  <2>1. matrix(p)' = matrix(p)
    BY DEF matrix
  <2>2. MatrixShape(p)' = MatrixShape(p)
    BY DEF MatrixShape, Shape, Bottom, DeadRow
  <2>3. RowsIn(W, p)' = RowsIn(W, p)
    BY <2>1 DEF RowsIn
  <2>4. QED
    BY <2>1, <2>2, <2>3
<1>2. ASSUME NEW s, NEW t
      PROVE  HaloIn(W, s, t)' = HaloIn(W, s, t)
  BY <1>1 DEF HaloIn, RightIn, HaloIndex, MyRows, MyRowOffset, MLIFE_myrows, MLIFE_myrowoffset
<1>3. QED
  BY <1>1, <1>2 DEF LoopIn

LEMMA LoopSame ==
  ASSUME LoopInv, UNCHANGED <<start, gen, buf, cur>>
  PROVE  LoopInv' /\ \A s, t : HaloRight(s, t)' = HaloRight(s, t)
BY LoopSameIn DEF LoopInv, HaloRight

-----------------------------------------------------------------------------
(* Queues.                                                                 *)
LEMMA NothingQueued ==
  ASSUME NEW s, IsSeq(s)
  PROVE  Len(s) \in Nat /\ (Len(s) = 0 <=> s = <<>>)
<1>1. PICK S : s \in Seq(S)
  BY DEF IsSeq
<1>2. QED
  BY <1>1

(* The same of the queue nothing was ever put into.                        *)
LEMMA EmptyQueue ==
  IsSeq(<<>>) /\ Len(<<>>) = 0
<1>1. <<>> \in Seq({})
  OBVIOUS
<1>2. QED
  BY <1>1 DEF IsSeq

(* A row is appended behind the others.                                    *)
LEMMA Enqueued ==
  ASSUME NEW s, IsSeq(s), NEW e
  PROVE  /\ IsSeq(Append(s, e)) /\ Len(Append(s, e)) = Len(s) + 1
         /\ \A i \in 1 .. Len(s) : Append(s, e)[i] = s[i]
         /\ Append(s, e)[Len(s) + 1] = e
<1>1. PICK S : s \in Seq(S)
  BY DEF IsSeq
<1> DEFINE T == S \cup {e}
<1>2. s \in Seq(T) /\ e \in T
  <2>1. S \subseteq T /\ e \in T
    OBVIOUS
  <2> HIDE DEF T
  <2>2. QED
    BY <1>1, <2>1
<1> HIDE DEF T
<1>3. Append(s, e) \in Seq(T) /\ Len(Append(s, e)) = Len(s) + 1
  BY <1>2
<1>4. QED
  BY <1>2, <1>3 DEF IsSeq

(* The first row is taken out and the others move up.                      *)
LEMMA Dequeued ==
  ASSUME NEW s, IsSeq(s), s # <<>>
  PROVE  /\ IsSeq(Tail(s)) /\ Len(Tail(s)) = Len(s) - 1 /\ Head(s) = s[1]
         /\ Len(s) \in Nat \ {0}
         /\ \A i \in 1 .. Len(s) - 1 : Tail(s)[i] = s[i + 1]
<1>1. PICK S : s \in Seq(S)
  BY DEF IsSeq
<1>2. Tail(s) \in Seq(S) /\ Len(Tail(s)) = Len(s) - 1 /\ Head(s) = s[1] /\ Len(s) \in Nat \ {0}
  BY <1>1
<1>3. QED
  BY <1>1, <1>2 DEF IsSeq

-----------------------------------------------------------------------------
(* The operators of the loop mean the same in every program.               *)
LEMMA Pt2ptLoop ==
  /\ Pt2pt!Rank = Rank
  /\ Pt2pt!loopVars = loopVars
  /\ \A p : /\ Pt2pt!Neighbours(p) = Neighbours(p)
            /\ Pt2pt!MoreToDo(p) <=> gen[p] < Iter
            /\ Pt2pt!Compute(p) <=> Compute(p)
            /\ Pt2pt!AllRequests(p) = {"send", "recv"} \X Neighbours(p)
  /\ \A p, q : Pt2pt!EdgeRow(p, q) = EdgeRow(p, q)
  /\ \A p, q, b, r : Pt2pt!StoreHalo(p, q, b, r) <=> StoreHalo(p, q, b, r)
  /\ Pt2pt!LoopInit <=> LoopInit
<1> USE DEF Pt2pt!matrix, matrix, Pt2pt!MyRows, MyRows, Pt2pt!MLIFE_myrows, MLIFE_myrows,
            Pt2pt!Rank, Rank, Pt2pt!DIES, DIES, Pt2pt!Inner, Inner
<1>1. Pt2pt!Rank = Rank /\ Pt2pt!loopVars = loopVars
  BY DEF Pt2pt!loopVars, loopVars
<1>2. ASSUME NEW p
      PROVE  /\ Pt2pt!Neighbours(p) = Neighbours(p)
             /\ Pt2pt!MoreToDo(p) <=> gen[p] < Iter
             /\ Pt2pt!AllRequests(p) = {"send", "recv"} \X Neighbours(p)
  BY DEF Pt2pt!Neighbours, Neighbours, Pt2pt!MoreToDo, Pt2pt!AllRequests
<1>3. ASSUME NEW p
      PROVE  Pt2pt!Compute(p) <=> Compute(p)
  BY DEF Pt2pt!Compute, Compute, Pt2pt!NextState, NextState, Pt2pt!BORN, BORN
<1>4. ASSUME NEW p, NEW q
      PROVE  Pt2pt!EdgeRow(p, q) = EdgeRow(p, q)
  BY DEF Pt2pt!EdgeRow, EdgeRow
<1>5. ASSUME NEW p, NEW q, NEW b, NEW r
      PROVE  Pt2pt!StoreHalo(p, q, b, r) <=> StoreHalo(p, q, b, r)
  BY DEF Pt2pt!StoreHalo, StoreHalo, Pt2pt!HaloIndex, HaloIndex
<1>6. Pt2pt!LoopInit <=> LoopInit
  BY DEF Pt2pt!LoopInit, LoopInit, Pt2pt!MyRowOffset, MyRowOffset,
         Pt2pt!MLIFE_myrowoffset, MLIFE_myrowoffset, Pt2pt!Junk, Junk
<1>7. QED
  BY <1>1, <1>2, <1>3, <1>4, <1>5, <1>6

(* The same for the instance Fence.                                        *)
LEMMA FenceLoop ==
  /\ Fence!Rank = Rank
  /\ Fence!loopVars = loopVars
  /\ \A p : /\ Fence!Neighbours(p) = Neighbours(p)
            /\ Fence!MoreToDo(p) <=> gen[p] < Iter
            /\ Fence!Compute(p) <=> Compute(p)
            /\ Fence!Window(p) = cur[p]
  /\ \A p, q : Fence!EdgeRow(p, q) = EdgeRow(p, q)
  /\ \A p, q, b, r : Fence!StoreHalo(p, q, b, r) <=> StoreHalo(p, q, b, r)
  /\ Fence!LoopInit <=> LoopInit
<1> USE DEF Fence!matrix, matrix, Fence!MyRows, MyRows, Fence!MLIFE_myrows, MLIFE_myrows,
            Fence!Rank, Rank, Fence!DIES, DIES, Fence!Inner, Inner
<1>1. Fence!Rank = Rank /\ Fence!loopVars = loopVars
  BY DEF Fence!loopVars, loopVars
<1>2. ASSUME NEW p
      PROVE  /\ Fence!Neighbours(p) = Neighbours(p)
             /\ Fence!MoreToDo(p) <=> gen[p] < Iter
             /\ Fence!Window(p) = cur[p]
  BY DEF Fence!Neighbours, Neighbours, Fence!MoreToDo, Fence!Window
<1>3. ASSUME NEW p
      PROVE  Fence!Compute(p) <=> Compute(p)
  BY DEF Fence!Compute, Compute, Fence!NextState, NextState, Fence!BORN, BORN
<1>4. ASSUME NEW p, NEW q
      PROVE  Fence!EdgeRow(p, q) = EdgeRow(p, q)
  BY DEF Fence!EdgeRow, EdgeRow
<1>5. ASSUME NEW p, NEW q, NEW b, NEW r
      PROVE  Fence!StoreHalo(p, q, b, r) <=> StoreHalo(p, q, b, r)
  BY DEF Fence!StoreHalo, StoreHalo, Fence!HaloIndex, HaloIndex
<1>6. Fence!LoopInit <=> LoopInit
  BY DEF Fence!LoopInit, LoopInit, Fence!MyRowOffset, MyRowOffset,
         Fence!MLIFE_myrowoffset, MLIFE_myrowoffset, Fence!Junk, Junk
<1>7. QED
  BY <1>1, <1>2, <1>3, <1>4, <1>5, <1>6

(* The same for the instance Pscw.                                         *)
LEMMA PscwLoop ==
  /\ Pscw!Rank = Rank
  /\ Pscw!loopVars = loopVars
  /\ \A p : /\ Pscw!Neighbours(p) = Neighbours(p) /\ Pscw!Group(p) = Neighbours(p)
            /\ Pscw!MoreToDo(p) <=> gen[p] < Iter
            /\ Pscw!Compute(p) <=> Compute(p)
            /\ Pscw!Window(p) = cur[p]
  /\ \A p, q : Pscw!EdgeRow(p, q) = EdgeRow(p, q)
  /\ \A p, q, b, r : Pscw!StoreHalo(p, q, b, r) <=> StoreHalo(p, q, b, r)
  /\ Pscw!LoopInit <=> LoopInit
<1> USE DEF Pscw!matrix, matrix, Pscw!MyRows, MyRows, Pscw!MLIFE_myrows, MLIFE_myrows,
            Pscw!Rank, Rank, Pscw!DIES, DIES, Pscw!Inner, Inner
<1>1. Pscw!Rank = Rank /\ Pscw!loopVars = loopVars
  BY DEF Pscw!loopVars, loopVars
<1>2. ASSUME NEW p
      PROVE  /\ Pscw!Neighbours(p) = Neighbours(p) /\ Pscw!Group(p) = Neighbours(p)
             /\ Pscw!MoreToDo(p) <=> gen[p] < Iter
             /\ Pscw!Window(p) = cur[p]
  BY DEF Pscw!Neighbours, Neighbours, Pscw!Group, Pscw!MoreToDo, Pscw!Window
<1>3. ASSUME NEW p
      PROVE  Pscw!Compute(p) <=> Compute(p)
  BY DEF Pscw!Compute, Compute, Pscw!NextState, NextState, Pscw!BORN, BORN
<1>4. ASSUME NEW p, NEW q
      PROVE  Pscw!EdgeRow(p, q) = EdgeRow(p, q)
  BY DEF Pscw!EdgeRow, EdgeRow
<1>5. ASSUME NEW p, NEW q, NEW b, NEW r
      PROVE  Pscw!StoreHalo(p, q, b, r) <=> StoreHalo(p, q, b, r)
  BY DEF Pscw!StoreHalo, StoreHalo, Pscw!HaloIndex, HaloIndex
<1>6. Pscw!LoopInit <=> LoopInit
  BY DEF Pscw!LoopInit, LoopInit, Pscw!MyRowOffset, MyRowOffset,
         Pscw!MLIFE_myrowoffset, MLIFE_myrowoffset, Pscw!Junk, Junk
<1>7. QED
  BY <1>1, <1>2, <1>3, <1>4, <1>5, <1>6

-----------------------------------------------------------------------------
(* Two-sided: as many rows are under way as were sent and not received.    *)
LEMMA CountTypes ==
  ASSUME CountInv, NEW p \in Rank, NEW q \in Neighbours(p)
  PROVE  /\ q \in Rank /\ p \in Neighbours(q) /\ Iter \in Nat
         /\ gen[p] \in 0 .. Iter /\ gen[q] \in 0 .. Iter
         /\ Sent(p, q) \in Nat /\ Got(p, q) \in Nat /\ Got(p, q) <= Sent(p, q)
         /\ Sent(p, q) \in {gen[p], gen[p] + 1} /\ Got(p, q) \in {gen[q], gen[q] + 1}
         /\ IsSeq(chan[p][q]) /\ Len(chan[p][q]) = Sent(p, q) - Got(p, q)
<1>1. q \in Rank /\ p \in Neighbours(q)
  BY NeighbourIs
<1>2. Iter \in Nat
  BY GridAssumption DEF GridAssumption
<1>3. /\ Got(p, q) <= Sent(p, q) /\ IsSeq(chan[p][q])
      /\ Len(chan[p][q]) = Sent(p, q) - Got(p, q) /\ gen \in [Rank -> 0 .. Iter]
  BY <1>1 DEF CountInv
<1>4. /\ gen[p] \in 0 .. Iter /\ gen[q] \in 0 .. Iter
      /\ Sent(p, q) \in {gen[p], gen[p] + 1} /\ Got(p, q) \in {gen[q], gen[q] + 1}
  BY <1>1, <1>3 DEF Sent, Got
<1>5. QED
  BY <1>1, <1>2, <1>3, <1>4

(* A send adds the message the count says, and disturbs no other pair.     *)
LEMMA Sending ==
  ASSUME CountInv, NEW p \in Rank, NEW q \in Neighbours(p), NEW r,
         <<"send", q>> \in reqs[p], gen' = gen,
         chan' = [chan EXCEPT ![p][q] = Append(@, r)],
         reqs' = [reqs EXCEPT ![p] = @ \ {<<"send", q>>}]
  PROVE  /\ CountInv'
         /\ Sent(p, q) = gen[p] /\ Sent(p, q)' = gen[p] + 1
         /\ chan'[p][q] = Append(chan[p][q], r)
         /\ \A s \in Rank : \A t \in Neighbours(s) :
              /\ Got(s, t)' = Got(s, t)
              /\ s # p \/ t # q => Sent(s, t)' = Sent(s, t) /\ chan'[s][t] = chan[s][t]
<1>1. q \in Rank /\ p # q
  BY NeighbourIs
<1>2. /\ gen \in [Rank -> 0 .. Iter] /\ Iter \in Nat
      /\ DOMAIN reqs = Rank /\ DOMAIN chan = Rank /\ \A s \in Rank : DOMAIN chan[s] = Rank
      /\ \A s \in Rank : reqs[s] \subseteq {"send", "recv"} \X Neighbours(s)
      /\ \A s \in Rank : gen[s] = Iter => reqs[s] = {}
  BY GridAssumption DEF GridAssumption, CountInv
<1>3. gen[p] < Iter
  BY <1>2
<1>4. /\ DOMAIN reqs' = Rank /\ reqs'[p] = reqs[p] \ {<<"send", q>>}
      /\ \A s \in Rank : s # p => reqs'[s] = reqs[s]
  BY <1>2
<1>5. /\ DOMAIN chan' = Rank /\ \A s \in Rank : DOMAIN chan'[s] = Rank
      /\ chan'[p][q] = Append(chan[p][q], r)
      /\ \A s, t \in Rank : s # p \/ t # q => chan'[s][t] = chan[s][t]
  BY <1>1, <1>2
<1>6. ASSUME NEW s \in Rank, NEW t \in Neighbours(s)
      PROVE  /\ t \in Rank /\ Got(s, t)' = Got(s, t)
             /\ s # p \/ t # q => Sent(s, t)' = Sent(s, t)
  <2>1. t \in Rank
    BY NeighbourIs
  <2>2. <<"recv", s>> \in reqs'[t] <=> <<"recv", s>> \in reqs[t]
    BY <1>4, <2>1
  <2>3. s # p \/ t # q => (<<"send", t>> \in reqs'[s] <=> <<"send", t>> \in reqs[s])
    BY <1>4
  <2>4. QED
    BY <2>1, <2>2, <2>3 DEF Sent, Got
<1>7. Sent(p, q) = gen[p] /\ Sent(p, q)' = gen[p] + 1
  <2>1. <<"send", q>> \notin reqs'[p]
    BY <1>4
  <2>2. gen[p] \in 0 .. Iter
    BY <1>2
  <2>3. QED
    BY <1>3, <2>1, <2>2 DEF Sent
<1>8. ASSUME NEW s \in Rank, NEW t \in Rank
      PROVE  /\ IsSeq(chan'[s][t])
             /\ t \in Neighbours(s) => /\ Got(s, t)' <= Sent(s, t)'
                                       /\ Len(chan'[s][t]) = Sent(s, t)' - Got(s, t)'
             /\ t \notin Neighbours(s) => Len(chan'[s][t]) = 0
  <2>1. CASE s = p /\ t = q
    <3>1. IsSeq(chan'[p][q]) /\ Len(chan'[p][q]) = Len(chan[p][q]) + 1
      <4>1. IsSeq(chan[p][q])
        BY CountTypes
      <4>2. QED
        BY <1>5, <4>1, Enqueued
    <3>2. /\ Sent(p, q) \in Nat /\ Got(p, q) \in Nat /\ Got(p, q) <= Sent(p, q)
          /\ Len(chan[p][q]) = Sent(p, q) - Got(p, q)
      BY CountTypes
    <3>3. Got(p, q)' = Got(p, q)
      BY <1>6
    <3>4. QED
      BY <1>7, <2>1, <3>1, <3>2, <3>3
  <2>2. CASE s # p \/ t # q
    <3>1. chan'[s][t] = chan[s][t]
      BY <1>5, <2>2
    <3>2. t \in Neighbours(s) => Got(s, t)' = Got(s, t) /\ Sent(s, t)' = Sent(s, t)
      BY <1>6, <2>2
    <3>3. QED
      BY <3>1, <3>2 DEF CountInv
  <2>3. QED
    BY <2>1, <2>2
<1>9. CountInv'
  <2>1. \A s \in Rank : /\ reqs'[s] \subseteq {"send", "recv"} \X Neighbours(s)
                        /\ gen[s] = Iter => reqs'[s] = {}
    BY <1>2, <1>4
  <2>2. QED
    BY <1>2, <1>4, <1>5, <1>8, <2>1 DEF CountInv, Neighbours, Rank
<1>10. QED
  BY <1>5, <1>6, <1>7, <1>9

(* Rank q receives from p.                                                 *)
LEMMA Receiving ==
  ASSUME CountInv, NEW p \in Rank, NEW q \in Neighbours(p),
         <<"recv", p>> \in reqs[q], chan[p][q] # <<>>, gen' = gen,
         chan' = [chan EXCEPT ![p][q] = Tail(@)],
         reqs' = [reqs EXCEPT ![q] = @ \ {<<"recv", p>>}]
  PROVE  /\ CountInv'
         /\ Got(p, q) = gen[q] /\ Got(p, q)' = gen[q] + 1 /\ <<"recv", p>> \notin reqs'[q]
         /\ chan'[p][q] = Tail(chan[p][q])
         /\ \A s \in Rank : \A t \in Neighbours(s) :
              /\ Sent(s, t)' = Sent(s, t)
              /\ s # p \/ t # q => /\ Got(s, t)' = Got(s, t) /\ chan'[s][t] = chan[s][t]
                                   /\ <<"recv", s>> \in reqs'[t] <=> <<"recv", s>> \in reqs[t]
<1>1. q \in Rank /\ p # q
  BY NeighbourIs
<1>2. /\ gen \in [Rank -> 0 .. Iter] /\ Iter \in Nat
      /\ DOMAIN reqs = Rank /\ DOMAIN chan = Rank /\ \A s \in Rank : DOMAIN chan[s] = Rank
      /\ \A s \in Rank : reqs[s] \subseteq {"send", "recv"} \X Neighbours(s)
      /\ \A s \in Rank : gen[s] = Iter => reqs[s] = {}
  BY GridAssumption DEF GridAssumption, CountInv
<1>3. gen[q] < Iter
  BY <1>1, <1>2
<1>4. /\ DOMAIN reqs' = Rank /\ reqs'[q] = reqs[q] \ {<<"recv", p>>}
      /\ \A s \in Rank : s # q => reqs'[s] = reqs[s]
  BY <1>1, <1>2
<1>5. /\ DOMAIN chan' = Rank /\ \A s \in Rank : DOMAIN chan'[s] = Rank
      /\ chan'[p][q] = Tail(chan[p][q])
      /\ \A s, t \in Rank : s # p \/ t # q => chan'[s][t] = chan[s][t]
  BY <1>1, <1>2
<1>6. ASSUME NEW s \in Rank, NEW t \in Neighbours(s)
      PROVE  /\ t \in Rank /\ Sent(s, t)' = Sent(s, t)
             /\ s # p \/ t # q => /\ Got(s, t)' = Got(s, t)
                                  /\ <<"recv", s>> \in reqs'[t] <=> <<"recv", s>> \in reqs[t]
  <2>1. t \in Rank
    BY NeighbourIs
  <2>2. <<"send", t>> \in reqs'[s] <=> <<"send", t>> \in reqs[s]
    BY <1>4
  <2>3. s # p \/ t # q => (<<"recv", s>> \in reqs'[t] <=> <<"recv", s>> \in reqs[t])
    BY <1>4, <2>1
  <2>4. QED
    BY <2>1, <2>2, <2>3 DEF Sent, Got
<1>7. Got(p, q) = gen[q] /\ Got(p, q)' = gen[q] + 1 /\ <<"recv", p>> \notin reqs'[q]
  <2>1. <<"recv", p>> \notin reqs'[q]
    BY <1>4
  <2>2. gen[q] \in 0 .. Iter
    BY <1>1, <1>2
  <2>3. QED
    BY <1>3, <2>1, <2>2 DEF Got
<1>8. ASSUME NEW s \in Rank, NEW t \in Rank
      PROVE  /\ IsSeq(chan'[s][t])
             /\ t \in Neighbours(s) => /\ Got(s, t)' <= Sent(s, t)'
                                       /\ Len(chan'[s][t]) = Sent(s, t)' - Got(s, t)'
             /\ t \notin Neighbours(s) => Len(chan'[s][t]) = 0
  <2>1. CASE s = p /\ t = q
    <3>1. /\ IsSeq(chan'[p][q]) /\ Len(chan'[p][q]) = Len(chan[p][q]) - 1
          /\ Len(chan[p][q]) \in Nat \ {0}
      <4>1. IsSeq(chan[p][q])
        BY CountTypes
      <4>2. /\ IsSeq(Tail(chan[p][q])) /\ Len(Tail(chan[p][q])) = Len(chan[p][q]) - 1
            /\ Len(chan[p][q]) \in Nat \ {0}
        BY <4>1, Dequeued
      <4>3. QED
        BY <1>5, <4>2, Zenon
    <3>2. /\ Sent(p, q) \in Nat /\ Got(p, q) \in Nat /\ Got(p, q) <= Sent(p, q)
          /\ Len(chan[p][q]) = Sent(p, q) - Got(p, q)
      BY CountTypes
    <3>3. Sent(p, q)' = Sent(p, q)
      BY <1>6
    <3>4. QED
      BY <1>7, <2>1, <3>1, <3>2, <3>3
  <2>2. CASE s # p \/ t # q
    <3>1. chan'[s][t] = chan[s][t]
      BY <1>5, <2>2
    <3>2. t \in Neighbours(s) => Got(s, t)' = Got(s, t) /\ Sent(s, t)' = Sent(s, t)
      BY <1>6, <2>2
    <3>3. QED
      BY <3>1, <3>2, Zenon DEF CountInv
  <2>3. QED
    BY <2>1, <2>2
<1>9. CountInv'
  <2>1. \A s \in Rank : /\ reqs'[s] \subseteq {"send", "recv"} \X Neighbours(s)
                        /\ gen[s] = Iter => reqs'[s] = {}
    BY <1>2, <1>4
  <2>2. QED
    BY <1>2, <1>4, <1>5, <1>8, <2>1 DEF CountInv, Neighbours, Rank
<1>10. QED
  BY <1>5, <1>6, <1>7, <1>9

(* A generation ends and the next exchange is posted.                      *)
LEMMA Posting ==
  ASSUME CountInv, NEW p \in Rank, gen[p] < Iter, reqs[p] = {}, chan' = chan,
         gen' = [gen EXCEPT ![p] = @ + 1],
         reqs' = [reqs EXCEPT ![p] = IF gen'[p] < Iter
                                       THEN {"send", "recv"} \X Neighbours(p) ELSE {}]
  PROVE  /\ CountInv'
         /\ \A q \in Neighbours(p) : gen[q] >= gen[p]
         /\ gen'[p] < Iter => \A q \in Neighbours(p) : <<"recv", q>> \in reqs'[p]
         /\ \A s \in Rank : s # p => reqs'[s] = reqs[s] /\ gen'[s] = gen[s]
         /\ \A s \in Rank : \A t \in Neighbours(s) :
              Sent(s, t)' = Sent(s, t) /\ Got(s, t)' = Got(s, t)
<1>1. /\ gen \in [Rank -> 0 .. Iter] /\ Iter \in Nat
      /\ DOMAIN reqs = Rank /\ DOMAIN chan = Rank /\ \A s \in Rank : DOMAIN chan[s] = Rank
      /\ \A s \in Rank : reqs[s] \subseteq {"send", "recv"} \X Neighbours(s)
      /\ \A s \in Rank : gen[s] = Iter => reqs[s] = {}
  BY GridAssumption DEF GridAssumption, CountInv
<1>2. /\ gen' \in [Rank -> 0 .. Iter] /\ gen'[p] = gen[p] + 1
      /\ \A s \in Rank : s # p => gen'[s] = gen[s]
  BY <1>1
<1>3. /\ DOMAIN reqs' = Rank
      /\ reqs'[p] = IF gen'[p] < Iter THEN {"send", "recv"} \X Neighbours(p) ELSE {}
      /\ \A s \in Rank : s # p => reqs'[s] = reqs[s]
  BY <1>1
<1>4. gen[p] \in Nat /\ gen[p] + 1 <= Iter
  BY <1>1
<1>5. ASSUME NEW s \in Rank, NEW t \in Neighbours(s)
      PROVE  Sent(s, t)' = Sent(s, t) /\ Got(s, t)' = Got(s, t)
  <2>1. t \in Rank /\ s \in Neighbours(t)
    BY NeighbourIs
  <2>2. Sent(s, t)' = Sent(s, t)
    <3>1. CASE s # p
      BY <1>2, <1>3, <3>1 DEF Sent
    <3>2. CASE s = p
      <4>1. gen'[p] < Iter => <<"send", t>> \in reqs'[p]
        BY <1>3, <3>2
      <4>2. Sent(p, t)' = gen'[p]
        BY <1>2, <1>4, <4>1 DEF Sent
      <4>3. QED
        BY <1>2, <1>4, <3>2, <4>2 DEF Sent
    <3>3. QED
      BY <3>1, <3>2
  <2>3. Got(s, t)' = Got(s, t)
    <3>1. CASE t # p
      BY <1>2, <1>3, <2>1, <3>1 DEF Got
    <3>2. CASE t = p
      <4>1. gen'[p] < Iter => <<"recv", s>> \in reqs'[p]
        BY <1>3, <2>1, <3>2
      <4>2. Got(s, p)' = gen'[p]
        BY <1>2, <1>4, <4>1 DEF Got
      <4>3. QED
        BY <1>2, <1>4, <3>2, <4>2 DEF Got
    <3>3. QED
      BY <3>1, <3>2
  <2>4. QED
    BY <2>2, <2>3
<1>6. ASSUME NEW q \in Neighbours(p)
      PROVE  gen[q] >= gen[p]
  <2>1. q \in Rank /\ p \in Neighbours(q)
    BY NeighbourIs
  <2>2. Got(q, p) = gen[p] + 1
    BY DEF Got
  <2>3. Got(q, p) <= Sent(q, p) /\ Sent(q, p) \in {gen[q], gen[q] + 1} /\ gen[q] \in Nat
    BY <2>1, CountTypes
  <2>4. QED
    BY <1>4, <2>2, <2>3
<1>7. CountInv'
  <2>1. \A s \in Rank : /\ reqs'[s] \subseteq {"send", "recv"} \X Neighbours(s)
                        /\ gen'[s] = Iter => reqs'[s] = {}
    BY <1>1, <1>2, <1>3
  <2>2. \A s, t \in Rank :
          /\ IsSeq(chan[s][t])
          /\ t \in Neighbours(s) => /\ Got(s, t)' <= Sent(s, t)'
                                    /\ Len(chan[s][t]) = Sent(s, t)' - Got(s, t)'
          /\ t \notin Neighbours(s) => Len(chan[s][t]) = 0
    BY <1>5 DEF CountInv
  <2>3. QED
    BY <1>1, <1>2, <1>3, <2>1, <2>2 DEF CountInv, Neighbours, Rank
<1>8. ASSUME gen'[p] < Iter, NEW q \in Neighbours(p)
      PROVE  <<"recv", q>> \in reqs'[p]
  BY <1>3, <1>8
<1>9. QED
  BY <1>2, <1>3, <1>5, <1>6, <1>7, <1>8

(* A rank is at most one generation ahead of its neighbours.               *)
LEMMA AtMostTwo ==
  ASSUME CountInv, NEW p \in Rank, NEW q \in Rank
  PROVE  Len(chan[p][q]) <= 2
<1>1. CASE q \in Neighbours(p)
  <2>1. p \in Neighbours(q)
    BY <1>1, NeighbourIs
  <2>2. /\ gen[p] \in Nat /\ gen[q] \in Nat
        /\ Sent(p, q) \in {gen[p], gen[p] + 1} /\ Got(p, q) \in {gen[q], gen[q] + 1}
        /\ Len(chan[p][q]) = Sent(p, q) - Got(p, q)
    BY <1>1, CountTypes
  <2>3. /\ Sent(q, p) \in {gen[q], gen[q] + 1} /\ Got(q, p) \in {gen[p], gen[p] + 1}
        /\ Got(q, p) <= Sent(q, p)
    BY <2>1, CountTypes
  <2>4. QED
    BY <2>2, <2>3
<1>2. CASE q \notin Neighbours(p)
  <2>1. Len(chan[p][q]) = 0
    BY <1>2 DEF CountInv
  <2>2. QED
    BY <2>1
<1>3. QED
  BY <1>1, <1>2

-----------------------------------------------------------------------------
(* life_pt2pt: what is under way is what the receiver is to compute with.  *)
LEMMA CountStart ==
  ASSUME gen = [p \in Rank |-> 0], chan = [p \in Rank |-> [q \in Rank |-> <<>>]],
         reqs = [p \in Rank |-> IF Iter > 0 THEN {"send", "recv"} \X Neighbours(p) ELSE {}]
  PROVE  CountInv
<1>1. Iter \in Nat /\ 0 \in 0 .. Iter
  BY GridAssumption DEF GridAssumption
<1>2. ASSUME NEW p \in Rank, NEW q \in Rank
      PROVE  /\ IsSeq(chan[p][q]) /\ Len(chan[p][q]) = 0
             /\ q \in Neighbours(p) => Sent(p, q) = 0 /\ Got(p, q) = 0
  <2>1. chan[p][q] = <<>>
    BY <1>1
  <2>2. ASSUME q \in Neighbours(p)
        PROVE  Sent(p, q) = 0 /\ Got(p, q) = 0
    <3>1. p \in Neighbours(q)
      BY <2>2, NeighbourIs
    <3>2. 0 < Iter => <<"send", q>> \in reqs[p] /\ <<"recv", p>> \in reqs[q]
      BY <1>1, <2>2, <3>1
    <3>3. QED
      BY <1>1, <3>2 DEF Sent, Got
  <2>3. QED
    BY <2>1, <2>2, EmptyQueue
<1>3. /\ gen \in [Rank -> 0 .. Iter] /\ DOMAIN reqs = Rank /\ DOMAIN chan = Rank
      /\ \A p \in Rank : /\ reqs[p] \subseteq {"send", "recv"} \X Neighbours(p)
                         /\ gen[p] = Iter => reqs[p] = {}
                         /\ DOMAIN chan[p] = Rank
  BY <1>1
<1>4. QED
  BY <1>2, <1>3 DEF CountInv

(* The invariant of the two-sided exchange holds initially.                *)
LEMMA Pt2ptStart ==
  ASSUME Pt2pt!Init
  PROVE  LoopInit /\ CountInv /\ PtInv
<1>1. /\ LoopInit
      /\ gen = [p \in Rank |-> 0]
      /\ reqs = [p \in Rank |-> IF Iter > 0 THEN {"send", "recv"} \X Neighbours(p) ELSE {}]
      /\ chan = [p \in Rank |-> [q \in Rank |-> <<>>]]
  <2>1. /\ reqs = [p \in Pt2pt!Rank |-> IF Iter > 0 THEN Pt2pt!AllRequests(p) ELSE {}]
        /\ chan = [p \in Pt2pt!Rank |-> [q \in Pt2pt!Rank |-> <<>>]]
    BY DEF Pt2pt!Init
  <2>2. Pt2pt!Rank = Rank /\ \A p : Pt2pt!AllRequests(p) = {"send", "recv"} \X Neighbours(p)
    BY Pt2ptLoop
  <2>3. LoopInit
    BY Pt2ptLoop DEF Pt2pt!Init
  <2>4. gen = [p \in Rank |-> 0]
    BY <2>3 DEF LoopInit
  <2>5. /\ reqs = [p \in Rank |-> IF Iter > 0 THEN {"send", "recv"} \X Neighbours(p) ELSE {}]
        /\ chan = [p \in Rank |-> [q \in Rank |-> <<>>]]
    BY <2>1, <2>2
  <2>6. QED
    BY <2>3, <2>4, <2>5
<1>2. CountInv
  BY <1>1, CountStart
<1>3. ASSUME NEW p \in Rank, NEW q \in Neighbours(p)
      PROVE  /\ ChanRight(p, q)
             /\ gen[q] < Iter /\ <<"recv", p>> \notin reqs[q] => HaloRight(p, q)
  <2>1. q \in Rank /\ p \in Neighbours(q)
    BY NeighbourIs
  <2>2. gen[q] < Iter => <<"recv", p>> \in reqs[q]
    BY <1>1, <2>1
  <2>3. Len(chan[p][q]) = Sent(p, q) - Got(p, q)
    BY <1>2, CountTypes
  <2>4. chan[p][q] = <<>>
    BY <1>1, <2>1
  <2>5. Sent(p, q) - Got(p, q) = 0
    BY <2>3, <2>4, EmptyQueue
  <2>6. QED
    BY <2>2, <2>5 DEF ChanRight, ChanIn, Right
<1>4. QED
  BY <1>1, <1>2, <1>3 DEF PtInv, PtIn, ChanRight, HaloRight

(* What the loop does in any of its steps, seen from Rounds.               *)
Stays    == start' = start /\ gen' = gen
Moves(p) == /\ gen[p] < Iter /\ \A q \in Neighbours(p) : gen[q] >= gen[p]
            /\ gen' = [gen EXCEPT ![p] = @ + 1] /\ start' = start

(* A send queues the edge row of the sender's generation.                  *)
LEMMA Pt2ptSendIn ==
  ASSUME NEW W, DeadOutside(W), LoopIn(W), CountInv, PtIn(W),
         NEW p \in Rank, NEW q \in Neighbours(p), Pt2pt!Send(p, q)
  PROVE  LoopIn(W)' /\ CountInv' /\ PtIn(W)' /\ Stays
<1> DEFINE r == EdgeRow(p, q)
<1>1. /\ <<"send", q>> \in reqs[p] /\ UNCHANGED <<start, gen, buf, cur>>
      /\ chan' = [chan EXCEPT ![p][q] = Append(@, r)]
      /\ reqs' = [reqs EXCEPT ![p] = @ \ {<<"send", q>>}]
  <2>1. /\ <<"send", q>> \in reqs[p] /\ UNCHANGED Pt2pt!loopVars
        /\ chan' = [chan EXCEPT ![p][q] = Append(@, Pt2pt!EdgeRow(p, q))]
        /\ reqs' = [reqs EXCEPT ![p] = @ \ {<<"send", q>>}]
    BY DEF Pt2pt!Send
  <2>2. Pt2pt!EdgeRow(p, q) = r
    BY Pt2ptLoop
  <2>3. QED
    BY <2>1, <2>2 DEF Pt2pt!loopVars
<1>2. Sane(p, q, r) /\ RightIn(W, gen[p], p, q, r)
  BY EdgeIsRightIn
<1> HIDE DEF r
<1>3. /\ CountInv' /\ Sent(p, q) = gen[p] /\ Sent(p, q)' = gen[p] + 1
      /\ chan'[p][q] = Append(chan[p][q], r)
      /\ \A s \in Rank : \A t \in Neighbours(s) :
              /\ Got(s, t)' = Got(s, t)
              /\ s # p \/ t # q => Sent(s, t)' = Sent(s, t) /\ chan'[s][t] = chan[s][t]
  BY <1>1, Sending, ZenonT(60)
<1>4. LoopIn(W)' /\ \A s, t : HaloIn(W, s, t)' = HaloIn(W, s, t)
  BY <1>1, LoopSameIn
<1>5. \A s, t, x : Sane(s, t, x)' = Sane(s, t, x)
  BY DEF Sane, Shape, Bottom, DeadRow
<1>6. \A k, s, t, x : RightIn(W, k, s, t, x)' = RightIn(W, k, s, t, x)
  BY <1>1 DEF RightIn, HaloIndex, MyRows, MyRowOffset, MLIFE_myrows, MLIFE_myrowoffset
<1>7. ASSUME NEW s \in Rank, NEW t \in Neighbours(s)
      PROVE  /\ ChanIn(W, s, t)'
             /\ gen[t] < Iter /\ <<"recv", s>> \notin reqs'[t] => HaloIn(W, s, t)
  <2>1. ChanIn(W, s, t) /\ (gen[t] < Iter /\ <<"recv", s>> \notin reqs[t] => HaloIn(W, s, t))
    BY DEF PtIn
  <2>2. <<"recv", s>> \in reqs'[t] <=> <<"recv", s>> \in reqs[t]
    <3>1. t \in Rank /\ DOMAIN reqs = Rank
      BY NeighbourIs DEF CountInv
    <3>2. QED
      BY <1>1, <3>1
  <2>3. ChanIn(W, s, t)'
    <3>1. CASE s # p \/ t # q
      BY <1>3, <1>5, <1>6, <2>1, <3>1 DEF ChanIn
    <3>2. CASE s = p /\ t = q
      <4>1. /\ Sent(p, q) \in Nat /\ Got(p, q) \in Nat /\ Got(p, q) <= Sent(p, q)
            /\ IsSeq(chan[p][q]) /\ Len(chan[p][q]) = Sent(p, q) - Got(p, q)
        BY CountTypes
      <4>2. /\ \A n \in 1 .. Sent(p, q) - Got(p, q) : chan'[p][q][n] = chan[p][q][n]
            /\ chan'[p][q][Sent(p, q) - Got(p, q) + 1] = r
        <5>1. /\ \A i \in 1 .. Len(chan[p][q]) : Append(chan[p][q], r)[i] = chan[p][q][i]
              /\ Append(chan[p][q], r)[Len(chan[p][q]) + 1] = r
          BY <4>1, Enqueued, ZenonT(40)
        <5>2. chan'[p][q] = Append(chan[p][q], r)
          BY <1>3, Zenon
        <5> DEFINE a == Append(chan[p][q], r)
                   l == Len(chan[p][q])
        <5>3. (\A i \in 1 .. l : a[i] = chan[p][q][i]) /\ a[l + 1] = r /\ chan'[p][q] = a
          BY <5>1, <5>2, Zenon
        <5>4. l = Sent(p, q) - Got(p, q)
          BY <4>1
        <5> HIDE DEF a, l
        <5>5. QED
          BY <5>3, <5>4
      <4>3. ASSUME NEW n \in 1 .. Sent(p, q)' - Got(p, q)'
            PROVE  /\ Sane(p, q, chan'[p][q][n])
                   /\ RightIn(W, Got(p, q) + n - 1, p, q, chan'[p][q][n])
        <5>1. Sent(p, q)' = Sent(p, q) + 1 /\ Got(p, q)' = Got(p, q)
          BY <1>3
        <5>2. CASE n \in 1 .. Sent(p, q) - Got(p, q)
          BY <2>1, <3>2, <4>2, <5>2 DEF ChanIn
        <5>3. CASE n = Sent(p, q) - Got(p, q) + 1
          <6>1. Got(p, q) + n - 1 = gen[p]
            BY <1>3, <4>1, <5>3
          <6>2. QED
            BY <1>2, <4>2, <5>3, <6>1
        <5>4. QED
          BY <4>1, <5>1, <5>2, <5>3
      <4>4. Got(p, q)' = Got(p, q)
        BY <1>3, <3>2
      <4>5. ASSUME NEW n \in 1 .. Sent(p, q)' - Got(p, q)'
            PROVE  /\ Sane(p, q, chan[p][q][n])'
                   /\ RightIn(W, Got(p, q) + n - 1, p, q, chan[p][q][n])'
        <5>1. Sane(p, q, chan'[p][q][n]) /\ RightIn(W, Got(p, q) + n - 1, p, q, chan'[p][q][n])
          BY <4>3
        <5>2. Sane(p, q, chan[p][q][n])'
          BY <1>5, <5>1, Zenon
        <5>3. RightIn(W, Got(p, q) + n - 1, p, q, chan[p][q][n])'
          BY <1>6, <4>4, <5>1, Zenon
        <5>4. QED
          BY <5>2, <5>3
      <4>6. ChanIn(W, p, q)'
        BY <4>5, Zenon DEF ChanIn
      <4>7. QED
        BY <3>2, <4>6, Zenon
    <3>3. QED
      BY <3>1, <3>2
  <2>4. QED
    BY <2>1, <2>2, <2>3
<1>8. PtIn(W)'
  BY <1>1, <1>4, <1>7 DEF PtIn, Neighbours, Rank
<1>9. QED
  BY <1>1, <1>3, <1>4, <1>8 DEF Stays

LEMMA Pt2ptSend ==
  ASSUME LoopInv, CountInv, PtInv, NEW p \in Rank, NEW q \in Neighbours(p), Pt2pt!Send(p, q)
  PROVE  LoopInv' /\ CountInv' /\ PtInv' /\ Stays
BY Pt2ptSendIn, WorldIsDead DEF LoopInv, PtInv

(* A receive stores the row of the receiver's generation, for the one at   *)
(* the head of the queue is it.                                            *)
LEMMA Pt2ptRecvIn ==
  ASSUME NEW W, LoopIn(W), CountInv, PtIn(W),
         NEW p \in Rank, NEW q \in Neighbours(p), Pt2pt!Recv(q, p)
  PROVE  LoopIn(W)' /\ CountInv' /\ PtIn(W)' /\ Stays
<1> DEFINE r == Head(chan[p][q])
<1>1. /\ <<"recv", p>> \in reqs[q] /\ chan[p][q] # <<>> /\ UNCHANGED <<start, gen, cur>>
      /\ chan' = [chan EXCEPT ![p][q] = Tail(@)]
      /\ reqs' = [reqs EXCEPT ![q] = @ \ {<<"recv", p>>}]
      /\ StoreHalo(p, q, cur[q], r)
  BY Pt2ptLoop DEF Pt2pt!Recv
<1>2. /\ q \in Rank /\ cur[q] \in 0 .. 1
  BY NeighbourIs, CurIsIn
<1>3. /\ Sent(p, q) \in Nat /\ Got(p, q) \in Nat /\ Got(p, q) <= Sent(p, q)
      /\ IsSeq(chan[p][q]) /\ Len(chan[p][q]) = Sent(p, q) - Got(p, q)
  BY CountTypes
<1>4. /\ r = chan[p][q][1] /\ Sent(p, q) - Got(p, q) \in Nat \ {0}
      /\ \A n \in 1 .. Sent(p, q) - Got(p, q) - 1 : Tail(chan[p][q])[n] = chan[p][q][n + 1]
  BY <1>1, <1>3, Dequeued
<1> HIDE DEF r
<1>5. /\ CountInv'
      /\ Got(p, q) = gen[q] /\ Got(p, q)' = gen[q] + 1 /\ <<"recv", p>> \notin reqs'[q]
      /\ chan'[p][q] = Tail(chan[p][q])
      /\ \A s \in Rank : \A t \in Neighbours(s) :
              /\ Sent(s, t)' = Sent(s, t)
              /\ s # p \/ t # q => /\ Got(s, t)' = Got(s, t) /\ chan'[s][t] = chan[s][t]
                                   /\ <<"recv", s>> \in reqs'[t] <=> <<"recv", s>> \in reqs[t]
  BY <1>1, Receiving
<1>6. Sane(p, q, r) /\ RightIn(W, gen[q], p, q, r)
  <2>1. 1 \in 1 .. Sent(p, q) - Got(p, q) /\ Got(p, q) + 1 - 1 = gen[q]
    BY <1>3, <1>4, <1>5
  <2>2. ChanIn(W, p, q)
    BY DEF PtIn
  <2>3. QED
    BY <1>4, <2>1, <2>2 DEF ChanIn
<1>7. /\ LoopIn(W)' /\ HaloIn(W, p, q)'
      /\ \A s \in Rank : \A t \in Neighbours(s) :
           s # p \/ t # q => HaloIn(W, s, t)' = HaloIn(W, s, t)
  BY <1>1, <1>2, <1>6, LoopStoredIn
<1>8. \A s, t, x : Sane(s, t, x)' = Sane(s, t, x)
  BY DEF Sane, Shape, Bottom, DeadRow
<1>9. \A k, s, t, x : RightIn(W, k, s, t, x)' = RightIn(W, k, s, t, x)
  BY <1>1 DEF RightIn, HaloIndex, MyRows, MyRowOffset, MLIFE_myrows, MLIFE_myrowoffset
<1>10. ASSUME NEW s \in Rank, NEW t \in Neighbours(s)
       PROVE  /\ ChanIn(W, s, t)'
              /\ gen[t] < Iter /\ <<"recv", s>> \notin reqs'[t] => HaloIn(W, s, t)'
  <2>1. ChanIn(W, s, t) /\ (gen[t] < Iter /\ <<"recv", s>> \notin reqs[t] => HaloIn(W, s, t))
    BY DEF PtIn
  <2>2. CASE s # p \/ t # q
    BY <1>5, <1>7, <1>8, <1>9, <2>1, <2>2 DEF ChanIn
  <2>3. CASE s = p /\ t = q
    <3>1. ASSUME NEW n \in 1 .. Sent(p, q)' - Got(p, q)'
          PROVE  /\ Sane(p, q, chan'[p][q][n])
                 /\ RightIn(W, Got(p, q)' + n - 1, p, q, chan'[p][q][n])
      <4>1. Sent(p, q)' = Sent(p, q) /\ Got(p, q)' = Got(p, q) + 1
        BY <1>5
      <4>2. n \in 1 .. Sent(p, q) - Got(p, q) - 1 /\ n + 1 \in 1 .. Sent(p, q) - Got(p, q)
        BY <1>3, <4>1
      <4>3. chan'[p][q][n] = chan[p][q][n + 1]
        BY <1>4, <1>5, <4>2
      <4>4. Got(p, q)' + n - 1 = Got(p, q) + (n + 1) - 1
        BY <1>3, <4>1, <4>2
      <4>5. QED
        BY <2>1, <2>3, <4>2, <4>3, <4>4 DEF ChanIn
    <3>2. QED
      BY <1>7, <1>8, <1>9, <2>3, <3>1 DEF ChanIn
  <2>4. QED
    BY <2>2, <2>3
<1>11. PtIn(W)'
  BY <1>1, <1>10 DEF PtIn, Neighbours, Rank
<1>12. QED
  BY <1>1, <1>5, <1>7, <1>11 DEF Stays

LEMMA Pt2ptRecv ==
  ASSUME LoopInv, CountInv, PtInv, NEW p \in Rank, NEW q \in Neighbours(p), Pt2pt!Recv(q, p)
  PROVE  LoopInv' /\ CountInv' /\ PtInv' /\ Stays
BY Pt2ptRecvIn DEF LoopInv, PtInv

(* MPI_Waitall returns with both halos right, and the neighbours have      *)
(* reached the generation.                                                 *)
LEMMA Pt2ptGeneration ==
  ASSUME LoopInv, CountInv, PtInv, NEW p \in Rank, Pt2pt!Generation(p)
  PROVE  LoopInv' /\ CountInv' /\ PtInv' /\ Moves(p)
<1>1. /\ gen[p] < Iter /\ reqs[p] = {} /\ Compute(p) /\ chan' = chan
      /\ reqs' = [reqs EXCEPT ![p] = IF gen'[p] < Iter
                                       THEN {"send", "recv"} \X Neighbours(p) ELSE {}]
  <2>1. /\ Pt2pt!MoreToDo(p) /\ reqs[p] = {} /\ Pt2pt!Compute(p) /\ chan' = chan
        /\ reqs' = [reqs EXCEPT ![p] = IF gen'[p] < Iter THEN Pt2pt!AllRequests(p) ELSE {}]
    BY DEF Pt2pt!Generation
  <2>2. QED
    BY <2>1, Pt2ptLoop
<1>2. ASSUME NEW q \in Neighbours(p)
      PROVE  HaloRight(q, p)
  <2>1. q \in Rank /\ p \in Neighbours(q)
    BY NeighbourIs
  <2>2. QED
    BY <1>1, <2>1 DEF PtInv, PtIn, ChanRight, HaloRight
<1>3. /\ LoopInv' /\ gen' = [gen EXCEPT ![p] = @ + 1] /\ start' = start
      /\ \A s \in Rank, t \in Rank : t # p => HaloRight(s, t)' = HaloRight(s, t)
  BY <1>1, <1>2, LoopComputed
<1>4. /\ CountInv'
      /\ \A q \in Neighbours(p) : gen[q] >= gen[p]
      /\ gen'[p] < Iter => \A q \in Neighbours(p) : <<"recv", q>> \in reqs'[p]
      /\ \A s \in Rank : s # p => reqs'[s] = reqs[s] /\ gen'[s] = gen[s]
      /\ \A s \in Rank : \A t \in Neighbours(s) :
           Sent(s, t)' = Sent(s, t) /\ Got(s, t)' = Got(s, t)
  BY <1>1, <1>3, Posting
<1>5. \A s, t, x : Sane(s, t, x)' = Sane(s, t, x)
  BY DEF Sane, Shape, Bottom, DeadRow
<1>6. \A k, s, t, x : Right(k, s, t, x)' = Right(k, s, t, x)
  BY <1>3 DEF Right, RightIn, HaloIndex, MyRows, MyRowOffset, MLIFE_myrows, MLIFE_myrowoffset
<1>7. ASSUME NEW s \in Rank, NEW t \in Neighbours(s)
      PROVE  /\ ChanRight(s, t)'
             /\ gen'[t] < Iter /\ <<"recv", s>> \notin reqs'[t] => HaloRight(s, t)'
  <2>1. t \in Rank /\ s \in Neighbours(t)
    BY NeighbourIs
  <2>2. ChanRight(s, t) /\ (gen[t] < Iter /\ <<"recv", s>> \notin reqs[t] => HaloRight(s, t))
    BY DEF PtInv, PtIn, ChanRight, HaloRight
  <2>3. ChanRight(s, t)'
    BY <1>1, <1>4, <1>5, <1>6, <2>2 DEF ChanRight, ChanIn, Right
  <2>4. gen'[t] < Iter /\ <<"recv", s>> \notin reqs'[t] => HaloRight(s, t)'
    BY <1>3, <1>4, <2>1, <2>2
  <2>5. QED
    BY <2>3, <2>4
<1>8. PtInv'
  BY <1>7 DEF PtInv, PtIn, ChanRight, HaloRight, Neighbours, Rank
<1>9. QED
  BY <1>1, <1>3, <1>4, <1>8 DEF Moves

-----------------------------------------------------------------------------
(* The threaded programs: the exchange is over when its thread leaves the  *)
(* rows, so that the swap finds no request of this generation.             *)
LEMMA SweptNames ==
  /\ Swept!Thread = 0 .. NThreads - 1
  /\ \A p : /\ Swept!Neighbours(p) = Neighbours(p)
            /\ Swept!MoreToDo(p) <=> gen[p] < Iter
            /\ Swept!Exchange!AllRequests(p) = {"send", "recv"} \X Neighbours(p)
BY DEF Swept!Thread, Swept!Neighbours, Neighbours, Swept!MoreToDo, Swept!Rank, Rank,
       Swept!Exchange!AllRequests, Swept!Exchange!Neighbours, Swept!Exchange!Rank

(* The counts and the places of the threads hold initially.                *)
LEMMA SweptStart ==
  ASSUME Swept!Init
  PROVE  CountInv /\ ThreadInv
<1>1. /\ Swept!Exchange!Init /\ at = [p \in Rank |-> [t \in 0 .. NThreads - 1 |-> "rows"]]
  BY SweptNames DEF Swept!Init, Swept!Rank, Rank
<1>2. /\ gen = [p \in Rank |-> 0]
      /\ reqs = [p \in Rank |-> IF Iter > 0 THEN {"send", "recv"} \X Neighbours(p) ELSE {}]
      /\ chan = [p \in Rank |-> [q \in Rank |-> <<>>]]
  <2>1. /\ Swept!Exchange!LoopInit
        /\ reqs = [p \in Rank |-> IF Iter > 0 THEN Swept!Exchange!AllRequests(p) ELSE {}]
        /\ chan = [p \in Rank |-> [q \in Rank |-> <<>>]]
    BY <1>1 DEF Swept!Exchange!Init, Swept!Exchange!Rank, Rank
  <2>2. gen = [p \in Rank |-> 0]
    BY <2>1 DEF Swept!Exchange!LoopInit, Swept!Exchange!Rank, Rank
  <2>3. \A p : Swept!Exchange!AllRequests(p) = {"send", "recv"} \X Neighbours(p)
    BY SweptNames
  <2>4. QED
    BY <2>1, <2>2, <2>3
<1>3. CountInv
  BY <1>2, CountStart
<1>4. 0 \in 0 .. NThreads - 1
  BY ThreadsAssumption
<1>5. ThreadInv
  BY <1>1, <1>4 DEF ThreadInv
<1>6. QED
  BY <1>3, <1>5

(* When all threads wait for the swap no request is open, and the next     *)
(* exchange is posted.                                                     *)
LEMMA Swapped ==
  ASSUME CountInv, ThreadInv, NEW p \in Rank, Swept!SwapAll(p)
  PROVE  CountInv' /\ ThreadInv'
<1>1. 0 \in 0 .. NThreads - 1
  BY ThreadsAssumption
<1>2. /\ \A t \in 0 .. NThreads - 1 : at[p][t] = "swap"
      /\ at' = [at EXCEPT ![p] = [t \in 0 .. NThreads - 1 |-> "rows"]]
      /\ gen' = [gen EXCEPT ![p] = @ + 1] /\ chan' = chan
      /\ reqs' = [reqs EXCEPT ![p] = IF gen'[p] < Iter THEN Swept!Exchange!AllRequests(p) ELSE {}]
  BY SweptNames DEF Swept!SwapAll
<1>3. reqs' = [reqs EXCEPT ![p] = IF gen'[p] < Iter
                                    THEN {"send", "recv"} \X Neighbours(p) ELSE {}]
  BY <1>2, SweptNames
<1>4. gen[p] < Iter /\ reqs[p] = {}
  BY <1>1, <1>2 DEF ThreadInv
<1>5. CountInv' /\ \A s \in Rank : s # p => reqs'[s] = reqs[s] /\ gen'[s] = gen[s]
  BY <1>2, <1>3, <1>4, Posting
<1>6. ThreadInv'
  <2>1. DOMAIN at' = Rank /\ at'[p] = [t \in 0 .. NThreads - 1 |-> "rows"]
        /\ \A s \in Rank : s # p => at'[s] = at[s]
    BY <1>2 DEF ThreadInv
  <2>2. ASSUME NEW s \in Rank
        PROVE  /\ DOMAIN at'[s] = 0 .. NThreads - 1
               /\ \A t \in 0 .. NThreads - 1 : at'[s][t] # "rows" => gen'[s] < Iter
               /\ at'[s][0] # "rows" => reqs'[s] = {}
    <3>1. CASE s = p
      BY <1>1, <2>1, <3>1
    <3>2. CASE s # p
      BY <1>5, <2>1, <3>2 DEF ThreadInv
    <3>3. QED
      BY <3>1, <3>2
  <2>3. QED
    BY <2>1, <2>2 DEF ThreadInv, Rank
<1>7. QED
  BY <1>5, <1>6

(* A thread goes on.                                                       *)
LEMMA ThreadMoves ==
  ASSUME CountInv, ThreadInv, NEW p \in Rank, NEW t \in 0 .. NThreads - 1, NEW c,
         UNCHANGED <<gen, reqs, chan>>, gen[p] < Iter, t = 0 => reqs[p] = {},
         at' = [at EXCEPT ![p][t] = c]
  PROVE  CountInv' /\ ThreadInv'
<1>1. CountInv'
  BY DEF CountInv, Sent, Got, Neighbours, Rank
<1>2. /\ DOMAIN at' = Rank /\ DOMAIN at'[p] = 0 .. NThreads - 1
      /\ \A s \in Rank : s # p => at'[s] = at[s]
      /\ \A u \in 0 .. NThreads - 1 : u # t => at'[p][u] = at[p][u]
  BY DEF ThreadInv
<1>3. 0 \in 0 .. NThreads - 1
  BY ThreadsAssumption
<1>4. \A s \in Rank : DOMAIN at'[s] = 0 .. NThreads - 1
  BY <1>2 DEF ThreadInv
<1>5. ASSUME NEW s \in Rank, NEW u \in 0 .. NThreads - 1, at'[s][u] # "rows"
      PROVE  gen[s] < Iter
  BY <1>2, <1>5 DEF ThreadInv
<1>6. ASSUME NEW s \in Rank, at'[s][0] # "rows"
      PROVE  reqs[s] = {}
  BY <1>2, <1>3, <1>6 DEF ThreadInv
<1>7. ThreadInv'
  BY <1>2, <1>4, <1>5, <1>6 DEF ThreadInv, Rank
<1>8. QED
  BY <1>1, <1>7

(* A send or a receive in the threaded program, which also stores into the *)
(* two matrices, keeps the counts.                                         *)
LEMMA SweptMessage ==
  ASSUME CountInv, ThreadInv, NEW p \in Rank, Swept!Message(p)
  PROVE  CountInv' /\ ThreadInv'
<1>1. at' = at
  BY DEF Swept!Message
<1>2. PICK q \in Neighbours(p) : Swept!Exchange!Send(p, q) \/ Swept!Exchange!Recv(p, q)
  BY SweptNames DEF Swept!Message
<1>3. q \in Rank /\ p \in Neighbours(q)
  BY NeighbourIs
<1>4. CountInv' /\ gen' = gen /\ \A s \in Rank : reqs'[s] \subseteq reqs[s]
  <2>1. CASE Swept!Exchange!Send(p, q)
    <3>1. /\ <<"send", q>> \in reqs[p] /\ gen' = gen
          /\ chan' = [chan EXCEPT ![p][q] = Append(@, Swept!Exchange!EdgeRow(p, q))]
          /\ reqs' = [reqs EXCEPT ![p] = @ \ {<<"send", q>>}]
      BY <2>1 DEF Swept!Exchange!Send, Swept!Exchange!loopVars
    <3>2. CountInv'
      BY <3>1, Sending
    <3>3. QED
      BY <3>1, <3>2 DEF CountInv
  <2>2. CASE Swept!Exchange!Recv(p, q)
    <3>1. /\ <<"recv", q>> \in reqs[p] /\ chan[q][p] # <<>> /\ gen' = gen
          /\ chan' = [chan EXCEPT ![q][p] = Tail(@)]
          /\ reqs' = [reqs EXCEPT ![p] = @ \ {<<"recv", q>>}]
      BY <2>2 DEF Swept!Exchange!Recv
    <3>2. CountInv'
      BY <1>3, <3>1, Receiving
    <3>3. QED
      BY <3>1, <3>2 DEF CountInv
  <2>3. QED
    BY <1>2, <2>1, <2>2
<1>5. ThreadInv'
  BY <1>1, <1>4 DEF ThreadInv, Rank
<1>6. QED
  BY <1>4, <1>5

(* Every step of the threaded programs keeps the counts.                   *)
LEMMA SweptStep ==
  ASSUME CountInv, ThreadInv, NEW p \in Rank, Swept!Step(p)
  PROVE  CountInv' /\ ThreadInv'
<1>1. CASE Swept!Message(p)
  BY <1>1, SweptMessage
<1>2. CASE Swept!SwapAll(p)
  BY <1>2, Swapped
<1>3. ASSUME NEW t \in 0 .. NThreads - 1, Swept!Rows12(p, t)
      PROVE  CountInv' /\ ThreadInv'
  <2>1. /\ gen[p] < Iter /\ reqs[p] = {} /\ UNCHANGED <<gen, reqs, chan>>
        /\ at' = [at EXCEPT ![p][t] = "swap"]
    BY <1>3, SweptNames DEF Swept!Rows12, Swept!Goto, Swept!Sweep
  <2>2. QED
    BY <2>1, ThreadMoves
<1>4. ASSUME NEW t \in 0 .. NThreads - 1, Swept!Interior(p, t)
      PROVE  CountInv' /\ ThreadInv'
  <2>1. /\ gen[p] < Iter /\ (t = 0 => reqs[p] = {}) /\ UNCHANGED <<gen, reqs, chan>>
        /\ at' = [at EXCEPT ![p][t] = "edges"] \/ at' = at
    BY <1>4, SweptNames DEF Swept!Interior, Swept!Goto, Swept!Sweep, Swept!loopVars
  <2>2. CASE at' = [at EXCEPT ![p][t] = "edges"]
    BY <2>1, <2>2, ThreadMoves
  <2>3. CASE at' = at
    BY <2>1, <2>3 DEF CountInv, ThreadInv, Sent, Got, Neighbours, Rank
  <2>4. QED
    BY <2>1, <2>2, <2>3
<1>5. ASSUME NEW t \in 0 .. NThreads - 1, Swept!Edges(p, t)
      PROVE  CountInv' /\ ThreadInv'
  <2>1. /\ at[p][t] = "edges" /\ UNCHANGED <<gen, reqs, chan>>
        /\ at' = [at EXCEPT ![p][t] = "swap"]
    BY <1>5 DEF Swept!Edges, Swept!Goto, Swept!Sweep
  <2>2. gen[p] < Iter /\ (t = 0 => reqs[p] = {})
    BY <2>1 DEF ThreadInv
  <2>3. QED
    BY <2>1, <2>2, ThreadMoves
<1>6. QED
  BY <1>1, <1>2, <1>3, <1>4, <1>5, SweptNames DEF Swept!Step

-----------------------------------------------------------------------------
(* The generations per window.                                             *)
LEMMA CountNext ==
  ASSUME NEW n \in Nat
  PROVE  /\ n % 2 \in 0 .. 1 /\ Count(n + 1, n % 2) = Count(n, n % 2) + 1
         /\ \A w \in 0 .. 1 : Count(n, w) \in Nat /\ (w # n % 2 => Count(n + 1, w) = Count(n, w))
BY DEF Count

(* One window alone tells whether generation k has been reached.           *)
LEMMA CountReaches ==
  ASSUME NEW n \in Nat, NEW k \in Nat
  PROVE  Count(n, k % 2) >= Count(k + 1, k % 2) <=> n >= k + 1
BY DEF Count

(* A call that counts in the window of the current generation counts that  *)
(* generation.                                                             *)
LEMMA Counted ==
  ASSUME NEW N \in [Rank -> Nat], NEW p \in Rank
  PROVE  [[s \in Rank |-> [w \in 0 .. 1 |-> Count(N[s], w)]] EXCEPT ![p][N[p] % 2] = @ + 1]
           = [s \in Rank |-> [w \in 0 .. 1 |-> Count([N EXCEPT ![p] = @ + 1][s], w)]]
<1> DEFINE M == [N EXCEPT ![p] = @ + 1]
           c == [s \in Rank |-> [w \in 0 .. 1 |-> Count(N[s], w)]]
           d == [c EXCEPT ![p][N[p] % 2] = @ + 1]
           e == [s \in Rank |-> [w \in 0 .. 1 |-> Count(M[s], w)]]
           v == N[p] % 2
<1>1. v \in 0 .. 1 /\ N[p] \in Nat /\ M[p] = N[p] + 1 /\ \A s \in Rank : s # p => M[s] = N[s]
  OBVIOUS
<1>2. c[p] = [w \in 0 .. 1 |-> Count(N[p], w)]
  OBVIOUS
<1>3. DOMAIN c = Rank /\ \A s \in Rank : s # p => c[s] = [w \in 0 .. 1 |-> Count(M[s], w)]
  BY <1>1
<1> HIDE DEF v, M, c
<1>4. /\ DOMAIN d = Rank /\ d[p] = [c[p] EXCEPT ![v] = @ + 1]
      /\ \A s \in Rank : s # p => d[s] = c[s]
  BY <1>3 DEF v
<1>5. d[p] = [w \in 0 .. 1 |-> IF w = v THEN Count(N[p], w) + 1 ELSE Count(N[p], w)]
  BY <1>1, <1>2, <1>4
<1>6. \A w \in 0 .. 1 : (IF w = v THEN Count(N[p], w) + 1 ELSE Count(N[p], w)) = Count(M[p], w)
  BY <1>1, CountNext DEF v
<1>7. d[p] = [w \in 0 .. 1 |-> Count(M[p], w)]
  BY <1>5, <1>6
<1>8. \A s \in Rank : s # p => d[s] = [w \in 0 .. 1 |-> Count(M[s], w)]
  BY <1>4, <1>3
<1>9. \A s \in Rank : d[s] = e[s]
  BY <1>7, <1>8
<1>10. d = [s \in Rank |-> d[s]]
  BY <1>4
<1>11. d = e
  <2> HIDE DEF d
  <2>1. QED
    BY <1>9, <1>10
<1>12. QED
  BY <1>11 DEF M, c

-----------------------------------------------------------------------------
(* life_fence.                                                             *)
LEMMA FenceStart ==
  ASSUME Fence!Init
  PROVE  LoopInit /\ FenceInv
<1>1. /\ LoopInit
      /\ opened = [p \in Rank |-> [w \in 0 .. 1 |-> 0]]
      /\ closed = [p \in Rank |-> [w \in 0 .. 1 |-> 0]]
      /\ phase = [p \in Rank |-> "compute"] /\ puts = [p \in Rank |-> {}]
  <2>1. /\ Fence!LoopInit
        /\ opened = [p \in Rank |-> [w \in 0 .. 1 |-> 0]]
        /\ closed = [p \in Rank |-> [w \in 0 .. 1 |-> 0]]
        /\ phase = [p \in Rank |-> "compute"] /\ puts = [p \in Rank |-> {}]
    BY DEF Fence!Init, Fence!Rank, Rank
  <2>2. LoopInit
    BY <2>1, FenceLoop
  <2>3. QED
    BY <2>1, <2>2
<1>2. gen = [p \in Rank |-> 0]
  BY <1>1 DEF LoopInit
<1>3. \A p \in Rank : Opens(p) = 0 /\ Closes(p) = 0
  BY <1>1, <1>2 DEF Opens, Closes
<1>4. \A w \in 0 .. 1 : Count(0, w) = 0
  BY DEF Count
<1>5. /\ opened = [p \in Rank |-> [w \in 0 .. 1 |-> Count(Opens(p), w)]]
      /\ closed = [p \in Rank |-> [w \in 0 .. 1 |-> Count(Closes(p), w)]]
  BY <1>1, <1>3, <1>4
<1>6. ASSUME NEW p \in Rank, NEW q \in Neighbours(p)
      PROVE  FencePair(p, q)
  <2>1. q \in Rank
    BY NeighbourIs
  <2>2. QED
    BY <1>1, <1>2, <2>1 DEF FencePair
<1>7. QED
  BY <1>1, <1>2, <1>3, <1>5, <1>6 DEF FenceInv

(* What the fences counted per window say of the generations.              *)
LEMMA FenceTypes ==
  ASSUME LoopInv, FenceInv, NEW p \in Rank
  PROVE  /\ gen[p] \in Nat /\ cur[p] = gen[p] % 2 /\ Opens(p) \in Nat /\ Closes(p) \in Nat
         /\ \A w \in 0 .. 1 : /\ opened[p][w] = Count(Opens(p), w)
                              /\ closed[p][w] = Count(Closes(p), w)
         /\ [s \in Rank |-> Opens(s)] \in [Rank -> Nat]
         /\ [s \in Rank |-> Closes(s)] \in [Rank -> Nat]
<1>1. \A s \in Rank : gen[s] \in Nat
  BY CurIs
<1>2. cur[p] = gen[p] % 2
  BY CurIs
<1>3. \A s \in Rank : Opens(s) \in Nat /\ Closes(s) \in Nat
  BY <1>1 DEF Opens, Closes
<1>4. \A w \in 0 .. 1 : /\ opened[p][w] = Count(Opens(p), w)
                        /\ closed[p][w] = Count(Closes(p), w)
  BY DEF FenceInv
<1>5. QED
  BY <1>1, <1>2, <1>3, <1>4

(* The fence that opens the epoch.                                         *)
LEMMA FenceOpen ==
  ASSUME LoopInv, FenceInv, NEW p \in Rank, Fence!OpenFence(p)
  PROVE  LoopInv' /\ FenceInv' /\ Stays
<1>1. /\ gen[p] < Iter /\ phase[p] = "compute" /\ phase' = [phase EXCEPT ![p] = "epoch"]
      /\ opened' = [opened EXCEPT ![p][cur[p]] = @ + 1]
      /\ puts' = [puts EXCEPT ![p] = Neighbours(p)] /\ closed' = closed
      /\ UNCHANGED <<start, gen, buf, cur>>
  <2>1. /\ Fence!MoreToDo(p) /\ phase[p] = "compute" /\ phase' = [phase EXCEPT ![p] = "epoch"]
        /\ opened' = [opened EXCEPT ![p][Fence!Window(p)] = @ + 1]
        /\ puts' = [puts EXCEPT ![p] = Fence!Neighbours(p)] /\ closed' = closed
        /\ UNCHANGED Fence!loopVars
    BY DEF Fence!OpenFence
  <2>2. Fence!Window(p) = cur[p] /\ Fence!Neighbours(p) = Neighbours(p) /\ gen[p] < Iter
    BY <2>1, FenceLoop
  <2>3. QED
    BY <2>1, <2>2 DEF Fence!loopVars
<1>2. LoopInv' /\ \A s, t : HaloRight(s, t)' = HaloRight(s, t)
  BY <1>1, LoopSame
<1>3. /\ phase \in [Rank -> {"compute", "epoch", "closing"}] /\ puts \in [Rank -> SUBSET Rank]
      /\ \A s \in Rank : /\ phase[s] # "compute" => gen[s] < Iter
                         /\ phase[s] = "compute" => puts[s] = {}
                         /\ puts[s] \subseteq Neighbours(s)
                         /\ \A t \in Rank : gen[s] <= Closes(t)
                         /\ \A t \in Neighbours(s) : FencePair(s, t)
  BY DEF FenceInv
<1>4. /\ phase' \in [Rank -> {"compute", "epoch", "closing"}] /\ phase'[p] = "epoch"
      /\ \A s \in Rank : s # p => phase'[s] = phase[s]
  BY <1>1, <1>3
<1>5. /\ puts' \in [Rank -> SUBSET Rank] /\ puts'[p] = Neighbours(p)
      /\ \A s \in Rank : s # p => puts'[s] = puts[s]
  BY <1>1, <1>3 DEF Neighbours
<1>6. /\ Opens(p) = gen[p] /\ Opens(p)' = gen[p] + 1 /\ \A s \in Rank : s # p => Opens(s)' = Opens(s)
      /\ Closes(p) = gen[p] /\ \A s \in Rank : Closes(s)' = Closes(s)
  BY <1>1, <1>4, CurIs DEF Opens, Closes
<1>7. opened' = [s \in Rank |-> [w \in 0 .. 1 |-> Count(Opens(s)', w)]]
  <2> DEFINE N == [s \in Rank |-> Opens(s)]
             M == [s \in Rank |-> Opens(s)']
  <2>1. N \in [Rank -> Nat] /\ cur[p] = gen[p] % 2
    BY FenceTypes
  <2>2. M = [N EXCEPT ![p] = @ + 1] /\ N[p] = gen[p]
    BY <1>6
  <2>3. opened = [s \in Rank |-> [w \in 0 .. 1 |-> Count(N[s], w)]]
    BY DEF FenceInv
  <2>4. opened' = [opened EXCEPT ![p][N[p] % 2] = @ + 1]
    BY <1>1, <2>1, <2>2
  <2> HIDE DEF N, M
  <2>5. opened' = [s \in Rank |-> [w \in 0 .. 1 |-> Count([N EXCEPT ![p] = @ + 1][s], w)]]
    BY <2>1, <2>3, <2>4, Counted, Zenon
  <2>6. QED
    BY <2>2, <2>5 DEF M
<1>8. closed' = [s \in Rank |-> [w \in 0 .. 1 |-> Count(Closes(s)', w)]]
  BY <1>1, <1>6 DEF FenceInv
<1>9. ASSUME NEW s \in Rank, NEW t \in Neighbours(s)
      PROVE  FencePair(s, t)'
  <2>1. t \in Rank /\ FencePair(s, t)
    BY <1>3, NeighbourIs
  <2>2. CASE s # p
    BY <1>1, <1>2, <1>4, <1>5, <2>1, <2>2 DEF FencePair
  <2>3. CASE s = p
    <3>1. gen[t] <= gen[p] /\ t \in puts'[p]
      BY <1>3, <1>5, <1>6, <2>1, <2>3
    <3>2. gen[p] = gen[t] + 1 => HaloRight(p, t)
      BY <2>1, <2>3 DEF FencePair
    <3>3. QED
      BY <1>1, <1>2, <1>4, <2>3, <3>1, <3>2 DEF FencePair
  <2>4. QED
    BY <2>2, <2>3
<1>10. ASSUME NEW s \in Rank
       PROVE  /\ phase'[s] # "compute" => gen'[s] < Iter
              /\ phase'[s] = "compute" => puts'[s] = {}
              /\ puts'[s] \subseteq Neighbours(s)
              /\ \A t \in Rank : gen'[s] <= Closes(t)'
  BY <1>1, <1>3, <1>4, <1>5, <1>6
<1>11. FenceInv'
  BY <1>4, <1>5, <1>7, <1>8, <1>9, <1>10 DEF FenceInv, Neighbours, Rank
<1>12. QED
  BY <1>1, <1>2, <1>11 DEF Stays

(* A put that is carried out fills the halo of a neighbour in the same     *)
(* generation.                                                             *)
LEMMA FencePut ==
  ASSUME LoopInv, FenceInv, NEW p \in Rank, NEW q \in Neighbours(p), Fence!Put(p, q)
  PROVE  LoopInv' /\ FenceInv' /\ Stays
<1> DEFINE r == EdgeRow(p, q)
<1>1. /\ q \in puts[p] /\ opened[q][cur[p]] >= opened[p][cur[p]]
      /\ StoreHalo(p, q, cur[p], r) /\ puts' = [puts EXCEPT ![p] = @ \ {q}]
      /\ UNCHANGED <<start, gen, cur, opened, closed, phase>>
  <2>1. /\ q \in puts[p] /\ Fence!TargetReady(p, q)
        /\ Fence!StoreHalo(p, q, Fence!Window(p), Fence!EdgeRow(p, q))
        /\ puts' = [puts EXCEPT ![p] = @ \ {q}]
        /\ UNCHANGED <<start, gen, cur, opened, closed, phase>>
    BY DEF Fence!Put
  <2>2. QED
    BY <2>1, FenceLoop DEF Fence!TargetReady
<1>2. Sane(p, q, r) /\ Right(gen[p], p, q, r)
  BY EdgeIsRight
<1> HIDE DEF r
<1>3. /\ phase \in [Rank -> {"compute", "epoch", "closing"}] /\ puts \in [Rank -> SUBSET Rank]
      /\ \A s \in Rank : /\ phase[s] # "compute" => gen[s] < Iter
                         /\ phase[s] = "compute" => puts[s] = {}
                         /\ puts[s] \subseteq Neighbours(s)
                         /\ \A t \in Rank : gen[s] <= Closes(t)
                         /\ \A t \in Neighbours(s) : FencePair(s, t)
  BY DEF FenceInv
<1>4. q \in Rank
  BY NeighbourIs
<1>5. /\ gen[p] \in Nat /\ gen[q] \in Nat /\ cur[p] = gen[p] % 2 /\ cur[q] = gen[q] % 2
      /\ cur[p] \in 0 .. 1
  BY <1>4, CurIs
<1>6. gen[q] = gen[p] /\ cur[p] = cur[q]
  <2>1. phase[p] # "compute" /\ Opens(p) = gen[p] + 1
    BY <1>1, <1>3 DEF Opens
  <2>2. Count(Opens(q), gen[p] % 2) >= Count(gen[p] + 1, gen[p] % 2) /\ Opens(q) \in Nat
    <3>1. opened[p][cur[p]] = Count(Opens(p), cur[p])
      BY <1>5, FenceTypes
    <3>2. opened[q][cur[p]] = Count(Opens(q), cur[p]) /\ Opens(q) \in Nat
      BY <1>4, <1>5, FenceTypes
    <3>3. QED
      BY <1>1, <1>5, <2>1, <3>1, <3>2
  <2>3. Opens(q) >= gen[p] + 1
    BY <1>5, <2>2, CountReaches
  <2>4. gen[q] <= gen[p] /\ Opens(q) <= gen[q] + 1
    BY <1>1, <1>3, <1>5 DEF FencePair, Opens
  <2>5. QED
    BY <1>5, <2>2, <2>3, <2>4
<1>7. /\ LoopInv' /\ HaloRight(p, q)'
      /\ \A s \in Rank : \A t \in Neighbours(s) :
           s # p \/ t # q => HaloRight(s, t)' = HaloRight(s, t)
  <2>1. UNCHANGED <<start, gen, cur>> /\ StoreHalo(p, q, cur[p], r)
    BY <1>1
  <2>2. Right(gen[q], p, q, r)
    BY <1>2, <1>6
  <2>3. QED
    BY <1>2, <1>5, <1>6, <2>1, <2>2, LoopStored
<1>8. /\ puts' \in [Rank -> SUBSET Rank] /\ puts'[p] = puts[p] \ {q}
      /\ \A s \in Rank : s # p => puts'[s] = puts[s]
  BY <1>1, <1>3
<1>9. \A s : Opens(s)' = Opens(s) /\ Closes(s)' = Closes(s)
  BY <1>1 DEF Opens, Closes
<1>10. /\ opened' = [s \in Rank |-> [w \in 0 .. 1 |-> Count(Opens(s)', w)]]
       /\ closed' = [s \in Rank |-> [w \in 0 .. 1 |-> Count(Closes(s)', w)]]
  BY <1>1, <1>9 DEF FenceInv
<1>11. ASSUME NEW s \in Rank, NEW t \in Neighbours(s)
       PROVE  FencePair(s, t)'
  <2>1. t \in Rank /\ FencePair(s, t)
    BY <1>3, NeighbourIs
  <2>2. CASE s # p \/ t # q
    <3>1. t \in puts'[s] <=> t \in puts[s]
      BY <1>8, <2>2
    <3>2. QED
      BY <1>1, <1>7, <2>1, <2>2, <3>1 DEF FencePair
  <2>3. CASE s = p /\ t = q
    BY <1>1, <1>5, <1>6, <1>7, <1>8, <2>3 DEF FencePair
  <2>4. QED
    BY <2>2, <2>3
<1>12. ASSUME NEW s \in Rank
       PROVE  /\ phase'[s] # "compute" => gen'[s] < Iter
              /\ phase'[s] = "compute" => puts'[s] = {}
              /\ puts'[s] \subseteq Neighbours(s)
              /\ \A t \in Rank : gen'[s] <= Closes(t)'
  BY <1>1, <1>3, <1>8, <1>9
<1>13. FenceInv'
  BY <1>1, <1>3, <1>8, <1>10, <1>11, <1>12 DEF FenceInv, Neighbours, Rank
<1>14. QED
  BY <1>1, <1>7, <1>13 DEF Stays

(* A rank enters the fence that closes the epoch.                          *)
LEMMA FenceClose ==
  ASSUME LoopInv, FenceInv, NEW p \in Rank, Fence!CloseFence(p)
  PROVE  LoopInv' /\ FenceInv' /\ Stays
<1>1. /\ phase[p] = "epoch" /\ phase' = [phase EXCEPT ![p] = "closing"]
      /\ closed' = [closed EXCEPT ![p][cur[p]] = @ + 1]
      /\ puts' = puts /\ opened' = opened /\ UNCHANGED <<start, gen, buf, cur>>
  <2>1. /\ phase[p] = "epoch" /\ phase' = [phase EXCEPT ![p] = "closing"]
        /\ closed' = [closed EXCEPT ![p][Fence!Window(p)] = @ + 1]
        /\ puts' = puts /\ opened' = opened /\ UNCHANGED Fence!loopVars
    BY DEF Fence!CloseFence
  <2>2. Fence!Window(p) = cur[p]
    BY FenceLoop
  <2>3. QED
    BY <2>1, <2>2 DEF Fence!loopVars
<1>2. LoopInv' /\ \A s, t : HaloRight(s, t)' = HaloRight(s, t)
  BY <1>1, LoopSame
<1>3. /\ phase \in [Rank -> {"compute", "epoch", "closing"}] /\ puts \in [Rank -> SUBSET Rank]
      /\ \A s \in Rank : /\ phase[s] # "compute" => gen[s] < Iter
                         /\ phase[s] = "compute" => puts[s] = {}
                         /\ puts[s] \subseteq Neighbours(s)
                         /\ \A t \in Rank : gen[s] <= Closes(t)
                         /\ \A t \in Neighbours(s) : FencePair(s, t)
  BY DEF FenceInv
<1>4. /\ phase' \in [Rank -> {"compute", "epoch", "closing"}] /\ phase'[p] = "closing"
      /\ \A s \in Rank : s # p => phase'[s] = phase[s]
  BY <1>1, <1>3
<1>5. /\ \A s \in Rank : Opens(s)' = Opens(s)
      /\ Closes(p) = gen[p] /\ Closes(p)' = gen[p] + 1
      /\ \A s \in Rank : s # p => Closes(s)' = Closes(s)
  BY <1>1, <1>4, CurIs DEF Opens, Closes
<1>6. closed' = [s \in Rank |-> [w \in 0 .. 1 |-> Count(Closes(s)', w)]]
  <2> DEFINE N == [s \in Rank |-> Closes(s)]
             M == [s \in Rank |-> Closes(s)']
  <2>1. N \in [Rank -> Nat] /\ cur[p] = gen[p] % 2
    BY FenceTypes
  <2>2. M = [N EXCEPT ![p] = @ + 1] /\ N[p] = gen[p]
    BY <1>5
  <2>3. closed = [s \in Rank |-> [w \in 0 .. 1 |-> Count(N[s], w)]]
    BY DEF FenceInv
  <2>4. closed' = [closed EXCEPT ![p][N[p] % 2] = @ + 1]
    BY <1>1, <2>1, <2>2
  <2> HIDE DEF N, M
  <2>5. closed' = [s \in Rank |-> [w \in 0 .. 1 |-> Count([N EXCEPT ![p] = @ + 1][s], w)]]
    BY <2>1, <2>3, <2>4, Counted
  <2>6. QED
    BY <2>2, <2>5 DEF M
<1>7. opened' = [s \in Rank |-> [w \in 0 .. 1 |-> Count(Opens(s)', w)]]
  BY <1>1, <1>5 DEF FenceInv
<1>8. ASSUME NEW s \in Rank, NEW t \in Neighbours(s)
      PROVE  FencePair(s, t)'
  <2>1. FencePair(s, t)
    BY <1>3
  <2>2. phase'[s] = "compute" <=> phase[s] = "compute"
    BY <1>1, <1>4
  <2>3. QED
    BY <1>1, <1>2, <2>1, <2>2 DEF FencePair
<1>9. ASSUME NEW s \in Rank
      PROVE  /\ phase'[s] # "compute" => gen'[s] < Iter
             /\ phase'[s] = "compute" => puts'[s] = {}
             /\ puts'[s] \subseteq Neighbours(s)
  BY <1>1, <1>3, <1>4
<1>10. ASSUME NEW s \in Rank, NEW t \in Rank
       PROVE  gen'[s] <= Closes(t)'
  <2>1. gen[s] <= Closes(t) /\ gen[s] \in Nat /\ gen[p] \in Nat
    BY <1>3, CurIs
  <2>2. QED
    BY <1>1, <1>5, <2>1
<1>11. FenceInv'
  BY <1>1, <1>3, <1>4, <1>6, <1>7, <1>8, <1>9, <1>10 DEF FenceInv, Neighbours, Rank
<1>12. QED
  BY <1>1, <1>2, <1>11 DEF Stays

(* The closing fence returns when every rank has entered it and the puts   *)
(* are done: both halos are right.                                         *)
LEMMA FenceGeneration ==
  ASSUME LoopInv, FenceInv, NEW p \in Rank, Fence!Generation(p)
  PROVE  LoopInv' /\ FenceInv' /\ Moves(p)
<1>1. /\ phase[p] = "closing" /\ puts[p] = {} /\ Compute(p)
      /\ \A q \in Rank : closed[q][cur[p]] >= closed[p][cur[p]]
      /\ \A q \in Neighbours(p) : p \in puts[q] => cur[q] # cur[p]
      /\ phase' = [phase EXCEPT ![p] = "compute"] /\ UNCHANGED <<opened, closed, puts>>
  <2>1. /\ phase[p] = "closing" /\ Fence!FenceDone(p) /\ Fence!Compute(p)
        /\ phase' = [phase EXCEPT ![p] = "compute"] /\ UNCHANGED <<opened, closed, puts>>
    BY DEF Fence!Generation
  <2>2. QED
    BY <2>1, FenceLoop DEF Fence!FenceDone, Fence!Rank, Rank
<1>2. /\ phase \in [Rank -> {"compute", "epoch", "closing"}] /\ puts \in [Rank -> SUBSET Rank]
      /\ \A s \in Rank : /\ phase[s] # "compute" => gen[s] < Iter
                         /\ phase[s] = "compute" => puts[s] = {}
                         /\ puts[s] \subseteq Neighbours(s)
                         /\ \A t \in Rank : gen[s] <= Closes(t)
                         /\ \A t \in Neighbours(s) : FencePair(s, t)
  BY DEF FenceInv
<1>3. gen[p] < Iter /\ gen[p] \in Nat /\ \A q \in Rank : gen[q] \in Nat
  BY <1>1, <1>2, CurIs
<1>4. ASSUME NEW q \in Rank
      PROVE  Closes(q) >= gen[p] + 1 /\ gen[q] <= gen[p] + 1 /\ gen[q] >= gen[p]
  <2>1. Closes(p) = gen[p] + 1 /\ cur[p] = gen[p] % 2 /\ cur[p] \in 0 .. 1
    BY <1>1, CurIs DEF Closes
  <2>2. /\ closed[p][cur[p]] = Count(Closes(p), cur[p])
    BY <2>1, FenceTypes
  <2>3. closed[q][cur[p]] = Count(Closes(q), cur[p]) /\ Closes(q) \in Nat
    BY <2>1, FenceTypes
  <2>4. Count(Closes(q), gen[p] % 2) >= Count(gen[p] + 1, gen[p] % 2)
    BY <1>1, <2>1, <2>2, <2>3
  <2>5. Closes(q) >= gen[p] + 1
    BY <1>3, <2>3, <2>4, CountReaches
  <2>6. gen[q] <= gen[p] + 1
    BY <1>2, <2>1
  <2>7. Closes(q) <= gen[q] + 1
    BY <1>3 DEF Closes
  <2>8. QED
    BY <1>3, <2>3, <2>5, <2>6, <2>7
<1>5. ASSUME NEW q \in Neighbours(p)
      PROVE  /\ q \in Rank /\ p \in Neighbours(q) /\ q # p /\ HaloRight(q, p)
             /\ gen[q] = gen[p] => p \notin puts[q] /\ phase[q] # "compute"
             /\ gen[q] \in {gen[p], gen[p] + 1}
  <2>1. q \in Rank /\ p \in Neighbours(q) /\ q # p
    BY NeighbourIs
  <2>2. gen[q] \in {gen[p], gen[p] + 1}
    BY <1>3, <1>4, <2>1
  <2>3. ASSUME gen[q] = gen[p]
        PROVE  p \notin puts[q] /\ phase[q] # "compute"
    <3>1. cur[q] = gen[q] % 2 /\ cur[p] = gen[p] % 2
      BY <2>1, CurIs
    <3>2. p \notin puts[q]
      BY <1>1, <2>3, <3>1
    <3>3. Closes(q) # gen[q]
      BY <1>3, <1>4, <2>1, <2>3
    <3>4. QED
      BY <1>3, <2>1, <3>2, <3>3 DEF Closes
  <2>4. HaloRight(q, p)
    BY <1>2, <2>1, <2>2, <2>3 DEF FencePair
  <2>5. QED
    BY <2>1, <2>2, <2>3, <2>4
<1>6. /\ LoopInv' /\ gen' = [gen EXCEPT ![p] = @ + 1] /\ start' = start
      /\ \A s \in Rank, t \in Rank : t # p => HaloRight(s, t)' = HaloRight(s, t)
  BY <1>1, <1>3, <1>5, LoopComputed
<1>7. /\ phase' \in [Rank -> {"compute", "epoch", "closing"}] /\ phase'[p] = "compute"
      /\ \A s \in Rank : s # p => phase'[s] = phase[s]
  BY <1>1, <1>2
<1>8. gen'[p] = gen[p] + 1 /\ \A s \in Rank : s # p => gen'[s] = gen[s]
  <2>1. gen \in [Rank -> 0 .. Iter]
    BY DEF LoopInv, LoopIn
  <2>2. QED
    BY <1>6, <2>1
<1>9. \A s \in Rank : Opens(s)' = Opens(s) /\ Closes(s)' = Closes(s)
  BY <1>1, <1>3, <1>7, <1>8 DEF Opens, Closes
<1>10. /\ opened' = [s \in Rank |-> [w \in 0 .. 1 |-> Count(Opens(s)', w)]]
       /\ closed' = [s \in Rank |-> [w \in 0 .. 1 |-> Count(Closes(s)', w)]]
  BY <1>1, <1>9 DEF FenceInv
<1>11. ASSUME NEW s \in Rank, NEW t \in Neighbours(s)
       PROVE  FencePair(s, t)'
  <2>1. t \in Rank /\ FencePair(s, t) /\ s # t /\ s \in Neighbours(t)
    BY <1>2, NeighbourIs
  <2>2. CASE s # p /\ t # p
    BY <1>1, <1>6, <1>7, <1>8, <2>1, <2>2 DEF FencePair
  <2>3. CASE s = p
    <3>1. t # p /\ HaloRight(p, t)' = HaloRight(p, t) /\ t \notin puts'[p]
      BY <1>1, <1>6, <2>1, <2>3
    <3>2. gen'[p] = gen'[t] + 1 => gen[p] = gen[t]
      BY <1>3, <1>8, <2>1, <2>3
    <3>3. gen'[p] = gen'[t] + 1 => HaloRight(p, t)'
      BY <1>1, <2>1, <2>3, <3>1, <3>2 DEF FencePair
    <3>4. QED
      BY <1>7, <2>3, <3>1, <3>3 DEF FencePair
  <2>4. CASE t = p
    <3>1. s \in Neighbours(p) /\ gen[s] \in {gen[p], gen[p] + 1}
      BY <1>5, <2>1, <2>4
    <3>2. CASE gen[s] = gen[p]
      <4>1. p \notin puts'[s] /\ gen'[s] = gen[p] /\ gen'[p] = gen[p] + 1
        BY <1>1, <1>5, <1>8, <2>1, <2>4, <3>1, <3>2
      <4>2. QED
        BY <1>3, <2>4, <4>1 DEF FencePair
    <3>3. CASE gen[s] = gen[p] + 1
      <4>1. phase[s] # "compute" => p \in puts[s]
        BY <1>3, <2>1, <2>4, <3>3 DEF FencePair
      <4>2. /\ phase'[s] # "compute" => p \in puts'[s]
            /\ gen'[s] = gen[p] + 1 /\ gen'[p] = gen[p] + 1
        BY <1>1, <1>7, <1>8, <2>1, <2>4, <3>3, <4>1
      <4>3. QED
        BY <1>3, <2>4, <4>2 DEF FencePair
    <3>4. QED
      BY <3>1, <3>2, <3>3
  <2>5. QED
    BY <2>2, <2>3, <2>4
<1>12. ASSUME NEW s \in Rank
       PROVE  /\ phase'[s] # "compute" => gen'[s] < Iter
              /\ phase'[s] = "compute" => puts'[s] = {}
              /\ puts'[s] \subseteq Neighbours(s)
              /\ \A t \in Rank : gen'[s] <= Closes(t)'
  <2>1. CASE s = p
    BY <1>1, <1>2, <1>4, <1>7, <1>8, <1>9, <2>1
  <2>2. CASE s # p
    BY <1>1, <1>2, <1>7, <1>8, <1>9, <2>2
  <2>3. QED
    BY <2>1, <2>2
<1>13. FenceInv'
  <2>1. puts' \in [Rank -> SUBSET Rank]
    BY <1>1, <1>2
  <2>2. QED
    BY <1>7, <1>10, <1>11, <1>12, <2>1 DEF FenceInv, Neighbours, Rank
<1>14. Moves(p)
  BY <1>3, <1>4, <1>5, <1>6 DEF Moves
<1>15. QED
  BY <1>6, <1>13, <1>14

-----------------------------------------------------------------------------
(* life_pscw.                                                              *)
LEMMA PscwStart ==
  ASSUME Pscw!Init
  PROVE  LoopInit /\ PscwInv
<1>1. /\ LoopInit
      /\ posted = [p \in Rank |-> [w \in 0 .. 1 |-> 0]]
      /\ completed = [p \in Rank |-> [w \in 0 .. 1 |-> 0]]
      /\ phase = [p \in Rank |-> "compute"] /\ toPut = [p \in Rank |-> {}]
      /\ flight = [p \in Rank |-> [q \in Rank |-> [w \in 0 .. 1 |-> <<>>]]]
  <2>1. /\ Pscw!LoopInit
        /\ posted = [p \in Rank |-> [w \in 0 .. 1 |-> 0]]
        /\ completed = [p \in Rank |-> [w \in 0 .. 1 |-> 0]]
        /\ phase = [p \in Rank |-> "compute"] /\ toPut = [p \in Rank |-> {}]
        /\ flight = [p \in Rank |-> [q \in Rank |-> [w \in 0 .. 1 |-> <<>>]]]
    BY DEF Pscw!Init, Pscw!Rank, Rank
  <2>2. LoopInit
    BY <2>1, PscwLoop
  <2>3. QED
    BY <2>1, <2>2
<1>2. gen = [p \in Rank |-> 0]
  BY <1>1 DEF LoopInit
<1>3. \A p \in Rank : Posts(p) = 0 /\ Completes(p) = 0 /\ \A q : Puts(p, q) = 0
  BY <1>1, <1>2 DEF Posts, Completes, Puts
<1>4. \A w \in 0 .. 1 : Count(0, w) = 0
  BY DEF Count
<1>5. /\ posted = [p \in Rank |-> [w \in 0 .. 1 |-> Count(Posts(p), w)]]
      /\ completed = [p \in Rank |-> [w \in 0 .. 1 |-> Count(Completes(p), w)]]
  BY <1>1, <1>3, <1>4
<1>6. ASSUME NEW p \in Rank, NEW q \in Rank, NEW w \in 0 .. 1
      PROVE  IsSeq(flight[p][q][w]) /\ Len(flight[p][q][w]) = 0
  <2>1. flight[p][q][w] = <<>>
    BY <1>1
  <2>2. QED
    BY <2>1, EmptyQueue
<1>7. FlightShape
  BY <1>1, <1>6 DEF FlightShape
<1>8. ASSUME NEW p \in Rank, NEW q \in Neighbours(p)
      PROVE  PscwPair(p, q)
  <2>1. /\ q \in Rank /\ gen[q] = 0 /\ Completes(p) = 0 /\ Puts(p, q) = 0
        /\ 0 % 2 = 0 /\ (0 + 1) % 2 = 1
    BY <1>2, <1>3, NeighbourIs
  <2>2. Len(flight[p][q][0]) = 0 /\ Len(flight[p][q][1]) = 0
    BY <1>6, <2>1
  <2>3. QED
    BY <2>1, <2>2 DEF PscwPair
<1>9. QED
  BY <1>1, <1>2, <1>5, <1>6, <1>7, <1>8 DEF PscwInv

(* What the calls counted per window say of the generations.               *)
LEMMA PscwTypes ==
  ASSUME LoopInv, PscwInv, NEW p \in Rank
  PROVE  /\ gen[p] \in Nat /\ cur[p] = gen[p] % 2 /\ cur[p] \in 0 .. 1
         /\ Posts(p) \in {gen[p], gen[p] + 1} /\ Completes(p) \in {gen[p], gen[p] + 1}
         /\ \A w \in 0 .. 1 : /\ posted[p][w] = Count(Posts(p), w)
                              /\ completed[p][w] = Count(Completes(p), w)
         /\ [s \in Rank |-> Posts(s)] \in [Rank -> Nat]
         /\ [s \in Rank |-> Completes(s)] \in [Rank -> Nat]
<1>1. \A s \in Rank : gen[s] \in Nat
  BY CurIs
<1>2. cur[p] = gen[p] % 2 /\ cur[p] \in 0 .. 1
  BY CurIs
<1>3. \A s \in Rank : /\ Posts(s) \in {gen[s], gen[s] + 1} /\ Posts(s) \in Nat
                      /\ Completes(s) \in {gen[s], gen[s] + 1} /\ Completes(s) \in Nat
  BY <1>1 DEF Posts, Completes
<1>4. \A w \in 0 .. 1 : /\ posted[p][w] = Count(Posts(p), w)
                        /\ completed[p][w] = Count(Completes(p), w)
  BY DEF PscwInv
<1>5. QED
  BY <1>1, <1>2, <1>3, <1>4

(* A pair of neighbours, one row in the window in use and one in the other.*)
LEMMA PscwPairIs ==
  ASSUME LoopInv, PscwInv, NEW p \in Rank, NEW q \in Neighbours(p)
  PROVE  /\ q \in Rank /\ p \in Neighbours(q) /\ p # q
         /\ gen[p] \in Nat /\ gen[q] \in Nat
         /\ gen[q] <= Completes(p) /\ gen[p] <= Completes(q)
         /\ Puts(p, q) \in {gen[p], gen[p] + 1}
         /\ gen[q] % 2 \in 0 .. 1 /\ (gen[q] + 1) % 2 \in 0 .. 1
         /\ gen[q] % 2 # (gen[q] + 1) % 2
         /\ \A w \in 0 .. 1 : w = gen[q] % 2 \/ w = (gen[q] + 1) % 2
         /\ PscwPair(p, q)
<1>1. q \in Rank /\ p \in Neighbours(q) /\ p # q
  BY NeighbourIs
<1>2. gen[p] \in Nat /\ gen[q] \in Nat
  BY <1>1, CurIs
<1>3. PscwPair(p, q) /\ PscwPair(q, p)
  BY <1>1 DEF PscwInv
<1>4. gen[q] <= Completes(p) /\ gen[p] <= Completes(q)
  BY <1>3 DEF PscwPair
<1>5. Puts(p, q) \in {gen[p], gen[p] + 1}
  BY <1>2 DEF Puts
<1>6. /\ gen[q] % 2 \in 0 .. 1 /\ (gen[q] + 1) % 2 \in 0 .. 1
      /\ gen[q] % 2 # (gen[q] + 1) % 2
      /\ \A w \in 0 .. 1 : w = gen[q] % 2 \/ w = (gen[q] + 1) % 2
  BY <1>2
<1>7. QED
  BY <1>1, <1>2, <1>3, <1>4, <1>5, <1>6

(* OneRowInFlight: at most one row per pair of ranks and window.           *)
LEMMA OneInFlight ==
  ASSUME LoopInv, PscwInv, NEW p \in Rank, NEW q \in Rank, NEW w \in 0 .. 1
  PROVE  Len(flight[p][q][w]) <= 1
<1>1. CASE q \notin Neighbours(p)
  <2>1. Len(flight[p][q][w]) = 0
    BY <1>1 DEF PscwInv
  <2>2. QED
    BY <2>1
<1>2. CASE q \in Neighbours(p)
  <2>1. /\ PscwPair(p, q)
        /\ w = gen[q] % 2 \/ w = (gen[q] + 1) % 2
    BY <1>2, PscwPairIs
  <2>2. /\ \/ Len(flight[p][q][gen[q] % 2]) = 0
           \/ Len(flight[p][q][gen[q] % 2]) = 1
        /\ \/ Len(flight[p][q][(gen[q] + 1) % 2]) = 0
           \/ Len(flight[p][q][(gen[q] + 1) % 2]) = 1
    BY <2>1 DEF PscwPair, InFlight
  <2>3. Len(flight[p][q][w]) = 0 \/ Len(flight[p][q][w]) = 1
    <3>1. CASE w = gen[q] % 2
      BY <2>2, <3>1
    <3>2. CASE w = (gen[q] + 1) % 2
      BY <2>2, <3>2
    <3>3. QED
      BY <2>1, <3>1, <3>2
  <2>4. CASE Len(flight[p][q][w]) = 0
    BY <2>4
  <2>5. CASE Len(flight[p][q][w]) = 1
    BY <2>5
  <2>6. QED
    BY <2>3, <2>4, <2>5
<1>3. QED
  BY <1>1, <1>2

(* The facts PscwInv states of each rank by itself.                        *)
PscwRank(p) ==
  /\ phase[p] # "compute" => gen[p] < Iter
  /\ phase[p] # "access" => toPut[p] = {}
  /\ toPut[p] \subseteq Neighbours(p)
  /\ \A q \in Rank \ Neighbours(p), w \in 0 .. 1 : Len(flight[p][q][w]) = 0

PscwBase == /\ phase \in [Rank -> {"compute", "start", "access", "wait"}]
            /\ toPut \in [Rank -> SUBSET Rank]
            /\ FlightShape

(* PscwInv in the parts its steps disturb one by one.                      *)
LEMMA PscwParts ==
  PscwInv <=> /\ PscwBase
              /\ posted = [p \in Rank |-> [w \in 0 .. 1 |-> Count(Posts(p), w)]]
              /\ completed = [p \in Rank |-> [w \in 0 .. 1 |-> Count(Completes(p), w)]]
              /\ \A p \in Rank : PscwRank(p) /\ \A q \in Neighbours(p) : PscwPair(p, q)
BY DEF PscwInv, PscwBase, PscwRank

(* What is said of a row in flight depends on nothing that changes but the *)
(* row.                                                                    *)
LEMMA InFlightSame ==
  ASSUME start' = start
  PROVE  \A f, k, s, t : InFlight(f, k, s, t)' = InFlight(f, k, s, t)
BY DEF InFlight, Sane, Shape, Bottom, DeadRow, Right, RightIn, HaloIndex, MyRows, MyRowOffset,
       MLIFE_myrows, MLIFE_myrowoffset, Count

(* MPI_Win_post.                                                           *)
LEMMA PscwPost ==
  ASSUME LoopInv, PscwInv, NEW p \in Rank, Pscw!Post(p)
  PROVE  LoopInv' /\ PscwInv' /\ Stays
<1>1. /\ gen[p] < Iter /\ phase[p] = "compute" /\ phase' = [phase EXCEPT ![p] = "start"]
      /\ posted' = [posted EXCEPT ![p][cur[p]] = @ + 1]
      /\ toPut' = toPut /\ completed' = completed
      /\ flight' = flight /\ UNCHANGED <<start, gen, buf, cur>>
  <2>1. /\ Pscw!MoreToDo(p) /\ phase[p] = "compute" /\ phase' = [phase EXCEPT ![p] = "start"]
        /\ posted' = [posted EXCEPT ![p][Pscw!Window(p)] = @ + 1]
        /\ toPut' = toPut /\ completed' = completed
        /\ flight' = flight /\ UNCHANGED Pscw!loopVars
    BY DEF Pscw!Post
  <2>2. Pscw!Window(p) = cur[p] /\ gen[p] < Iter
    BY <2>1, PscwLoop
  <2>3. QED
    BY <2>1, <2>2 DEF Pscw!loopVars
<1>2. LoopInv' /\ \A s, t : HaloRight(s, t)' = HaloRight(s, t)
  BY <1>1, LoopSame
<1>3. PscwBase /\ \A s \in Rank : PscwRank(s) /\ \A t \in Neighbours(s) : PscwPair(s, t)
  BY PscwParts
<1>4. /\ phase' \in [Rank -> {"compute", "start", "access", "wait"}] /\ phase'[p] = "start"
      /\ \A s \in Rank : s # p => phase'[s] = phase[s]
  BY <1>1, <1>3 DEF PscwBase
<1>5. toPut' \in [Rank -> SUBSET Rank]
  BY <1>1, <1>3 DEF PscwBase
<1>6. /\ Posts(p) = gen[p] /\ Posts(p)' = gen[p] + 1 /\ \A s \in Rank : s # p => Posts(s)' = Posts(s)
      /\ \A s \in Rank : Completes(s)' = Completes(s)
      /\ \A s \in Rank : \A t \in Neighbours(s) : Puts(s, t)' = Puts(s, t)
  BY <1>1, <1>4, <1>5, CurIs DEF Posts, Completes, Puts
<1>7. posted' = [s \in Rank |-> [w \in 0 .. 1 |-> Count(Posts(s)', w)]]
  <2> DEFINE N == [s \in Rank |-> Posts(s)]
             M == [s \in Rank |-> Posts(s)']
  <2>1. N \in [Rank -> Nat] /\ cur[p] = gen[p] % 2
    BY PscwTypes
  <2>2. M = [N EXCEPT ![p] = @ + 1] /\ N[p] = gen[p]
    BY <1>6
  <2>3. posted = [s \in Rank |-> [w \in 0 .. 1 |-> Count(N[s], w)]]
    BY PscwParts
  <2>4. posted' = [posted EXCEPT ![p][N[p] % 2] = @ + 1]
    BY <1>1, <2>1, <2>2
  <2> HIDE DEF N, M
  <2>5. posted' = [s \in Rank |-> [w \in 0 .. 1 |-> Count([N EXCEPT ![p] = @ + 1][s], w)]]
    BY <2>1, <2>3, <2>4, Counted
  <2>6. QED
    BY <2>2, <2>5 DEF M
<1>8. completed' = [s \in Rank |-> [w \in 0 .. 1 |-> Count(Completes(s)', w)]]
  BY <1>1, <1>6, PscwParts
<1>9. ASSUME NEW s \in Rank, NEW t \in Neighbours(s)
      PROVE  PscwPair(s, t)'
  BY <1>1, <1>2, <1>3, <1>6, InFlightSame DEF PscwPair
<1>10. PscwBase'
  BY <1>1, <1>3, <1>4, <1>5 DEF PscwBase, FlightShape, Rank
<1>11. ASSUME NEW s \in Rank
       PROVE  PscwRank(s)'
  BY <1>1, <1>3, <1>4, <1>5 DEF PscwRank, Neighbours, Rank
<1>12. PscwInv'
  BY <1>7, <1>8, <1>9, <1>10, <1>11 DEF PscwInv, PscwBase, PscwRank, Neighbours, Rank
<1>13. QED
  BY <1>1, <1>2, <1>12 DEF Stays

(* MPI_Win_start returns.                                                  *)
LEMMA PscwAccess ==
  ASSUME LoopInv, PscwInv, NEW p \in Rank, Pscw!Start(p)
  PROVE  LoopInv' /\ PscwInv' /\ Stays
<1>1. /\ phase[p] = "start" /\ phase' = [phase EXCEPT ![p] = "access"]
      /\ toPut' = [toPut EXCEPT ![p] = Neighbours(p)] /\ posted' = posted
      /\ completed' = completed /\ flight' = flight /\ UNCHANGED <<start, gen, buf, cur>>
  <2>1. /\ phase[p] = "start" /\ phase' = [phase EXCEPT ![p] = "access"]
        /\ toPut' = [toPut EXCEPT ![p] = Pscw!Group(p)] /\ posted' = posted
        /\ completed' = completed /\ flight' = flight /\ UNCHANGED Pscw!loopVars
    BY DEF Pscw!Start
  <2>2. Pscw!Group(p) = Neighbours(p)
    BY PscwLoop
  <2>3. QED
    BY <2>1, <2>2 DEF Pscw!loopVars
<1>2. LoopInv' /\ \A s, t : HaloRight(s, t)' = HaloRight(s, t)
  BY <1>1, LoopSame
<1>3. PscwBase /\ \A s \in Rank : PscwRank(s) /\ \A t \in Neighbours(s) : PscwPair(s, t)
  BY PscwParts
<1>4. /\ phase' \in [Rank -> {"compute", "start", "access", "wait"}] /\ phase'[p] = "access"
      /\ \A s \in Rank : s # p => phase'[s] = phase[s]
  BY <1>1, <1>3 DEF PscwBase
<1>5. /\ toPut' \in [Rank -> SUBSET Rank] /\ toPut'[p] = Neighbours(p)
      /\ \A s \in Rank : s # p => toPut'[s] = toPut[s]
  BY <1>1, <1>3 DEF PscwBase, Neighbours
<1>6. /\ \A s \in Rank : Posts(s)' = Posts(s) /\ Completes(s)' = Completes(s)
      /\ \A s \in Rank : \A t \in Neighbours(s) : Puts(s, t)' = Puts(s, t)
  BY <1>1, <1>4, <1>5 DEF Posts, Completes, Puts
<1>7. /\ posted' = [s \in Rank |-> [w \in 0 .. 1 |-> Count(Posts(s)', w)]]
      /\ completed' = [s \in Rank |-> [w \in 0 .. 1 |-> Count(Completes(s)', w)]]
  BY <1>1, <1>6, PscwParts
<1>8. ASSUME NEW s \in Rank, NEW t \in Neighbours(s)
      PROVE  PscwPair(s, t)'
  BY <1>1, <1>2, <1>3, <1>6, InFlightSame DEF PscwPair
<1>9. PscwBase'
  BY <1>1, <1>3, <1>4, <1>5 DEF PscwBase, FlightShape, Rank
<1>10. ASSUME NEW s \in Rank
       PROVE  PscwRank(s)'
  BY <1>1, <1>3, <1>4, <1>5 DEF PscwRank, Neighbours, Rank
<1>11. PscwInv'
  BY <1>7, <1>8, <1>9, <1>10 DEF PscwInv, PscwBase, PscwRank, Neighbours, Rank
<1>12. QED
  BY <1>1, <1>2, <1>11 DEF Stays

(* MPI_Win_complete.                                                       *)
LEMMA PscwComplete ==
  ASSUME LoopInv, PscwInv, NEW p \in Rank, Pscw!Complete(p)
  PROVE  LoopInv' /\ PscwInv' /\ Stays
<1>1. /\ phase[p] = "access" /\ toPut[p] = {} /\ phase' = [phase EXCEPT ![p] = "wait"]
      /\ completed' = [completed EXCEPT ![p][cur[p]] = @ + 1]
      /\ toPut' = toPut /\ posted' = posted
      /\ flight' = flight /\ UNCHANGED <<start, gen, buf, cur>>
  <2>1. /\ phase[p] = "access" /\ toPut[p] = {} /\ phase' = [phase EXCEPT ![p] = "wait"]
        /\ completed' = [completed EXCEPT ![p][Pscw!Window(p)] = @ + 1]
        /\ toPut' = toPut /\ posted' = posted
        /\ flight' = flight /\ UNCHANGED Pscw!loopVars
    BY DEF Pscw!Complete
  <2>2. Pscw!Window(p) = cur[p]
    BY PscwLoop
  <2>3. QED
    BY <2>1, <2>2 DEF Pscw!loopVars
<1>2. LoopInv' /\ \A s, t : HaloRight(s, t)' = HaloRight(s, t)
  BY <1>1, LoopSame
<1>3. PscwBase /\ \A s \in Rank : PscwRank(s) /\ \A t \in Neighbours(s) : PscwPair(s, t)
  BY PscwParts
<1>4. /\ phase' \in [Rank -> {"compute", "start", "access", "wait"}] /\ phase'[p] = "wait"
      /\ \A s \in Rank : s # p => phase'[s] = phase[s]
  BY <1>1, <1>3 DEF PscwBase
<1>5. /\ Completes(p) = gen[p] /\ Completes(p)' = gen[p] + 1
      /\ \A s \in Rank : s # p => Completes(s)' = Completes(s)
      /\ \A s \in Rank : Posts(s)' = Posts(s)
      /\ \A s \in Rank : \A t : Puts(s, t)' = Puts(s, t)
  BY <1>1, <1>4, CurIs DEF Posts, Completes, Puts
<1>6. completed' = [s \in Rank |-> [w \in 0 .. 1 |-> Count(Completes(s)', w)]]
  <2> DEFINE N == [s \in Rank |-> Completes(s)]
             M == [s \in Rank |-> Completes(s)']
  <2>1. N \in [Rank -> Nat] /\ cur[p] = gen[p] % 2
    BY PscwTypes
  <2>2. M = [N EXCEPT ![p] = @ + 1] /\ N[p] = gen[p]
    BY <1>5
  <2>3. completed = [s \in Rank |-> [w \in 0 .. 1 |-> Count(N[s], w)]]
    BY PscwParts
  <2>4. completed' = [completed EXCEPT ![p][N[p] % 2] = @ + 1]
    BY <1>1, <2>1, <2>2
  <2> HIDE DEF N, M
  <2>5. completed' = [s \in Rank |-> [w \in 0 .. 1 |-> Count([N EXCEPT ![p] = @ + 1][s], w)]]
    BY <2>1, <2>3, <2>4, Counted
  <2>6. QED
    BY <2>2, <2>5 DEF M
<1>7. posted' = [s \in Rank |-> [w \in 0 .. 1 |-> Count(Posts(s)', w)]]
  BY <1>1, <1>5, PscwParts
<1>8. ASSUME NEW s \in Rank, NEW t \in Neighbours(s)
      PROVE  PscwPair(s, t)'
  <2>1. t \in Rank /\ gen[t] \in Nat /\ gen[s] \in Nat /\ gen[t] <= Completes(s)
    BY PscwPairIs
  <2>2. gen[t] <= Completes(s)'
    BY <1>5, <2>1
  <2>3. QED
    BY <1>1, <1>2, <1>3, <1>5, <2>2, InFlightSame DEF PscwPair
<1>9. PscwBase'
  BY <1>1, <1>3, <1>4 DEF PscwBase, FlightShape, Rank
<1>10. ASSUME NEW s \in Rank
       PROVE  PscwRank(s)'
  BY <1>1, <1>3, <1>4 DEF PscwRank, Neighbours, Rank
<1>11. PscwInv'
  BY <1>6, <1>7, <1>8, <1>9, <1>10 DEF PscwInv, PscwBase, PscwRank, Neighbours, Rank
<1>12. QED
  BY <1>1, <1>2, <1>11 DEF Stays

(* MPI_Put to a neighbour that has posted: the row is in flight for its    *)
(* generation, or for the next one when the neighbour has not read the     *)
(* last.                                                                   *)
LEMMA PscwPut ==
  ASSUME LoopInv, PscwInv, NEW p \in Rank, NEW q \in Neighbours(p), Pscw!Put(p, q)
  PROVE  LoopInv' /\ PscwInv' /\ Stays
<1> DEFINE v == gen[p] % 2
           e == [epoch |-> posted[p][v], row |-> EdgeRow(p, q)]
<1>1. /\ gen[p] \in Nat /\ cur[p] = v /\ v \in 0 .. 1
  BY PscwTypes
<1>2. /\ q \in toPut[p] /\ toPut' = [toPut EXCEPT ![p] = @ \ {q}]
      /\ flight' = [flight EXCEPT ![p][q][v] = Append(@, e)]
      /\ UNCHANGED <<start, gen, buf, cur, posted, completed, phase>>
  <2>1. /\ q \in toPut[p] /\ toPut' = [toPut EXCEPT ![p] = @ \ {q}]
        /\ flight' = [flight EXCEPT ![p][q][Pscw!Window(p)] =
             Append(@, [epoch |-> posted[p][Pscw!Window(p)], row |-> Pscw!EdgeRow(p, q)])]
        /\ UNCHANGED <<posted, completed, phase>> /\ UNCHANGED Pscw!loopVars
    BY DEF Pscw!Put
  <2>2. Pscw!Window(p) = v /\ Pscw!EdgeRow(p, q) = EdgeRow(p, q)
    BY <1>1, PscwLoop
  <2>3. QED
    BY <2>1, <2>2 DEF Pscw!loopVars
<1>3. /\ LoopInv' /\ \A s, t : HaloRight(s, t)' = HaloRight(s, t)
      /\ \A f, k, s, t : InFlight(f, k, s, t)' = InFlight(f, k, s, t)
  BY <1>2, LoopSame, InFlightSame
<1>4. PscwBase /\ \A s \in Rank : PscwRank(s) /\ \A t \in Neighbours(s) : PscwPair(s, t)
  BY PscwParts
<1>5. phase[p] = "access" /\ Completes(p) = gen[p] /\ Posts(p) = gen[p] + 1
  <2>1. phase[p] = "access"
    BY <1>2, <1>4 DEF PscwRank
  <2>2. QED
    BY <1>1, <2>1 DEF Completes, Posts
<1>6. e.epoch = Count(gen[p] + 1, v) /\ Sane(p, q, e.row) /\ Right(gen[p], p, q, e.row)
  <2>1. posted[p][v] = Count(gen[p] + 1, v)
    BY <1>1, <1>5, PscwTypes
  <2>2. Sane(p, q, EdgeRow(p, q)) /\ Right(gen[p], p, q, EdgeRow(p, q))
    BY EdgeIsRight
  <2>3. QED
    BY <2>1, <2>2
<1> HIDE DEF e
<1>7. /\ q \in Rank /\ p # q /\ gen[q] \in Nat /\ gen[q] <= gen[p]
      /\ gen[p] = gen[q] \/ gen[p] = gen[q] + 1
  <2>1. /\ q \in Rank /\ p # q /\ gen[q] \in Nat /\ gen[q] <= Completes(p) /\ gen[p] <= Completes(q)
    BY PscwPairIs
  <2>2. Completes(q) \in {gen[q], gen[q] + 1}
    BY <2>1, PscwTypes
  <2>3. QED
    BY <1>1, <1>5, <2>1, <2>2
<1>8. /\ toPut' \in [Rank -> SUBSET Rank] /\ toPut'[p] = toPut[p] \ {q}
      /\ \A s \in Rank : s # p => toPut'[s] = toPut[s]
  BY <1>2, <1>4 DEF PscwBase
<1>9. /\ \A s \in Rank : Posts(s)' = Posts(s) /\ Completes(s)' = Completes(s)
      /\ \A s, t \in Rank : s # p \/ t # q => Puts(s, t)' = Puts(s, t)
      /\ Puts(p, q) = gen[p] /\ Puts(p, q)' = gen[p] + 1
  BY <1>1, <1>2, <1>5, <1>8 DEF Posts, Completes, Puts
<1>10. /\ DOMAIN flight' = Rank /\ \A s \in Rank : DOMAIN flight'[s] = Rank
       /\ \A s, t \in Rank : DOMAIN flight'[s][t] = 0 .. 1
       /\ \A s, t \in Rank, w \in 0 .. 1 :
            s # p \/ t # q \/ w # v => flight'[s][t][w] = flight[s][t][w]
       /\ flight'[p][q][v] = Append(flight[p][q][v], e)
  <2>1. /\ DOMAIN flight = Rank /\ \A s \in Rank : DOMAIN flight[s] = Rank
        /\ \A s, t \in Rank : DOMAIN flight[s][t] = 0 .. 1
    BY <1>4 DEF PscwBase, FlightShape
  <2>2. /\ DOMAIN flight' = Rank /\ \A s \in Rank : s # p => flight'[s] = flight[s]
        /\ flight'[p] = [flight[p] EXCEPT ![q][v] = Append(@, e)]
    BY <1>2, <2>1
  <2>3. /\ DOMAIN flight'[p] = Rank /\ \A t \in Rank : t # q => flight'[p][t] = flight[p][t]
        /\ flight'[p][q] = [flight[p][q] EXCEPT ![v] = Append(@, e)]
    BY <1>7, <2>1, <2>2, Zenon
  <2>4. /\ DOMAIN flight'[p][q] = 0 .. 1 /\ flight'[p][q][v] = Append(flight[p][q][v], e)
        /\ \A w \in 0 .. 1 : w # v => flight'[p][q][w] = flight[p][q][w]
    BY <1>1, <1>7, <2>1, <2>3
  <2>5. \A s \in Rank : DOMAIN flight'[s] = Rank
    BY <2>1, <2>2, <2>3
  <2>6. ASSUME NEW s \in Rank, NEW t \in Rank
        PROVE  /\ DOMAIN flight'[s][t] = 0 .. 1
               /\ \A w \in 0 .. 1 : s # p \/ t # q \/ w # v => flight'[s][t][w] = flight[s][t][w]
    <3>1. CASE s # p \/ t # q
      <4>1. flight'[s][t] = flight[s][t]
        BY <2>2, <2>3, <3>1
      <4>2. QED
        BY <2>1, <4>1
    <3>2. CASE s = p /\ t = q
      BY <2>4, <3>2
    <3>3. QED
      BY <3>1, <3>2
  <2>7. \A s, t \in Rank : DOMAIN flight'[s][t] = 0 .. 1
    BY <2>6
  <2>8. \A s, t \in Rank, w \in 0 .. 1 :
          s # p \/ t # q \/ w # v => flight'[s][t][w] = flight[s][t][w]
    BY <2>6
  <2>9. QED
    BY <2>2, <2>4, <2>5, <2>7, <2>8
<1>11. IsSeq(flight[p][q][v])
  BY <1>1, <1>4, <1>7 DEF PscwBase, FlightShape
<1>12. Len(flight[p][q][v]) = 0
  <2>1. PscwPair(p, q)
    BY <1>4
  <2>2. CASE gen[p] = gen[q]
    <3>1. ~(gen[q] < Puts(p, q))
      BY <1>7, <1>9, <2>2
    <3>2. Len(flight[p][q][gen[q] % 2]) = 0
      BY <2>1, <3>1 DEF PscwPair
    <3>3. QED
      BY <2>2, <3>2
  <2>3. CASE gen[p] = gen[q] + 1
    <3>1. ~(gen[q] + 1 < Puts(p, q))
      BY <1>7, <1>9, <2>3
    <3>2. Len(flight[p][q][(gen[q] + 1) % 2]) = 0
      BY <2>1, <3>1 DEF PscwPair
    <3>3. QED
      BY <2>3, <3>2
  <2>4. QED
    BY <1>7, <2>2, <2>3
<1>13. /\ IsSeq(flight'[p][q][v]) /\ Len(flight'[p][q][v]) = 1 /\ flight'[p][q][v][1] = e
       /\ InFlight(flight'[p][q][v], gen[p], p, q)
  <2>1. /\ IsSeq(flight'[p][q][v]) /\ Len(flight'[p][q][v]) = 0 + 1
        /\ flight'[p][q][v][0 + 1] = e
    <3>1. /\ IsSeq(Append(flight[p][q][v], e))
          /\ Len(Append(flight[p][q][v], e)) = Len(flight[p][q][v]) + 1
          /\ Append(flight[p][q][v], e)[Len(flight[p][q][v]) + 1] = e
      BY ONLY <1>11, Enqueued
    <3>2. flight'[p][q][v] = Append(flight[p][q][v], e)
      BY <1>10
    <3>3. QED
      BY ONLY <1>12, <3>1, <3>2
  <2>2. /\ IsSeq(flight'[p][q][v]) /\ Len(flight'[p][q][v]) = 1 /\ flight'[p][q][v][1] = e
    BY <2>1
  <2>3. QED
    BY <1>6, <2>2 DEF InFlight
<1>14. ASSUME NEW s \in Rank, NEW t \in Neighbours(s)
       PROVE  PscwPair(s, t)'
  <2>1. /\ PscwPair(s, t) /\ t \in Rank /\ gen[t] % 2 \in 0 .. 1 /\ (gen[t] + 1) % 2 \in 0 .. 1
        /\ gen[t] % 2 # (gen[t] + 1) % 2
    BY PscwPairIs
  <2>2. CASE s # p \/ t # q
    <3>1. /\ flight'[s][t][gen[t] % 2] = flight[s][t][gen[t] % 2]
          /\ flight'[s][t][(gen[t] + 1) % 2] = flight[s][t][(gen[t] + 1) % 2]
          /\ Puts(s, t)' = Puts(s, t) /\ Completes(s)' = Completes(s)
      BY <1>9, <1>10, <2>1, <2>2
    <3>2. QED
      BY <1>2, <1>3, <2>1, <3>1, Zenon DEF PscwPair
  <2>3. CASE s = p /\ t = q
    <3> DEFINE now == flight'[p][q][gen[q] % 2]
               later == flight'[p][q][(gen[q] + 1) % 2]
    <3>1. /\ gen[q] <= Completes(p)
          /\ Len(now) = 0 \/ (gen[q] < gen[p] + 1 /\ InFlight(now, gen[q], p, q))
          /\ Len(now) = 0 /\ gen[q] < gen[p] + 1 => HaloRight(p, q)
          /\ IF gen[q] + 1 < gen[p] + 1 THEN InFlight(later, gen[q] + 1, p, q)
                                        ELSE Len(later) = 0
      <4>1. CASE gen[p] = gen[q]
        <5>1. now = flight'[p][q][v] /\ Len(now) = 1 /\ InFlight(now, gen[q], p, q)
          BY <1>13, <4>1
        <5>2. later = flight[p][q][(gen[q] + 1) % 2]
          BY <1>10, <2>1, <2>3, <4>1
        <5>3. Len(later) = 0
          <6>1. ~(gen[q] + 1 < Puts(p, q))
            BY <1>7, <1>9, <4>1
          <6>2. Len(flight[p][q][(gen[q] + 1) % 2]) = 0
            BY <2>1, <2>3, <6>1 DEF PscwPair
          <6>3. QED
            BY <5>2, <6>2
        <5> HIDE DEF now, later
        <5>4. gen[q] < gen[p] + 1 /\ ~(gen[q] + 1 < gen[p] + 1) /\ gen[q] <= Completes(p)
          BY <1>1, <1>5, <4>1
        <5>5. QED
          BY <5>1, <5>3, <5>4
      <4>2. CASE gen[p] = gen[q] + 1
        <5>1. later = flight'[p][q][v] /\ InFlight(later, gen[q] + 1, p, q)
          BY <1>13, <4>2
        <5>2. now = flight[p][q][gen[q] % 2]
          BY <1>10, <2>1, <2>3, <4>2
        <5>3. /\ Len(now) = 0 \/ InFlight(now, gen[q], p, q)
              /\ Len(now) = 0 => HaloRight(p, q)
          <6>1. gen[q] < Puts(p, q)
            BY <1>7, <1>9, <4>2
          <6>2. LET f == flight[p][q][gen[q] % 2]
                IN  /\ Len(f) = 0 \/ InFlight(f, gen[q], p, q)
                    /\ Len(f) = 0 => HaloRight(p, q)
            BY <2>1, <2>3, <6>1 DEF PscwPair
          <6>3. QED
            BY <5>2, <6>2
        <5> HIDE DEF now, later
        <5>4. gen[q] < gen[p] + 1 /\ gen[q] + 1 < gen[p] + 1 /\ gen[q] <= Completes(p)
          BY <1>5, <1>7, <4>2
        <5>5. QED
          BY <5>1, <5>3, <5>4
      <4>3. QED
        BY <1>7, <4>1, <4>2
    <3> HIDE DEF now, later
    <3>2. gen'[q] = gen[q] /\ Completes(p)' = Completes(p) /\ Puts(p, q)' = gen[p] + 1
      BY <1>2, <1>9
    <3>3. QED
      BY <1>3, <2>3, <3>1, <3>2 DEF PscwPair, now, later
  <2>4. QED
    BY <2>2, <2>3
<1>15. PscwBase'
  <2>1. ASSUME NEW s \in Rank, NEW t \in Rank, NEW w \in 0 .. 1
        PROVE  IsSeq(flight'[s][t][w])
    <3>1. CASE s # p \/ t # q \/ w # v
      <4>1. flight'[s][t][w] = flight[s][t][w]
        BY <1>10, <3>1
      <4>2. QED
        BY <1>4, <4>1 DEF PscwBase, FlightShape
    <3>2. CASE s = p /\ t = q /\ w = v
      BY <1>13, <3>2
    <3>3. QED
      BY <3>1, <3>2
  <2>2. QED
    BY <1>2, <1>4, <1>8, <1>10, <2>1 DEF PscwBase, FlightShape, Rank
<1>16. ASSUME NEW s \in Rank
       PROVE  PscwRank(s)'
  <2>1. PscwRank(s)
    BY <1>4
  <2>2. \A t \in Rank \ Neighbours(s), w \in 0 .. 1 : flight'[s][t][w] = flight[s][t][w]
    BY <1>10
  <2>3. \A t \in Rank \ Neighbours(s), w \in 0 .. 1 : Len(flight'[s][t][w]) = 0
    BY <2>1, <2>2 DEF PscwRank
  <2>4. /\ phase'[s] # "compute" => gen'[s] < Iter
        /\ phase'[s] # "access" => toPut'[s] = {}
        /\ toPut'[s] \subseteq Neighbours(s)
    BY <1>2, <1>8, <2>1 DEF PscwRank
  <2>5. QED
    BY <2>3, <2>4 DEF PscwRank, Neighbours, Rank
<1>17. /\ posted' = [s \in Rank |-> [w \in 0 .. 1 |-> Count(Posts(s)', w)]]
       /\ completed' = [s \in Rank |-> [w \in 0 .. 1 |-> Count(Completes(s)', w)]]
  BY <1>2, <1>9, PscwParts
<1>18. PscwInv'
  BY <1>14, <1>15, <1>16, <1>17 DEF PscwInv, PscwBase, PscwRank, Neighbours, Rank
<1>19. QED
  BY <1>2, <1>3, <1>18 DEF Stays

(* A row in flight lands in the halo of the neighbour while its epoch is   *)
(* open.                                                                   *)
LEMMA PscwStore ==
  ASSUME LoopInv, PscwInv, NEW p \in Rank, NEW q \in Neighbours(p), NEW w \in 0 .. 1,
         Pscw!Store(p, q, w)
  PROVE  LoopInv' /\ PscwInv' /\ Stays
<1> DEFINE f == flight[p][q][w]
           r == Head(f).row
<1>1. /\ f # <<>> /\ posted[q][w] >= Head(f).epoch /\ StoreHalo(p, q, w, r)
      /\ flight' = [flight EXCEPT ![p][q][w] = Tail(@)]
      /\ UNCHANGED <<start, gen, cur>> /\ UNCHANGED <<posted, completed, phase, toPut>>
  BY PscwLoop DEF Pscw!Store, Pscw!Exposed
<1>2. PscwBase /\ \A s \in Rank : PscwRank(s) /\ \A t \in Neighbours(s) : PscwPair(s, t)
  BY PscwParts
<1>3. /\ q \in Rank /\ p # q /\ gen[p] \in Nat /\ gen[q] \in Nat
      /\ gen[q] % 2 \in 0 .. 1 /\ (gen[q] + 1) % 2 \in 0 .. 1
      /\ gen[q] % 2 # (gen[q] + 1) % 2 /\ (w = gen[q] % 2 \/ w = (gen[q] + 1) % 2)
      /\ PscwPair(p, q)
  BY PscwPairIs
<1>4. IsSeq(f)
  BY <1>2, <1>3 DEF PscwBase, FlightShape
<1>5. Head(f) = f[1] /\ IsSeq(Tail(f)) /\ Len(Tail(f)) = Len(f) - 1 /\ Len(f) # 0
  BY <1>1, <1>4, Dequeued
<1>6. w # (gen[q] + 1) % 2
  <2> SUFFICES ASSUME w = (gen[q] + 1) % 2 PROVE FALSE
    OBVIOUS
  <2>1. InFlight(f, gen[q] + 1, p, q)
    BY <1>3, <1>5 DEF PscwPair
  <2>2. Head(f).epoch = Count((gen[q] + 1) + 1, (gen[q] + 1) % 2)
    BY <1>5, <2>1 DEF InFlight
  <2>3. posted[q][w] = Count(Posts(q), w) /\ Posts(q) \in {gen[q], gen[q] + 1}
    BY <1>3, PscwTypes
  <2>4. Count(Posts(q), (gen[q] + 1) % 2) >= Count((gen[q] + 1) + 1, (gen[q] + 1) % 2)
    BY <1>1, <2>2, <2>3
  <2>5. Posts(q) \in Nat /\ gen[q] + 1 \in Nat
    BY <1>3, <2>3
  <2>6. Posts(q) >= (gen[q] + 1) + 1
    BY <2>4, <2>5, CountReaches
  <2>7. QED
    BY <1>3, <2>3, <2>6
<1>7. w = gen[q] % 2 /\ w = cur[q]
  <2>1. cur[q] = gen[q] % 2
    BY <1>3, CurIs
  <2>2. QED
    BY <1>3, <1>6, <2>1
<1>8. InFlight(f, gen[q], p, q)
  BY <1>3, <1>5, <1>7 DEF PscwPair
<1>9. Sane(p, q, r) /\ Right(gen[q], p, q, r) /\ Len(f) = 1
  BY <1>5, <1>8 DEF InFlight
<1> HIDE DEF r
<1>10. /\ LoopInv' /\ HaloRight(p, q)'
       /\ \A s \in Rank : \A t \in Neighbours(s) :
            s # p \/ t # q => HaloRight(s, t)' = HaloRight(s, t)
  BY <1>1, <1>7, <1>9, LoopStored
<1>11. Len(Tail(f)) = 0
  BY <1>5, <1>9
<1>12. /\ DOMAIN flight' = Rank /\ \A s \in Rank : DOMAIN flight'[s] = Rank
       /\ \A s, t \in Rank : DOMAIN flight'[s][t] = 0 .. 1
       /\ \A s, t \in Rank, x \in 0 .. 1 :
            s # p \/ t # q \/ x # w => flight'[s][t][x] = flight[s][t][x]
       /\ flight'[p][q][w] = Tail(f)
  <2>1. /\ DOMAIN flight = Rank /\ \A s \in Rank : DOMAIN flight[s] = Rank
        /\ \A s, t \in Rank : DOMAIN flight[s][t] = 0 .. 1
    BY <1>2 DEF PscwBase, FlightShape
  <2>2. /\ DOMAIN flight' = Rank /\ \A s \in Rank : s # p => flight'[s] = flight[s]
        /\ flight'[p] = [flight[p] EXCEPT ![q][w] = Tail(@)]
    BY <1>1, <2>1
  <2>3. /\ DOMAIN flight'[p] = Rank /\ \A t \in Rank : t # q => flight'[p][t] = flight[p][t]
        /\ flight'[p][q] = [flight[p][q] EXCEPT ![w] = Tail(@)]
    BY <1>3, <2>1, <2>2
  <2>4. /\ DOMAIN flight'[p][q] = 0 .. 1 /\ flight'[p][q][w] = Tail(f)
        /\ \A x \in 0 .. 1 : x # w => flight'[p][q][x] = flight[p][q][x]
    BY <1>3, <2>1, <2>3
  <2>5. \A s \in Rank : DOMAIN flight'[s] = Rank
    BY <2>1, <2>2, <2>3
  <2>6. ASSUME NEW s \in Rank, NEW t \in Rank
        PROVE  /\ DOMAIN flight'[s][t] = 0 .. 1
               /\ \A x \in 0 .. 1 : s # p \/ t # q \/ x # w => flight'[s][t][x] = flight[s][t][x]
    <3>1. CASE s # p \/ t # q
      <4>1. flight'[s][t] = flight[s][t]
        BY <2>2, <2>3, <3>1
      <4>2. QED
        BY <2>1, <4>1
    <3>2. CASE s = p /\ t = q
      BY <2>4, <3>2
    <3>3. QED
      BY <3>1, <3>2
  <2>7. \A s, t \in Rank : DOMAIN flight'[s][t] = 0 .. 1
    BY <2>6
  <2>8. \A s, t \in Rank, x \in 0 .. 1 :
          s # p \/ t # q \/ x # w => flight'[s][t][x] = flight[s][t][x]
    BY <2>6
  <2>9. QED
    BY <2>2, <2>4, <2>5, <2>7, <2>8
<1> HIDE DEF f
<1>13. /\ \A s \in Rank : Posts(s)' = Posts(s) /\ Completes(s)' = Completes(s)
       /\ \A s, t \in Rank : Puts(s, t)' = Puts(s, t)
       /\ \A g, k, s, t : InFlight(g, k, s, t)' = InFlight(g, k, s, t)
  BY <1>1, InFlightSame DEF Posts, Completes, Puts
<1>14. ASSUME NEW s \in Rank, NEW t \in Neighbours(s)
       PROVE  PscwPair(s, t)'
  <2>1. /\ PscwPair(s, t) /\ t \in Rank /\ gen[t] % 2 \in 0 .. 1 /\ (gen[t] + 1) % 2 \in 0 .. 1
        /\ gen[t] % 2 # (gen[t] + 1) % 2
    BY PscwPairIs
  <2>2. gen'[t] = gen[t] /\ Puts(s, t)' = Puts(s, t) /\ Completes(s)' = Completes(s)
    BY <1>1, <1>13, <2>1
  <2>3. CASE s # p \/ t # q
    <3>1. /\ flight'[s][t][gen[t] % 2] = flight[s][t][gen[t] % 2]
          /\ flight'[s][t][(gen[t] + 1) % 2] = flight[s][t][(gen[t] + 1) % 2]
      BY <1>12, <2>1, <2>3
    <3>2. QED
      BY <1>10, <1>13, <2>1, <2>2, <2>3, <3>1 DEF PscwPair
  <2>4. CASE s = p /\ t = q
    <3>1. /\ Len(flight'[p][q][gen[q] % 2]) = 0
          /\ flight'[p][q][(gen[q] + 1) % 2] = flight[p][q][(gen[q] + 1) % 2]
      <4>1. flight'[p][q][gen[q] % 2] = Tail(f)
        BY <1>7, <1>12
      <4>2. flight'[p][q][(gen[q] + 1) % 2] = flight[p][q][(gen[q] + 1) % 2]
        BY <1>3, <1>7, <1>12
      <4>3. QED
        BY <1>11, <4>1, <4>2
    <3>2. QED
      BY <1>10, <1>13, <2>1, <2>2, <2>4, <3>1 DEF PscwPair
  <2>5. QED
    BY <2>3, <2>4
<1>15. PscwBase'
  <2>1. ASSUME NEW s \in Rank, NEW t \in Rank, NEW x \in 0 .. 1
        PROVE  IsSeq(flight'[s][t][x])
    <3>1. CASE s # p \/ t # q \/ x # w
      <4>1. flight'[s][t][x] = flight[s][t][x]
        BY <1>12, <3>1
      <4>2. QED
        BY <1>2, <4>1 DEF PscwBase, FlightShape
    <3>2. CASE s = p /\ t = q /\ x = w
      BY <1>5, <1>12, <3>2
    <3>3. QED
      BY <3>1, <3>2
  <2>2. QED
    BY <1>1, <1>2, <1>12, <2>1 DEF PscwBase, FlightShape, Rank
<1>16. ASSUME NEW s \in Rank
       PROVE  PscwRank(s)'
  <2>1. PscwRank(s)
    BY <1>2
  <2>2. \A t \in Rank \ Neighbours(s), x \in 0 .. 1 : flight'[s][t][x] = flight[s][t][x]
    BY <1>12
  <2>3. \A t \in Rank \ Neighbours(s), x \in 0 .. 1 : Len(flight'[s][t][x]) = 0
    BY <2>1, <2>2 DEF PscwRank
  <2>4. /\ phase'[s] # "compute" => gen'[s] < Iter
        /\ phase'[s] # "access" => toPut'[s] = {}
        /\ toPut'[s] \subseteq Neighbours(s)
    BY <1>1, <2>1 DEF PscwRank
  <2>5. QED
    BY <2>3, <2>4 DEF PscwRank, Neighbours, Rank
<1>17. /\ posted' = [s \in Rank |-> [x \in 0 .. 1 |-> Count(Posts(s)', x)]]
       /\ completed' = [s \in Rank |-> [x \in 0 .. 1 |-> Count(Completes(s)', x)]]
  BY <1>1, <1>13, PscwParts
<1>18. PscwInv'
  BY <1>14, <1>15, <1>16, <1>17 DEF PscwInv, PscwBase, PscwRank, Neighbours, Rank
<1>19. QED
  BY <1>1, <1>10, <1>18 DEF Stays

(* MPI_Win_wait returns when the neighbours have completed and their rows  *)
(* have landed: both halos are right.                                      *)
LEMMA PscwGeneration ==
  ASSUME LoopInv, PscwInv, NEW p \in Rank, Pscw!Generation(p)
  PROVE  LoopInv' /\ PscwInv' /\ Moves(p)
<1>1. /\ phase[p] = "wait" /\ Compute(p) /\ phase' = [phase EXCEPT ![p] = "compute"]
      /\ \A q \in Neighbours(p) :
           /\ completed[q][cur[p]] >= posted[p][cur[p]]
           /\ \A k \in 1 .. Len(flight[q][p][cur[p]]) :
                flight[q][p][cur[p]][k].epoch > posted[p][cur[p]]
      /\ UNCHANGED <<posted, completed, toPut, flight>>
  <2>1. /\ phase[p] = "wait" /\ Pscw!ExposureOver(p) /\ Pscw!Compute(p)
        /\ phase' = [phase EXCEPT ![p] = "compute"]
        /\ UNCHANGED <<posted, completed, toPut, flight>>
    BY DEF Pscw!Generation
  <2>2. QED
    BY <2>1, PscwLoop DEF Pscw!ExposureOver
<1>2. PscwBase /\ \A s \in Rank : PscwRank(s) /\ \A t \in Neighbours(s) : PscwPair(s, t)
  BY PscwParts
<1>3. /\ gen[p] < Iter /\ toPut[p] = {} /\ gen[p] \in Nat /\ cur[p] = gen[p] % 2
      /\ cur[p] \in 0 .. 1 /\ Posts(p) = gen[p] + 1 /\ Completes(p) = gen[p] + 1
      /\ posted[p][cur[p]] = Count(gen[p] + 1, gen[p] % 2)
  <2>1. gen[p] < Iter /\ toPut[p] = {}
    BY <1>1, <1>2 DEF PscwRank
  <2>2. gen[p] \in Nat /\ cur[p] = gen[p] % 2 /\ cur[p] \in 0 .. 1
    BY PscwTypes
  <2>3. Posts(p) = gen[p] + 1 /\ Completes(p) = gen[p] + 1
    BY <1>1, <2>2 DEF Posts, Completes
  <2>4. posted[p][cur[p]] = Count(Posts(p), cur[p])
    BY <2>2, PscwTypes
  <2>5. QED
    BY <2>1, <2>2, <2>3, <2>4
<1>4. ASSUME NEW q \in Neighbours(p)
      PROVE  /\ q \in Rank /\ q # p /\ gen[q] \in Nat
             /\ Completes(q) = gen[p] + 1 \/ Completes(q) = gen[p] + 2
             /\ gen[q] = gen[p] \/ gen[q] = gen[p] + 1
             /\ gen[p] < Puts(q, p) /\ Puts(q, p) <= gen[p] + 2
             /\ Len(flight[q][p][gen[p] % 2]) = 0 /\ HaloRight(q, p)
  <2>1. /\ q \in Rank /\ p \in Neighbours(q) /\ q # p /\ gen[q] \in Nat
        /\ gen[q] <= Completes(p)
    BY PscwPairIs
  <2>2. Puts(q, p) \in {gen[q], gen[q] + 1} /\ PscwPair(q, p)
    BY <2>1, PscwPairIs
  <2>3. Completes(q) \in {gen[q], gen[q] + 1} /\ completed[q][cur[p]] = Count(Completes(q), cur[p])
    BY <1>3, <2>1, PscwTypes
  <2>4. Completes(q) >= gen[p] + 1
    <3>1. Count(Completes(q), gen[p] % 2) >= Count(gen[p] + 1, gen[p] % 2)
      BY <1>1, <1>3, <2>3
    <3>2. Completes(q) \in Nat
      BY <2>1, <2>3
    <3>3. QED
      BY <1>3, <3>1, <3>2, CountReaches
  <2>5. /\ gen[q] = gen[p] \/ gen[q] = gen[p] + 1
        /\ Completes(q) = gen[p] + 1 \/ Completes(q) = gen[p] + 2
    BY <1>3, <2>1, <2>3, <2>4
  <2>6. gen[p] < Puts(q, p) /\ Puts(q, p) <= gen[p] + 2
    <3>1. CASE gen[q] = gen[p]
      <4>1. phase[q] = "wait"
        BY <1>3, <2>4, <3>1 DEF Completes
      <4>2. toPut[q] = {}
        BY <1>2, <2>1, <4>1 DEF PscwRank
      <4>3. Puts(q, p) = gen[q] + 1
        BY <4>1, <4>2 DEF Puts
      <4>4. QED
        BY <1>3, <3>1, <4>3
    <3>2. CASE gen[q] = gen[p] + 1
      BY <1>3, <2>2, <3>2
    <3>3. QED
      BY <2>5, <3>1, <3>2
  <2>7. Len(flight[q][p][gen[p] % 2]) = 0
    <3> SUFFICES ASSUME Len(flight[q][p][gen[p] % 2]) # 0 PROVE FALSE
      OBVIOUS
    <3>1. InFlight(flight[q][p][gen[p] % 2], gen[p], q, p)
      BY <2>2 DEF PscwPair
    <3>2. /\ Len(flight[q][p][gen[p] % 2]) = 1
          /\ flight[q][p][gen[p] % 2][1].epoch = Count(gen[p] + 1, gen[p] % 2)
      BY <3>1 DEF InFlight
    <3>3. 1 \in 1 .. Len(flight[q][p][cur[p]])
      BY <1>3, <3>2
    <3>4. flight[q][p][cur[p]][1].epoch > posted[p][cur[p]]
      BY <1>1, <3>3
    <3>5. Count(gen[p] + 1, gen[p] % 2) \in Nat
      BY <1>3 DEF Count
    <3>6. QED
      BY <1>3, <3>2, <3>4, <3>5
  <2>8. HaloRight(q, p)
    BY <2>2, <2>6, <2>7 DEF PscwPair
  <2>9. QED
    BY <2>1, <2>5, <2>6, <2>7, <2>8
<1>5. /\ LoopInv' /\ gen' = [gen EXCEPT ![p] = @ + 1] /\ start' = start
      /\ \A s \in Rank, t \in Rank : t # p => HaloRight(s, t)' = HaloRight(s, t)
  BY <1>1, <1>3, <1>4, LoopComputed
<1>6. /\ phase' \in [Rank -> {"compute", "start", "access", "wait"}] /\ phase'[p] = "compute"
      /\ \A s \in Rank : s # p => phase'[s] = phase[s]
  BY <1>1, <1>2 DEF PscwBase
<1>7. gen'[p] = gen[p] + 1 /\ \A s \in Rank : s # p => gen'[s] = gen[s]
  <2>1. gen \in [Rank -> 0 .. Iter]
    BY DEF LoopInv, LoopIn
  <2>2. QED
    BY <1>5, <2>1
<1>8. /\ \A s \in Rank : Posts(s)' = Posts(s) /\ Completes(s)' = Completes(s)
      /\ \A s \in Rank : \A t : Puts(s, t)' = Puts(s, t)
      /\ \A f, k, s, t : InFlight(f, k, s, t)' = InFlight(f, k, s, t)
  <2>1. /\ Posts(p)' = Posts(p) /\ Completes(p)' = Completes(p)
        /\ \A t : Puts(p, t)' = Puts(p, t)
    BY <1>1, <1>3, <1>6, <1>7 DEF Posts, Completes, Puts
  <2>2. ASSUME NEW s \in Rank, s # p
        PROVE  /\ Posts(s)' = Posts(s) /\ Completes(s)' = Completes(s)
               /\ \A t : Puts(s, t)' = Puts(s, t)
    BY <1>1, <1>6, <1>7, <2>2 DEF Posts, Completes, Puts
  <2>3. QED
    BY <1>5, <2>1, <2>2, InFlightSame
<1>9. ASSUME NEW s \in Rank, NEW t \in Neighbours(s)
      PROVE  PscwPair(s, t)'
  <2>1. t \in Rank /\ PscwPair(s, t) /\ s # t /\ s \in Neighbours(t)
    BY PscwPairIs
  <2>2. CASE t # p
    <3>1. gen'[t] = gen[t] /\ HaloRight(s, t)' = HaloRight(s, t)
      BY <1>5, <1>7, <2>1, <2>2
    <3>2. QED
      BY <1>1, <1>8, <2>1, <3>1 DEF PscwPair
  <2>3. CASE t = p
    <3> DEFINE now == flight[s][p][(gen[p] + 1) % 2]
               later == flight[s][p][gen[p] % 2]
    <3>1. /\ s \in Neighbours(p) /\ gen[p] + 1 <= Completes(s)
          /\ gen[p] < Puts(s, p) /\ Puts(s, p) <= gen[p] + 2 /\ Len(later) = 0
      BY <1>3, <1>4, <2>1, <2>3
    <3>2. IF gen[p] + 1 < Puts(s, p) THEN InFlight(now, gen[p] + 1, s, p) ELSE Len(now) = 0
      BY <2>1, <2>3 DEF PscwPair
    <3>3. InFlight(now, gen[p] + 1, s, p) => Len(now) = 1
      BY DEF InFlight
    <3>4. ((gen[p] + 1) + 1) % 2 = gen[p] % 2
      BY <1>3
    <3> HIDE DEF now, later
    <3>5. /\ gen[p] + 1 <= Completes(s)
          /\ Len(now) = 0 \/ (gen[p] + 1 < Puts(s, p) /\ InFlight(now, gen[p] + 1, s, p))
          /\ ~(Len(now) = 0 /\ gen[p] + 1 < Puts(s, p))
          /\ ~((gen[p] + 1) + 1 < Puts(s, p)) /\ Len(later) = 0
      <4>1. ~((gen[p] + 1) + 1 < Puts(s, p))
        <5>1. Puts(s, p) \in {gen[s], gen[s] + 1} /\ gen[s] \in Nat
          BY <2>1, <2>3, PscwPairIs
        <5>2. QED
          BY <1>3, <3>1, <5>1
      <4>2. QED
        BY <3>1, <3>2, <3>3, <4>1
    <3>6. /\ gen'[p] = gen[p] + 1 /\ Completes(s)' = Completes(s) /\ Puts(s, p)' = Puts(s, p)
          /\ flight'[s][p][(gen[p] + 1) % 2] = now
          /\ flight'[s][p][((gen[p] + 1) + 1) % 2] = later
      BY <1>1, <1>7, <1>8, <3>4 DEF now, later
    <3>7. QED
      BY <1>8, <2>3, <3>5, <3>6 DEF PscwPair
  <2>4. QED
    BY <2>2, <2>3
<1>10. PscwBase'
  BY <1>1, <1>2, <1>6 DEF PscwBase, FlightShape, Rank
<1>11. ASSUME NEW s \in Rank
       PROVE  PscwRank(s)'
  <2>1. PscwRank(s)
    BY <1>2
  <2>2. CASE s = p
    BY <1>1, <1>3, <1>6, <2>1, <2>2 DEF PscwRank, Neighbours, Rank
  <2>3. CASE s # p
    BY <1>1, <1>6, <1>7, <2>1, <2>3 DEF PscwRank, Neighbours, Rank
  <2>4. QED
    BY <2>2, <2>3
<1>12. /\ posted' = [s \in Rank |-> [x \in 0 .. 1 |-> Count(Posts(s)', x)]]
       /\ completed' = [s \in Rank |-> [x \in 0 .. 1 |-> Count(Completes(s)', x)]]
  BY <1>1, <1>8, PscwParts
<1>13. PscwInv'
  BY <1>9, <1>10, <1>11, <1>12 DEF PscwInv, PscwBase, PscwRank, Neighbours, Rank
<1>14. \A q \in Neighbours(p) : gen[q] >= gen[p]
  BY <1>3, <1>4
<1>15. QED
  BY <1>3, <1>5, <1>13, <1>14 DEF Moves

-----------------------------------------------------------------------------
(* All programs.                                                           *)
LEMMA LifeStart ==
  ASSUME Init
  PROVE  LifeInv
<1>1. Fence!Init /\ Pscw!Init
  BY DEF Init
<1>2. /\ program \in Threaded => Swept!Init
      /\ program \notin Threaded => Pt2pt!Init
  BY DEF Init
<1>3. LoopInv /\ FenceInv /\ PscwInv
  BY <1>1, FenceStart, PscwStart, LoopStart
<1>4. program = "pt2pt" => CountInv /\ PtInv
  BY <1>2, Pt2ptStart DEF Threaded
<1>5. program \in Threaded => CountInv /\ ThreadInv
  BY <1>2, SweptStart
<1>6. program \notin {"pt2pt"} \cup Threaded => NoMessages
  <2>1. Pt2pt!Init => chan = [p \in Rank |-> [q \in Rank |-> <<>>]]
    BY DEF Pt2pt!Init, Pt2pt!Rank, Rank
  <2>2. QED
    BY <1>2, <2>1 DEF NoMessages
<1>7. NoRows
  BY <1>1 DEF NoRows, Pscw!Init, Pscw!Rank, Rank
<1>8. NoPuts
  BY <1>1 DEF NoPuts, Fence!Init, Fence!Rank, Rank
<1>9. QED
  BY <1>3, <1>4, <1>5, <1>6, <1>7, <1>8 DEF LifeInv

(* All steps of the two-sided exchange together.                           *)
LEMMA Pt2ptStep ==
  ASSUME LoopInv, CountInv, PtInv, NEW p \in Rank, Pt2pt!Step(p)
  PROVE  LoopInv' /\ CountInv' /\ PtInv' /\ (Stays \/ Moves(p))
<1>1. CASE Pt2pt!Generation(p)
  BY <1>1, Pt2ptGeneration
<1>2. ASSUME NEW q \in Neighbours(p), Pt2pt!Send(p, q)
      PROVE  LoopInv' /\ CountInv' /\ PtInv' /\ Stays
  BY <1>2, Pt2ptSend
<1>3. ASSUME NEW q \in Neighbours(p), Pt2pt!Recv(p, q)
      PROVE  LoopInv' /\ CountInv' /\ PtInv' /\ Stays
  <2>1. q \in Rank /\ p \in Neighbours(q)
    BY NeighbourIs
  <2>2. QED
    BY <1>3, <2>1, Pt2ptRecv
<1>4. \/ Pt2pt!Generation(p)
      \/ \E q \in Neighbours(p) : Pt2pt!Send(p, q) \/ Pt2pt!Recv(p, q)
  BY Pt2ptLoop DEF Pt2pt!Step
<1>5. QED
  BY <1>1, <1>2, <1>3, <1>4

(* All steps of the exchange with fences together.                         *)
LEMMA FenceStep ==
  ASSUME LoopInv, FenceInv, NEW p \in Rank, Fence!Step(p)
  PROVE  LoopInv' /\ FenceInv' /\ (Stays \/ Moves(p))
<1>1. \/ Fence!OpenFence(p) \/ Fence!CloseFence(p) \/ Fence!Generation(p)
      \/ \E q \in Neighbours(p) : Fence!Put(p, q)
  BY FenceLoop DEF Fence!Step
<1>2. QED
  BY <1>1, FenceOpen, FenceClose, FenceGeneration, FencePut

(* All steps of the exchange with post, start, complete and wait together. *)
LEMMA PscwStep ==
  ASSUME LoopInv, PscwInv, NEW p \in Rank, Pscw!Step(p)
  PROVE  LoopInv' /\ PscwInv' /\ (Stays \/ Moves(p))
<1>1. \/ Pscw!Post(p) \/ Pscw!Start(p) \/ Pscw!Complete(p) \/ Pscw!Generation(p)
      \/ \E q \in Neighbours(p) : Pscw!Put(p, q) \/ \E w \in 0 .. 1 : Pscw!Store(p, q, w)
  BY PscwLoop DEF Pscw!Step
<1>2. ASSUME NEW q \in Neighbours(p), Pscw!Put(p, q)
      PROVE  LoopInv' /\ PscwInv' /\ Stays
  BY <1>2, PscwPut
<1>3. ASSUME NEW q \in Neighbours(p), NEW w \in 0 .. 1, Pscw!Store(p, q, w)
      PROVE  LoopInv' /\ PscwInv' /\ Stays
  BY <1>3, PscwStore
<1>4. QED
  BY <1>1, <1>2, <1>3, PscwPost, PscwAccess, PscwComplete, PscwGeneration

(* A step of any program in one dimension keeps LifeInv and is a step of   *)
(* Rounds or none.                                                         *)
LEMMA LineSteps ==
  ASSUME LifeInv, NEW p \in Rank, LineStep(p)
  PROVE  /\ LifeInv' /\ program' = program
         /\ program \in {"pt2pt", "fence", "pscw"} => Stays \/ Moves(p)
<1>1. CASE program = "pt2pt" /\ Pt2pt!Step(p) /\ UNCHANGED <<program, phase, fenceOnly, pscwOnly, sweepOnly>>
  <2>1. LoopInv' /\ CountInv' /\ PtInv' /\ (Stays \/ Moves(p))
    BY <1>1, Pt2ptStep DEF LifeInv
  <2>2. program' = "pt2pt" /\ flight' = flight /\ puts' = puts
    BY <1>1 DEF pscwOnly, fenceOnly
  <2>3. NoRows' /\ NoPuts'
    BY <1>1, <2>2 DEF LifeInv, NoRows, NoPuts, Rank
  <2>4. QED
    BY <1>1, <2>1, <2>2, <2>3 DEF LifeInv, Threaded
<1>2. CASE program = "fence" /\ Fence!Step(p) /\ UNCHANGED <<program, pt2ptOnly, pscwOnly, sweepOnly>>
  <2>1. LoopInv' /\ FenceInv' /\ (Stays \/ Moves(p))
    BY <1>2, FenceStep DEF LifeInv
  <2>2. program' = "fence" /\ flight' = flight /\ chan' = chan
    BY <1>2 DEF pscwOnly, pt2ptOnly
  <2>3. NoRows' /\ NoMessages'
    BY <1>2, <2>2 DEF LifeInv, NoRows, NoMessages, Rank, Threaded
  <2>4. QED
    BY <1>2, <2>1, <2>2, <2>3 DEF LifeInv, Threaded
<1>3. CASE program = "pscw" /\ Pscw!Step(p) /\ UNCHANGED <<program, pt2ptOnly, fenceOnly, sweepOnly>>
  <2>1. LoopInv' /\ PscwInv' /\ (Stays \/ Moves(p))
    BY <1>3, PscwStep DEF LifeInv
  <2>2. program' = "pscw" /\ puts' = puts /\ chan' = chan
    BY <1>3 DEF fenceOnly, pt2ptOnly
  <2>3. NoPuts' /\ NoMessages'
    BY <1>3, <2>2 DEF LifeInv, NoPuts, NoMessages, Rank, Threaded
  <2>4. QED
    BY <1>3, <2>1, <2>2, <2>3 DEF LifeInv, Threaded
<1>4. CASE program \in Threaded /\ Swept!Step(p) /\ UNCHANGED <<phase, fenceOnly, pscwOnly>>
  <2>1. CountInv' /\ ThreadInv'
    BY <1>4, SweptStep DEF LifeInv
  <2>2. program' = program
    <3>1. \/ Swept!Message(p) \/ Swept!SwapAll(p)
          \/ \E t \in Swept!Thread : Swept!Rows12(p, t) \/ Swept!Interior(p, t) \/ Swept!Edges(p, t)
      BY <1>4 DEF Swept!Step
    <3>2. QED
      BY <3>1 DEF Swept!Message, Swept!SwapAll, Swept!Rows12, Swept!Interior, Swept!Edges,
                  Swept!Sweep
  <2>3. flight' = flight /\ puts' = puts
    BY <1>4 DEF pscwOnly, fenceOnly
  <2>4. NoRows' /\ NoPuts'
    BY <1>4, <2>3 DEF LifeInv, NoRows, NoPuts, Rank, Threaded
  <2>5. QED
    BY <1>4, <2>1, <2>2, <2>4 DEF LifeInv, Threaded
<1>5. QED
  BY <1>1, <1>2, <1>3, <1>4 DEF LineStep, OfPt2pt, OfFence, OfPscw, OfSwept

(* The steps of the programs in two dimensions leave it all as it is.      *)
LEMMA LifeSame ==
  ASSUME LifeInv, UNCHANGED <<program, lineVars>>
  PROVE  LifeInv' /\ Stays
<1>1. /\ program' = program /\ UNCHANGED <<start, gen, buf, cur>> /\ reqs' = reqs /\ chan' = chan
      /\ phase' = phase /\ opened' = opened /\ closed' = closed /\ puts' = puts
      /\ posted' = posted /\ completed' = completed /\ toPut' = toPut /\ flight' = flight
      /\ at' = at
  BY DEF lineVars, loopVars, pt2ptOnly, fenceOnly, pscwOnly, sweepOnly
<1>2. LoopInv => LoopInv' /\ \A s, t : HaloRight(s, t)' = HaloRight(s, t)
  BY <1>1, LoopSame
<1>3. CountInv => CountInv'
  BY <1>1 DEF CountInv, Sent, Got, Neighbours, Rank
<1>4. LoopInv /\ PtInv => PtInv'
  <2>1. ASSUME NEW s, NEW t, ChanRight(s, t)
        PROVE  ChanRight(s, t)'
    BY <1>1, <2>1, Zenon DEF ChanRight, ChanIn, Sent, Got, Sane, Shape, Bottom, DeadRow,
                             Right, RightIn, HaloIndex,
                      MyRows, MyRowOffset, MLIFE_myrows, MLIFE_myrowoffset
  <2>2. QED
    BY <1>1, <1>2, <2>1 DEF PtInv, PtIn, ChanRight, HaloRight, Neighbours, Rank
<1>5. ThreadInv => ThreadInv'
  BY <1>1 DEF ThreadInv, Rank
<1>6. LoopInv /\ FenceInv => FenceInv'
  <2>1. \A s : Opens(s)' = Opens(s) /\ Closes(s)' = Closes(s)
    BY <1>1 DEF Opens, Closes
  <2>2. LoopInv => \A s, t : FencePair(s, t)' = FencePair(s, t)
    BY <1>1, <1>2 DEF FencePair
  <2>3. QED
    BY <1>1, <2>1, <2>2 DEF FenceInv, Neighbours, Rank
<1>7. LoopInv /\ PscwInv => PscwInv'
  <2>1. /\ \A s : Posts(s)' = Posts(s) /\ Completes(s)' = Completes(s)
        /\ \A s, t : Puts(s, t)' = Puts(s, t)
        /\ \A f, k, s, t : InFlight(f, k, s, t)' = InFlight(f, k, s, t)
    BY <1>1, InFlightSame DEF Posts, Completes, Puts
  <2>2. LoopInv => \A s, t : PscwPair(s, t)' = PscwPair(s, t)
    BY <1>1, <1>2, <2>1 DEF PscwPair
  <2>3. PscwBase => PscwBase'
    BY <1>1 DEF PscwBase, FlightShape, Rank
  <2>4. \A s : PscwRank(s)' = PscwRank(s)
    BY <1>1 DEF PscwRank, Neighbours, Rank
  <2>5. QED
    BY <1>1, <2>1, <2>2, <2>3, <2>4 DEF PscwInv, PscwBase, PscwRank, Neighbours, Rank
<1>8. (NoMessages => NoMessages') /\ (NoRows => NoRows') /\ (NoPuts => NoPuts')
  BY <1>1 DEF NoMessages, NoRows, NoPuts, Rank
<1>9. QED
  BY <1>1, <1>2, <1>3, <1>4, <1>5, <1>6, <1>7, <1>8 DEF LifeInv, Threaded, Stays

(* LifeInv is inductive, and the program that runs never changes.          *)
LEMMA LifeSteps ==
  ASSUME LifeInv, [Next]_vars
  PROVE  /\ LifeInv' /\ program' = program
         /\ program \in {"pt2pt", "fence", "pscw"} => Stays \/ \E p \in Rank : Moves(p)
<1>1. CASE UNCHANGED <<program, lineVars>>
  BY <1>1, LifeSame
<1>2. ASSUME NEW p \in Rank, LineStep(p)
      PROVE  /\ LifeInv' /\ program' = program
             /\ program \in {"pt2pt", "fence", "pscw"} => Stays \/ Moves(p)
  BY <1>2, LineSteps
<1>3. UNCHANGED <<program, lineVars>> \/ \E p \in Rank : LineStep(p)
  BY DEF Next, Step, OfLine, OfMesh, vars
<1>4. QED
  BY <1>1, <1>2, <1>3


-----------------------------------------------------------------------------
(* LifeInv is strong enough for BoundedMessages.                           *)
LEMMA FewMessages ==
  ASSUME LifeInv
  PROVE  BoundedMessages
<1>1. Pt2pt!BoundedMessages
  <2>1. SUFFICES ASSUME NEW p \in Rank, NEW q \in Rank
                 PROVE  Len(chan[p][q]) <= 2
    BY Pt2ptLoop DEF Pt2pt!BoundedMessages
  <2>2. CASE program \in {"pt2pt"} \cup Threaded
    BY <2>2, AtMostTwo DEF LifeInv
  <2>3. CASE program \notin {"pt2pt"} \cup Threaded
    <3>1. chan[p][q] = <<>>
      BY <2>3 DEF LifeInv, NoMessages
    <3>2. QED
      BY <3>1, EmptyQueue
  <2>4. QED
    BY <2>2, <2>3
<1>2. Pscw!OneRowInFlight
  <2>1. SUFFICES ASSUME NEW p \in Rank, NEW q \in Rank, NEW w \in 0 .. 1
                 PROVE  Len(flight[p][q][w]) <= 1
    BY PscwLoop DEF Pscw!OneRowInFlight
  <2>2. CASE program = "pscw"
    BY <2>2, OneInFlight DEF LifeInv
  <2>3. CASE program # "pscw"
    <3>1. flight[p][q][w] = <<>>
      BY <2>3 DEF LifeInv, NoRows
    <3>2. QED
      BY <3>1, EmptyQueue
  <2>4. QED
    BY <2>2, <2>3
<1>3. QED
  BY <1>1, <1>2 DEF BoundedMessages

(* With pNeo beside them the life programs still do only steps of their    *)
(* own.                                                                    *)
LEMMA LifeAlone ==
  /\ AllInit => Init
  /\ [AllNext]_allVars => [Next]_vars
BY DEF AllInit, AllNext, allVars, OfLife, OfPneo

(* BoundedMessages holds for every matrix, number of ranks, threads and    *)
(* generations: a rank enters MPI_Waitall with at most one message of each *)
(* neighbour not yet received, and at most one more can be sent before the *)
(* neighbour has to answer; with MPI_Win_start and MPI_Win_complete a rank *)
(* cannot put a second row before the first one is read.                   *)
THEOREM FewMessagesHeld == AllSpec => []BoundedMessages
<1>1. AllInit => LifeInv
  BY LifeAlone, LifeStart
<1>2. LifeInv /\ [AllNext]_allVars => LifeInv'
  BY LifeAlone, LifeSteps
<1>3. LifeInv => BoundedMessages
  BY FewMessages
<1>4. QED
  BY <1>1, <1>2, <1>3, PTL DEF AllSpec

-----------------------------------------------------------------------------
Lines == {"pt2pt", "fence", "pscw"}

LineInv == LifeInv /\ program \in Lines \cap Programs

(* The blocks of the refinement mapping are those Rounds asks for.         *)
LEMMA BlocksNow ==
  LineInv => [p \in Rank |-> [i \in 1 .. MyRows(p) |-> matrix(p)[i]]]
               = [p \in Rank |-> BlockAt(start, gen[p], p)]
<1>1. ASSUME LineInv, NEW p \in Rank
      PROVE  [i \in 1 .. MyRows(p) |-> matrix(p)[i]] = BlockAt(start, gen[p], p)
  <2>1. RowsAreRight(p)
    BY <1>1 DEF LineInv, LifeInv, Lines, LoopInv, LoopIn, RowsAreRight
  <2>2. QED
    BY <2>1 DEF RowsAreRight, RowsIn, BlockAt
<1>2. QED
  BY <1>1

(* For these programs Rounds asks for the rows of the whole matrix.        *)
LEMMA BlocksAreRows ==
  ASSUME NEW s, NEW k, NEW p, program \in Lines
  PROVE  BlockOf(<<program, s>>, k, p) = BlockAt(s, k, p)
BY DEF BlockOf, Lines

(* The three exchanges compute the same: a rank that says it has computed  *)
(* generation k holds its rows of generation k of the whole matrix, in     *)
(* every state, and no rank runs ahead of a neighbour by more than one     *)
(* generation (ComputesRounds, for the programs in one dimension).         *)
THEOREM LinesComputeLife == AllSpec /\ program \in Lines => Blocks!Spec
<1> DEFINE Blocked == [p \in Rank |-> [i \in 1 .. MyRows(p) |-> matrix(p)[i]]]
<1>1. AllInit /\ program \in Lines => LineInv
  BY LifeAlone, LifeStart DEF LineInv, Init
<1>2. LineInv /\ [AllNext]_allVars => LineInv'
  BY LifeAlone, LifeSteps DEF LineInv
<1>3. AllInit /\ program \in Lines => Blocks!Init
  <2>1. SUFFICES ASSUME AllInit, program \in Lines
                 PROVE  Blocks!Init
    OBVIOUS
  <2>2. LineInv /\ program \in Programs
    BY <2>1, <1>1 DEF LineInv
  <2>3. start \in Starts /\ gen = [p \in Rank |-> 0]
    <3>1. Fence!Init
      BY <2>1, LifeAlone DEF Init
    <3>2. LoopInit
      BY <3>1, FenceStart
    <3>3. QED
      BY <3>2 DEF LoopInit
  <2>4. Blocked = [p \in Rank |-> BlockOf(<<program, start>>, 0, p)]
    <3>1. Blocked = [p \in Rank |-> BlockAt(start, gen[p], p)]
      BY <2>2, BlocksNow
    <3>2. \A p \in Rank : BlockAt(start, gen[p], p) = BlockOf(<<program, start>>, 0, p)
      BY <2>1, <2>3, BlocksAreRows
    <3>3. QED
      BY <3>1, <3>2
  <2>5. QED
    BY <2>2, <2>3, <2>4 DEF Blocks!Init
<1>4. LineInv /\ [AllNext]_allVars => [Blocks!Next]_(Blocks!vars)
  <2>1. SUFFICES ASSUME LineInv, [AllNext]_allVars
                 PROVE  [Blocks!Next]_(Blocks!vars)
    OBVIOUS
  <2>2. LineInv'
    BY <2>1, <1>2
  <2>3. program' = program /\ program \in Lines /\ (Stays \/ \E p \in Rank : Moves(p))
    BY <2>1, LifeAlone, LifeSteps DEF LineInv, Lines
  <2>4. start' = start
    BY <2>3 DEF Stays, Moves
  <2>5. /\ Blocked = [p \in Rank |-> BlockAt(start, gen[p], p)]
        /\ Blocked' = [p \in Rank |-> BlockAt(start, gen'[p], p)]
    <3>1. (LineInv => Blocked = [p \in Rank |-> BlockAt(start, gen[p], p)])'
      BY BlocksNow, PTL
    <3>2. Blocked' = [p \in Rank |-> BlockAt(start', gen'[p], p)]
      BY <2>2, <3>1 DEF BlockAt, MyRows, MyRowOffset, MLIFE_myrows, MLIFE_myrowoffset
    <3>3. QED
      BY <2>1, <3>2, <2>4, BlocksNow
  <2>6. CASE Stays
    BY <2>6, <2>3, <2>5 DEF Stays, Blocks!vars
  <2>7. ASSUME NEW p \in Rank, Moves(p)
        PROVE  Blocks!Advance(p)
    <3>1. gen' = [gen EXCEPT ![p] = @ + 1] /\ gen \in [Rank -> 0 .. Iter]
      BY <2>7, <2>1 DEF Moves, LineInv, LifeInv, Lines, LoopInv, LoopIn
    <3>2. Blocked' = [Blocked EXCEPT ![p] = BlockAt(start, gen'[p], p)]
      BY <2>5, <3>1
    <3>3. BlockAt(start, gen'[p], p) = BlockOf(<<program, start>>, gen'[p], p)
      BY <2>3, BlocksAreRows
    <3>4. QED
      BY <2>7, <2>3, <3>2, <3>3 DEF Moves, Blocks!Advance
  <2>8. QED
    BY <2>3, <2>6, <2>7 DEF Blocks!Next
<1>5. QED
  BY <1>1, <1>2, <1>3, <1>4, PTL DEF AllSpec, Blocks!Spec


-----------------------------------------------------------------------------
(* The programs in two dimensions: how often rank p has completed the      *)
(* request x of half h of its exchange, and the request x that concerns q, *)
(* in whichever half.                                                      *)
Did(p, x, h) ==
  gen2[p] + (IF gen2[p] < Iter /\ (h < half[p] \/ (h = half[p] /\ x \notin reqs2[p]))
               THEN 1 ELSE 0)

Times(p, q, x) == (IF q \in Mesh!Beside(p)  THEN Did(p, x, 1) ELSE 0)
                    + (IF q \in Mesh!Stacked(p) THEN Did(p, x, 2) ELSE 0)

Partners(p, h) == IF h = 1 THEN Mesh!Beside(p) ELSE Mesh!Stacked(p)

MeshShape ==
  /\ half \in [Mesh!Rank -> {1, 2}]
  /\ DOMAIN reqs2 = Mesh!Rank
  /\ \A p \in Mesh!Rank : /\ reqs2[p] \subseteq {"send", "recv"} \X Partners(p, half[p])
                          /\ gen2[p] = Iter => reqs2[p] = {}

MeshCount ==
  /\ MeshShape
  /\ DOMAIN chan2 = Mesh!Rank
  /\ \A p \in Mesh!Rank : DOMAIN chan2[p] = Mesh!Rank
  /\ \A p, q \in Mesh!Rank :
       /\ IsSeq(chan2[p][q])
       /\ Len(chan2[p][q]) = Times(p, q, <<"send", q>>) - Times(q, p, <<"recv", p>>)

MeshPuts ==
  /\ DOMAIN phase2 = Mesh!Rank /\ DOMAIN puts2 = Mesh!Rank
  /\ \A p \in Mesh!Rank : /\ phase2[p] = "compute" => puts2[p] = {}
                          /\ phase2[p] # "compute" => gen2[p] < Iter

MeshInv ==
  /\ gen2 \in [Mesh!Rank -> 0 .. Iter]
  /\ exchange = "pt2pt" => MeshCount /\ \A p \in Mesh!Rank : puts2[p] = {}
  /\ exchange = "fence" => MeshPuts /\ \A p, q \in Mesh!Rank : chan2[p][q] = <<>>
  /\ exchange \in {"pt2pt", "fence"}

(* Two ranks that exchange do so in the same half.                         *)
LEMMA SameHalf ==
  ASSUME NEW p \in Mesh!Rank, NEW q \in Mesh!Rank
  PROVE  /\ q \in Mesh!Beside(p) <=> p \in Mesh!Beside(q)
         /\ q \in Mesh!Stacked(p) <=> p \in Mesh!Stacked(q)
<1>1. PRows * PCols \in Int /\ PCols \in Int /\ p \in Int /\ q \in Int
  <2>1. PCols \in Nat /\ PRows \in Nat
    BY MeshAssumption DEF Mesh!MeshAssumption
  <2>2. QED
    BY <2>1 DEF Mesh!Rank
<1>2. q \in {p - 1, p + 1} <=> p \in {q - 1, q + 1}
  BY <1>1
<1>3. q \in {p - PCols, p + PCols} <=> p \in {q - PCols, q + PCols}
  BY <1>1
<1>4. QED
  BY <1>2, <1>3 DEF Mesh!Beside, Mesh!Stacked

(* The instances in MCLife2d mean the same by these names.                 *)
LEMMA MeshNames ==
  /\ Mesh!Pt2pt!Rank = Mesh!Rank /\ Mesh!Fence!Rank = Mesh!Rank
  /\ \A p, h : Mesh!Pt2pt!Requests(p, h) = {"send", "recv"} \X Partners(p, h)
  /\ \A p : /\ Mesh!Pt2pt!MoreToDo(p) <=> gen2[p] < Iter
            /\ Mesh!Fence!MoreToDo(p) <=> gen2[p] < Iter
            /\ Mesh!Pt2pt!Compute(p) => gen2' = [gen2 EXCEPT ![p] = @ + 1]
            /\ Mesh!Fence!Compute(p) => gen2' = [gen2 EXCEPT ![p] = @ + 1]
<1>1. Mesh!Pt2pt!Rank = Mesh!Rank /\ Mesh!Fence!Rank = Mesh!Rank
  BY DEF Mesh!Pt2pt!Rank, Mesh!Fence!Rank, Mesh!Rank
<1>2. \A p : Mesh!Pt2pt!Beside(p) = Mesh!Beside(p) /\ Mesh!Pt2pt!Stacked(p) = Mesh!Stacked(p)
  BY <1>1 DEF Mesh!Pt2pt!Beside, Mesh!Beside, Mesh!Pt2pt!Stacked, Mesh!Stacked,
              Mesh!Pt2pt!prow, Mesh!prow
<1>3. \A p, h : Mesh!Pt2pt!Requests(p, h) = {"send", "recv"} \X Partners(p, h)
  BY <1>2 DEF Mesh!Pt2pt!Requests, Mesh!Pt2pt!Partners, Partners
<1>4. \A p : /\ Mesh!Pt2pt!MoreToDo(p) <=> gen2[p] < Iter
             /\ Mesh!Fence!MoreToDo(p) <=> gen2[p] < Iter
  BY DEF Mesh!Pt2pt!MoreToDo, Mesh!Fence!MoreToDo
<1>5. \A p : /\ Mesh!Pt2pt!Compute(p) => gen2' = [gen2 EXCEPT ![p] = @ + 1]
             /\ Mesh!Fence!Compute(p) => gen2' = [gen2 EXCEPT ![p] = @ + 1]
  BY DEF Mesh!Pt2pt!Compute, Mesh!Fence!Compute
<1>6. QED
  BY <1>1, <1>3, <1>4, <1>5

(* A request that completes is counted, and no other.                      *)
LEMMA Completing ==
  ASSUME MeshShape, gen2 \in [Mesh!Rank -> 0 .. Iter], NEW p \in Mesh!Rank, NEW q,
         NEW d \in {"send", "recv"}, <<d, q>> \in reqs2[p],
         gen2' = gen2, half' = half, reqs2' = [reqs2 EXCEPT ![p] = @ \ {<<d, q>>}]
  PROVE  /\ MeshShape'
         /\ Times(p, q, <<d, q>>)' = Times(p, q, <<d, q>>) + 1
         /\ \A s \in Mesh!Rank, t \in Mesh!Rank, c \in {"send", "recv"} :
              s # p \/ t # q \/ c # d => Times(s, t, <<c, t>>)' = Times(s, t, <<c, t>>)
<1>1. /\ Iter \in Nat /\ gen2[p] \in 0 .. Iter /\ gen2[p] # Iter /\ half[p] \in {1, 2}
      /\ q \in Partners(p, half[p])
  BY GridAssumption DEF MeshShape, GridAssumption
<1>2. /\ DOMAIN reqs2' = Mesh!Rank /\ reqs2'[p] = reqs2[p] \ {<<d, q>>}
      /\ \A s \in Mesh!Rank : s # p => reqs2'[s] = reqs2[s]
  BY DEF MeshShape
<1>3. MeshShape'
  BY <1>2 DEF MeshShape, Partners, Mesh!Rank, Mesh!Beside, Mesh!Stacked, Mesh!prow
<1>4. \A s \in Mesh!Rank : \A x, h : s # p \/ x # <<d, q>> => Did(s, x, h)' = Did(s, x, h)
  BY <1>2 DEF Did
<1>5. /\ half[p] = 1 => /\ Did(p, <<d, q>>, 1)' = Did(p, <<d, q>>, 1) + 1
                        /\ Did(p, <<d, q>>, 2)' = Did(p, <<d, q>>, 2)
      /\ half[p] = 2 => /\ Did(p, <<d, q>>, 2)' = Did(p, <<d, q>>, 2) + 1
                        /\ Did(p, <<d, q>>, 1)' = Did(p, <<d, q>>, 1)
      /\ Did(p, <<d, q>>, 1) \in Nat /\ Did(p, <<d, q>>, 2) \in Nat
  BY <1>1, <1>2 DEF Did
<1>6. Times(p, q, <<d, q>>)' = Times(p, q, <<d, q>>) + 1
  <2>1. CASE half[p] = 1 /\ q \in Mesh!Beside(p)
    BY <1>5, <2>1 DEF Times, Mesh!Beside, Mesh!Stacked, Mesh!Rank, Mesh!prow
  <2>2. CASE half[p] = 2 /\ q \in Mesh!Stacked(p)
    BY <1>5, <2>2 DEF Times, Mesh!Beside, Mesh!Stacked, Mesh!Rank, Mesh!prow
  <2>3. QED
    BY <1>1, <2>1, <2>2 DEF Partners
<1>7. ASSUME NEW s \in Mesh!Rank, NEW t \in Mesh!Rank, NEW c \in {"send", "recv"},
             s # p \/ t # q \/ c # d
      PROVE  Times(s, t, <<c, t>>)' = Times(s, t, <<c, t>>)
  <2>1. s # p \/ <<c, t>> # <<d, q>>
    BY <1>7
  <2>2. Did(s, <<c, t>>, 1)' = Did(s, <<c, t>>, 1) /\ Did(s, <<c, t>>, 2)' = Did(s, <<c, t>>, 2)
    BY <1>4, <2>1
  <2>3. QED
    BY <2>2 DEF Times
<1>8. QED
  BY <1>3, <1>6, <1>7

(* Neither the return of MPI_Waitall nor the posting of the next requests  *)
(* completes one.                                                          *)
LEMMA PostingHalf ==
  ASSUME MeshShape, gen2 \in [Mesh!Rank -> 0 .. Iter], NEW p \in Mesh!Rank,
         gen2[p] < Iter, reqs2[p] = {},
         \/ /\ half[p] = 1 /\ half' = [half EXCEPT ![p] = 2] /\ gen2' = gen2
            /\ reqs2' = [reqs2 EXCEPT ![p] = {"send", "recv"} \X Partners(p, 2)]
         \/ /\ half[p] = 2 /\ half' = [half EXCEPT ![p] = 1]
            /\ gen2' = [gen2 EXCEPT ![p] = @ + 1]
            /\ reqs2' = [reqs2 EXCEPT ![p] = IF gen2'[p] < Iter
                                               THEN {"send", "recv"} \X Partners(p, 1) ELSE {}]
  PROVE  /\ MeshShape' /\ gen2' \in [Mesh!Rank -> 0 .. Iter]
         /\ \A s \in Mesh!Rank, t \in Mesh!Rank, c \in {"send", "recv"} :
              Times(s, t, <<c, t>>)' = Times(s, t, <<c, t>>)
<1>1. /\ Iter \in Nat /\ gen2[p] \in 0 .. Iter /\ DOMAIN gen2 = Mesh!Rank
      /\ DOMAIN half = Mesh!Rank /\ DOMAIN reqs2 = Mesh!Rank
  BY GridAssumption DEF MeshShape, GridAssumption
<1>2. \A s \in Mesh!Rank : s # p => /\ gen2'[s] = gen2[s] /\ half'[s] = half[s]
                                    /\ reqs2'[s] = reqs2[s]
  BY <1>1
<1>3. \/ /\ half[p] = 1 /\ half'[p] = 2 /\ gen2'[p] = gen2[p]
         /\ reqs2'[p] = {"send", "recv"} \X Partners(p, 2)
      \/ /\ half[p] = 2 /\ half'[p] = 1 /\ gen2'[p] = gen2[p] + 1
         /\ reqs2'[p] = IF gen2'[p] < Iter THEN {"send", "recv"} \X Partners(p, 1) ELSE {}
  BY <1>1
<1>4. gen2' \in [Mesh!Rank -> 0 .. Iter] /\ half' \in [Mesh!Rank -> {1, 2}]
  BY <1>1 DEF MeshShape
<1>5. MeshShape'
  <2>1. DOMAIN reqs2' = Mesh!Rank
    BY <1>1
  <2>2. ASSUME NEW s \in Mesh!Rank
        PROVE  /\ reqs2'[s] \subseteq {"send", "recv"} \X Partners(s, half'[s])
               /\ gen2'[s] = Iter => reqs2'[s] = {}
    <3>1. CASE s # p
      BY <1>2, <3>1 DEF MeshShape
    <3>2. CASE s = p
      BY <1>1, <1>3, <3>2
    <3>3. QED
      BY <3>1, <3>2
  <2>3. QED
    BY <1>4, <2>1, <2>2 DEF MeshShape, Partners, Mesh!Rank, Mesh!Beside, Mesh!Stacked, Mesh!prow
<1>6. ASSUME NEW s \in Mesh!Rank, NEW t \in Mesh!Rank, NEW c \in {"send", "recv"}
      PROVE  Times(s, t, <<c, t>>)' = Times(s, t, <<c, t>>)
  <2>1. CASE s # p
    <3>1. \A h : Did(s, <<c, t>>, h)' = Did(s, <<c, t>>, h)
      BY <1>2, <2>1 DEF Did
    <3>2. QED
      BY <3>1 DEF Times
  <2>2. CASE s = p
    <3>1. t \in Mesh!Beside(p) => Did(p, <<c, t>>, 1)' = Did(p, <<c, t>>, 1)
      BY <1>1, <1>3 DEF Did, Partners
    <3>2. t \in Mesh!Stacked(p) => Did(p, <<c, t>>, 2)' = Did(p, <<c, t>>, 2)
      BY <1>1, <1>3 DEF Did, Partners
    <3>3. QED
      BY <2>2, <3>1, <3>2 DEF Times, Mesh!Beside, Mesh!Stacked, Mesh!Rank, Mesh!prow
  <2>3. QED
    BY <2>1, <2>2
<1>7. QED
  BY <1>4, <1>5, <1>6

(* A message is sent or received in the exchange by halves.                *)
LEMMA MeshMessage ==
  ASSUME MeshCount, gen2 \in [Mesh!Rank -> 0 .. Iter], NEW p \in Mesh!Rank, NEW q \in Mesh!Rank,
         Mesh!Pt2pt!Send(p, q) \/ Mesh!Pt2pt!Recv(p, q)
  PROVE  MeshCount' /\ gen2' = gen2
<1>1. /\ DOMAIN chan2 = Mesh!Rank
      /\ \A s \in Mesh!Rank : DOMAIN chan2[s] = Mesh!Rank
      /\ \A s, t \in Mesh!Rank : IsSeq(chan2[s][t])
  BY DEF MeshCount
<1> DEFINE S(s, t) == Times(s, t, <<"send", t>>)
           R(s, t) == Times(t, s, <<"recv", s>>)
<1>2. \A s, t \in Mesh!Rank : Len(chan2[s][t]) = S(s, t) - R(s, t)
  BY DEF MeshCount
<1>3. \A s \in Mesh!Rank : \A t, x : Times(s, t, x) \in Int
  BY GridAssumption DEF Times, Did, GridAssumption
<1>4. CASE Mesh!Pt2pt!Send(p, q)
  <2>1. /\ <<"send", q>> \in reqs2[p] /\ gen2' = gen2 /\ half' = half
        /\ reqs2' = [reqs2 EXCEPT ![p] = @ \ {<<"send", q>>}]
    BY <1>4 DEF Mesh!Pt2pt!Send
  <2>2. PICK r : chan2' = [chan2 EXCEPT ![p][q] = Append(@, r)]
    BY <1>4 DEF Mesh!Pt2pt!Send
  <2>3. /\ MeshShape' /\ S(p, q)' = S(p, q) + 1
        /\ \A s, t \in Mesh!Rank : s # p \/ t # q => S(s, t)' = S(s, t)
        /\ \A s, t \in Mesh!Rank : R(s, t)' = R(s, t)
    <3>1. "send" \in {"send", "recv"} /\ "recv" \in {"send", "recv"} /\ MeshShape
      BY DEF MeshCount
    <3>2. /\ MeshShape'
          /\ Times(p, q, <<"send", q>>)' = Times(p, q, <<"send", q>>) + 1
          /\ \A s \in Mesh!Rank, t \in Mesh!Rank, c \in {"send", "recv"} :
               s # p \/ t # q \/ c # "send" => Times(s, t, <<c, t>>)' = Times(s, t, <<c, t>>)
      <4>1. MeshShape'
        BY <2>1, <3>1, Completing
      <4>2. Times(p, q, <<"send", q>>)' = Times(p, q, <<"send", q>>) + 1
        BY <2>1, <3>1, Completing
      <4>3. QED
        BY <4>1, <4>2, <2>1, <3>1, Completing
    <3>3. QED
      BY <3>1, <3>2
  <2>4. /\ IsSeq(Append(chan2[p][q], r)) /\ Len(Append(chan2[p][q], r)) = Len(chan2[p][q]) + 1
    BY <1>1, Enqueued
  <2> DEFINE a == Append(chan2[p][q], r)
  <2>5. chan2' = [chan2 EXCEPT ![p][q] = a]
    BY <2>2
  <2>6. IsSeq(a) /\ Len(a) = S(p, q)' - R(p, q)'
    <3>1. Len(chan2[p][q]) = S(p, q) - R(p, q) /\ S(p, q) \in Int /\ R(p, q) \in Int
      BY <1>2, <1>3
    <3>2. S(p, q)' = S(p, q) + 1 /\ R(p, q)' = R(p, q)
      BY <2>3
    <3> HIDE DEF S, R
    <3>3. QED
      BY <2>4, <3>1, <3>2
  <2> HIDE DEF a, S, R
  <2>7. /\ DOMAIN chan2' = Mesh!Rank
        /\ \A s \in Mesh!Rank : DOMAIN chan2'[s] = Mesh!Rank
        /\ chan2'[p][q] = a
        /\ \A s, t \in Mesh!Rank : s # p \/ t # q => chan2'[s][t] = chan2[s][t]
    BY <1>1, <2>5
  <2>8. ASSUME NEW s \in Mesh!Rank, NEW t \in Mesh!Rank
        PROVE  IsSeq(chan2'[s][t]) /\ Len(chan2'[s][t]) = S(s, t)' - R(s, t)'
    <3>1. CASE s = p /\ t = q
      BY <2>6, <2>7, <3>1
    <3>2. CASE s # p \/ t # q
      <4>1. S(s, t)' = S(s, t) /\ R(s, t)' = R(s, t) /\ chan2'[s][t] = chan2[s][t]
        BY <2>3, <2>7, <3>2
      <4>2. IsSeq(chan2[s][t]) /\ Len(chan2[s][t]) = S(s, t) - R(s, t)
        BY <1>1, <1>2
      <4>3. QED
        BY <4>1, <4>2
    <3>3. QED
      BY <3>1, <3>2
  <2>9. QED
    BY <2>1, <2>3, <2>7, <2>8 DEF MeshCount, S, R, Mesh!Rank
<1>5. CASE Mesh!Pt2pt!Recv(p, q)
  <2>1. /\ <<"recv", q>> \in reqs2[p] /\ gen2' = gen2 /\ half' = half
        /\ reqs2' = [reqs2 EXCEPT ![p] = @ \ {<<"recv", q>>}]
        /\ chan2[q][p] # <<>> /\ chan2' = [chan2 EXCEPT ![q][p] = Tail(@)]
    BY <1>5 DEF Mesh!Pt2pt!Recv
  <2>2. /\ MeshShape' /\ R(q, p)' = R(q, p) + 1
        /\ \A s, t \in Mesh!Rank : s # q \/ t # p => R(s, t)' = R(s, t)
        /\ \A s, t \in Mesh!Rank : S(s, t)' = S(s, t)
    <3>1. "send" \in {"send", "recv"} /\ "recv" \in {"send", "recv"} /\ MeshShape
      BY DEF MeshCount
    <3>2. /\ MeshShape'
          /\ Times(p, q, <<"recv", q>>)' = Times(p, q, <<"recv", q>>) + 1
          /\ \A s \in Mesh!Rank, t \in Mesh!Rank, c \in {"send", "recv"} :
               s # p \/ t # q \/ c # "recv" => Times(s, t, <<c, t>>)' = Times(s, t, <<c, t>>)
      <4>1. MeshShape'
        BY <2>1, <3>1, Completing
      <4>2. Times(p, q, <<"recv", q>>)' = Times(p, q, <<"recv", q>>) + 1
        BY <2>1, <3>1, Completing
      <4>3. QED
        BY <4>1, <4>2, <2>1, <3>1, Completing
    <3>3. QED
      BY <3>1, <3>2
  <2>3. IsSeq(Tail(chan2[q][p])) /\ Len(Tail(chan2[q][p])) = Len(chan2[q][p]) - 1
    BY <1>1, <2>1, Dequeued
  <2> DEFINE a == Tail(chan2[q][p])
  <2>4. chan2' = [chan2 EXCEPT ![q][p] = a]
    BY <2>1
  <2>5. IsSeq(a) /\ Len(a) = S(q, p)' - R(q, p)'
    <3>1. Len(chan2[q][p]) = S(q, p) - R(q, p) /\ S(q, p) \in Int /\ R(q, p) \in Int
      BY <1>2, <1>3
    <3>2. S(q, p)' = S(q, p) /\ R(q, p)' = R(q, p) + 1
      BY <2>2
    <3> HIDE DEF S, R
    <3>3. QED
      BY <2>3, <3>1, <3>2
  <2> HIDE DEF a, S, R
  <2>6. /\ DOMAIN chan2' = Mesh!Rank
        /\ \A s \in Mesh!Rank : DOMAIN chan2'[s] = Mesh!Rank
        /\ chan2'[q][p] = a
        /\ \A s, t \in Mesh!Rank : s # q \/ t # p => chan2'[s][t] = chan2[s][t]
    BY <1>1, <2>4
  <2>7. ASSUME NEW s \in Mesh!Rank, NEW t \in Mesh!Rank
        PROVE  IsSeq(chan2'[s][t]) /\ Len(chan2'[s][t]) = S(s, t)' - R(s, t)'
    <3>1. CASE s = q /\ t = p
      BY <2>5, <2>6, <3>1
    <3>2. CASE s # q \/ t # p
      <4>1. S(s, t)' = S(s, t) /\ R(s, t)' = R(s, t) /\ chan2'[s][t] = chan2[s][t]
        BY <2>2, <2>6, <3>2
      <4>2. IsSeq(chan2[s][t]) /\ Len(chan2[s][t]) = S(s, t) - R(s, t)
        BY <1>1, <1>2
      <4>3. QED
        BY <4>1, <4>2
    <3>3. QED
      BY <3>1, <3>2
  <2>8. QED
    BY <2>1, <2>2, <2>6, <2>7 DEF MeshCount, S, R, Mesh!Rank
<1>6. QED
  BY <1>4, <1>5

(* The exchange by halves moves on to its second half, or the generation   *)
(* is computed.                                                            *)
LEMMA MeshPosting ==
  ASSUME MeshCount, gen2 \in [Mesh!Rank -> 0 .. Iter], NEW p \in Mesh!Rank,
         Mesh!Pt2pt!SecondHalf(p) \/ Mesh!Pt2pt!Generation(p)
  PROVE  MeshCount' /\ gen2' \in [Mesh!Rank -> 0 .. Iter]
<1>1. /\ gen2[p] < Iter /\ reqs2[p] = {} /\ chan2' = chan2
      /\ \/ /\ half[p] = 1 /\ half' = [half EXCEPT ![p] = 2] /\ gen2' = gen2
            /\ reqs2' = [reqs2 EXCEPT ![p] = {"send", "recv"} \X Partners(p, 2)]
         \/ /\ half[p] = 2 /\ half' = [half EXCEPT ![p] = 1]
            /\ gen2' = [gen2 EXCEPT ![p] = @ + 1]
            /\ reqs2' = [reqs2 EXCEPT ![p] = IF gen2'[p] < Iter
                                               THEN {"send", "recv"} \X Partners(p, 1) ELSE {}]
  <2>1. CASE Mesh!Pt2pt!SecondHalf(p)
    BY <2>1, MeshNames DEF Mesh!Pt2pt!SecondHalf
  <2>2. CASE Mesh!Pt2pt!Generation(p)
    BY <2>2, MeshNames DEF Mesh!Pt2pt!Generation
  <2>3. QED
    BY <2>1, <2>2
<1>2. /\ MeshShape' /\ gen2' \in [Mesh!Rank -> 0 .. Iter]
      /\ \A s \in Mesh!Rank, t \in Mesh!Rank, c \in {"send", "recv"} :
           Times(s, t, <<c, t>>)' = Times(s, t, <<c, t>>)
  BY <1>1, PostingHalf DEF MeshCount
<1>3. ASSUME NEW s \in Mesh!Rank, NEW t \in Mesh!Rank
      PROVE  /\ IsSeq(chan2'[s][t])
             /\ Len(chan2'[s][t]) = Times(s, t, <<"send", t>>)' - Times(t, s, <<"recv", s>>)'
  <2>1. /\ Times(s, t, <<"send", t>>)' = Times(s, t, <<"send", t>>)
        /\ Times(t, s, <<"recv", s>>)' = Times(t, s, <<"recv", s>>)
    BY <1>2
  <2>2. /\ IsSeq(chan2[s][t])
        /\ Len(chan2[s][t]) = Times(s, t, <<"send", t>>) - Times(t, s, <<"recv", s>>)
    BY DEF MeshCount
  <2>3. QED
    BY <1>1, <2>1, <2>2
<1>4. DOMAIN chan2' = Mesh!Rank /\ \A s \in Mesh!Rank : DOMAIN chan2'[s] = Mesh!Rank
  BY <1>1 DEF MeshCount
<1>5. QED
  BY <1>2, <1>3, <1>4 DEF MeshCount, Mesh!Rank

(* The fences: a rank that computes has nothing left to put.               *)
LEMMA MeshEpochs ==
  ASSUME MeshPuts, gen2 \in [Mesh!Rank -> 0 .. Iter], NEW p \in Mesh!Rank, Mesh!Fence!Step(p)
  PROVE  MeshPuts' /\ gen2' \in [Mesh!Rank -> 0 .. Iter]
<1>1. Iter \in Nat /\ gen2[p] \in 0 .. Iter
  BY GridAssumption DEF GridAssumption
<1>2. CASE Mesh!Fence!FirstFence(p)
  <2>1. /\ gen2[p] < Iter /\ phase2' = [phase2 EXCEPT ![p] = "columns"] /\ gen2' = gen2
        /\ \E x : puts2' = [puts2 EXCEPT ![p] = x]
    BY <1>2, MeshNames DEF Mesh!Fence!FirstFence, Mesh!Fence!PutTo, Mesh!Fence!loopVars
  <2>2. QED
    BY <2>1 DEF MeshPuts, Mesh!Rank
<1>3. CASE Mesh!Fence!EnterFence(p)
  <2>1. /\ phase2[p] # "compute" /\ gen2' = gen2 /\ puts2' = puts2
        /\ phase2' = [phase2 EXCEPT ![p] = IF @ = "columns" THEN "fence 2" ELSE "fence 3"]
    BY <1>3 DEF Mesh!Fence!EnterFence, Mesh!Fence!loopVars
  <2>2. QED
    BY <2>1 DEF MeshPuts, Mesh!Rank
<1>4. CASE Mesh!Fence!SecondFence(p)
  <2>1. /\ phase2[p] # "compute" /\ gen2' = gen2 /\ phase2' = [phase2 EXCEPT ![p] = "rows"]
        /\ \E x : puts2' = [puts2 EXCEPT ![p] = x]
    BY <1>4 DEF Mesh!Fence!SecondFence, Mesh!Fence!PutTo, Mesh!Fence!loopVars
  <2>2. QED
    BY <2>1 DEF MeshPuts, Mesh!Rank
<1>5. CASE Mesh!Fence!Generation(p)
  <2>1. /\ phase2[p] # "compute" /\ phase2' = [phase2 EXCEPT ![p] = "compute"]
        /\ puts2[p] = {} /\ puts2' = puts2 /\ gen2' = [gen2 EXCEPT ![p] = @ + 1]
    BY <1>5, MeshNames DEF Mesh!Fence!Generation, Mesh!Fence!FenceDone
  <2>2. gen2[p] + 1 \in 0 .. Iter
    BY <1>1, <2>1 DEF MeshPuts
  <2>3. QED
    BY <2>1, <2>2 DEF MeshPuts, Mesh!Rank
<1>6. ASSUME NEW q \in Mesh!Rank, Mesh!Fence!Put(p, q)
      PROVE  MeshPuts' /\ gen2' \in [Mesh!Rank -> 0 .. Iter]
  <2>1. /\ gen2' = gen2 /\ phase2' = phase2
        /\ \E x : puts2' = [puts2 EXCEPT ![p] = @ \ {x}]
    BY <1>6 DEF Mesh!Fence!Put
  <2>2. QED
    BY <2>1 DEF MeshPuts, Mesh!Rank
<1>7. QED
  BY <1>2, <1>3, <1>4, <1>5, <1>6, MeshNames DEF Mesh!Fence!Step

(* MeshInv holds initially, and in every step of every program.            *)
LEMMA MeshStart ==
  ASSUME Init
  PROVE  MeshInv
<1>1. Mesh!Pt2pt!Init /\ Mesh!Fence!Init /\ exchange \in {"pt2pt", "fence"}
  BY DEF Init, Mesh!Init
<1>2. /\ half = [p \in Mesh!Rank |-> 1]
      /\ reqs2 = [p \in Mesh!Rank |-> IF Iter > 0 THEN {"send", "recv"} \X Partners(p, 1) ELSE {}]
      /\ chan2 = [p \in Mesh!Rank |-> [q \in Mesh!Rank |-> <<>>]]
      /\ phase2 = [p \in Mesh!Rank |-> "compute"] /\ puts2 = [p \in Mesh!Rank |-> {}]
      /\ gen2 = [p \in Mesh!Rank |-> 0]
  BY <1>1, MeshNames DEF Mesh!Pt2pt!Init, Mesh!Fence!Init, Mesh!Pt2pt!LoopInit
<1>3. Iter \in Nat /\ gen2 \in [Mesh!Rank -> 0 .. Iter]
  BY <1>2, GridAssumption DEF GridAssumption
<1>4. MeshShape
  BY <1>2, <1>3 DEF MeshShape
<1>5. ASSUME NEW p \in Mesh!Rank, NEW q \in Mesh!Rank, NEW c \in {"send", "recv"}
      PROVE  Times(p, q, <<c, q>>) = 0
  BY <1>2, <1>3 DEF Times, Did, Partners
<1>6. MeshCount
  <2>1. /\ DOMAIN chan2 = Mesh!Rank
        /\ \A p \in Mesh!Rank : DOMAIN chan2[p] = Mesh!Rank
        /\ \A p, q \in Mesh!Rank : chan2[p][q] = <<>>
    BY <1>2
  <2>2. ASSUME NEW p \in Mesh!Rank, NEW q \in Mesh!Rank
        PROVE  Times(p, q, <<"send", q>>) - Times(q, p, <<"recv", p>>) = 0
    <3>1. Times(p, q, <<"send", q>>) = 0 /\ Times(q, p, <<"recv", p>>) = 0
      BY <1>5, Zenon
    <3>2. QED
      BY <3>1
  <2>3. QED
    BY <1>4, <2>1, <2>2, EmptyQueue DEF MeshCount
<1>7. MeshPuts
  BY <1>2 DEF MeshPuts
<1>8. QED
  BY <1>1, <1>2, <1>3, <1>6, <1>7 DEF MeshInv

LEMMA MeshSteps ==
  ASSUME MeshInv, [Next]_vars
  PROVE  MeshInv'
<1>1. CASE UNCHANGED meshOnly
  <2>1. /\ gen2' = gen2 /\ half' = half /\ reqs2' = reqs2 /\ chan2' = chan2
        /\ phase2' = phase2 /\ puts2' = puts2 /\ exchange' = exchange
    BY <1>1 DEF meshOnly
  <2>2. MeshCount => MeshCount'
    BY <2>1 DEF MeshCount, MeshShape, Times, Did, Partners, Mesh!Rank, Mesh!Beside,
                Mesh!Stacked, Mesh!prow
  <2>3. MeshPuts => MeshPuts'
    BY <2>1 DEF MeshPuts, Mesh!Rank
  <2>4. QED
    BY <2>1, <2>2, <2>3 DEF MeshInv, Mesh!Rank
<1>2. ASSUME NEW p \in Mesh!Rank, Mesh!OfPt2pt(Mesh!Pt2pt!Step(p))
      PROVE  MeshInv'
  <2>1. exchange = "pt2pt" /\ exchange' = exchange /\ puts2' = puts2 /\ Mesh!Pt2pt!Step(p)
    BY <1>2 DEF Mesh!OfPt2pt, Mesh!fenceOnly
  <2>2. MeshCount /\ gen2 \in [Mesh!Rank -> 0 .. Iter]
    BY <2>1 DEF MeshInv
  <2>3. MeshCount' /\ gen2' \in [Mesh!Rank -> 0 .. Iter]
    <3>1. \/ Mesh!Pt2pt!SecondHalf(p) \/ Mesh!Pt2pt!Generation(p)
          \/ \E q \in Mesh!Rank : Mesh!Pt2pt!Send(p, q) \/ Mesh!Pt2pt!Recv(p, q)
      BY <2>1, MeshNames DEF Mesh!Pt2pt!Step
    <3>2. QED
      BY <2>2, <3>1, MeshPosting, MeshMessage
  <2>4. QED
    BY <2>1, <2>3 DEF MeshInv, Mesh!Rank
<1>3. ASSUME NEW p \in Mesh!Rank, Mesh!OfFence(Mesh!Fence!Step(p))
      PROVE  MeshInv'
  <2>1. exchange = "fence" /\ exchange' = exchange /\ chan2' = chan2 /\ Mesh!Fence!Step(p)
    BY <1>3 DEF Mesh!OfFence, Mesh!pt2ptOnly
  <2>2. MeshPuts' /\ gen2' \in [Mesh!Rank -> 0 .. Iter]
    BY <2>1, MeshEpochs DEF MeshInv
  <2>3. QED
    BY <2>1, <2>2 DEF MeshInv, Mesh!Rank
<1>4. \/ UNCHANGED meshOnly
      \/ \E p \in Mesh!Rank : \/ Mesh!OfPt2pt(Mesh!Pt2pt!Step(p))
                            \/ Mesh!OfFence(Mesh!Fence!Step(p))
  BY DEF Next, Step, OfLine, OfMesh, Mesh!Step, vars
<1>5. QED
  BY <1>1, <1>2, <1>3, <1>4

(* When every rank is done, LifeInv leaves nothing under way.              *)
LEMMA LineDone ==
  ASSUME LifeInv, AllDone
  PROVE  /\ Pt2pt!NothingLeftOver /\ Pscw!NothingInFlight
         /\ \A p \in Rank : puts[p] = {}
<1>1. \A p \in Rank : gen[p] = Iter
  BY DEF AllDone
<1>2. Iter \in Nat
  BY GridAssumption DEF GridAssumption
<1>3. ASSUME NEW p \in Rank, NEW q \in Rank
      PROVE  chan[p][q] = <<>>
  <2>1. CASE program \notin {"pt2pt"} \cup Threaded
    BY <2>1 DEF LifeInv, NoMessages
  <2>2. CASE CountInv
    <3>1. Sent(p, q) = Iter /\ Got(p, q) = Iter
      BY <1>1, <1>2 DEF Sent, Got
    <3>2. Len(chan[p][q]) = 0 /\ IsSeq(chan[p][q])
      BY <1>2, <2>2, <3>1 DEF CountInv
    <3>3. QED
      BY <3>2, NothingQueued
  <2>3. QED
    BY <2>1, <2>2 DEF LifeInv
<1>4. ASSUME NEW p \in Rank, NEW q \in Rank, NEW w \in 0 .. 1
      PROVE  flight[p][q][w] = <<>>
  <2>1. CASE program # "pscw"
    BY <2>1 DEF LifeInv, NoRows
  <2>2. CASE LoopInv /\ PscwInv
    <3>1. IsSeq(flight[p][q][w])
      BY <2>2 DEF PscwInv, FlightShape
    <3>2. CASE q \in Neighbours(p)
      <4>1. /\ PscwPair(p, q) /\ gen[q] = Iter
        BY <1>1, <2>2, <3>2 DEF PscwInv
      <4>2. Puts(p, q) = Iter
        BY <1>1, <1>2, <2>2 DEF PscwInv, Puts
      <4>3. /\ Len(flight[p][q][Iter % 2]) = 0
            /\ Len(flight[p][q][(Iter + 1) % 2]) = 0
        BY <1>2, <4>1, <4>2 DEF PscwPair
      <4>4. w = Iter % 2 \/ w = (Iter + 1) % 2
        BY <1>2
      <4>5. QED
        BY <3>1, <4>3, <4>4, NothingQueued
    <3>3. CASE q \notin Neighbours(p)
      <4>1. Len(flight[p][q][w]) = 0
        BY <2>2, <3>3 DEF PscwInv
      <4>2. QED
        BY <3>1, <4>1, NothingQueued
    <3>4. QED
      BY <3>2, <3>3
  <2>3. QED
    BY <2>1, <2>2 DEF LifeInv
<1>5. ASSUME NEW p \in Rank
      PROVE  puts[p] = {}
  <2>1. CASE program # "fence"
    BY <2>1 DEF LifeInv, NoPuts
  <2>2. CASE FenceInv
    BY <1>1, <1>2, <2>2 DEF FenceInv
  <2>3. QED
    BY <2>1, <2>2 DEF LifeInv
<1>6. Pt2pt!NothingLeftOver
  BY <1>3, Pt2ptLoop DEF Pt2pt!NothingLeftOver
<1>7. Pscw!NothingInFlight
  BY <1>4, PscwLoop DEF Pscw!NothingInFlight
<1>8. QED
  BY <1>5, <1>6, <1>7

(* The same in two dimensions: what was sent was received, for two ranks   *)
(* exchange in the same half.                                              *)
LEMMA MeshDone ==
  ASSUME MeshInv
  PROVE  Mesh!NothingLeftOver
<1>1. SUFFICES ASSUME Mesh!AllDone
               PROVE  Mesh!Pt2pt!NothingLeftOver /\ \A p \in Mesh!Rank : puts2[p] = {}
  BY DEF Mesh!NothingLeftOver
<1>2. Iter \in Nat /\ \A p \in Mesh!Rank : gen2[p] = Iter
  BY <1>1, GridAssumption DEF Mesh!AllDone, GridAssumption
<1>3. ASSUME NEW p \in Mesh!Rank
      PROVE  puts2[p] = {}
  BY <1>2 DEF MeshInv, MeshPuts
<1>4. ASSUME NEW p \in Mesh!Rank, NEW q \in Mesh!Rank
      PROVE  chan2[p][q] = <<>>
  <2>1. CASE exchange = "fence"
    BY <2>1 DEF MeshInv
  <2>2. CASE MeshCount
    <3>1. \A x, h : Did(p, x, h) = Iter /\ Did(q, x, h) = Iter
      BY <1>2 DEF Did
    <3>2. Times(p, q, <<"send", q>>) = Times(q, p, <<"recv", p>>)
      BY <3>1, SameHalf DEF Times
    <3>3. Times(q, p, <<"recv", p>>) \in Int
      BY <1>2, <3>1 DEF Times
    <3>4. IsSeq(chan2[p][q]) /\ Len(chan2[p][q]) = 0
      BY <2>2, <3>2, <3>3 DEF MeshCount
    <3>5. QED
      BY <3>4, NothingQueued
  <2>3. QED
    BY <2>1, <2>2 DEF MeshInv
<1>5. Mesh!Pt2pt!NothingLeftOver
  BY <1>4, MeshNames DEF Mesh!Pt2pt!NothingLeftOver
<1>6. QED
  BY <1>3, <1>5

(* NothingLeftOver holds for every matrix, grid of ranks and number of     *)
(* generations: every message of MPI_Isend is received, and every put is   *)
(* carried out, before the last rank leaves life(), in one and in two      *)
(* dimensions, with threads and without.                                   *)
THEOREM NothingIsLeftOver == AllSpec => []NothingLeftOver
<1> DEFINE Inv == LifeInv /\ MeshInv
<1>1. AllInit => Inv
  BY LifeAlone, LifeStart, MeshStart
<1>2. Inv /\ [AllNext]_allVars => Inv'
  BY LifeAlone, LifeSteps, MeshSteps
<1>3. Inv => NothingLeftOver
  BY LineDone, MeshDone DEF NothingLeftOver
<1>4. QED
  BY <1>1, <1>2, <1>3, PTL DEF AllSpec
=============================================================================
