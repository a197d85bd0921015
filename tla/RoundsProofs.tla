---------------------------- MODULE RoundsProofs ----------------------------
(***************************************************************************)
(* The programs that compute in rounds, for every instance: each program   *)
(* of the game of life, in one dimension, in two and threaded, and         *)
(* pneo_pscw compute what they would without processes, and in these and   *)
(* in pneo_fence nothing reaches a process outside of the exchange it is   *)
(* meant for.                                                              *)
(***************************************************************************)
EXTENDS LifeProofs, FiniteSetTheorems

Frames == INSTANCE Life2dMeshProofs

-----------------------------------------------------------------------------
(* Two dimensions.  The cells of rank p that mean something: the row below *)
(* a rank without rows, and the column behind one without columns, hold    *)
(* whatever came by.                                                       *)
Sees(p) == {c \in Mesh!Local(p) : /\ c[1] = Mesh!LRows(p) + 1 => Mesh!LRows(p) > 0
                                  /\ c[2] = Mesh!LCols(p) + 1 => Mesh!LCols(p) > 0}

(* The boundary of the matrix, which nobody computes.                      *)
Outside(p, c) == \/ Mesh!firstrow(p) - 1 + c[1] \notin 1 .. GRows
                 \/ Mesh!firstcol(p) - 1 + c[2] \notin 1 .. GCols

(* What life() keeps true of the two matrices, whatever the exchange.      *)
MeshMatrix(p) ==
  /\ DOMAIN buf2[p] = 0 .. 1
  /\ \A b \in 0 .. 1 :
       /\ DOMAIN buf2[p][b] = Mesh!Local(p)
       /\ \A c \in Sees(p) : Outside(p, c) => buf2[p][b][c] = Mesh!DIES
  /\ \A c \in Mesh!Inner(p) : Mesh!matrix(p)[c] = Mesh!CellAt(p, gen2[p], c)

MeshLoop ==
  /\ gen2 \in [Mesh!Rank -> 0 .. Iter]
  /\ cur2 = [p \in Mesh!Rank |-> gen2[p] % 2]
  /\ DOMAIN buf2 = Mesh!Rank
  /\ \A p \in Mesh!Rank : MeshMatrix(p)

(* Where what p sends to q lands in the matrix of q.                       *)
EdgeCells(p, q) ==
  IF q \in Mesh!Beside(p)
    THEN (1 .. Mesh!LRows(p)) \X {IF q < p THEN Mesh!LCols(q) + 1 ELSE 0}
    ELSE {IF q < p THEN Mesh!LRows(q) + 1 ELSE 0} \X (0 .. Mesh!LCols(p) + 1)

(* The message m from p to q is the edge of generation k, and q has it.    *)
EdgeOf(k, p, q, m) ==
  /\ DOMAIN m = EdgeCells(p, q)
  /\ \A c \in EdgeCells(p, q) \cap Sees(q) : m[c] = Mesh!CellAt(q, k, c)
HasEdge(p, q) ==
  \A c \in EdgeCells(q, p) \cap Sees(p) : Mesh!matrix(p)[c] = Mesh!CellAt(p, gen2[p], c)

Partner(p, q) == q \in Mesh!Beside(p) \cup Mesh!Stacked(p)

(* Two-sided: the n-th message under way is of the generation the receiver *)
(* is to have next, and what was received in this generation is there.     *)
MeshSent ==
  \A p, q \in Mesh!Rank :
    LET got == Times(p, q, <<"recv", q>>)
    IN  Partner(p, q) =>
          /\ \A n \in 1 .. Len(chan2[q][p]) : EdgeOf(got + n - 1, q, p, chan2[q][p][n])
          /\ got = gen2[p] + 1 => HasEdge(p, q)

(* One-sided: the fences a rank has entered in this generation, and since  *)
(* it began; the rank is past the second fence.                            *)
Stage(p) == CASE phase2[p] = "compute" -> 0
              [] phase2[p] = "columns" -> 1
              [] phase2[p] \in {"fence 2", "rows"} -> 2
              [] OTHER -> 3
Reached(p) == 3 * gen2[p] + Stage(p)
Later(p) == phase2[p] \in {"rows", "fence 3"}

(* A put to q is not carried out.                                          *)
Waits(p, q) == \E e \in {x[2] : x \in puts2[p]} : <<q, e>> \in puts2[p]

MeshPhases == phase2 \in [Mesh!Rank -> {"compute", "columns", "fence 2", "rows", "fence 3"}]
MeshWindows ==
  /\ MeshPhases
  /\ entered = [p \in Mesh!Rank |-> [w \in 0 .. 1 |->
                  3 * Count(gen2[p], w) + (IF w = gen2[p] % 2 THEN Stage(p) ELSE 0)]]

(* The puts that are under way, and the ranks they cannot overtake.        *)
MeshEpoch(p) ==
  LET first == 3 * Count(gen2[p], gen2[p] % 2) + 1
  IN  /\ phase2[p] = "compute" => puts2[p] = {}
      /\ puts2[p] \subseteq IF Later(p) THEN Mesh!Stacked(p) \X {first + 1}
                                        ELSE Mesh!Beside(p) \X {first}
      /\ phase2[p] # "compute" => gen2[p] < Iter
      /\ \A q \in Mesh!Rank : Reached(q) >= 3 * gen2[p] + (IF Later(p) THEN 2 ELSE 0)

(* What q put in this generation has reached p.                            *)
MeshPair(p, q) ==
  /\ Waits(q, p) => gen2[p] <= gen2[q]
  /\ gen2[p] < gen2[q] /\ phase2[q] # "compute" /\ q \in Mesh!Beside(p) => Waits(q, p)
  /\ gen2[q] = gen2[p] /\ ~Waits(q, p)
     /\ (Later(q) \/ (q \in Mesh!Beside(p) /\ phase2[q] # "compute")) => HasEdge(p, q)
  /\ gen2[q] = gen2[p] + 1 \/ (q \in Mesh!Beside(p) /\ Later(p)) => HasEdge(p, q)

MeshFences ==
  /\ MeshWindows /\ DOMAIN puts2 = Mesh!Rank
  /\ \A p \in Mesh!Rank : /\ MeshEpoch(p)
                          /\ \A q \in Mesh!Rank : Partner(p, q) => MeshPair(p, q)

MeshRight == /\ MeshLoop
             /\ exchange = "pt2pt" => MeshSent
             /\ exchange = "fence" => MeshFences

-----------------------------------------------------------------------------
(* The grid of ranks and their blocks.                                     *)
LEMMA MeshSizes ==
  /\ GRows \in Nat /\ GCols \in Nat /\ PRows \in Nat \ {0} /\ PCols \in Nat \ {0}
  /\ \A p \in Mesh!Rank : /\ p \in Nat
                          /\ Mesh!prow(p) \in 0 .. PRows - 1 /\ Mesh!pcol(p) \in 0 .. PCols - 1
                          /\ p = Mesh!prow(p) * PCols + Mesh!pcol(p)
                          /\ Mesh!prow(p) * PCols \in Nat
<1>1. GRows \in Nat /\ GCols \in Nat /\ PRows \in Nat \ {0} /\ PCols \in Nat \ {0}
  BY MeshAssumption DEF Mesh!MeshAssumption
<1>2. Frames!MeshAssumption /\ Frames!Rank = Mesh!Rank
  BY <1>1 DEF Frames!MeshAssumption, Frames!Rank, Mesh!Rank
<1>3. \A p : Frames!prow(p) = Mesh!prow(p) /\ Frames!pcol(p) = Mesh!pcol(p)
  BY DEF Frames!prow, Mesh!prow, Frames!pcol, Mesh!pcol
<1>4. ASSUME NEW p \in Mesh!Rank
      PROVE  /\ Mesh!prow(p) \in 0 .. PRows - 1 /\ Mesh!pcol(p) \in 0 .. PCols - 1
             /\ p = Mesh!prow(p) * PCols + Mesh!pcol(p)
  BY <1>2, <1>3, Frames!PlaceOfRank
<1>5. \A p \in Mesh!Rank : p \in Nat
  BY <1>1 DEF Mesh!Rank
<1>6. ASSUME NEW p \in Mesh!Rank
      PROVE  Mesh!prow(p) * PCols \in Nat
  <2>1. Mesh!prow(p) \in Nat
    BY <1>4
  <2>2. QED
    BY <1>1, <2>1, TimesMonotone
<1>7. QED
  BY <1>1, <1>4, <1>5, <1>6

(* One direction: count blocks of n \div count, the last extended to n.    *)
BlockFirst(r, count, n) == 1 + r * (n \div count)
BlockLast(r, count, n)  == IF r = count - 1 THEN n ELSE (r + 1) * (n \div count)
BlockSize(r, count, n)  == BlockLast(r, count, n) - BlockFirst(r, count, n) + 1

LEMMA BlockIs ==
  ASSUME NEW n \in Nat, NEW count \in Nat \ {0}, NEW r \in 0 .. count - 1
  PROVE  /\ BlockFirst(r, count, n) \in Nat \ {0} /\ BlockSize(r, count, n) \in Nat
         /\ BlockSize(r, count, n) = 0 \/ r = 0 => BlockFirst(r, count, n) = 1
         /\ r = count - 1 => BlockFirst(r, count, n) + BlockSize(r, count, n) = n + 1
         /\ r # count - 1 =>
              /\ BlockFirst(r + 1, count, n) = BlockFirst(r, count, n) + BlockSize(r, count, n)
              /\ BlockSize(r, count, n) = n \div count
         /\ BlockSize(r, count, n) >= n \div count
         /\ BlockFirst(r, count, n) + BlockSize(r, count, n) <= n + 1
<1> DEFINE size == n \div count
           a == r * size
           b == (r + 1) * size
           t == count * size
<1>1. size \in Nat /\ t <= n
  BY Division
<1>2. r \in Nat /\ r + 1 \in Nat /\ r + 1 <= count
  OBVIOUS
<1>3. a \in Nat /\ b \in Nat /\ b = a + size
  BY <1>1, <1>2, TimesMonotone
<1>4. b <= t /\ (size = 0 => t = 0) /\ t \in Nat
  BY <1>1, <1>2, TimesMonotone
<1>5. r = 0 => a = 0
  BY <1>1
<1>6. /\ BlockFirst(r, count, n) = 1 + a /\ BlockFirst(r + 1, count, n) = 1 + b
      /\ BlockSize(r, count, n) = (IF r = count - 1 THEN n ELSE b) - (1 + a) + 1
  BY DEF BlockFirst, BlockSize, BlockLast
<1> HIDE DEF a, b, t, size
<1>7. CASE r = count - 1
  <2>1. BlockSize(r, count, n) = n - a
    BY <1>3, <1>6, <1>7
  <2>2. QED
    BY <1>1, <1>3, <1>4, <1>5, <1>6, <1>7, <2>1 DEF size
<1>8. CASE r # count - 1
  <2>1. BlockSize(r, count, n) = size
    BY <1>1, <1>3, <1>6, <1>8
  <2>2. QED
    BY <1>1, <1>3, <1>4, <1>5, <1>6, <1>8, <2>1 DEF size
<1>9. QED
  BY <1>7, <1>8

(* The blocks of a rank in both directions.                                *)
LEMMA MeshBlocks ==
  ASSUME NEW p
  PROVE  /\ Mesh!firstrow(p) = BlockFirst(Mesh!prow(p), PRows, GRows)
         /\ Mesh!firstcol(p) = BlockFirst(Mesh!pcol(p), PCols, GCols)
         /\ Mesh!LRows(p) = BlockSize(Mesh!prow(p), PRows, GRows)
         /\ Mesh!LCols(p) = BlockSize(Mesh!pcol(p), PCols, GCols)
BY DEF Mesh!LRows, Mesh!LCols, Mesh!firstrow, Mesh!lastrow, Mesh!firstcol, Mesh!lastcol,
       BlockFirst, BlockLast, BlockSize

(* The rows and columns of one rank.                                       *)
LEMMA MeshBlock ==
  ASSUME NEW p \in Mesh!Rank
  PROVE  /\ Mesh!firstrow(p) \in Nat \ {0} /\ Mesh!firstcol(p) \in Nat \ {0}
         /\ Mesh!LRows(p) \in Nat /\ Mesh!LCols(p) \in Nat
         /\ Mesh!LRows(p) = 0 \/ Mesh!prow(p) = 0 => Mesh!firstrow(p) = 1
         /\ Mesh!LCols(p) = 0 \/ Mesh!pcol(p) = 0 => Mesh!firstcol(p) = 1
         /\ Mesh!prow(p) = PRows - 1 => Mesh!firstrow(p) + Mesh!LRows(p) = GRows + 1
         /\ Mesh!firstrow(p) + Mesh!LRows(p) <= GRows + 1
         /\ Mesh!firstcol(p) + Mesh!LCols(p) <= GCols + 1
         /\ Mesh!pcol(p) = PCols - 1 => Mesh!firstcol(p) + Mesh!LCols(p) = GCols + 1
<1>1. /\ GRows \in Nat /\ GCols \in Nat /\ PRows \in Nat \ {0} /\ PCols \in Nat \ {0}
      /\ Mesh!prow(p) \in 0 .. PRows - 1 /\ Mesh!pcol(p) \in 0 .. PCols - 1
  BY MeshSizes
<1>2. /\ Mesh!firstrow(p) = BlockFirst(Mesh!prow(p), PRows, GRows)
      /\ Mesh!firstcol(p) = BlockFirst(Mesh!pcol(p), PCols, GCols)
      /\ Mesh!LRows(p) = BlockSize(Mesh!prow(p), PRows, GRows)
      /\ Mesh!LCols(p) = BlockSize(Mesh!pcol(p), PCols, GCols)
  BY MeshBlocks, Zenon
<1>3. ASSUME NEW n \in Nat, NEW count \in Nat \ {0}, NEW r \in 0 .. count - 1
      PROVE  /\ BlockFirst(r, count, n) \in Nat \ {0} /\ BlockSize(r, count, n) \in Nat
             /\ BlockSize(r, count, n) = 0 \/ r = 0 => BlockFirst(r, count, n) = 1
             /\ r = count - 1 => BlockFirst(r, count, n) + BlockSize(r, count, n) = n + 1
             /\ BlockFirst(r, count, n) + BlockSize(r, count, n) <= n + 1
  BY BlockIs, Zenon
<1>4. /\ Mesh!firstrow(p) \in Nat \ {0} /\ Mesh!LRows(p) \in Nat
      /\ Mesh!LRows(p) = 0 \/ Mesh!prow(p) = 0 => Mesh!firstrow(p) = 1
      /\ Mesh!prow(p) = PRows - 1 => Mesh!firstrow(p) + Mesh!LRows(p) = GRows + 1
      /\ Mesh!firstrow(p) + Mesh!LRows(p) <= GRows + 1
  <2> DEFINE f == BlockFirst(Mesh!prow(p), PRows, GRows)
             s == BlockSize(Mesh!prow(p), PRows, GRows)
  <2>1. /\ f \in Nat \ {0} /\ s \in Nat
        /\ s = 0 \/ Mesh!prow(p) = 0 => f = 1
        /\ Mesh!prow(p) = PRows - 1 => f + s = GRows + 1
        /\ f + s <= GRows + 1
    BY <1>1, <1>3, Zenon
  <2> HIDE DEF f, s
  <2>2. Mesh!firstrow(p) = f /\ Mesh!LRows(p) = s
    BY <1>2 DEF f, s
  <2>3. QED
    BY <2>1, <2>2
<1>5. /\ Mesh!firstcol(p) \in Nat \ {0} /\ Mesh!LCols(p) \in Nat
      /\ Mesh!LCols(p) = 0 \/ Mesh!pcol(p) = 0 => Mesh!firstcol(p) = 1
      /\ Mesh!pcol(p) = PCols - 1 => Mesh!firstcol(p) + Mesh!LCols(p) = GCols + 1
      /\ Mesh!firstcol(p) + Mesh!LCols(p) <= GCols + 1
  <2> DEFINE f == BlockFirst(Mesh!pcol(p), PCols, GCols)
             s == BlockSize(Mesh!pcol(p), PCols, GCols)
  <2>1. /\ f \in Nat \ {0} /\ s \in Nat
        /\ s = 0 \/ Mesh!pcol(p) = 0 => f = 1
        /\ Mesh!pcol(p) = PCols - 1 => f + s = GCols + 1
        /\ f + s <= GCols + 1
    BY <1>1, <1>3, Zenon
  <2> HIDE DEF f, s
  <2>2. Mesh!firstcol(p) = f /\ Mesh!LCols(p) = s
    BY <1>2 DEF f, s
  <2>3. QED
    BY <2>1, <2>2
<1>6. QED
  BY <1>4, <1>5

(* The rank on the right and the rank below.                               *)
LEMMA MeshNext ==
  ASSUME NEW p \in Mesh!Rank, NEW q \in Mesh!Rank
  PROVE  /\ Mesh!prow(q) = Mesh!prow(p) =>
              Mesh!firstrow(q) = Mesh!firstrow(p) /\ Mesh!LRows(q) = Mesh!LRows(p)
         /\ Mesh!pcol(q) = Mesh!pcol(p) =>
              Mesh!firstcol(q) = Mesh!firstcol(p) /\ Mesh!LCols(q) = Mesh!LCols(p)
         /\ Mesh!prow(q) = Mesh!prow(p) + 1 =>
              /\ Mesh!firstrow(q) = Mesh!firstrow(p) + Mesh!LRows(p)
              /\ Mesh!LRows(p) > 0 => Mesh!LRows(q) > 0
         /\ Mesh!pcol(q) = Mesh!pcol(p) + 1 =>
              /\ Mesh!firstcol(q) = Mesh!firstcol(p) + Mesh!LCols(p)
              /\ Mesh!LCols(p) > 0 => Mesh!LCols(q) > 0
<1>1. /\ GRows \in Nat /\ GCols \in Nat /\ PRows \in Nat \ {0} /\ PCols \in Nat \ {0}
      /\ Mesh!prow(p) \in 0 .. PRows - 1 /\ Mesh!pcol(p) \in 0 .. PCols - 1
      /\ Mesh!prow(q) \in 0 .. PRows - 1 /\ Mesh!pcol(q) \in 0 .. PCols - 1
  BY MeshSizes
<1>2. ASSUME NEW n \in Nat, NEW count \in Nat \ {0}, NEW r \in 0 .. count - 1,
             r + 1 \in 0 .. count - 1
      PROVE  /\ BlockFirst(r + 1, count, n) = BlockFirst(r, count, n) + BlockSize(r, count, n)
             /\ BlockSize(r, count, n) > 0 => BlockSize(r + 1, count, n) > 0
  <2>1. r # count - 1
    BY <1>2
  <2>2. /\ BlockFirst(r + 1, count, n) = BlockFirst(r, count, n) + BlockSize(r, count, n)
        /\ BlockSize(r, count, n) = n \div count
    BY <2>1, BlockIs, Zenon
  <2>3. BlockSize(r + 1, count, n) >= n \div count /\ BlockSize(r + 1, count, n) \in Nat
    BY <1>2, BlockIs
  <2>4. BlockSize(r, count, n) \in Nat
    BY BlockIs
  <2>5. QED
    BY <2>2, <2>3, <2>4
<1>3. QED
  BY <1>1, <1>2, MeshBlocks

(* Where the neighbours stand.                                             *)
LEMMA MeshPlaces ==
  ASSUME NEW p \in Mesh!Rank, NEW q \in Mesh!Rank
  PROVE  /\ q \in Mesh!Beside(p) <=>
              /\ Mesh!prow(q) = Mesh!prow(p)
              /\ Mesh!pcol(q) \in {Mesh!pcol(p) - 1, Mesh!pcol(p) + 1}
         /\ q \in Mesh!Stacked(p) <=>
              /\ Mesh!pcol(q) = Mesh!pcol(p)
              /\ Mesh!prow(q) \in {Mesh!prow(p) - 1, Mesh!prow(p) + 1}
         /\ Mesh!prow(q) = Mesh!prow(p) /\ Mesh!pcol(q) < Mesh!pcol(p) => q < p
         /\ Mesh!pcol(q) = Mesh!pcol(p) /\ Mesh!prow(q) = Mesh!prow(p) - 1 => q < p
         /\ Mesh!prow(q) = Mesh!prow(p) /\ Mesh!pcol(q) = Mesh!pcol(p) => q = p
<1> DEFINE a == Mesh!prow(p)
           b == Mesh!pcol(p)
           c == Mesh!prow(q)
           d == Mesh!pcol(q)
<1>1. /\ PCols \in Nat \ {0} /\ p \in Nat /\ q \in Nat
      /\ a \in Nat /\ c \in Nat /\ b \in 0 .. PCols - 1 /\ d \in 0 .. PCols - 1
      /\ p = a * PCols + b /\ q = c * PCols + d
      /\ a * PCols \in Nat /\ c * PCols \in Nat
  BY MeshSizes
<1>2. q \in Mesh!Beside(p) <=> c = a /\ q \in {p - 1, p + 1}
  BY DEF Mesh!Beside
<1>3. q \in Mesh!Stacked(p) <=> q \in {p - PCols, p + PCols}
  BY DEF Mesh!Stacked
<1>4. (a + 1) * PCols = a * PCols + PCols /\ (c + 1) * PCols = c * PCols + PCols
  BY <1>1, TimesMonotone
<1>5. \A k \in Nat, l \in 0 .. PCols - 1 :
        (k * PCols + l) \div PCols = k /\ (k * PCols + l) % PCols = l
  BY <1>1, Frames!GridNumbers
<1>6. /\ c = q \div PCols /\ d = q % PCols
      /\ a = p \div PCols /\ b = p % PCols
  BY DEF Mesh!prow, Mesh!pcol
<1>7. ASSUME q = p + PCols
      PROVE  c = a + 1 /\ d = b
  <2>1. q = (a + 1) * PCols + b /\ a + 1 \in Nat
    BY <1>1, <1>4, <1>7
  <2>2. QED
    BY <1>1, <1>5, <1>6, <2>1
<1>8. ASSUME q = p - PCols
      PROVE  a = c + 1 /\ d = b
  <2>1. p = (c + 1) * PCols + d /\ c + 1 \in Nat
    BY <1>1, <1>4, <1>8
  <2>2. QED
    BY <1>1, <1>5, <1>6, <2>1
<1> HIDE DEF a, b, c, d
<1> DEFINE x == a * PCols
           y == c * PCols
<1>9. /\ x \in Nat /\ y \in Nat /\ p = x + b /\ q = y + d
      /\ c = a => y = x
      /\ c = a + 1 => y = x + PCols
      /\ a = c + 1 => x = y + PCols
  BY <1>1, <1>4
<1> HIDE DEF x, y
<1>10. q \in Mesh!Beside(p) <=> c = a /\ d \in {b - 1, b + 1}
  BY <1>1, <1>2, <1>9
<1>11. q \in Mesh!Stacked(p) <=> d = b /\ c \in {a - 1, a + 1}
  <2>1. q \in Mesh!Stacked(p) => d = b /\ c \in {a - 1, a + 1}
    BY <1>1, <1>3, <1>7, <1>8
  <2>2. d = b /\ c \in {a - 1, a + 1} => q \in Mesh!Stacked(p)
    BY <1>1, <1>3, <1>9
  <2>3. QED
    BY <2>1, <2>2
<1>12. /\ c = a /\ d < b => q < p
       /\ d = b /\ c = a - 1 => q < p
       /\ c = a /\ d = b => q = p
  BY <1>1, <1>9
<1>13. QED
  BY <1>10, <1>11, <1>12 DEF a, b, c, d

(* A rank across a corner stands beside one above or below.                *)
LEMMA MeshCorner ==
  ASSUME NEW p \in Mesh!Rank, NEW q \in Mesh!Around(p)
  PROVE  q \in Mesh!Rank /\ (Partner(p, q) \/ \E s \in Mesh!Stacked(p) : q \in Mesh!Beside(s))
<1>1. /\ q \in Mesh!Rank /\ q # p
      /\ Mesh!prow(q) \in Mesh!prow(p) - 1 .. Mesh!prow(p) + 1
      /\ Mesh!pcol(q) \in Mesh!pcol(p) - 1 .. Mesh!pcol(p) + 1
  BY DEF Mesh!Around
<1>2. /\ PRows \in Nat \ {0} /\ PCols \in Nat \ {0}
      /\ Mesh!prow(p) \in 0 .. PRows - 1 /\ Mesh!pcol(p) \in 0 .. PCols - 1
      /\ Mesh!prow(q) \in 0 .. PRows - 1 /\ Mesh!pcol(q) \in 0 .. PCols - 1
  BY <1>1, MeshSizes
<1>3. CASE Mesh!prow(q) = Mesh!prow(p)
  <2>1. Mesh!pcol(q) # Mesh!pcol(p)
    BY <1>1, <1>3, MeshPlaces
  <2>2. Mesh!pcol(q) \in {Mesh!pcol(p) - 1, Mesh!pcol(p) + 1}
    BY <1>1, <1>2, <2>1
  <2>3. QED
    BY <1>1, <1>3, <2>2, MeshPlaces DEF Partner
<1>4. CASE Mesh!prow(q) # Mesh!prow(p)
  <2>1. Mesh!prow(q) \in {Mesh!prow(p) - 1, Mesh!prow(p) + 1}
    BY <1>1, <1>2, <1>4
  <2>2. Frames!MeshAssumption /\ Frames!Rank = Mesh!Rank
        /\ \A s : Frames!prow(s) = Mesh!prow(s) /\ Frames!pcol(s) = Mesh!pcol(s)
    BY MeshSizes DEF Frames!MeshAssumption, Frames!Rank, Mesh!Rank, Frames!prow, Mesh!prow,
                     Frames!pcol, Mesh!pcol
  <2>3. PICK s \in Mesh!Rank : Mesh!prow(s) = Mesh!prow(q) /\ Mesh!pcol(s) = Mesh!pcol(p)
    BY <1>2, <2>2, Frames!RankOfPlace
  <2>4. s \in Mesh!Stacked(p)
    BY <2>1, <2>3, MeshPlaces
  <2>5. CASE Mesh!pcol(q) = Mesh!pcol(p)
    BY <1>1, <2>1, <2>5, MeshPlaces DEF Partner
  <2>6. CASE Mesh!pcol(q) # Mesh!pcol(p)
    <3>1. Mesh!pcol(q) \in {Mesh!pcol(s) - 1, Mesh!pcol(s) + 1}
      BY <1>1, <1>2, <2>3, <2>6
    <3>2. q \in Mesh!Beside(s)
      BY <1>1, <2>3, <3>1, MeshPlaces
    <3>3. QED
      BY <1>1, <2>4, <3>2
  <2>7. QED
    BY <2>5, <2>6
<1>5. QED
  BY <1>3, <1>4

(* Partners are partners of each other, in one half of the exchange.       *)
LEMMA PartnersAre ==
  ASSUME NEW p \in Mesh!Rank, NEW q, Partner(p, q)
  PROVE  /\ q \in Mesh!Rank /\ q # p /\ Partner(q, p)
         /\ q \in Mesh!Beside(p) <=> p \in Mesh!Beside(q)
         /\ q \in Mesh!Stacked(p) <=> p \in Mesh!Stacked(q)
         /\ q \in Mesh!Beside(p) <=> q \notin Mesh!Stacked(p)
<1>1. q \in Mesh!Rank
  BY DEF Partner, Mesh!Beside, Mesh!Stacked
<1>2. /\ Mesh!prow(p) \in Int /\ Mesh!pcol(p) \in Int
      /\ Mesh!prow(q) \in Int /\ Mesh!pcol(q) \in Int
  BY <1>1, MeshSizes
<1>3. /\ q \in Mesh!Beside(p) <=> p \in Mesh!Beside(q)
      /\ q \in Mesh!Stacked(p) <=> p \in Mesh!Stacked(q)
  BY <1>1, SameHalf
<1>4. q \in Mesh!Beside(p) => q \notin Mesh!Stacked(p) /\ q # p
  BY <1>1, <1>2, MeshPlaces
<1>5. q \in Mesh!Stacked(p) => q # p
  BY <1>1, <1>2, MeshPlaces
<1>6. QED
  BY <1>1, <1>3, <1>4, <1>5 DEF Partner

-----------------------------------------------------------------------------
(* The cells of a rank.                                                    *)
LEMMA InnerSeen ==
  ASSUME NEW p \in Mesh!Rank
  PROVE  Mesh!Inner(p) \subseteq Sees(p) /\ Sees(p) \subseteq Mesh!Local(p)
BY MeshBlock DEF Mesh!Inner, Sees, Mesh!Local

LEMMA InnerInside ==
  ASSUME NEW p \in Mesh!Rank, NEW c \in Mesh!Inner(p)
  PROVE  ~Outside(p, c)
<1>1. /\ Mesh!firstrow(p) \in Nat \ {0} /\ Mesh!firstcol(p) \in Nat \ {0}
      /\ Mesh!LRows(p) \in Nat /\ Mesh!LCols(p) \in Nat /\ GRows \in Nat /\ GCols \in Nat
      /\ Mesh!firstrow(p) + Mesh!LRows(p) <= GRows + 1
      /\ Mesh!firstcol(p) + Mesh!LCols(p) <= GCols + 1
  BY MeshBlock, MeshSizes
<1>2. c[1] \in 1 .. Mesh!LRows(p) /\ c[2] \in 1 .. Mesh!LCols(p)
  BY DEF Mesh!Inner
<1>3. QED
  BY <1>1, <1>2 DEF Outside

(* The boundary is dead in every generation.                               *)
LEMMA OutsideDead ==
  ASSUME NEW p, NEW c, Outside(p, c), NEW k
  PROVE  Mesh!CellAt(p, k, c) = Mesh!DIES
BY DEF Outside, Mesh!CellAt, Mesh!Cell

(* A cell that means something is one of the rank's own, on the boundary,  *)
(* or on the edge of a partner: of a column beside, or of a row with its   *)
(* corners.                                                                *)
LEMMA SeenCell ==
  ASSUME NEW p \in Mesh!Rank, NEW c \in Sees(p)
  PROVE  \/ c \in Mesh!Inner(p)
         \/ Outside(p, c)
         \/ /\ c[1] \in 1 .. Mesh!LRows(p)
            /\ \E s \in Mesh!Beside(p) : c \in EdgeCells(s, p)
         \/ /\ c[1] \notin 1 .. Mesh!LRows(p)
            /\ \E s \in Mesh!Stacked(p) : c \in EdgeCells(s, p)
<1> DEFINE R == Mesh!LRows(p)
           C == Mesh!LCols(p)
<1>1. /\ R \in Nat /\ C \in Nat /\ Mesh!firstrow(p) \in Nat \ {0} /\ Mesh!firstcol(p) \in Nat \ {0}
      /\ R = 0 \/ Mesh!prow(p) = 0 => Mesh!firstrow(p) = 1
      /\ C = 0 \/ Mesh!pcol(p) = 0 => Mesh!firstcol(p) = 1
      /\ Mesh!prow(p) = PRows - 1 => Mesh!firstrow(p) + R = GRows + 1
      /\ Mesh!pcol(p) = PCols - 1 => Mesh!firstcol(p) + C = GCols + 1
  BY MeshBlock
<1>2. /\ c \in (0 .. R + 1) \X (0 .. C + 1)
      /\ c[1] = R + 1 => R > 0
      /\ c[2] = C + 1 => C > 0
  BY DEF Sees, Mesh!Local
<1>3. /\ c[1] \in 0 .. R + 1 /\ c[2] \in 0 .. C + 1 /\ c = <<c[1], c[2]>>
  BY <1>2
<1>4. /\ GRows \in Nat /\ GCols \in Nat /\ PRows \in Nat \ {0} /\ PCols \in Nat \ {0}
      /\ Mesh!prow(p) \in 0 .. PRows - 1 /\ Mesh!pcol(p) \in 0 .. PCols - 1
  BY MeshSizes
<1>5. Frames!MeshAssumption /\ Frames!Rank = Mesh!Rank
      /\ \A s : Frames!prow(s) = Mesh!prow(s) /\ Frames!pcol(s) = Mesh!pcol(s)
  BY MeshSizes DEF Frames!MeshAssumption, Frames!Rank, Mesh!Rank, Frames!prow, Mesh!prow,
                   Frames!pcol, Mesh!pcol
<1>6. ASSUME NEW a \in 0 .. PRows - 1, NEW b \in 0 .. PCols - 1
      PROVE  \E s \in Mesh!Rank : Mesh!prow(s) = a /\ Mesh!pcol(s) = b
  BY <1>5, Frames!RankOfPlace
<1> HIDE DEF R, C
<1>7. CASE c[1] \in 1 .. R /\ c[2] \in 1 .. C
  BY <1>3, <1>7 DEF Mesh!Inner, R, C
<1>8. CASE c[1] \in 1 .. R /\ c[2] = 0
  <2>1. CASE Mesh!pcol(p) = 0
    BY <1>1, <1>4, <1>8, <2>1 DEF Outside
  <2>2. CASE Mesh!pcol(p) # 0
    <3>1. Mesh!pcol(p) - 1 \in 0 .. PCols - 1
      BY <1>4, <2>2
    <3>2. PICK s \in Mesh!Rank : Mesh!prow(s) = Mesh!prow(p) /\ Mesh!pcol(s) = Mesh!pcol(p) - 1
      BY <1>4, <1>6, <3>1
    <3>3. s \in Mesh!Beside(p) /\ s < p /\ Mesh!LRows(s) = R
      BY <1>4, <3>2, MeshPlaces, MeshNext DEF R
    <3>4. p \in Mesh!Beside(s) /\ ~(p < s)
      BY <3>3, PartnersAre, MeshSizes DEF Partner
    <3>5. c \in EdgeCells(s, p)
      BY <1>3, <1>8, <3>3, <3>4 DEF EdgeCells
    <3>6. QED
      BY <1>8, <3>3, <3>5 DEF R
  <2>3. QED
    BY <2>1, <2>2
<1>9. CASE c[1] \in 1 .. R /\ c[2] = C + 1
  <2>1. CASE Mesh!pcol(p) = PCols - 1
    BY <1>1, <1>4, <1>9, <2>1 DEF Outside
  <2>2. CASE Mesh!pcol(p) # PCols - 1
    <3>1. Mesh!pcol(p) + 1 \in 0 .. PCols - 1
      BY <1>4, <2>2
    <3>2. PICK s \in Mesh!Rank : Mesh!prow(s) = Mesh!prow(p) /\ Mesh!pcol(s) = Mesh!pcol(p) + 1
      BY <1>4, <1>6, <3>1
    <3>3. s \in Mesh!Beside(p) /\ Mesh!LRows(s) = R
      BY <1>4, <3>2, MeshPlaces, MeshNext DEF R
    <3>4. p \in Mesh!Beside(s)
      BY <3>3, PartnersAre DEF Partner
    <3>5. p < s
      BY <1>4, <3>2, MeshPlaces
    <3>6. c \in EdgeCells(s, p)
      BY <1>3, <1>9, <3>3, <3>4, <3>5 DEF EdgeCells, C
    <3>7. QED
      BY <1>9, <3>3, <3>6 DEF R
  <2>3. QED
    BY <2>1, <2>2
<1>10. CASE c[1] = 0
  <2>1. CASE Mesh!prow(p) = 0
    BY <1>1, <1>4, <1>10, <2>1 DEF Outside
  <2>2. CASE Mesh!prow(p) # 0
    <3>1. Mesh!prow(p) - 1 \in 0 .. PRows - 1
      BY <1>4, <2>2
    <3>2. PICK s \in Mesh!Rank : Mesh!prow(s) = Mesh!prow(p) - 1 /\ Mesh!pcol(s) = Mesh!pcol(p)
      BY <1>4, <1>6, <3>1
    <3>3. s \in Mesh!Stacked(p) /\ s < p /\ Mesh!LCols(s) = C
      BY <1>4, <3>2, MeshPlaces, MeshNext DEF C
    <3>4. p \notin Mesh!Beside(s) /\ ~(p < s)
      BY <3>3, PartnersAre, MeshSizes DEF Partner
    <3>5. c \in EdgeCells(s, p)
      BY <1>3, <1>10, <3>3, <3>4 DEF EdgeCells
    <3>6. QED
      BY <1>10, <3>3, <3>5
  <2>3. QED
    BY <2>1, <2>2
<1>11. CASE c[1] = R + 1
  <2>1. CASE Mesh!prow(p) = PRows - 1
    BY <1>1, <1>4, <1>11, <2>1 DEF Outside
  <2>2. CASE Mesh!prow(p) # PRows - 1
    <3>1. Mesh!prow(p) + 1 \in 0 .. PRows - 1
      BY <1>4, <2>2
    <3>2. PICK s \in Mesh!Rank : Mesh!prow(s) = Mesh!prow(p) + 1 /\ Mesh!pcol(s) = Mesh!pcol(p)
      BY <1>4, <1>6, <3>1
    <3>3. s \in Mesh!Stacked(p) /\ Mesh!LCols(s) = C
      BY <1>4, <3>2, MeshPlaces, MeshNext DEF C
    <3>4. p \notin Mesh!Beside(s)
      BY <3>3, PartnersAre DEF Partner
    <3>5. p < s
      <4>1. Mesh!prow(p) = Mesh!prow(s) - 1 /\ Mesh!pcol(p) = Mesh!pcol(s)
        BY <1>4, <3>2
      <4>2. QED
        BY <4>1, MeshPlaces
    <3>6. c \in EdgeCells(s, p)
      BY <1>3, <1>11, <3>3, <3>4, <3>5 DEF EdgeCells, R
    <3>7. c[1] \notin 1 .. R
      BY <1>1, <1>11
    <3>8. QED
      BY <3>3, <3>6, <3>7 DEF R
  <2>3. QED
    BY <2>1, <2>2
<1>12. \/ c[1] \in 1 .. R /\ (c[2] \in 1 .. C \/ c[2] = 0 \/ c[2] = C + 1)
       \/ c[1] = 0
       \/ c[1] = R + 1
  BY <1>1, <1>3
<1>13. QED
  BY <1>7, <1>8, <1>9, <1>10, <1>11, <1>12

-----------------------------------------------------------------------------
(* The two matrices of a rank.                                             *)
LEMMA MeshNow ==
  ASSUME MeshLoop, NEW p \in Mesh!Rank
  PROVE  /\ gen2[p] \in 0 .. Iter /\ gen2[p] \in Nat /\ Iter \in Nat
         /\ cur2[p] = gen2[p] % 2 /\ cur2[p] \in 0 .. 1 /\ 1 - cur2[p] \in 0 .. 1
         /\ 1 - cur2[p] = (gen2[p] + 1) % 2 /\ 1 - cur2[p] # cur2[p]
         /\ MeshMatrix(p)
<1>1. gen2 \in [Mesh!Rank -> 0 .. Iter] /\ Iter \in Nat /\ cur2 = [s \in Mesh!Rank |-> gen2[s] % 2]
  BY GridAssumption DEF GridAssumption, MeshLoop
<1>2. gen2[p] \in 0 .. Iter /\ gen2[p] \in Nat /\ cur2[p] = gen2[p] % 2
  BY <1>1
<1>3. QED
  BY <1>1, <1>2 DEF MeshLoop

(* Every cell of p's row that means something is right once the columns    *)
(* beside have come, ...                                                   *)
LEMMA RowSeen ==
  ASSUME MeshLoop, NEW p \in Mesh!Rank, NEW c \in Sees(p),
         c[1] \in 1 .. Mesh!LRows(p) \/ Outside(p, c),
         \A s \in Mesh!Beside(p) : HasEdge(p, s)
  PROVE  Mesh!matrix(p)[c] = Mesh!CellAt(p, gen2[p], c)
<1>1. MeshMatrix(p) /\ cur2[p] \in 0 .. 1
  BY MeshNow
<1>2. CASE c \in Mesh!Inner(p)
  BY <1>1, <1>2 DEF MeshMatrix
<1>3. CASE Outside(p, c)
  BY <1>1, <1>3, OutsideDead DEF MeshMatrix, Mesh!matrix
<1>4. CASE \E s \in Mesh!Beside(p) : c \in EdgeCells(s, p)
  BY <1>4 DEF HasEdge
<1>5. QED
  BY <1>2, <1>3, <1>4, SeenCell

(* ... and every cell when the rows above and below have come, too.        *)
LEMMA AllSeen ==
  ASSUME MeshLoop, NEW p \in Mesh!Rank, NEW c \in Sees(p),
         \A s \in Mesh!Rank : Partner(p, s) => HasEdge(p, s)
  PROVE  Mesh!matrix(p)[c] = Mesh!CellAt(p, gen2[p], c)
<1>1. \A s \in Mesh!Beside(p) \cup Mesh!Stacked(p) : s \in Mesh!Rank /\ HasEdge(p, s)
  BY PartnersAre DEF Partner
<1>2. CASE c[1] \in 1 .. Mesh!LRows(p) \/ Outside(p, c) \/ c \in Mesh!Inner(p)
  BY <1>1, <1>2, RowSeen DEF Mesh!Inner
<1>3. CASE \E s \in Mesh!Stacked(p) : c \in EdgeCells(s, p)
  BY <1>1, <1>3 DEF HasEdge
<1>4. QED
  BY <1>2, <1>3, SeenCell

(* A place of the whole matrix, in the frames of two ranks.                *)
LEMMA SamePlace ==
  ASSUME NEW p, NEW q, NEW k, NEW c, NEW d,
         Mesh!firstrow(q) - 1 + c[1] = Mesh!firstrow(p) - 1 + d[1],
         Mesh!firstcol(q) - 1 + c[2] = Mesh!firstcol(p) - 1 + d[2]
  PROVE  Mesh!CellAt(q, k, c) = Mesh!CellAt(p, k, d)
BY DEF Mesh!CellAt

(* What a rank sends is right: a column is its own, and a row has its      *)
(* corners from the columns that came before.                              *)
LEMMA EdgeRight ==
  ASSUME MeshLoop, NEW p \in Mesh!Rank, NEW q \in Mesh!Rank, Partner(p, q),
         q \in Mesh!Stacked(p) => \A s \in Mesh!Beside(p) : HasEdge(p, s)
  PROVE  EdgeOf(gen2[p], p, q, Mesh!Edge(p, q))
<1> DEFINE R == Mesh!LRows(p)
           C == Mesh!LCols(p)
           g == gen2[p]
           m == Mesh!Edge(p, q)
<1>1. /\ R \in Nat /\ C \in Nat /\ Mesh!LRows(q) \in Nat /\ Mesh!LCols(q) \in Nat
      /\ Mesh!firstrow(p) \in Nat \ {0} /\ Mesh!firstcol(p) \in Nat \ {0}
      /\ Mesh!firstrow(q) \in Nat \ {0} /\ Mesh!firstcol(q) \in Nat \ {0}
      /\ R = 0 => Mesh!firstrow(p) = 1
      /\ C = 0 => Mesh!firstcol(p) = 1
  BY MeshBlock
<1>2. /\ Mesh!prow(p) \in Int /\ Mesh!pcol(p) \in Int /\ Mesh!prow(q) \in Int /\ Mesh!pcol(q) \in Int
      /\ p \in Int /\ q \in Int /\ PCols \in Nat \ {0} /\ GRows \in Nat /\ GCols \in Nat
  BY MeshSizes
<1>3. q # p /\ (q \in Mesh!Beside(p) <=> q \notin Mesh!Stacked(p))
  BY PartnersAre
<1>4. MeshMatrix(p)
  BY MeshNow
<1>5. \A c \in Mesh!Local(p) : c[1] \in Nat /\ c[2] \in Nat
  BY <1>1 DEF Mesh!Local
<1>6. CASE q \in Mesh!Beside(p) /\ q < p
  <2>1. Mesh!prow(q) = Mesh!prow(p) /\ Mesh!pcol(p) = Mesh!pcol(q) + 1
    <3>1. Mesh!prow(q) = Mesh!prow(p) /\ Mesh!pcol(q) \in {Mesh!pcol(p) - 1, Mesh!pcol(p) + 1}
      BY <1>6, MeshPlaces
    <3>2. ~(p < q)
      BY <1>2, <1>6
    <3>3. ~(Mesh!pcol(p) < Mesh!pcol(q))
      BY <3>1, <3>2, MeshPlaces
    <3>4. QED
      BY <1>2, <3>1, <3>3
  <2>2. /\ Mesh!firstrow(q) = Mesh!firstrow(p)
        /\ Mesh!firstcol(p) = Mesh!firstcol(q) + Mesh!LCols(q)
        /\ Mesh!LCols(q) > 0 => C > 0
    BY <2>1, MeshNext
  <2>3. q = p - 1 /\ q # p + 1
    BY <1>2, <1>6 DEF Mesh!Beside
  <2>4. m = [c \in (1 .. R) \X {Mesh!LCols(q) + 1} |-> Mesh!matrix(p)[<<c[1], 1>>]]
    BY <1>6, <2>3 DEF Mesh!Edge
  <2>5. EdgeCells(p, q) = (1 .. R) \X {Mesh!LCols(q) + 1}
    BY <1>6 DEF EdgeCells
  <2>6. ASSUME NEW c \in EdgeCells(p, q) \cap Sees(q)
        PROVE  m[c] = Mesh!CellAt(q, g, c)
    <3>1. c[1] \in 1 .. R /\ c[2] = Mesh!LCols(q) + 1 /\ Mesh!LCols(q) > 0
      BY <2>5, <2>6 DEF Sees
    <3>2. <<c[1], 1>> \in Mesh!Inner(p)
      BY <1>1, <2>2, <3>1 DEF Mesh!Inner
    <3>3. m[c] = Mesh!CellAt(p, g, <<c[1], 1>>)
      BY <1>4, <2>4, <2>5, <3>2 DEF MeshMatrix
    <3>4. Mesh!CellAt(q, g, c) = Mesh!CellAt(p, g, <<c[1], 1>>)
      <4>1. /\ Mesh!firstrow(q) - 1 + c[1] = Mesh!firstrow(p) - 1 + <<c[1], 1>>[1]
            /\ Mesh!firstcol(q) - 1 + c[2] = Mesh!firstcol(p) - 1 + <<c[1], 1>>[2]
        BY <1>1, <2>2, <3>1
      <4>2. QED
        BY <4>1, SamePlace
    <3>5. QED
      BY <3>3, <3>4
  <2>7. QED
    BY <2>4, <2>5, <2>6 DEF EdgeOf
<1>7. CASE q \in Mesh!Beside(p) /\ ~(q < p)
  <2>1. Mesh!prow(q) = Mesh!prow(p) /\ Mesh!pcol(q) = Mesh!pcol(p) + 1
    <3>1. Mesh!prow(q) = Mesh!prow(p) /\ Mesh!pcol(q) \in {Mesh!pcol(p) - 1, Mesh!pcol(p) + 1}
      BY <1>7, MeshPlaces
    <3>2. ~(Mesh!pcol(q) < Mesh!pcol(p))
      BY <1>7, <3>1, MeshPlaces
    <3>3. QED
      BY <1>2, <3>1, <3>2
  <2>2. /\ Mesh!firstrow(q) = Mesh!firstrow(p)
        /\ Mesh!firstcol(q) = Mesh!firstcol(p) + C
    BY <2>1, MeshNext
  <2>3. q = p + 1 /\ q # p - 1
    BY <1>2, <1>7 DEF Mesh!Beside
  <2>4. m = [c \in (1 .. R) \X {0} |-> Mesh!matrix(p)[<<c[1], C>>]]
    BY <1>7, <2>3 DEF Mesh!Edge
  <2>5. EdgeCells(p, q) = (1 .. R) \X {0}
    BY <1>7 DEF EdgeCells
  <2>6. ASSUME NEW c \in EdgeCells(p, q) \cap Sees(q)
        PROVE  m[c] = Mesh!CellAt(q, g, c)
    <3>1. c[1] \in 1 .. R /\ c[2] = 0
      BY <2>5, <2>6
    <3>2. Mesh!matrix(p)[<<c[1], C>>] = Mesh!CellAt(p, g, <<c[1], C>>)
      <4>1. CASE C > 0
        <5>1. <<c[1], C>> \in Mesh!Inner(p)
          BY <1>1, <3>1, <4>1 DEF Mesh!Inner
        <5>2. QED
          BY <1>4, <5>1 DEF MeshMatrix
      <4>2. CASE C = 0
        <5>1. Outside(p, <<c[1], C>>)
          BY <1>1, <4>2 DEF Outside
        <5>2. <<c[1], C>> \in Sees(p)
          BY <1>1, <3>1, <4>2 DEF Sees, Mesh!Local
        <5>3. cur2[p] \in 0 .. 1
          BY MeshNow
        <5>4. QED
          BY <1>4, <5>1, <5>2, <5>3, OutsideDead DEF MeshMatrix, Mesh!matrix
      <4>3. QED
        BY <1>1, <4>1, <4>2
    <3>3. m[c] = Mesh!CellAt(p, g, <<c[1], C>>)
      BY <2>4, <2>5, <3>2
    <3>4. Mesh!CellAt(q, g, c) = Mesh!CellAt(p, g, <<c[1], C>>)
      <4>1. /\ Mesh!firstrow(q) - 1 + c[1] = Mesh!firstrow(p) - 1 + <<c[1], C>>[1]
            /\ Mesh!firstcol(q) - 1 + c[2] = Mesh!firstcol(p) - 1 + <<c[1], C>>[2]
        BY <1>1, <2>2, <3>1
      <4>2. QED
        BY <4>1, SamePlace
    <3>5. QED
      BY <3>3, <3>4
  <2>7. QED
    BY <2>4, <2>5, <2>6 DEF EdgeOf
<1>8. CASE q \in Mesh!Stacked(p)
  <2>1. q \notin Mesh!Beside(p) /\ Mesh!pcol(q) = Mesh!pcol(p)
    BY <1>3, <1>8, MeshPlaces
  <2>2. Mesh!firstcol(q) = Mesh!firstcol(p) /\ Mesh!LCols(q) = C
    BY <2>1, MeshNext
  <2> DEFINE row == IF q < p THEN Mesh!LRows(q) + 1 ELSE 0
             own == IF q < p THEN 1 ELSE R
  <2>3. m = [c \in {row} \X (0 .. C + 1) |-> Mesh!matrix(p)[<<own, c[2]>>]]
    BY <2>1 DEF Mesh!Edge, Mesh!RowPart
  <2>4. EdgeCells(p, q) = {row} \X (0 .. C + 1)
    BY <2>1 DEF EdgeCells
  <2>5. /\ Mesh!firstrow(q) - 1 + row = Mesh!firstrow(p) - 1 + own
        /\ q < p => (Mesh!LRows(q) > 0 => R > 0)
    <3>1. CASE q < p
      <4>1. Mesh!prow(p) = Mesh!prow(q) + 1
        <5>1. Mesh!prow(q) \in {Mesh!prow(p) - 1, Mesh!prow(p) + 1}
          BY <1>8, MeshPlaces
        <5>2. ~(Mesh!pcol(q) = Mesh!pcol(p) /\ Mesh!prow(p) = Mesh!prow(q) - 1)
          BY <1>2, <3>1, MeshPlaces
        <5>3. QED
          BY <1>2, <2>1, <5>1, <5>2
      <4>2. Mesh!firstrow(p) = Mesh!firstrow(q) + Mesh!LRows(q) /\ (Mesh!LRows(q) > 0 => R > 0)
        BY <4>1, MeshNext
      <4>3. QED
        BY <1>1, <3>1, <4>2
    <3>2. CASE ~(q < p)
      <4>1. Mesh!prow(q) = Mesh!prow(p) + 1
        <5>1. Mesh!prow(q) \in {Mesh!prow(p) - 1, Mesh!prow(p) + 1}
          BY <1>8, MeshPlaces
        <5>2. Mesh!prow(q) # Mesh!prow(p) - 1
          BY <2>1, <3>2, MeshPlaces
        <5>3. QED
          BY <5>1, <5>2
      <4>2. Mesh!firstrow(q) = Mesh!firstrow(p) + R
        BY <4>1, MeshNext
      <4>3. QED
        BY <1>1, <3>2, <4>2
    <3>3. QED
      BY <3>1, <3>2
  <2>6. ASSUME NEW c \in EdgeCells(p, q) \cap Sees(q)
        PROVE  m[c] = Mesh!CellAt(q, g, c)
    <3>1. /\ c[1] = row /\ c[2] \in 0 .. C + 1 /\ (c[2] = C + 1 => C > 0)
          /\ q < p => Mesh!LRows(q) > 0
      BY <1>1, <2>2, <2>4, <2>6 DEF Sees
    <3> DEFINE d == <<own, c[2]>>
    <3>2. d \in Sees(p)
      BY <1>1, <2>5, <3>1 DEF Sees, Mesh!Local
    <3>3. d[1] \in 1 .. R \/ Outside(p, d)
      <4>1. CASE q < p
        BY <1>1, <2>5, <3>1, <4>1
      <4>2. CASE ~(q < p) /\ R > 0
        BY <1>1, <4>2
      <4>3. CASE ~(q < p) /\ R = 0
        BY <1>1, <4>3 DEF Outside
      <4>4. QED
        BY <1>1, <4>1, <4>2, <4>3
    <3>4. Mesh!matrix(p)[d] = Mesh!CellAt(p, g, d)
      BY <1>8, <3>2, <3>3, RowSeen
    <3>5. Mesh!CellAt(q, g, c) = Mesh!CellAt(p, g, d)
      <4>1. /\ Mesh!firstrow(q) - 1 + c[1] = Mesh!firstrow(p) - 1 + d[1]
            /\ Mesh!firstcol(q) - 1 + c[2] = Mesh!firstcol(p) - 1 + d[2]
        BY <2>2, <2>5, <3>1
      <4>2. QED
        BY <4>1, SamePlace
    <3>6. m[c] = Mesh!matrix(p)[d]
      BY <2>3, <2>4
    <3>7. QED
      BY <3>4, <3>5, <3>6
  <2>7. DOMAIN m = EdgeCells(p, q)
    BY <2>3, <2>4
  <2>8. QED
    BY <2>6, <2>7 DEF EdgeOf
<1>9. QED
  BY <1>6, <1>7, <1>8 DEF Partner

(* A right edge that is stored makes no cell wrong.                        *)
LEMMA MeshStored ==
  ASSUME MeshLoop, NEW p \in Mesh!Rank, NEW q \in Mesh!Rank, NEW m,
         EdgeOf(gen2[p], q, p, m), Mesh!Store(p, cur2[p], m), gen2' = gen2, cur2' = cur2
  PROVE  /\ MeshLoop' /\ HasEdge(p, q)'
         /\ \A s \in Mesh!Rank : \A t : HasEdge(s, t) => HasEdge(s, t)'
<1> DEFINE b == cur2[p]
<1>1. /\ b \in 0 .. 1 /\ MeshMatrix(p) /\ DOMAIN buf2 = Mesh!Rank /\ DOMAIN buf2[p] = 0 .. 1
      /\ \A w \in 0 .. 1 : DOMAIN buf2[p][w] = Mesh!Local(p)
  BY MeshNow DEF MeshLoop, MeshMatrix
<1>2. buf2' = [buf2 EXCEPT ![p][b] = [c \in Mesh!Local(p) |->
                                       IF c \in DOMAIN m THEN m[c] ELSE @[c]]]
  BY DEF Mesh!Store
<1>3. /\ DOMAIN buf2' = Mesh!Rank /\ DOMAIN buf2'[p] = 0 .. 1
      /\ buf2'[p][b] = [c \in Mesh!Local(p) |-> IF c \in DOMAIN m THEN m[c] ELSE buf2[p][b][c]]
      /\ \A w \in 0 .. 1 : w # b => buf2'[p][w] = buf2[p][w]
      /\ \A s \in Mesh!Rank : s # p => buf2'[s] = buf2[s]
  BY <1>1, <1>2
<1>4. /\ DOMAIN m = EdgeCells(q, p)
      /\ \A c \in EdgeCells(q, p) \cap Sees(p) : m[c] = Mesh!CellAt(p, gen2[p], c)
  BY DEF EdgeOf
<1>5. Sees(p) \subseteq Mesh!Local(p) /\ Mesh!Inner(p) \subseteq Sees(p)
  BY InnerSeen
<1>6. ASSUME NEW c \in Sees(p)
      PROVE  buf2'[p][b][c] = IF c \in EdgeCells(q, p) THEN Mesh!CellAt(p, gen2[p], c)
                                                      ELSE buf2[p][b][c]
  BY <1>3, <1>4, <1>5
<1>7. ASSUME NEW c \in Sees(p), buf2[p][b][c] = Mesh!CellAt(p, gen2[p], c)
      PROVE  buf2'[p][b][c] = Mesh!CellAt(p, gen2[p], c)
  BY <1>6, <1>7
<1>8. ASSUME NEW s \in Mesh!Rank
      PROVE  MeshMatrix(s)'
  <2>1. CASE s # p
    <3>1. MeshMatrix(s)
      BY DEF MeshLoop
    <3>2. buf2'[s] = buf2[s]
      BY <1>3, <2>1
    <3>3. QED
      BY <3>1, <3>2 DEF MeshMatrix, Mesh!matrix
  <2>2. CASE s = p
    <3>1. ASSUME NEW w \in 0 .. 1
          PROVE  /\ DOMAIN buf2'[p][w] = Mesh!Local(p)
                 /\ \A c \in Sees(p) : Outside(p, c) => buf2'[p][w][c] = Mesh!DIES
      <4>1. \A c \in Sees(p) : Outside(p, c) => buf2[p][w][c] = Mesh!DIES
        BY <1>1 DEF MeshMatrix
      <4>2. CASE w # b
        BY <1>1, <1>3, <4>1, <4>2
      <4>3. CASE w = b
        BY <1>3, <1>6, <4>1, <4>3, OutsideDead
      <4>4. QED
        BY <4>2, <4>3
    <3>2. \A c \in Mesh!Inner(p) : buf2'[p][b][c] = Mesh!CellAt(p, gen2[p], c)
      BY <1>1, <1>5, <1>7 DEF MeshMatrix, Mesh!matrix
    <3>3. QED
      BY <1>3, <2>2, <3>1, <3>2 DEF MeshMatrix, Mesh!matrix
  <2>3. QED
    BY <2>1, <2>2
<1>9. MeshLoop'
  BY <1>3, <1>8 DEF MeshLoop
<1>10. ASSUME NEW s \in Mesh!Rank, NEW t, HasEdge(s, t)
       PROVE  HasEdge(s, t)'
  <2>1. CASE s # p
    BY <1>3, <1>10, <2>1 DEF HasEdge, Mesh!matrix
  <2>2. CASE s = p
    BY <1>7, <1>10, <2>2 DEF HasEdge, Mesh!matrix
  <2>3. QED
    BY <2>1, <2>2
<1>11. HasEdge(p, q)'
  BY <1>6 DEF HasEdge, Mesh!matrix
<1>12. QED
  BY <1>9, <1>10, <1>11

(* A rank whose edges have all come computes the next generation.          *)
LEMMA MeshAdvanced ==
  ASSUME MeshLoop, NEW p \in Mesh!Rank, Mesh!Compute(p), gen2[p] < Iter,
         \A s \in Mesh!Rank : Partner(p, s) => HasEdge(p, s)
  PROVE  /\ MeshLoop' /\ gen2' = [gen2 EXCEPT ![p] = @ + 1]
         /\ \A s \in Mesh!Rank : s # p => /\ gen2'[s] = gen2[s] /\ buf2'[s] = buf2[s]
                                          /\ \A t : HasEdge(s, t) => HasEdge(s, t)'
<1> DEFINE b == cur2[p]
           g == gen2[p]
           new == [c \in Mesh!Local(p) |-> IF c \in Mesh!Inner(p) THEN Mesh!NextCell(p, c)
                                                                  ELSE buf2[p][1 - b][c]]
<1>1. /\ b \in 0 .. 1 /\ 1 - b \in 0 .. 1 /\ 1 - b # b /\ 1 - b = (g + 1) % 2 /\ MeshMatrix(p)
      /\ g \in Nat /\ g \in 0 .. Iter /\ Iter \in Nat
      /\ DOMAIN buf2 = Mesh!Rank /\ DOMAIN buf2[p] = 0 .. 1
      /\ \A w \in 0 .. 1 : DOMAIN buf2[p][w] = Mesh!Local(p)
  BY MeshNow DEF MeshLoop, MeshMatrix
<1>2. /\ buf2' = [buf2 EXCEPT ![p][1 - b] = new]
      /\ cur2' = [cur2 EXCEPT ![p] = 1 - @] /\ gen2' = [gen2 EXCEPT ![p] = @ + 1]
  BY DEF Mesh!Compute
<1>3. gen2 \in [Mesh!Rank -> 0 .. Iter] /\ cur2 = [s \in Mesh!Rank |-> gen2[s] % 2]
  BY DEF MeshLoop
<1>4. /\ \A s \in Mesh!Rank : s # p => gen2'[s] = gen2[s] /\ cur2'[s] = cur2[s]
      /\ gen2'[p] = g + 1 /\ cur2'[p] = 1 - b /\ g + 1 \in 0 .. Iter
  BY <1>1, <1>2, <1>3
<1> HIDE DEF new
<1>5. /\ DOMAIN buf2' = Mesh!Rank /\ DOMAIN buf2'[p] = 0 .. 1
      /\ buf2'[p][1 - b] = new /\ buf2'[p][b] = buf2[p][b]
      /\ \A s \in Mesh!Rank : s # p => buf2'[s] = buf2[s]
  BY <1>1, <1>2
<1>6. gen2' \in [Mesh!Rank -> 0 .. Iter] /\ cur2' = [s \in Mesh!Rank |-> gen2'[s] % 2]
  <2>1. gen2' \in [Mesh!Rank -> 0 .. Iter]
    BY <1>2, <1>3, <1>4
  <2>2. DOMAIN cur2' = Mesh!Rank /\ \A s \in Mesh!Rank : cur2'[s] = gen2'[s] % 2
    BY <1>1, <1>2, <1>3, <1>4
  <2>3. cur2' = [s \in Mesh!Rank |-> cur2'[s]]
    BY <1>2, <1>3
  <2>4. QED
    BY <2>1, <2>2, <2>3
<1>7. ASSUME NEW c \in Mesh!Inner(p)
      PROVE  new[c] = Mesh!CellAt(p, g + 1, c)
  <2>1. c \in Mesh!Local(p)
    BY InnerSeen
  <2>2. \A d \in Mesh!Square(c) : d \in Sees(p)
    BY MeshBlock DEF Mesh!Square, Mesh!Inner, Sees, Mesh!Local
  <2>3. \A d \in Mesh!Square(c) : Mesh!matrix(p)[d] = Mesh!CellAt(p, g, d)
    BY <2>2, AllSeen
  <2>4. QED
    BY <2>1, <2>3 DEF new, Mesh!NextCell
<1>8. ASSUME NEW c \in Sees(p), Outside(p, c)
      PROVE  new[c] = Mesh!DIES
  <2>1. c \in Mesh!Local(p)
    BY InnerSeen
  <2>2. CASE c \in Mesh!Inner(p)
    BY <1>7, <1>8, <2>2, OutsideDead
  <2>3. CASE c \notin Mesh!Inner(p)
    BY <1>1, <1>8, <2>1, <2>3 DEF new, MeshMatrix
  <2>4. QED
    BY <2>2, <2>3
<1>9. ASSUME NEW s \in Mesh!Rank
      PROVE  MeshMatrix(s)'
  <2>1. CASE s # p
    <3>1. MeshMatrix(s)
      BY DEF MeshLoop
    <3>2. buf2'[s] = buf2[s] /\ gen2'[s] = gen2[s] /\ cur2'[s] = cur2[s]
      BY <1>4, <1>5, <2>1
    <3>3. QED
      BY <3>1, <3>2 DEF MeshMatrix, Mesh!matrix
  <2>2. CASE s = p
    <3>1. DOMAIN new = Mesh!Local(p)
      BY DEF new
    <3>2. ASSUME NEW w \in 0 .. 1
          PROVE  /\ DOMAIN buf2'[p][w] = Mesh!Local(p)
                 /\ \A c \in Sees(p) : Outside(p, c) => buf2'[p][w][c] = Mesh!DIES
      <4>1. w = b \/ w = 1 - b
        BY <1>1
      <4>2. CASE w = b
        BY <1>1, <1>5, <4>2 DEF MeshMatrix
      <4>3. CASE w = 1 - b
        BY <1>5, <1>8, <3>1, <4>3
      <4>4. QED
        BY <4>1, <4>2, <4>3
    <3>3. \A c \in Mesh!Inner(p) : buf2'[p][1 - b][c] = Mesh!CellAt(p, g + 1, c)
      BY <1>5, <1>7
    <3>4. QED
      BY <1>4, <1>5, <2>2, <3>2, <3>3 DEF MeshMatrix, Mesh!matrix
  <2>3. QED
    BY <2>1, <2>2
<1>10. MeshLoop'
  BY <1>5, <1>6, <1>9 DEF MeshLoop
<1>11. ASSUME NEW s \in Mesh!Rank, s # p
       PROVE  /\ gen2'[s] = gen2[s] /\ buf2'[s] = buf2[s]
              /\ \A t : HasEdge(s, t) => HasEdge(s, t)'
  <2>1. gen2'[s] = gen2[s] /\ buf2'[s] = buf2[s] /\ cur2'[s] = cur2[s]
    BY <1>4, <1>5, <1>11
  <2>2. QED
    BY <2>1 DEF HasEdge, Mesh!matrix
<1>12. QED
  BY <1>2, <1>10, <1>11

(* The exchange does not change the matrices otherwise.                    *)
LEMMA MeshStill ==
  ASSUME MeshLoop, UNCHANGED <<gen2, buf2, cur2>>
  PROVE  MeshLoop' /\ \A s, t : HasEdge(s, t) => HasEdge(s, t)'
<1>1. \A s : MeshMatrix(s) => MeshMatrix(s)'
  BY DEF MeshMatrix, Mesh!matrix
<1>2. \A s, t : HasEdge(s, t) => HasEdge(s, t)'
  BY DEF HasEdge, Mesh!matrix
<1>3. QED
  BY <1>1, <1>2 DEF MeshLoop

LEMMA MeshBegins ==
  ASSUME Mesh!LoopInit
  PROVE  MeshLoop
<1>1. /\ gen2 = [p \in Mesh!Rank |-> 0] /\ cur2 = [p \in Mesh!Rank |-> 0]
      /\ buf2 = [p \in Mesh!Rank |-> [b \in 0 .. 1 |-> [c \in Mesh!Local(p) |->
              IF c \notin Mesh!Inner(p) THEN Mesh!DIES
              ELSE IF b = 0 THEN Mesh!CellAt(p, 0, c) ELSE Mesh!Wrong]]]
  BY DEF Mesh!LoopInit
<1>2. Iter \in Nat
  BY GridAssumption DEF GridAssumption
<1>3. ASSUME NEW p \in Mesh!Rank
      PROVE  MeshMatrix(p)
  <2>1. Mesh!Inner(p) \subseteq Mesh!Local(p)
    BY InnerSeen
  <2>2. /\ DOMAIN buf2[p] = 0 .. 1
        /\ \A b \in 0 .. 1 : DOMAIN buf2[p][b] = Mesh!Local(p)
        /\ \A b \in 0 .. 1, c \in Mesh!Local(p) : c \notin Mesh!Inner(p) => buf2[p][b][c] = Mesh!DIES
        /\ \A c \in Mesh!Inner(p) : buf2[p][0][c] = Mesh!CellAt(p, 0, c)
    BY <1>1, <2>1
  <2>3. \A c \in Sees(p) : Outside(p, c) => c \notin Mesh!Inner(p)
    <3>1. SUFFICES ASSUME NEW c \in Mesh!Inner(p)
                   PROVE  ~Outside(p, c)
      OBVIOUS
    <3>2. QED
      BY InnerInside
  <2>4. gen2[p] = 0 /\ cur2[p] = 0
    BY <1>1
  <2>5. \A c \in Sees(p) : c \in Mesh!Local(p)
    BY InnerSeen
  <2>6. QED
    BY <2>2, <2>3, <2>4, <2>5 DEF MeshMatrix, Mesh!matrix
<1>4. gen2 \in [Mesh!Rank -> 0 .. Iter] /\ cur2 = [p \in Mesh!Rank |-> gen2[p] % 2]
  BY <1>1, <1>2
<1>5. QED
  BY <1>1, <1>3, <1>4 DEF MeshLoop

-----------------------------------------------------------------------------
(* The operators of the loop mean the same in both exchanges.              *)
LEMMA Pt2ptActions ==
  /\ Mesh!Pt2pt!LoopInit => Mesh!LoopInit
  /\ \A p : Mesh!Pt2pt!Compute(p) => Mesh!Compute(p)
  /\ \A q, b, m : Mesh!Pt2pt!Store(q, b, m) => Mesh!Store(q, b, m)
  /\ \A p \in Mesh!Rank : \A q : Mesh!Pt2pt!Edge(p, q) = Mesh!Edge(p, q)
  /\ \A p : Mesh!Pt2pt!Beside(p) = Mesh!Beside(p) /\ Mesh!Pt2pt!Stacked(p) = Mesh!Stacked(p)
<1>1. /\ Mesh!Pt2pt!Rank = Mesh!Rank /\ Mesh!Pt2pt!DIES = Mesh!DIES /\ Mesh!Pt2pt!Wrong = Mesh!Wrong
      /\ \A p : Mesh!Pt2pt!prow(p) = Mesh!prow(p) /\ Mesh!Pt2pt!pcol(p) = Mesh!pcol(p)
  BY DEF Mesh!Pt2pt!Rank, Mesh!Rank, Mesh!Pt2pt!DIES, Mesh!DIES, Mesh!Pt2pt!Wrong, Mesh!Wrong,
         Mesh!Pt2pt!prow, Mesh!prow, Mesh!Pt2pt!pcol, Mesh!pcol
<1>2. \A p : Mesh!Pt2pt!firstrow(p) = Mesh!firstrow(p) /\ Mesh!Pt2pt!firstcol(p) = Mesh!firstcol(p)
  BY <1>1, Zenon DEF Mesh!Pt2pt!firstrow, Mesh!firstrow, Mesh!Pt2pt!firstcol, Mesh!firstcol
<1>3. \A p : Mesh!Pt2pt!lastrow(p) = Mesh!lastrow(p) /\ Mesh!Pt2pt!lastcol(p) = Mesh!lastcol(p)
  BY <1>1, Zenon DEF Mesh!Pt2pt!lastrow, Mesh!lastrow, Mesh!Pt2pt!lastcol, Mesh!lastcol
<1>4. \A p : Mesh!Pt2pt!LRows(p) = Mesh!LRows(p) /\ Mesh!Pt2pt!LCols(p) = Mesh!LCols(p)
  BY <1>2, <1>3, Zenon DEF Mesh!Pt2pt!LRows, Mesh!LRows, Mesh!Pt2pt!LCols, Mesh!LCols
<1>5. \A p : /\ Mesh!Pt2pt!Local(p) = Mesh!Local(p) /\ Mesh!Pt2pt!Inner(p) = Mesh!Inner(p)
             /\ Mesh!Pt2pt!matrix(p) = Mesh!matrix(p) /\ Mesh!Pt2pt!RowPart(p) = Mesh!RowPart(p)
  BY <1>4, Zenon DEF Mesh!Pt2pt!Local, Mesh!Local, Mesh!Pt2pt!Inner, Mesh!Inner,
                     Mesh!Pt2pt!matrix, Mesh!matrix, Mesh!Pt2pt!RowPart, Mesh!RowPart
<1>6. \A p, k, c : Mesh!Pt2pt!CellAt(p, k, c) = Mesh!CellAt(p, k, c)
  <2>1. \A k, i, j : Mesh!Pt2pt!Cell(k, i, j) = Mesh!Cell(k, i, j)
    BY <1>1, Zenon DEF Mesh!Pt2pt!Cell, Mesh!Cell
  <2>2. QED
    BY <1>2, <2>1, Zenon DEF Mesh!Pt2pt!CellAt, Mesh!CellAt
<1>7. \A p : Mesh!Pt2pt!Beside(p) = Mesh!Beside(p) /\ Mesh!Pt2pt!Stacked(p) = Mesh!Stacked(p)
  BY <1>1 DEF Mesh!Pt2pt!Beside, Mesh!Beside, Mesh!Pt2pt!Stacked, Mesh!Stacked
<1>8. ASSUME Mesh!Pt2pt!LoopInit
      PROVE  Mesh!LoopInit
  BY <1>1, <1>5, <1>6, <1>8 DEF Mesh!Pt2pt!LoopInit, Mesh!LoopInit
<1>9. ASSUME NEW p, Mesh!Pt2pt!Compute(p)
      PROVE  Mesh!Compute(p)
  <2>1. \A c : Mesh!Pt2pt!NextCell(p, c) = Mesh!NextCell(p, c)
    <3>1. \A c : Mesh!Pt2pt!Square(c) = Mesh!Square(c)
      BY DEF Mesh!Pt2pt!Square, Mesh!Square
    <3>2. QED
      BY <1>1, <1>5, <1>6, <3>1 DEF Mesh!Pt2pt!NextCell, Mesh!NextCell
  <2>2. QED
    BY <1>5, <1>9, <2>1 DEF Mesh!Pt2pt!Compute, Mesh!Compute
<1>10. ASSUME NEW q, NEW b, NEW m, Mesh!Pt2pt!Store(q, b, m)
       PROVE  Mesh!Store(q, b, m)
  BY <1>5, <1>10 DEF Mesh!Pt2pt!Store, Mesh!Store
<1>11. ASSUME NEW p \in Mesh!Rank, NEW q
       PROVE  Mesh!Pt2pt!Edge(p, q) = Mesh!Edge(p, q)
  BY <1>4, <1>5, <1>7, <1>11 DEF Mesh!Pt2pt!Edge, Mesh!Edge
<1>12. QED
  BY <1>7, <1>8, <1>9, <1>10, <1>11

LEMMA FenceActions ==
  /\ Mesh!Fence!LoopInit => Mesh!LoopInit
  /\ \A p : Mesh!Fence!Compute(p) => Mesh!Compute(p)
  /\ \A q, b, m : Mesh!Fence!Store(q, b, m) => Mesh!Store(q, b, m)
  /\ \A p \in Mesh!Rank : \A q : Mesh!Fence!Edge(p, q) = Mesh!Edge(p, q)
  /\ \A p : Mesh!Fence!Beside(p) = Mesh!Beside(p) /\ Mesh!Fence!Stacked(p) = Mesh!Stacked(p)
<1>1. /\ Mesh!Fence!Rank = Mesh!Rank /\ Mesh!Fence!DIES = Mesh!DIES /\ Mesh!Fence!Wrong = Mesh!Wrong
      /\ \A p : Mesh!Fence!prow(p) = Mesh!prow(p) /\ Mesh!Fence!pcol(p) = Mesh!pcol(p)
  BY DEF Mesh!Fence!Rank, Mesh!Rank, Mesh!Fence!DIES, Mesh!DIES, Mesh!Fence!Wrong, Mesh!Wrong,
         Mesh!Fence!prow, Mesh!prow, Mesh!Fence!pcol, Mesh!pcol
<1>2. \A p : Mesh!Fence!firstrow(p) = Mesh!firstrow(p) /\ Mesh!Fence!firstcol(p) = Mesh!firstcol(p)
  BY <1>1, Zenon DEF Mesh!Fence!firstrow, Mesh!firstrow, Mesh!Fence!firstcol, Mesh!firstcol
<1>3. \A p : Mesh!Fence!lastrow(p) = Mesh!lastrow(p) /\ Mesh!Fence!lastcol(p) = Mesh!lastcol(p)
  BY <1>1, Zenon DEF Mesh!Fence!lastrow, Mesh!lastrow, Mesh!Fence!lastcol, Mesh!lastcol
<1>4. \A p : Mesh!Fence!LRows(p) = Mesh!LRows(p) /\ Mesh!Fence!LCols(p) = Mesh!LCols(p)
  BY <1>2, <1>3, Zenon DEF Mesh!Fence!LRows, Mesh!LRows, Mesh!Fence!LCols, Mesh!LCols
<1>5. \A p : /\ Mesh!Fence!Local(p) = Mesh!Local(p) /\ Mesh!Fence!Inner(p) = Mesh!Inner(p)
             /\ Mesh!Fence!matrix(p) = Mesh!matrix(p) /\ Mesh!Fence!RowPart(p) = Mesh!RowPart(p)
  BY <1>4, Zenon DEF Mesh!Fence!Local, Mesh!Local, Mesh!Fence!Inner, Mesh!Inner,
                     Mesh!Fence!matrix, Mesh!matrix, Mesh!Fence!RowPart, Mesh!RowPart
<1>6. \A p, k, c : Mesh!Fence!CellAt(p, k, c) = Mesh!CellAt(p, k, c)
  <2>1. \A k, i, j : Mesh!Fence!Cell(k, i, j) = Mesh!Cell(k, i, j)
    BY <1>1, Zenon DEF Mesh!Fence!Cell, Mesh!Cell
  <2>2. QED
    BY <1>2, <2>1, Zenon DEF Mesh!Fence!CellAt, Mesh!CellAt
<1>7. \A p : Mesh!Fence!Beside(p) = Mesh!Beside(p) /\ Mesh!Fence!Stacked(p) = Mesh!Stacked(p)
  BY <1>1 DEF Mesh!Fence!Beside, Mesh!Beside, Mesh!Fence!Stacked, Mesh!Stacked
<1>8. ASSUME Mesh!Fence!LoopInit
      PROVE  Mesh!LoopInit
  BY <1>1, <1>5, <1>6, <1>8 DEF Mesh!Fence!LoopInit, Mesh!LoopInit
<1>9. ASSUME NEW p, Mesh!Fence!Compute(p)
      PROVE  Mesh!Compute(p)
  <2>1. \A c : Mesh!Fence!NextCell(p, c) = Mesh!NextCell(p, c)
    <3>1. \A c : Mesh!Fence!Square(c) = Mesh!Square(c)
      BY DEF Mesh!Fence!Square, Mesh!Square
    <3>2. QED
      BY <1>1, <1>5, <1>6, <3>1 DEF Mesh!Fence!NextCell, Mesh!NextCell
  <2>2. QED
    BY <1>5, <1>9, <2>1 DEF Mesh!Fence!Compute, Mesh!Compute
<1>10. ASSUME NEW q, NEW b, NEW m, Mesh!Fence!Store(q, b, m)
       PROVE  Mesh!Store(q, b, m)
  BY <1>5, <1>10 DEF Mesh!Fence!Store, Mesh!Store
<1>11. ASSUME NEW p \in Mesh!Rank, NEW q
       PROVE  Mesh!Fence!Edge(p, q) = Mesh!Edge(p, q)
  BY <1>4, <1>5, <1>7, <1>11 DEF Mesh!Fence!Edge, Mesh!Edge
<1>12. QED
  BY <1>7, <1>8, <1>9, <1>10, <1>11

-----------------------------------------------------------------------------
(* Two-sided, in two dimensions: how far rank p is with its partner q.     *)
LEMMA MeshTimes ==
  ASSUME MeshShape, MeshLoop, NEW p \in Mesh!Rank, NEW q, Partner(p, q),
         NEW d \in {"send", "recv"}
  PROVE  LET t == Times(p, q, <<d, q>>)
         IN  /\ t \in {gen2[p], gen2[p] + 1}
             /\ t = gen2[p] + 1 => gen2[p] < Iter
             /\ <<d, q>> \in reqs2[p] => t = gen2[p]
             /\ gen2[p] < Iter /\ half[p] = 2 /\ (q \in Mesh!Beside(p) \/ reqs2[p] = {})
                  => t = gen2[p] + 1
             /\ t = gen2[p] + 1 /\ q \in Mesh!Stacked(p) => half[p] = 2
<1>1. q \in Mesh!Beside(p) <=> q \notin Mesh!Stacked(p)
  BY PartnersAre
<1>2. /\ gen2[p] \in Nat /\ half[p] \in {1, 2} /\ gen2[p] <= Iter /\ Iter \in Nat
      /\ reqs2[p] \subseteq {"send", "recv"} \X Partners(p, half[p])
      /\ gen2[p] = Iter => reqs2[p] = {}
  BY MeshNow DEF MeshShape
<1>3. <<d, q>> \in reqs2[p] => q \in Partners(p, half[p])
  BY <1>2
<1>4. CASE q \in Mesh!Beside(p)
  <2>1. Times(p, q, <<d, q>>) = Did(p, <<d, q>>, 1)
    BY <1>1, <1>2, <1>4 DEF Times, Did
  <2>2. <<d, q>> \in reqs2[p] => half[p] = 1
    BY <1>1, <1>2, <1>3, <1>4 DEF Partners
  <2>3. QED
    BY <1>1, <1>2, <1>4, <2>1, <2>2 DEF Did
<1>5. CASE q \notin Mesh!Beside(p)
  <2>1. Times(p, q, <<d, q>>) = Did(p, <<d, q>>, 2)
    BY <1>1, <1>2, <1>5 DEF Times, Did
  <2>2. <<d, q>> \in reqs2[p] => half[p] = 2
    BY <1>1, <1>2, <1>3, <1>5 DEF Partners
  <2>3. QED
    BY <1>2, <1>5, <2>1, <2>2 DEF Did
<1>6. QED
  BY <1>4, <1>5

LEMMA TimesAre ==
  ASSUME MeshLoop
  PROVE  \A p \in Mesh!Rank : \A q, x : Times(p, q, x) \in Int
<1>1. Iter \in Nat /\ gen2 \in [Mesh!Rank -> 0 .. Iter]
  BY GridAssumption DEF GridAssumption, MeshLoop
<1>2. QED
  BY <1>1 DEF Times, Did

(* A rank with nobody to talk to about it sends and receives nothing.      *)
LEMMA Addressed ==
  ASSUME MeshShape, NEW p \in Mesh!Rank, NEW q, NEW d, <<d, q>> \in reqs2[p]
  PROVE  Partner(p, q) /\ q \in Mesh!Rank
<1>1. q \in Partners(p, half[p])
  BY DEF MeshShape
<1>2. Partner(p, q)
  BY <1>1 DEF Partners, Partner
<1>3. QED
  BY <1>2, PartnersAre

(* The steps that exchange leave the generations alone, and each that      *)
(* computes is one Rounds allows.                                          *)
MeshStays == /\ gen2' = gen2
             /\ \A p \in Mesh!Rank : \A c \in Mesh!Inner(p) :
                  Mesh!matrix(p)'[c] = Mesh!matrix(p)[c]
MeshMoves(p) == /\ gen2[p] < Iter /\ gen2' = [gen2 EXCEPT ![p] = @ + 1]
                /\ \A q \in Mesh!Around(p) : gen2[q] >= gen2[p]

(* Cells of the same generation are the same cells.                        *)
LEMMA SameGeneration ==
  ASSUME MeshLoop, MeshLoop', gen2' = gen2
  PROVE  MeshStays
<1>1. ASSUME NEW p \in Mesh!Rank, NEW c \in Mesh!Inner(p)
      PROVE  Mesh!matrix(p)'[c] = Mesh!matrix(p)[c]
  <2>1. Mesh!matrix(p)[c] = Mesh!CellAt(p, gen2[p], c)
    BY DEF MeshLoop, MeshMatrix
  <2>2. Mesh!matrix(p)'[c] = Mesh!CellAt(p, gen2'[p], c)
    BY DEF MeshLoop, MeshMatrix
  <2>3. QED
    BY <2>1, <2>2
<1>2. QED
  BY <1>1 DEF MeshStays

LEMMA MeshSend ==
  ASSUME MeshLoop, MeshCount, MeshSent, NEW p \in Mesh!Rank, NEW q \in Mesh!Rank,
         Mesh!Pt2pt!Send(p, q)
  PROVE  MeshLoop' /\ MeshSent' /\ MeshStays
<1> DEFINE m == Mesh!Edge(p, q)
<1>1. /\ <<"send", q>> \in reqs2[p] /\ chan2' = [chan2 EXCEPT ![p][q] = Append(@, m)]
      /\ reqs2' = [reqs2 EXCEPT ![p] = @ \ {<<"send", q>>}]
      /\ UNCHANGED <<gen2, buf2, cur2, half>>
  BY Pt2ptActions DEF Mesh!Pt2pt!Send
<1>2. MeshLoop' /\ \A s, t : HasEdge(s, t) => HasEdge(s, t)'
  BY <1>1, MeshStill
<1>3. MeshShape /\ gen2 \in [Mesh!Rank -> 0 .. Iter]
  BY DEF MeshCount, MeshLoop
<1>4. "send" \in {"send", "recv"} /\ "recv" \in {"send", "recv"}
  OBVIOUS
<1>5. Partner(p, q)
  BY <1>1, <1>3, Addressed
<1>6. \A s, t \in Mesh!Rank : Times(s, t, <<"recv", t>>)' = Times(s, t, <<"recv", t>>)
  <2>1. /\ MeshShape'
        /\ Times(p, q, <<"send", q>>)' = Times(p, q, <<"send", q>>) + 1
        /\ \A s \in Mesh!Rank, t \in Mesh!Rank, c \in {"send", "recv"} :
             s # p \/ t # q \/ c # "send" => Times(s, t, <<c, t>>)' = Times(s, t, <<c, t>>)
    <3>1. MeshShape'
      BY <1>1, <1>3, <1>4, Completing
    <3>2. Times(p, q, <<"send", q>>)' = Times(p, q, <<"send", q>>) + 1
      BY <1>1, <1>3, <1>4, Completing
    <3>3. QED
      BY <3>1, <3>2, <1>1, <1>3, <1>4, Completing
  <2>2. QED
    BY <1>4, <2>1
<1>7. Times(p, q, <<"send", q>>) = gen2[p] /\ gen2[p] \in Nat
  BY <1>1, <1>3, <1>5, MeshTimes, MeshNow
<1>8. EdgeOf(gen2[p], p, q, m)
  <2>1. ASSUME q \in Mesh!Stacked(p), NEW s \in Mesh!Beside(p)
        PROVE  HasEdge(p, s)
    <3>1. half[p] = 2 /\ gen2[p] < Iter
      <4>1. q \in Partners(p, half[p]) /\ half[p] \in {1, 2} /\ gen2[p] # Iter
        BY <1>1, <1>3 DEF MeshShape
      <4>2. q \notin Mesh!Beside(p)
        BY <1>5, <2>1, PartnersAre
      <4>3. gen2[p] \in 0 .. Iter
        BY MeshNow
      <4>4. half[p] = 2
        BY <4>1, <4>2 DEF Partners
      <4>5. QED
        BY <4>1, <4>3, <4>4, GridAssumption DEF GridAssumption
    <3>2. Partner(p, s) /\ s \in Mesh!Rank
      BY <2>1, PartnersAre DEF Partner
    <3>3. Times(p, s, <<"recv", s>>) = gen2[p] + 1
      BY <1>3, <1>4, <2>1, <3>1, <3>2, MeshTimes
    <3>4. QED
      BY <3>2, <3>3 DEF MeshSent
  <2>2. QED
    BY <1>5, <2>1, EdgeRight
<1>9. /\ IsSeq(chan2[p][q]) /\ DOMAIN chan2 = Mesh!Rank /\ DOMAIN chan2[p] = Mesh!Rank
      /\ Len(chan2[p][q]) = Times(p, q, <<"send", q>>) - Times(q, p, <<"recv", p>>)
  BY DEF MeshCount
<1>10. /\ chan2'[p][q] = Append(chan2[p][q], m)
       /\ \A s, t \in Mesh!Rank : s # p \/ t # q => chan2'[s][t] = chan2[s][t]
  BY <1>1, <1>9
<1> HIDE DEF m
<1>11. ASSUME NEW s \in Mesh!Rank, NEW t \in Mesh!Rank, Partner(s, t),
              NEW n \in 1 .. Len(chan2'[t][s])
       PROVE  EdgeOf(Times(s, t, <<"recv", t>>) + n - 1, t, s, chan2'[t][s][n])
  <2>1. \A k \in 1 .. Len(chan2[t][s]) :
          EdgeOf(Times(s, t, <<"recv", t>>) + k - 1, t, s, chan2[t][s][k])
    BY <1>11 DEF MeshSent
  <2>2. CASE t # p \/ s # q
    BY <1>10, <1>11, <2>1, <2>2
  <2>3. CASE t = p /\ s = q
    <3>1. /\ Len(chan2'[p][q]) = Len(chan2[p][q]) + 1
          /\ \A i \in 1 .. Len(chan2[p][q]) : chan2'[p][q][i] = chan2[p][q][i]
          /\ chan2'[p][q][Len(chan2[p][q]) + 1] = m
      <4>1. /\ Len(Append(chan2[p][q], m)) = Len(chan2[p][q]) + 1
            /\ \A i \in 1 .. Len(chan2[p][q]) : Append(chan2[p][q], m)[i] = chan2[p][q][i]
            /\ Append(chan2[p][q], m)[Len(chan2[p][q]) + 1] = m
        BY <1>9, Enqueued
      <4>2. QED
        BY <1>10, <4>1
    <3>2. Len(chan2[p][q]) \in Nat
      BY <1>9, NothingQueued
    <3>3. CASE n \in 1 .. Len(chan2[p][q])
      BY <2>1, <2>3, <3>1, <3>3
    <3>4. CASE n = Len(chan2[p][q]) + 1
      <4>1. Times(q, p, <<"recv", p>>) \in Int
        BY TimesAre
      <4>2. Times(q, p, <<"recv", p>>) + n - 1 = gen2[p]
        BY <1>7, <1>9, <3>2, <3>4, <4>1
      <4>3. QED
        BY <1>8, <2>3, <3>1, <3>4, <4>2
    <3>5. n \in 1 .. Len(chan2[p][q]) + 1
      BY <1>11, <2>3, <3>1, Zenon
    <3>6. n \in 1 .. Len(chan2[p][q]) \/ n = Len(chan2[p][q]) + 1
      BY <3>2, <3>5
    <3>7. QED
      BY <3>3, <3>4, <3>6
  <2>4. QED
    BY <2>2, <2>3
<1>12. MeshSent'
  <2>1. ASSUME NEW s \in Mesh!Rank, NEW t \in Mesh!Rank, Partner(s, t)
        PROVE  /\ \A n \in 1 .. Len(chan2'[t][s]) :
                    EdgeOf(Times(s, t, <<"recv", t>>)' + n - 1, t, s, chan2'[t][s][n])
               /\ Times(s, t, <<"recv", t>>)' = gen2'[s] + 1 => HasEdge(s, t)'
    <3>1. Times(s, t, <<"recv", t>>)' = Times(s, t, <<"recv", t>>)
      BY <1>6
    <3>2. Times(s, t, <<"recv", t>>) = gen2[s] + 1 => HasEdge(s, t)
      BY <2>1 DEF MeshSent
    <3>3. QED
      BY <1>1, <1>2, <1>11, <2>1, <3>1, <3>2
  <2>2. QED
    BY <2>1 DEF MeshSent
<1>13. QED
  BY <1>1, <1>2, <1>12, SameGeneration

LEMMA MeshRecv ==
  ASSUME MeshLoop, MeshCount, MeshSent, NEW p \in Mesh!Rank, NEW q \in Mesh!Rank,
         Mesh!Pt2pt!Recv(p, q)
  PROVE  MeshLoop' /\ MeshSent' /\ MeshStays
<1> DEFINE m == Head(chan2[q][p])
<1>1. /\ <<"recv", q>> \in reqs2[p] /\ chan2[q][p] # <<>>
      /\ Mesh!Store(p, cur2[p], m)
      /\ chan2' = [chan2 EXCEPT ![q][p] = Tail(@)]
      /\ reqs2' = [reqs2 EXCEPT ![p] = @ \ {<<"recv", q>>}]
      /\ UNCHANGED <<gen2, cur2, half>>
  BY Pt2ptActions DEF Mesh!Pt2pt!Recv
<1>2. MeshShape /\ gen2 \in [Mesh!Rank -> 0 .. Iter]
  BY DEF MeshCount, MeshLoop
<1>3. "send" \in {"send", "recv"} /\ "recv" \in {"send", "recv"}
  OBVIOUS
<1>4. Partner(p, q)
  BY <1>1, <1>2, Addressed
<1>5. /\ Times(p, q, <<"recv", q>>)' = Times(p, q, <<"recv", q>>) + 1
      /\ \A s, t \in Mesh!Rank : s # p \/ t # q =>
           Times(s, t, <<"recv", t>>)' = Times(s, t, <<"recv", t>>)
  <2>1. /\ MeshShape'
        /\ Times(p, q, <<"recv", q>>)' = Times(p, q, <<"recv", q>>) + 1
        /\ \A s \in Mesh!Rank, t \in Mesh!Rank, c \in {"send", "recv"} :
             s # p \/ t # q \/ c # "recv" => Times(s, t, <<c, t>>)' = Times(s, t, <<c, t>>)
    <3>1. MeshShape'
      BY <1>1, <1>2, <1>3, Completing
    <3>2. Times(p, q, <<"recv", q>>)' = Times(p, q, <<"recv", q>>) + 1
      BY <1>1, <1>2, <1>3, Completing
    <3>3. QED
      BY <3>1, <3>2, <1>1, <1>2, <1>3, Completing
  <2>2. QED
    BY <1>3, <2>1
<1>6. Times(p, q, <<"recv", q>>) = gen2[p] /\ gen2[p] \in Nat
  BY <1>1, <1>2, <1>3, <1>4, MeshTimes, MeshNow
<1>7. /\ IsSeq(chan2[q][p]) /\ DOMAIN chan2 = Mesh!Rank /\ DOMAIN chan2[q] = Mesh!Rank
  BY DEF MeshCount
<1>8. /\ Len(Tail(chan2[q][p])) = Len(chan2[q][p]) - 1 /\ m = chan2[q][p][1]
      /\ Len(chan2[q][p]) \in Nat \ {0}
      /\ \A i \in 1 .. Len(chan2[q][p]) - 1 : Tail(chan2[q][p])[i] = chan2[q][p][i + 1]
  BY <1>1, <1>7, Dequeued
<1>9. /\ chan2'[q][p] = Tail(chan2[q][p])
      /\ \A s, t \in Mesh!Rank : s # q \/ t # p => chan2'[s][t] = chan2[s][t]
  BY <1>1, <1>7
<1>10. \A s, t \in Mesh!Rank : Partner(s, t) =>
         \A k \in 1 .. Len(chan2[t][s]) :
           EdgeOf(Times(s, t, <<"recv", t>>) + k - 1, t, s, chan2[t][s][k])
  BY DEF MeshSent
<1>11. EdgeOf(gen2[p], q, p, m)
  <2>1. 1 \in 1 .. Len(chan2[q][p]) /\ gen2[p] + 1 - 1 = gen2[p]
    BY <1>6, <1>8
  <2>2. EdgeOf(gen2[p] + 1 - 1, q, p, chan2[q][p][1])
    BY <1>4, <1>6, <1>10, <2>1
  <2>3. QED
    BY <1>8, <2>1, <2>2
<1>12. /\ MeshLoop' /\ HasEdge(p, q)'
       /\ \A s \in Mesh!Rank : \A t : HasEdge(s, t) => HasEdge(s, t)'
  BY <1>1, <1>11, MeshStored
<1> HIDE DEF m
<1>13. MeshSent'
  <2>1. ASSUME NEW s \in Mesh!Rank, NEW t \in Mesh!Rank, Partner(s, t)
        PROVE  /\ \A n \in 1 .. Len(chan2'[t][s]) :
                    EdgeOf(Times(s, t, <<"recv", t>>)' + n - 1, t, s, chan2'[t][s][n])
               /\ Times(s, t, <<"recv", t>>)' = gen2'[s] + 1 => HasEdge(s, t)'
    <3>1. CASE s # p \/ t # q
      <4>1. /\ Times(s, t, <<"recv", t>>)' = Times(s, t, <<"recv", t>>)
            /\ chan2'[t][s] = chan2[t][s]
        BY <1>5, <1>9, <3>1
      <4>2. Times(s, t, <<"recv", t>>) = gen2[s] + 1 => HasEdge(s, t)
        BY <2>1 DEF MeshSent
      <4>3. QED
        BY <1>1, <1>10, <1>12, <2>1, <4>1, <4>2
    <3>2. CASE s = p /\ t = q
      <4>1. ASSUME NEW n \in 1 .. Len(chan2'[q][p])
            PROVE  EdgeOf(Times(p, q, <<"recv", q>>)' + n - 1, q, p, chan2'[q][p][n])
        <5>1. n \in 1 .. Len(chan2[q][p]) - 1 /\ n + 1 \in 1 .. Len(chan2[q][p])
          BY <1>8, <1>9
        <5>2. chan2'[q][p][n] = chan2[q][p][n + 1]
          BY <1>8, <1>9, <5>1
        <5>3. EdgeOf(Times(p, q, <<"recv", q>>) + (n + 1) - 1, q, p, chan2[q][p][n + 1])
          BY <1>4, <1>10, <5>1
        <5>4. Times(p, q, <<"recv", q>>)' + n - 1 = Times(p, q, <<"recv", q>>) + (n + 1) - 1
          BY <1>5, <1>6
        <5>5. QED
          BY <5>2, <5>3, <5>4
      <4>2. QED
        BY <1>12, <3>2, <4>1
    <3>3. QED
      BY <3>1, <3>2
  <2>2. QED
    BY <2>1 DEF MeshSent
<1>14. QED
  BY <1>1, <1>12, <1>13, SameGeneration

(* A rank that has received from all its partners is not ahead of any rank *)
(* around it: the row from above or below was sent after its columns came. *)
LEMMA NobodyBehind ==
  ASSUME MeshLoop, MeshCount, NEW p \in Mesh!Rank, gen2[p] < Iter, half[p] = 2, reqs2[p] = {},
         NEW q \in Mesh!Around(p)
  PROVE  gen2[q] >= gen2[p]
<1>1. MeshShape /\ "send" \in {"send", "recv"} /\ "recv" \in {"send", "recv"}
  BY DEF MeshCount
<1>2. ASSUME NEW s \in Mesh!Rank, NEW t \in Mesh!Rank
      PROVE  Times(t, s, <<"send", s>>) >= Times(s, t, <<"recv", t>>)
  <2>1. /\ IsSeq(chan2[t][s])
        /\ Len(chan2[t][s]) = Times(t, s, <<"send", s>>) - Times(s, t, <<"recv", t>>)
    BY DEF MeshCount
  <2>2. Len(chan2[t][s]) \in Nat
    BY <2>1, NothingQueued
  <2>3. \A x : Times(t, s, x) \in Int /\ Times(s, t, x) \in Int
    BY TimesAre
  <2>4. QED
    BY <2>1, <2>2, <2>3
<1>3. ASSUME NEW s \in Mesh!Rank, Partner(p, s)
      PROVE  Times(s, p, <<"send", p>>) >= gen2[p] + 1
  <2>1. Times(p, s, <<"recv", s>>) = gen2[p] + 1
    BY <1>1, <1>3, MeshTimes
  <2>2. QED
    BY <1>2, <1>3, <2>1
<1>4. ASSUME NEW s \in Mesh!Rank, Partner(p, s)
      PROVE  gen2[s] >= gen2[p]
  <2>1. Times(s, p, <<"send", p>>) \in {gen2[s], gen2[s] + 1}
    BY <1>1, <1>4, MeshTimes, PartnersAre
  <2>2. QED
    BY <1>3, <1>4, <2>1, MeshNow
<1>5. ASSUME NEW s \in Mesh!Stacked(p), q \in Mesh!Beside(s)
      PROVE  gen2[q] >= gen2[p]
  <2>1. Partner(p, s) /\ s \in Mesh!Rank /\ Partner(s, p) /\ p \in Mesh!Stacked(s)
    BY <1>5, PartnersAre DEF Partner
  <2>2. Partner(s, q) /\ q \in Mesh!Rank /\ Partner(q, s)
    BY <1>5, <2>1, PartnersAre DEF Partner
  <2>3. gen2[p] \in Nat /\ gen2[s] \in Nat /\ gen2[q] \in Nat /\ Iter \in Nat
    BY <2>1, <2>2, MeshNow
  <2>4. Times(s, p, <<"send", p>>) >= gen2[p] + 1
    BY <1>3, <2>1
  <2>5. /\ Times(s, p, <<"send", p>>) \in {gen2[s], gen2[s] + 1}
        /\ Times(s, p, <<"send", p>>) = gen2[s] + 1 => gen2[s] < Iter /\ half[s] = 2
    BY <1>1, <2>1, MeshTimes
  <2>6. Times(s, q, <<"recv", q>>) >= gen2[p] + 1
    <3>1. CASE gen2[s] >= gen2[p] + 1
      <4>1. Times(s, q, <<"recv", q>>) \in {gen2[s], gen2[s] + 1}
        BY <1>1, <2>1, <2>2, MeshTimes
      <4>2. QED
        BY <2>3, <3>1, <4>1
    <3>2. CASE ~(gen2[s] >= gen2[p] + 1)
      <4>1. gen2[s] < Iter /\ half[s] = 2 /\ gen2[s] >= gen2[p]
        BY <2>3, <2>4, <2>5, <3>2
      <4>2. Times(s, q, <<"recv", q>>) = gen2[s] + 1
        BY <1>1, <1>5, <2>1, <2>2, <4>1, MeshTimes
      <4>3. QED
        BY <2>3, <4>1, <4>2
    <3>3. QED
      BY <3>1, <3>2
  <2>7. Times(q, s, <<"send", s>>) \in {gen2[q], gen2[q] + 1}
    BY <1>1, <2>2, MeshTimes
  <2>8. Times(q, s, <<"send", s>>) >= Times(s, q, <<"recv", q>>)
    BY <1>2, <2>1, <2>2
  <2>9. Times(s, q, <<"recv", q>>) \in {gen2[s], gen2[s] + 1}
    BY <1>1, <2>1, <2>2, MeshTimes
  <2>10. QED
    BY <2>3, <2>6, <2>7, <2>8, <2>9
<1>6. QED
  BY <1>4, <1>5, MeshCorner

LEMMA MeshSecondHalf ==
  ASSUME MeshLoop, MeshCount, MeshSent, NEW p \in Mesh!Rank,
         Mesh!Pt2pt!SecondHalf(p) \/ Mesh!Pt2pt!Generation(p)
  PROVE  MeshLoop' /\ MeshSent' /\ (MeshStays \/ MeshMoves(p))
<1>1. MeshShape /\ gen2 \in [Mesh!Rank -> 0 .. Iter] /\ "recv" \in {"send", "recv"}
  BY DEF MeshCount, MeshLoop
<1>2. /\ gen2[p] < Iter /\ reqs2[p] = {} /\ chan2' = chan2
      /\ \/ /\ half[p] = 1 /\ half' = [half EXCEPT ![p] = 2] /\ gen2' = gen2
            /\ reqs2' = [reqs2 EXCEPT ![p] = {"send", "recv"} \X Partners(p, 2)]
            /\ UNCHANGED <<buf2, cur2>>
         \/ /\ half[p] = 2 /\ half' = [half EXCEPT ![p] = 1]
            /\ gen2' = [gen2 EXCEPT ![p] = @ + 1] /\ Mesh!Compute(p)
            /\ reqs2' = [reqs2 EXCEPT ![p] = IF gen2'[p] < Iter
                                               THEN {"send", "recv"} \X Partners(p, 1) ELSE {}]
  <2>1. CASE Mesh!Pt2pt!SecondHalf(p)
    BY <2>1, MeshNames DEF Mesh!Pt2pt!SecondHalf
  <2>2. CASE Mesh!Pt2pt!Generation(p)
    BY <2>2, MeshNames, Pt2ptActions DEF Mesh!Pt2pt!Generation
  <2>3. QED
    BY <2>1, <2>2
<1>3. \A s \in Mesh!Rank, t \in Mesh!Rank :
        Times(s, t, <<"recv", t>>)' = Times(s, t, <<"recv", t>>)
  BY <1>1, <1>2, PostingHalf
<1>4. ASSUME \A s \in Mesh!Rank : \A t : s # p \/ gen2'[p] = gen2[p] =>
                gen2'[s] = gen2[s] /\ (HasEdge(s, t) => HasEdge(s, t)'),
             gen2'[p] = gen2[p] \/ gen2'[p] = gen2[p] + 1
      PROVE  MeshSent'
  <2>1. ASSUME NEW s \in Mesh!Rank, NEW t \in Mesh!Rank, Partner(s, t)
        PROVE  /\ \A n \in 1 .. Len(chan2'[t][s]) :
                    EdgeOf(Times(s, t, <<"recv", t>>)' + n - 1, t, s, chan2'[t][s][n])
               /\ Times(s, t, <<"recv", t>>)' = gen2'[s] + 1 => HasEdge(s, t)'
    <3>1. /\ Times(s, t, <<"recv", t>>)' = Times(s, t, <<"recv", t>>) /\ chan2' = chan2
      BY <1>2, <1>3
    <3>2. /\ Times(s, t, <<"recv", t>>) = gen2[s] + 1 => HasEdge(s, t)
          /\ \A n \in 1 .. Len(chan2[t][s]) :
               EdgeOf(Times(s, t, <<"recv", t>>) + n - 1, t, s, chan2[t][s][n])
      BY <2>1 DEF MeshSent
    <3>3. Times(s, t, <<"recv", t>>)' = gen2'[s] + 1 => HasEdge(s, t)'
      <4>1. CASE s # p \/ gen2'[p] = gen2[p]
        BY <1>4, <3>1, <3>2, <4>1
      <4>2. CASE s = p /\ gen2'[p] = gen2[p] + 1
        <5>1. Times(s, t, <<"recv", t>>) \in {gen2[s], gen2[s] + 1} /\ gen2[s] \in Nat
          BY <1>1, <2>1, MeshTimes, MeshNow
        <5>2. QED
          BY <3>1, <4>2, <5>1
      <4>3. QED
        BY <1>4, <4>1, <4>2
    <3>4. QED
      BY <3>1, <3>2, <3>3
  <2>2. QED
    BY <2>1 DEF MeshSent
<1>5. CASE gen2' = gen2 /\ UNCHANGED <<buf2, cur2>>
  <2>1. MeshLoop' /\ \A s, t : HasEdge(s, t) => HasEdge(s, t)'
    BY <1>5, MeshStill
  <2>2. MeshSent'
    BY <1>4, <1>5, <2>1
  <2>3. QED
    BY <1>5, <2>1, <2>2, SameGeneration
<1>6. CASE half[p] = 2 /\ Mesh!Compute(p)
  <2>1. \A s \in Mesh!Rank : Partner(p, s) => HasEdge(p, s)
    <3>1. \A s \in Mesh!Rank : Partner(p, s) => Times(p, s, <<"recv", s>>) = gen2[p] + 1
      BY <1>1, <1>2, <1>6, MeshTimes
    <3>2. QED
      BY <3>1 DEF MeshSent
  <2>2. /\ MeshLoop' /\ gen2' = [gen2 EXCEPT ![p] = @ + 1]
        /\ \A s \in Mesh!Rank : s # p => /\ gen2'[s] = gen2[s]
                                         /\ \A t : HasEdge(s, t) => HasEdge(s, t)'
    BY <1>2, <1>6, <2>1, MeshAdvanced
  <2>3. gen2'[p] = gen2[p] + 1 /\ gen2[p] \in Nat
    BY <1>1, <2>2, MeshNow
  <2>4. gen2'[p] # gen2[p]
    BY <2>3
  <2>5. MeshSent'
    BY <1>4, <2>2, <2>3, <2>4
  <2>6. MeshMoves(p)
    BY <1>2, <1>6, <2>2, NobodyBehind DEF MeshMoves
  <2>7. QED
    BY <2>2, <2>5, <2>6
<1>7. QED
  BY <1>2, <1>5, <1>6
-----------------------------------------------------------------------------
(* One-sided, in two dimensions: what the fences counted per window say of *)
(* the rank.                                                               *)
EnteredBy(p) == [w \in 0 .. 1 |-> 3 * Count(gen2[p], w)
                                    + (IF w = gen2[p] % 2 THEN Stage(p) ELSE 0)]

LEMMA Thirds ==
  ASSUME NEW g \in Nat, NEW h \in Nat, NEW s \in 0 .. 3, NEW t \in 0 .. 3,
         3 * h + t >= 3 * g + s
  PROVE  (s >= 1 \/ t <= 2 => h >= g) /\ (h = g => t >= s) /\ h + 1 >= g
OBVIOUS

LEMMA FencesOf ==
  ASSUME MeshLoop, MeshWindows, NEW p \in Mesh!Rank
  PROVE  /\ gen2[p] \in Nat /\ cur2[p] = gen2[p] % 2 /\ gen2[p] % 2 \in 0 .. 1
         /\ Stage(p) \in 0 .. 3 /\ Reached(p) = 3 * gen2[p] + Stage(p)
         /\ phase2[p] \in {"compute", "columns", "fence 2", "rows", "fence 3"}
         /\ Stage(p) = 0 <=> phase2[p] = "compute"
         /\ Stage(p) = 3 <=> phase2[p] = "fence 3"
         /\ Later(p) => Stage(p) \in {2, 3}
         /\ entered[p] = EnteredBy(p) /\ DOMAIN entered = Mesh!Rank
         /\ \A w \in 0 .. 1 : Count(gen2[p], w) \in Nat
         /\ entered[p][gen2[p] % 2] = 3 * Count(gen2[p], gen2[p] % 2) + Stage(p)
<1>1. gen2[p] \in Nat /\ cur2[p] = gen2[p] % 2
  BY MeshNow
<1>2. phase2[p] \in {"compute", "columns", "fence 2", "rows", "fence 3"}
  BY DEF MeshWindows, MeshPhases
<1>3. /\ gen2[p] % 2 \in 0 .. 1
      /\ \A w \in 0 .. 1 : Count(gen2[p], w) \in Nat
  BY <1>1, CountNext
<1>4. entered[p] = EnteredBy(p) /\ DOMAIN entered = Mesh!Rank
  BY DEF MeshWindows, EnteredBy
<1>5. /\ Stage(p) \in 0 .. 3
      /\ Stage(p) = 0 <=> phase2[p] = "compute"
      /\ Stage(p) = 3 <=> phase2[p] = "fence 3"
      /\ Later(p) => Stage(p) \in {2, 3}
  <2>1. /\ phase2[p] = "compute" => Stage(p) = 0
        /\ phase2[p] = "columns" => Stage(p) = 1
        /\ phase2[p] = "fence 2" => Stage(p) = 2
        /\ phase2[p] = "rows" => Stage(p) = 2
        /\ phase2[p] = "fence 3" => Stage(p) = 3
    BY DEF Stage
  <2>2. Stage(p) \in 0 .. 3
    BY DEF Stage
  <2>3. Stage(p) = 0 => phase2[p] = "compute"
    <3>1. Stage(p) = 0 => Stage(p) # 1 /\ Stage(p) # 2 /\ Stage(p) # 3
      OBVIOUS
    <3>2. QED
      BY <1>2, <2>1, <3>1, Zenon
  <2>4. Stage(p) = 3 => phase2[p] = "fence 3"
    <3>1. Stage(p) = 3 => Stage(p) # 0 /\ Stage(p) # 1 /\ Stage(p) # 2
      OBVIOUS
    <3>2. QED
      BY <1>2, <2>1, <3>1, Zenon
  <2>5. Later(p) => Stage(p) \in {2, 3}
    BY <2>1, Zenon DEF Later
  <2>6. QED
    BY <2>1, <2>2, <2>3, <2>4, <2>5, Zenon
<1>6. entered[p][gen2[p] % 2] = 3 * Count(gen2[p], gen2[p] % 2) + Stage(p)
  BY <1>3, <1>4 DEF EnteredBy
<1>7. QED
  BY <1>1, <1>2, <1>3, <1>4, <1>5, <1>6, Zenon DEF Reached

(* The fences of one window tell how far a rank is with generation k.      *)
LEMMA CountGrows ==
  ASSUME NEW n \in Nat, NEW k \in Nat
  PROVE  /\ n >= k + 1 => Count(n, k % 2) >= Count(k, k % 2) + 1
         /\ n < k /\ n % 2 = k % 2 => Count(n, k % 2) + 1 <= Count(k, k % 2)
         /\ n < k => Count(n, k % 2) <= Count(k, k % 2)
BY DEF Count

LEMMA EnteredReaches ==
  ASSUME MeshLoop, MeshWindows, NEW q \in Mesh!Rank, NEW k \in Nat, NEW s \in 1 .. 3
  PROVE  entered[q][k % 2] >= 3 * Count(k, k % 2) + s <=> Reached(q) >= 3 * k + s
<1> DEFINE w == k % 2
           n == gen2[q]
           c == Count(n, w)
           d == Count(k, w)
           t == IF w = n % 2 THEN Stage(q) ELSE 0
<1>1. /\ n \in Nat /\ w \in 0 .. 1 /\ Stage(q) \in 0 .. 3 /\ Reached(q) = 3 * n + Stage(q)
      /\ c \in Nat /\ d \in Nat
  BY FencesOf, CountNext
<1>2. entered[q][w] = 3 * c + t
  <2>1. entered[q] = EnteredBy(q)
    BY FencesOf
  <2>2. QED
    BY <1>1, <2>1 DEF EnteredBy
<1>3. /\ n >= k + 1 => c >= d + 1
      /\ n < k /\ n % 2 = w => c + 1 <= d
      /\ n < k => c <= d
  BY <1>1, CountGrows
<1>4. t \in 0 .. 3 /\ (w = n % 2 => t = Stage(q)) /\ (w # n % 2 => t = 0)
  BY <1>1
<1>5. n = k => c = d /\ t = Stage(q)
  BY <1>4
<1> HIDE DEF w, n, c, d, t
<1>6. 3 * c + t >= 3 * d + s <=> Reached(q) >= 3 * k + s
  <2>1. CASE n >= k + 1
    BY <1>1, <1>3, <1>4, <2>1
  <2>2. CASE n = k
    BY <1>1, <1>5, <2>2
  <2>3. CASE n < k /\ n % 2 = w
    BY <1>1, <1>3, <1>4, <2>3
  <2>4. CASE n < k /\ n % 2 # w
    BY <1>1, <1>3, <1>4, <2>4
  <2>5. QED
    BY <1>1, <2>1, <2>2, <2>3, <2>4
<1>7. QED
  BY <1>2, <1>6 DEF w, d

(* The actions of the exchange, by these names.                            *)
LEMMA FenceCalls ==
  ASSUME NEW p \in Mesh!Rank
  PROVE  /\ Mesh!Fence!FirstFence(p) =>
              /\ gen2[p] < Iter /\ phase2[p] = "compute"
              /\ entered' = [entered EXCEPT ![p][cur2[p]] = @ + 1]
              /\ puts2' = [puts2 EXCEPT ![p] = @ \cup (Mesh!Beside(p) \X {entered[p][cur2[p]] + 1})]
              /\ phase2' = [phase2 EXCEPT ![p] = "columns"]
              /\ UNCHANGED <<gen2, buf2, cur2>>
         /\ Mesh!Fence!EnterFence(p) =>
              /\ phase2[p] \in {"columns", "rows"}
              /\ entered' = [entered EXCEPT ![p][cur2[p]] = @ + 1]
              /\ phase2' = [phase2 EXCEPT ![p] = IF @ = "columns" THEN "fence 2" ELSE "fence 3"]
              /\ UNCHANGED <<gen2, buf2, cur2, puts2>>
         /\ Mesh!Fence!SecondFence(p) =>
              /\ phase2[p] = "fence 2" /\ Mesh!Fence!FenceDone(p)
              /\ puts2' = [puts2 EXCEPT ![p] = @ \cup (Mesh!Stacked(p) \X {entered[p][cur2[p]]})]
              /\ phase2' = [phase2 EXCEPT ![p] = "rows"]
              /\ UNCHANGED <<gen2, buf2, cur2, entered>>
         /\ Mesh!Fence!Generation(p) =>
              /\ phase2[p] = "fence 3" /\ Mesh!Fence!FenceDone(p) /\ Mesh!Compute(p)
              /\ phase2' = [phase2 EXCEPT ![p] = "compute"]
              /\ UNCHANGED <<entered, puts2>>
         /\ Mesh!Fence!FenceDone(p) =>
              /\ \A q \in Mesh!Rank : entered[q][cur2[p]] >= entered[p][cur2[p]]
              /\ puts2[p] = {}
              /\ \A q \in Mesh!Rank, e \in 1 .. entered[p][cur2[p]] - 1 :
                   <<p, e>> \in puts2[q] => cur2[q] # cur2[p]
<1>1. Mesh!Fence!FirstFence(p) =>
        /\ gen2[p] < Iter /\ phase2[p] = "compute"
        /\ entered' = [entered EXCEPT ![p][cur2[p]] = @ + 1]
        /\ puts2' = [puts2 EXCEPT ![p] = @ \cup (Mesh!Beside(p) \X {entered[p][cur2[p]] + 1})]
        /\ phase2' = [phase2 EXCEPT ![p] = "columns"]
        /\ UNCHANGED <<gen2, buf2, cur2>>
  BY MeshNames, FenceActions DEF Mesh!Fence!FirstFence, Mesh!Fence!Fence, Mesh!Fence!Window,
                                 Mesh!Fence!PutTo, Mesh!Fence!loopVars
<1>2. Mesh!Fence!EnterFence(p) =>
        /\ phase2[p] \in {"columns", "rows"}
        /\ entered' = [entered EXCEPT ![p][cur2[p]] = @ + 1]
        /\ phase2' = [phase2 EXCEPT ![p] = IF @ = "columns" THEN "fence 2" ELSE "fence 3"]
        /\ UNCHANGED <<gen2, buf2, cur2, puts2>>
  BY DEF Mesh!Fence!EnterFence, Mesh!Fence!Fence, Mesh!Fence!Window, Mesh!Fence!loopVars
<1>3. Mesh!Fence!SecondFence(p) =>
        /\ phase2[p] = "fence 2" /\ Mesh!Fence!FenceDone(p)
        /\ puts2' = [puts2 EXCEPT ![p] = @ \cup (Mesh!Stacked(p) \X {entered[p][cur2[p]]})]
        /\ phase2' = [phase2 EXCEPT ![p] = "rows"]
        /\ UNCHANGED <<gen2, buf2, cur2, entered>>
  BY FenceActions DEF Mesh!Fence!SecondFence, Mesh!Fence!Window, Mesh!Fence!PutTo,
                      Mesh!Fence!ColumnsComplete, Mesh!Fence!loopVars
<1>4. Mesh!Fence!Generation(p) =>
        /\ phase2[p] = "fence 3" /\ Mesh!Fence!FenceDone(p) /\ Mesh!Compute(p)
        /\ phase2' = [phase2 EXCEPT ![p] = "compute"]
        /\ UNCHANGED <<entered, puts2>>
  BY FenceActions DEF Mesh!Fence!Generation
<1>5. Mesh!Fence!FenceDone(p) =>
        /\ \A q \in Mesh!Rank : entered[q][cur2[p]] >= entered[p][cur2[p]]
        /\ puts2[p] = {}
        /\ \A q \in Mesh!Rank, e \in 1 .. entered[p][cur2[p]] - 1 :
             <<p, e>> \in puts2[q] => cur2[q] # cur2[p]
  BY MeshNames DEF Mesh!Fence!FenceDone, Mesh!Fence!Window
<1>6. QED
  BY <1>1, <1>2, <1>3, <1>4, <1>5

(* The fence rank p entered last has ended: no rank is behind, and nothing *)
(* that was put in this generation is still to come.                       *)
LEMMA FenceEnds ==
  ASSUME MeshLoop, MeshFences, NEW p \in Mesh!Rank, Mesh!Fence!FenceDone(p),
         Stage(p) \in 2 .. 3
  PROVE  /\ puts2[p] = {}
         /\ \A q \in Mesh!Rank : Reached(q) >= Reached(p) /\ gen2[q] >= gen2[p]
         /\ \A q \in Mesh!Rank : gen2[q] = gen2[p] =>
              /\ Stage(q) >= Stage(p)
              /\ \A e \in {3 * Count(gen2[p], gen2[p] % 2) + 1,
                           3 * Count(gen2[p], gen2[p] % 2) + 2} :
                   e < 3 * Count(gen2[p], gen2[p] % 2) + Stage(p) => <<p, e>> \notin puts2[q]
<1>1. MeshWindows
  BY DEF MeshFences
<1> DEFINE w == gen2[p] % 2
           c == Count(gen2[p], w)
           u == Stage(p)
           m == entered[p][w]
<1>2. /\ gen2[p] \in Nat /\ cur2[p] = w /\ c \in Nat /\ w \in 0 .. 1
      /\ m = 3 * c + u /\ Reached(p) = 3 * gen2[p] + u
  BY <1>1, FencesOf
<1>3. u \in 2 .. 3
  OBVIOUS
<1>4. /\ \A q \in Mesh!Rank : entered[q][w] >= m
      /\ puts2[p] = {}
      /\ \A q \in Mesh!Rank, e \in 1 .. m - 1 : <<p, e>> \in puts2[q] => cur2[q] # w
  BY <1>2, FenceCalls
<1>5. \A q \in Mesh!Rank : entered[q][w] >= 3 * c + u => Reached(q) >= 3 * gen2[p] + u
  <2>1. u \in 1 .. 3
    BY <1>3
  <2>2. QED
    BY <1>1, <1>2, <2>1, EnteredReaches
<1>6. \A q \in Mesh!Rank : /\ gen2[q] \in Nat /\ Stage(q) \in 0 .. 3 /\ cur2[q] = gen2[q] % 2
                           /\ Reached(q) = 3 * gen2[q] + Stage(q)
  BY <1>1, FencesOf
<1>7. \A q \in Mesh!Rank : gen2[q] = gen2[p] => cur2[q] = w
  BY <1>6
<1> HIDE DEF w, c, u, m
<1>8. ASSUME NEW q \in Mesh!Rank
      PROVE  /\ Reached(q) >= Reached(p) /\ gen2[q] >= gen2[p]
             /\ gen2[q] = gen2[p] => Stage(q) >= u
  <2>1. Reached(q) >= 3 * gen2[p] + u
    <3>1. entered[q][w] >= 3 * c + u
      BY <1>2, <1>4, Zenon
    <3>2. QED
      BY <1>5, <3>1
  <2>2. 3 * gen2[q] + Stage(q) >= 3 * gen2[p] + u /\ u \in 0 .. 3 /\ u >= 1
    <3>1. 3 * gen2[q] + Stage(q) >= 3 * gen2[p] + u
      BY <1>6, <2>1, Zenon
    <3>2. u \in 0 .. 3 /\ u >= 1
      BY <1>3
    <3>3. QED
      BY <3>1, <3>2
  <2>3. gen2[q] >= gen2[p] /\ (gen2[q] = gen2[p] => Stage(q) >= u)
    BY <1>2, <1>6, <2>2, Thirds
  <2>4. QED
    BY <1>2, <2>1, <2>3
<1>9. ASSUME NEW q \in Mesh!Rank, gen2[q] = gen2[p], NEW e \in {3 * c + 1, 3 * c + 2},
             e < 3 * c + u
      PROVE  <<p, e>> \notin puts2[q]
  <2>1. e \in 1 .. m - 1
    <3>1. c \in Nat /\ u \in Int
      BY <1>2, <1>3
    <3>2. e \in Int /\ 1 <= e
      BY <1>9, <3>1
    <3>3. e <= 3 * c + u - 1
      BY <1>9, <3>1, <3>2
    <3>4. 3 * c + u - 1 \in Int /\ e \in 1 .. 3 * c + u - 1
      BY <3>1, <3>2, <3>3
    <3>5. m = 3 * c + u
      BY <1>2
    <3>6. QED
      BY <3>1, <3>2, <3>3, <3>5
  <2>2. cur2[q] = w
    BY <1>7, <1>9
  <2>3. QED
    BY <1>4, <2>1, <2>2
<1>10. QED
  BY <1>3, <1>4, <1>8, <1>9 DEF u, c, w
-----------------------------------------------------------------------------
(* What the exchange of p leaves alone stays right.                        *)
LEMMA PairKept ==
  ASSUME NEW s, NEW t, MeshPair(s, t), gen2'[s] = gen2[s], gen2'[t] = gen2[t],
         puts2'[t] = puts2[t], Later(s)' <=> Later(s), Later(t)' <=> Later(t),
         phase2'[t] = "compute" <=> phase2[t] = "compute", HasEdge(s, t) => HasEdge(s, t)'
  PROVE  MeshPair(s, t)'
<1>1. Waits(t, s)' <=> Waits(t, s)
  BY DEF Waits
<1>2. \A q : Mesh!Beside(q)' = Mesh!Beside(q)
  BY DEF Mesh!Beside, Mesh!Rank, Mesh!prow
<1>3. QED
  BY <1>1, <1>2, Zenon DEF MeshPair

LEMMA EpochKept ==
  ASSUME NEW s, MeshEpoch(s), gen2'[s] = gen2[s], puts2'[s] = puts2[s], phase2'[s] = phase2[s],
         \A q \in Mesh!Rank : Reached(q)' >= Reached(q) /\ Reached(q)' \in Nat /\ Reached(q) \in Nat,
         gen2[s] \in Nat
  PROVE  MeshEpoch(s)'
<1>1. /\ Later(s)' <=> Later(s)
      /\ Mesh!Stacked(s)' = Mesh!Stacked(s) /\ Mesh!Beside(s)' = Mesh!Beside(s)
      /\ Count(gen2[s], gen2[s] % 2)' = Count(gen2[s], gen2[s] % 2)
  BY DEF Later, Mesh!Beside, Mesh!Rank, Mesh!prow, Mesh!Stacked, Count
<1>2. \A q \in Mesh!Rank : Reached(q)' >= 3 * gen2'[s] + (IF Later(s)' THEN 2 ELSE 0)
  <2>1. \A q \in Mesh!Rank : Reached(q) >= 3 * gen2[s] + (IF Later(s) THEN 2 ELSE 0)
    BY DEF MeshEpoch
  <2> DEFINE b == IF Later(s) THEN 2 ELSE 0
  <2>2. b \in Nat /\ (IF Later(s)' THEN 2 ELSE 0) = b
    BY <1>1
  <2>3. \A q \in Mesh!Rank : Reached(q) >= 3 * gen2[s] + b
    BY <2>1
  <2> HIDE DEF b
  <2>4. \A q \in Mesh!Rank : Reached(q)' >= 3 * gen2[s] + b
    BY <2>2, <2>3
  <2>5. QED
    BY <2>2, <2>4, Zenon
<1>3. QED
  BY <1>1, <1>2, Zenon DEF MeshEpoch

(* A fence is counted in the window of the current matrix.                 *)
LEMMA FenceCounted ==
  ASSUME MeshLoop, MeshWindows, NEW p \in Mesh!Rank, gen2' = gen2,
         entered' = [entered EXCEPT ![p][cur2[p]] = @ + 1],
         MeshPhases',
         Stage(p)' = Stage(p) + 1, \A q \in Mesh!Rank : q # p => Stage(q)' = Stage(q)
  PROVE  /\ MeshWindows'
         /\ \A q \in Mesh!Rank : Reached(q)' >= Reached(q) /\ Reached(q)' \in Nat /\ Reached(q) \in Nat
<1>1. \A q \in Mesh!Rank : /\ gen2[q] \in Nat /\ Stage(q) \in 0 .. 3
                           /\ entered[q] = EnteredBy(q) /\ gen2[q] % 2 \in 0 .. 1
  BY FencesOf
<1>2. cur2[p] = gen2[p] % 2 /\ DOMAIN entered = Mesh!Rank
  BY FencesOf
<1>3. entered'[p] = [EnteredBy(p) EXCEPT ![gen2[p] % 2] = @ + 1]
  BY <1>1, <1>2
<1>4. entered'[p] = EnteredBy(p)'
  <2>1. \A w \in 0 .. 1 : Count(gen2[p], w) \in Nat
    BY FencesOf
  <2> DEFINE g == gen2[p] % 2
             a == Stage(p)
             C(w) == Count(gen2[p], w)
  <2>2. EnteredBy(p) = [w \in 0 .. 1 |-> 3 * C(w) + (IF w = g THEN a ELSE 0)]
    BY DEF EnteredBy
  <2>3. EnteredBy(p)' = [w \in 0 .. 1 |-> 3 * C(w) + (IF w = g THEN a + 1 ELSE 0)]
    BY DEF EnteredBy, Count
  <2>4. g \in 0 .. 1 /\ a \in 0 .. 3 /\ \A w \in 0 .. 1 : C(w) \in Nat
    BY <1>1, <2>1
  <2>5. entered'[p] = [EnteredBy(p) EXCEPT ![g] = @ + 1]
    BY <1>3
  <2> HIDE DEF g, a, C
  <2>6. [EnteredBy(p) EXCEPT ![g] = @ + 1]
          = [w \in 0 .. 1 |-> 3 * C(w) + (IF w = g THEN a + 1 ELSE 0)]
    BY <2>2, <2>4
  <2>7. QED
    BY <2>3, <2>5, <2>6
<1>5. \A q \in Mesh!Rank : q # p => entered'[q] = EnteredBy(q)'
  <2>1. ASSUME NEW q \in Mesh!Rank, q # p
        PROVE  entered'[q] = EnteredBy(q)'
    <3>1. entered'[q] = entered[q]
      BY <1>2, <2>1
    <3>2. EnteredBy(q)' = EnteredBy(q)
      BY <2>1 DEF EnteredBy, Count
    <3>3. QED
      BY <1>1, <3>1, <3>2
  <2>2. QED
    BY <2>1
<1>6. entered' = [q \in Mesh!Rank |-> EnteredBy(q)']
  <2>1. DOMAIN entered' = Mesh!Rank /\ entered' = [q \in DOMAIN entered' |-> entered'[q]]
    BY <1>2
  <2>2. \A q \in Mesh!Rank : entered'[q] = EnteredBy(q)'
    BY <1>4, <1>5
  <2>3. QED
    BY <2>1, <2>2
<1>7. MeshWindows'
  BY <1>6 DEF MeshWindows, EnteredBy, Mesh!Rank
<1>8. ASSUME NEW q \in Mesh!Rank
      PROVE  Reached(q)' >= Reached(q) /\ Reached(q)' \in Nat /\ Reached(q) \in Nat
  <2>1. Stage(q)' \in {Stage(q), Stage(q) + 1}
    BY <1>8
  <2>2. QED
    BY <1>1, <2>1 DEF Reached
<1>9. QED
  BY <1>7, <1>8

(* No fence is entered by what a rank does between two fences.             *)
LEMMA NoFence ==
  ASSUME MeshLoop, MeshWindows, NEW p \in Mesh!Rank, gen2' = gen2, entered' = entered,
         MeshPhases',
         \A q \in Mesh!Rank : Stage(q)' = Stage(q)
  PROVE  /\ MeshWindows'
         /\ \A q \in Mesh!Rank : Reached(q)' >= Reached(q) /\ Reached(q)' \in Nat /\ Reached(q) \in Nat
<1>1. \A q \in Mesh!Rank : /\ gen2[q] \in Nat /\ Stage(q) \in 0 .. 3 /\ EnteredBy(q)' = EnteredBy(q)
  BY FencesOf DEF EnteredBy, Count
<1>2. entered = [q \in Mesh!Rank |-> EnteredBy(q)]
  BY DEF MeshWindows, EnteredBy
<1>3. entered' = [q \in Mesh!Rank |-> EnteredBy(q)']
  BY <1>1, <1>2
<1>4. MeshWindows'
  BY <1>3 DEF MeshWindows, EnteredBy, Mesh!Rank
<1>5. \A q \in Mesh!Rank : Reached(q)' >= Reached(q) /\ Reached(q)' \in Nat /\ Reached(q) \in Nat
  BY <1>1 DEF Reached
<1>6. QED
  BY <1>4, <1>5
(* What each call makes of the phase of p.                                 *)
LEMMA Phased ==
  ASSUME MeshPhases, NEW p \in Mesh!Rank, NEW x, phase2' = [phase2 EXCEPT ![p] = x],
         x \in {"compute", "columns", "fence 2", "rows", "fence 3"}
  PROVE  /\ MeshPhases' /\ phase2'[p] = x
         /\ \A q \in Mesh!Rank : q # p =>
              phase2'[q] = phase2[q] /\ Stage(q)' = Stage(q) /\ (Later(q)' <=> Later(q))
<1>1. MeshPhases' /\ phase2'[p] = x /\ \A q \in Mesh!Rank : q # p => phase2'[q] = phase2[q]
  BY DEF MeshPhases, Mesh!Rank
<1>2. QED
  BY <1>1 DEF Stage, Later

LEMMA FirstFenceKeeps ==
  ASSUME MeshLoop, MeshFences, NEW p \in Mesh!Rank, Mesh!Fence!FirstFence(p)
  PROVE  MeshLoop' /\ MeshFences' /\ MeshStays
<1> DEFINE c == Count(gen2[p], gen2[p] % 2)
<1>1. MeshWindows /\ MeshPhases
  BY DEF MeshFences, MeshWindows
<1>2. /\ gen2[p] < Iter /\ phase2[p] = "compute"
      /\ entered' = [entered EXCEPT ![p][cur2[p]] = @ + 1]
      /\ puts2' = [puts2 EXCEPT ![p] = @ \cup (Mesh!Beside(p) \X {entered[p][cur2[p]] + 1})]
      /\ phase2' = [phase2 EXCEPT ![p] = "columns"]
      /\ UNCHANGED <<gen2, buf2, cur2>>
  BY FenceCalls
<1>3. MeshLoop' /\ \A s, t : HasEdge(s, t) => HasEdge(s, t)'
  BY <1>2, MeshStill
<1>4. /\ MeshPhases' /\ phase2'[p] = "columns"
      /\ \A q \in Mesh!Rank : q # p =>
           phase2'[q] = phase2[q] /\ Stage(q)' = Stage(q) /\ (Later(q)' <=> Later(q))
  BY <1>1, <1>2, Phased
<1>5. Stage(p) = 0 /\ Stage(p)' = 1 /\ ~Later(p) /\ ~Later(p)'
  BY <1>2, <1>4 DEF Stage, Later
<1>6. /\ MeshWindows'
      /\ \A q \in Mesh!Rank : Reached(q)' >= Reached(q) /\ Reached(q)' \in Nat /\ Reached(q) \in Nat
  <2>1. Stage(p)' = Stage(p) + 1
    BY <1>5
  <2>2. QED
    BY <1>1, <1>2, <1>4, <2>1, FenceCounted
<1>7. /\ puts2'[p] = Mesh!Beside(p) \X {3 * c + 1}
      /\ \A q \in Mesh!Rank : q # p => puts2'[q] = puts2[q]
  <2>1. puts2[p] = {} /\ MeshEpoch(p)
    BY <1>2 DEF MeshFences, MeshEpoch
  <2>2. entered[p][cur2[p]] + 1 = 3 * c + 1
    <3>1. cur2[p] = gen2[p] % 2 /\ entered[p][gen2[p] % 2] = 3 * c + Stage(p) /\ c \in Nat
      BY <1>1, FencesOf
    <3> HIDE DEF c
    <3>2. entered[p][cur2[p]] = 3 * c
      BY <1>5, <3>1
    <3>3. QED
      BY <3>2
  <2>3. DOMAIN puts2 = Mesh!Rank
    BY DEF MeshFences
  <2>4. QED
    BY <1>2, <2>1, <2>2, <2>3
<1>8. \A q \in Mesh!Rank : MeshEpoch(q)'
  <2>1. ASSUME NEW q \in Mesh!Rank, q # p
        PROVE  MeshEpoch(q)'
    BY <1>2, <1>4, <1>6, <1>7, <2>1, EpochKept, MeshNow DEF MeshFences
  <2>2. MeshEpoch(p)'
    <3>1. Reached(p) = 3 * gen2[p] + Stage(p) /\ gen2[p] \in Nat
      BY <1>1, FencesOf
    <3>2. \A q \in Mesh!Rank : Reached(q) >= 3 * gen2[p] + 0
      <4>1. MeshEpoch(p)
        BY DEF MeshFences
      <4>2. QED
        BY <1>5, <4>1, Zenon DEF MeshEpoch
    <3>3. \A q \in Mesh!Rank : Reached(q)' >= 3 * gen2[p] + 0
      BY <1>6, <3>1, <3>2
    <3>4. Mesh!Beside(p)' = Mesh!Beside(p) /\ c' = c
      BY <1>2 DEF Mesh!Beside, Mesh!Rank, Mesh!prow, Count
    <3>5. phase2'[p] # "compute"
      BY <1>4
    <3> HIDE DEF c
    <3>6. QED
      BY <1>2, <1>5, <1>7, <3>3, <3>4, <3>5, Zenon DEF MeshEpoch, c
  <2>3. QED
    BY <2>1, <2>2
<1>9. \A s, t \in Mesh!Rank : Partner(s, t) => MeshPair(s, t)'
  <2>1. ASSUME NEW s \in Mesh!Rank, NEW t \in Mesh!Rank, Partner(s, t), t # p
        PROVE  MeshPair(s, t)'
    <3>1. (Later(s)' <=> Later(s)) /\ (Later(t)' <=> Later(t)) /\ phase2'[t] = phase2[t]
      BY <1>4, <1>5, <2>1
    <3>2. QED
      BY <1>2, <1>3, <1>7, <2>1, <3>1, PairKept DEF MeshFences
  <2>2. ASSUME NEW q \in Mesh!Rank, Partner(q, p)
        PROVE  MeshPair(q, p)'
    <3>1. MeshPair(q, p) /\ MeshEpoch(q) /\ q # p
      BY <2>2, PartnersAre DEF MeshFences
    <3>2. gen2[q] <= gen2[p]
      <4>1. Reached(p) >= 3 * gen2[q] + (IF Later(q) THEN 2 ELSE 0)
        BY <3>1 DEF MeshEpoch
      <4>2. gen2[q] \in Nat /\ gen2[p] \in Nat /\ Reached(p) = 3 * gen2[p]
        <5>1. Reached(p) = 3 * gen2[p] + Stage(p) /\ gen2[q] \in Nat /\ gen2[p] \in Nat
          BY <1>1, FencesOf
        <5>2. QED
          BY <1>5, <5>1
      <4>3. QED
        BY <4>1, <4>2
    <3>3. Waits(p, q)' <=> p \in Mesh!Beside(q)
      <4>1. p \in Mesh!Beside(q) <=> q \in Mesh!Beside(p)
        BY <2>2, PartnersAre
      <4> DEFINE k == 3 * c + 1
      <4>2. puts2'[p] = Mesh!Beside(p) \X {k}
        BY <1>7
      <4> HIDE DEF k
      <4>3. Waits(p, q)' <=> q \in Mesh!Beside(p)
        <5>1. Waits(p, q)' => q \in Mesh!Beside(p)
          BY <4>2 DEF Waits
        <5>2. ASSUME q \in Mesh!Beside(p)
              PROVE  Waits(p, q)'
          <6>1. <<q, k>> \in puts2'[p]
            BY <4>2, <5>2
          <6>2. k \in {x[2] : x \in puts2'[p]}
            BY <6>1
          <6>3. QED
            BY <6>1, <6>2 DEF Waits
        <5>3. QED
          BY <5>1, <5>2
      <4>4. QED
        BY <4>1, <4>3
    <3>4. HasEdge(q, p) => HasEdge(q, p)'
      BY <1>3
    <3>5. (Later(q)' <=> Later(q)) /\ Mesh!Beside(q)' = Mesh!Beside(q)
      BY <1>4, <3>1 DEF Mesh!Beside, Mesh!Rank, Mesh!prow
    <3>6. QED
      BY <1>2, <1>5, <3>1, <3>2, <3>3, <3>4, <3>5, Zenon DEF MeshPair
  <2>3. QED
    BY <2>1, <2>2
<1>10. DOMAIN puts2' = Mesh!Rank
  BY <1>2 DEF MeshFences
<1>11. MeshFences'
  BY <1>6, <1>8, <1>9, <1>10 DEF MeshFences, Partner, Mesh!Rank, Mesh!Beside, Mesh!Stacked,
                                 Mesh!prow
<1>12. QED
  BY <1>2, <1>3, <1>11, SameGeneration

LEMMA EnterFenceKeeps ==
  ASSUME MeshLoop, MeshFences, NEW p \in Mesh!Rank, Mesh!Fence!EnterFence(p)
  PROVE  MeshLoop' /\ MeshFences' /\ MeshStays
<1>1. MeshWindows /\ MeshPhases
  BY DEF MeshFences, MeshWindows
<1>2. /\ phase2[p] \in {"columns", "rows"}
      /\ entered' = [entered EXCEPT ![p][cur2[p]] = @ + 1]
      /\ phase2' = [phase2 EXCEPT ![p] = IF @ = "columns" THEN "fence 2" ELSE "fence 3"]
      /\ UNCHANGED <<gen2, buf2, cur2, puts2>>
  BY FenceCalls
<1>3. MeshLoop' /\ \A s, t : HasEdge(s, t) => HasEdge(s, t)'
  BY <1>2, MeshStill
<1> DEFINE x == IF phase2[p] = "columns" THEN "fence 2" ELSE "fence 3"
<1>4. /\ MeshPhases' /\ phase2'[p] = x
      /\ \A q \in Mesh!Rank : q # p =>
           phase2'[q] = phase2[q] /\ Stage(q)' = Stage(q) /\ (Later(q)' <=> Later(q))
  <2>1. phase2' = [phase2 EXCEPT ![p] = x]
    BY <1>2
  <2>2. x \in {"compute", "columns", "fence 2", "rows", "fence 3"}
    OBVIOUS
  <2> HIDE DEF x
  <2>3. QED
    BY <1>1, <2>1, <2>2, Phased
<1>5. /\ (Stage(p) = 1 /\ Stage(p)' = 2) \/ (Stage(p) = 2 /\ Stage(p)' = 3)
      /\ Later(p)' <=> Later(p)
      /\ phase2[p] # "compute" /\ phase2'[p] # "compute"
  <2>1. \/ phase2[p] = "columns" /\ phase2'[p] = "fence 2"
        \/ phase2[p] = "rows" /\ phase2'[p] = "fence 3"
    BY <1>2, <1>4
  <2>2. CASE phase2[p] = "columns" /\ phase2'[p] = "fence 2"
    <3>1. Stage(p) = 1 /\ Stage(p)' = 2
      BY <2>2 DEF Stage
    <3>2. Later(p)' <=> Later(p)
      BY <2>2 DEF Later
    <3>3. phase2[p] # "compute" /\ phase2'[p] # "compute"
      BY <2>2
    <3>4. QED
      BY <3>1, <3>2, <3>3, Zenon
  <2>3. CASE phase2[p] = "rows" /\ phase2'[p] = "fence 3"
    <3>1. Stage(p) = 2 /\ Stage(p)' = 3
      BY <2>3 DEF Stage
    <3>2. Later(p)' <=> Later(p)
      BY <2>3 DEF Later
    <3>3. phase2[p] # "compute" /\ phase2'[p] # "compute"
      BY <2>3
    <3>4. QED
      BY <3>1, <3>2, <3>3, Zenon
  <2>4. QED
    BY <2>1, <2>2, <2>3
<1> HIDE DEF x
<1>6. /\ MeshWindows'
      /\ \A q \in Mesh!Rank : Reached(q)' >= Reached(q) /\ Reached(q)' \in Nat /\ Reached(q) \in Nat
  <2>1. Stage(p)' = Stage(p) + 1
    BY <1>5
  <2>2. QED
    BY <1>1, <1>2, <1>4, <2>1, FenceCounted
<1>7. \A q \in Mesh!Rank : MeshEpoch(q)'
  <2>1. ASSUME NEW q \in Mesh!Rank, q # p
        PROVE  MeshEpoch(q)'
    BY <1>2, <1>4, <1>6, <2>1, EpochKept, MeshNow DEF MeshFences
  <2>2. MeshEpoch(p)'
    <3>1. MeshEpoch(p)
      BY DEF MeshFences
    <3> DEFINE b == IF Later(p) THEN 2 ELSE 0
    <3>2. \A q \in Mesh!Rank : Reached(q) >= 3 * gen2[p] + b
      BY <3>1 DEF MeshEpoch
    <3>3. b \in Nat /\ gen2[p] \in Nat /\ (IF Later(p)' THEN 2 ELSE 0) = b
      BY <1>5, MeshNow
    <3> HIDE DEF b
    <3>4. \A q \in Mesh!Rank : Reached(q)' >= 3 * gen2[p] + b
      BY <1>6, <3>2, <3>3
    <3>5. /\ Mesh!Beside(p)' = Mesh!Beside(p) /\ Mesh!Stacked(p)' = Mesh!Stacked(p)
          /\ Count(gen2[p], gen2[p] % 2)' = Count(gen2[p], gen2[p] % 2)
      BY <1>2 DEF Mesh!Beside, Mesh!Rank, Mesh!prow, Mesh!Stacked, Count
    <3>6. QED
      BY <1>2, <1>5, <3>1, <3>3, <3>4, <3>5, Zenon DEF MeshEpoch
  <2>3. QED
    BY <2>1, <2>2
<1>8. \A s, t \in Mesh!Rank : Partner(s, t) => MeshPair(s, t)'
  <2>1. \A q \in Mesh!Rank : /\ Later(q)' <=> Later(q)
                             /\ phase2'[q] = "compute" <=> phase2[q] = "compute"
    BY <1>4, <1>5
  <2>2. QED
    BY <1>2, <1>3, <2>1, PairKept DEF MeshFences
<1>9. DOMAIN puts2' = Mesh!Rank
  BY <1>2 DEF MeshFences
<1>10. MeshFences'
  BY <1>6, <1>7, <1>8, <1>9 DEF MeshFences, Partner, Mesh!Rank, Mesh!Beside, Mesh!Stacked,
                                Mesh!prow
<1>11. QED
  BY <1>2, <1>3, <1>10, SameGeneration

(* When a fence has ended, no rank is more than one generation ahead, and  *)
(* none of them puts rows.                                                 *)
LEMMA FenceTogether ==
  ASSUME MeshLoop, MeshFences, NEW p \in Mesh!Rank, NEW q \in Mesh!Rank
  PROVE  /\ Stage(p) <= 2 => gen2[q] <= gen2[p]
         /\ Stage(p) = 3 => gen2[q] <= gen2[p] + 1
         /\ Stage(p) = 3 /\ gen2[q] = gen2[p] + 1 => ~Later(q)
<1>1. MeshWindows /\ MeshEpoch(q)
  BY DEF MeshFences
<1>2. /\ gen2[p] \in Nat /\ gen2[q] \in Nat /\ Stage(p) \in 0 .. 3
      /\ Reached(p) = 3 * gen2[p] + Stage(p)
  BY <1>1, FencesOf
<1> DEFINE b == IF Later(q) THEN 2 ELSE 0
<1>3. Reached(p) >= 3 * gen2[q] + b
  BY <1>1 DEF MeshEpoch
<1>4. b \in {0, 2} /\ (b = 0 => ~Later(q))
  OBVIOUS
<1> HIDE DEF b
<1>5. /\ Stage(p) <= 2 => gen2[q] <= gen2[p]
      /\ Stage(p) = 3 => gen2[q] <= gen2[p] + 1
      /\ Stage(p) = 3 /\ gen2[q] = gen2[p] + 1 => b = 0
  <2>1. 3 * gen2[p] + Stage(p) >= 3 * gen2[q] + b /\ b \in {0, 2}
    BY <1>2, <1>3, <1>4
  <2>2. QED
    BY <1>2, <2>1
<1>6. QED
  BY <1>4, <1>5

(* What p could still be put in this generation, when its fence has ended. *)
LEMMA FenceWaits ==
  ASSUME MeshLoop, MeshFences, NEW p \in Mesh!Rank, NEW q \in Mesh!Rank, Partner(p, q),
         Mesh!Fence!FenceDone(p), Stage(p) \in 2 .. 3, gen2[q] = gen2[p],
         Stage(p) = 3 \/ p \in Mesh!Beside(q)
  PROVE  ~Waits(q, p) /\ Stage(q) >= Stage(p)
<1> DEFINE c == 3 * Count(gen2[p], gen2[p] % 2)
<1>1. /\ Stage(q) >= Stage(p)
      /\ \A e \in {c + 1, c + 2} : e < c + Stage(p) => <<p, e>> \notin puts2[q]
  BY FenceEnds
<1>2. c \in Nat
  <2>1. Count(gen2[p], gen2[p] % 2) \in Nat
    BY FencesOf DEF MeshFences
  <2>2. QED
    BY <2>1
<1>3. puts2[q] \subseteq IF Later(q) THEN Mesh!Stacked(q) \X {c + 2} ELSE Mesh!Beside(q) \X {c + 1}
  <2>1. MeshEpoch(q) /\ Count(gen2[q], gen2[q] % 2) = Count(gen2[p], gen2[p] % 2)
    BY DEF MeshFences
  <2> DEFINE d == Count(gen2[p], gen2[p] % 2)
  <2>2. puts2[q] \subseteq IF Later(q) THEN Mesh!Stacked(q) \X {3 * d + 1 + 1}
                                      ELSE Mesh!Beside(q) \X {3 * d + 1}
    BY <2>1 DEF MeshEpoch
  <2>3. d \in Nat
    BY FencesOf DEF MeshFences
  <2> HIDE DEF d
  <2>4. 3 * d + 1 + 1 = 3 * d + 2
    BY <2>3
  <2>5. QED
    BY <2>2, <2>4, Zenon DEF d
<1> HIDE DEF c
<1>4. ASSUME Waits(q, p)
      PROVE  FALSE
  <2>1. PICK e : <<p, e>> \in puts2[q]
    BY <1>4 DEF Waits
  <2>2. CASE e = c + 1
    <3>1. e < c + Stage(p)
      BY <1>2, <2>2
    <3>2. QED
      BY <1>1, <2>1, <2>2, <3>1
  <2>3. CASE e = c + 2
    <3>1. Later(q) /\ p \in Mesh!Stacked(q)
      BY <1>2, <1>3, <2>1, <2>3
    <3>2. p \notin Mesh!Beside(q)
      BY <3>1, PartnersAre DEF Partner
    <3>3. Stage(p) = 3
      BY <3>2
    <3>4. e < c + Stage(p)
      BY <1>2, <2>3, <3>3
    <3>5. QED
      BY <1>1, <2>1, <2>3, <3>4
  <2>4. QED
    BY <1>3, <2>1, <2>2, <2>3
<1>5. QED
  BY <1>1, <1>4

LEMMA SecondFenceKeeps ==
  ASSUME MeshLoop, MeshFences, NEW p \in Mesh!Rank, Mesh!Fence!SecondFence(p)
  PROVE  MeshLoop' /\ MeshFences' /\ MeshStays
<1> DEFINE c == Count(gen2[p], gen2[p] % 2)
<1>1. MeshWindows /\ MeshPhases
  BY DEF MeshFences, MeshWindows
<1>2. /\ phase2[p] = "fence 2" /\ Mesh!Fence!FenceDone(p)
      /\ puts2' = [puts2 EXCEPT ![p] = @ \cup (Mesh!Stacked(p) \X {entered[p][cur2[p]]})]
      /\ phase2' = [phase2 EXCEPT ![p] = "rows"]
      /\ UNCHANGED <<gen2, buf2, cur2, entered>>
  BY FenceCalls
<1>3. MeshLoop' /\ \A s, t : HasEdge(s, t) => HasEdge(s, t)'
  BY <1>2, MeshStill
<1>4. /\ MeshPhases' /\ phase2'[p] = "rows"
      /\ \A q \in Mesh!Rank : q # p =>
           phase2'[q] = phase2[q] /\ Stage(q)' = Stage(q) /\ (Later(q)' <=> Later(q))
  BY <1>1, <1>2, Phased
<1>5. /\ Stage(p) = 2 /\ Stage(p)' = 2 /\ ~Later(p) /\ Later(p)'
      /\ phase2[p] # "compute" /\ phase2'[p] # "compute"
  BY <1>2, <1>4 DEF Stage, Later
<1>6. /\ MeshWindows'
      /\ \A q \in Mesh!Rank : Reached(q)' >= Reached(q) /\ Reached(q)' \in Nat /\ Reached(q) \in Nat
  <2>1. \A q \in Mesh!Rank : Stage(q)' = Stage(q)
    BY <1>4, <1>5
  <2>2. QED
    BY <1>1, <1>2, <1>4, <2>1, NoFence
<1>7. /\ puts2[p] = {}
      /\ \A q \in Mesh!Rank : Reached(q) >= Reached(p) /\ gen2[q] >= gen2[p]
  <2>1. Stage(p) \in 2 .. 3
    BY <1>5
  <2>2. QED
    BY <1>2, <2>1, FenceEnds
<1>8. \A q \in Mesh!Rank : /\ gen2[q] = gen2[p]
                           /\ Partner(p, q) /\ p \in Mesh!Beside(q) =>
                                ~Waits(q, p) /\ phase2[q] # "compute"
  <2>1. ASSUME NEW q \in Mesh!Rank
        PROVE  gen2[q] = gen2[p]
    <3>1. Stage(p) <= 2 /\ gen2[q] \in Nat /\ gen2[p] \in Nat
      BY <1>5, MeshNow
    <3>2. QED
      BY <1>7, <3>1, FenceTogether
  <2>2. ASSUME NEW q \in Mesh!Rank, Partner(p, q), p \in Mesh!Beside(q)
        PROVE  ~Waits(q, p) /\ phase2[q] # "compute"
    <3>1. Stage(p) \in 2 .. 3
      BY <1>5
    <3>2. ~Waits(q, p) /\ Stage(q) >= Stage(p)
      BY <1>2, <2>1, <2>2, <3>1, FenceWaits
    <3>3. Stage(q) # 0
      BY <1>5, <3>2
    <3>4. QED
      BY <1>1, <3>2, <3>3, FencesOf
  <2>3. QED
    BY <2>1, <2>2
<1>9. /\ puts2'[p] = Mesh!Stacked(p) \X {3 * c + 1 + 1}
      /\ \A q \in Mesh!Rank : q # p => puts2'[q] = puts2[q]
  <2>1. entered[p][cur2[p]] = 3 * c + 1 + 1
    <3>1. cur2[p] = gen2[p] % 2 /\ entered[p][gen2[p] % 2] = 3 * c + Stage(p) /\ c \in Nat
      BY <1>1, FencesOf
    <3> HIDE DEF c
    <3>2. entered[p][cur2[p]] = 3 * c + 2
      BY <1>5, <3>1
    <3>3. QED
      BY <3>1, <3>2
  <2>2. DOMAIN puts2 = Mesh!Rank
    BY DEF MeshFences
  <2> HIDE DEF c
  <2>3. QED
    BY <1>2, <1>7, <2>1, <2>2
<1>10. \A q \in Mesh!Rank : MeshEpoch(q)'
  <2>1. ASSUME NEW q \in Mesh!Rank, q # p
        PROVE  MeshEpoch(q)'
    BY <1>2, <1>4, <1>6, <1>9, <2>1, EpochKept, MeshNow DEF MeshFences
  <2>2. MeshEpoch(p)'
    <3>1. \A q \in Mesh!Rank : Reached(q)' >= 3 * gen2[p] + 2
      <4>1. Reached(p) = 3 * gen2[p] + Stage(p) /\ gen2[p] \in Nat
        BY <1>1, FencesOf
      <4>2. Reached(p) = 3 * gen2[p] + 2
        BY <1>5, <4>1
      <4>3. QED
        BY <1>6, <1>7, <4>1, <4>2
    <3>2. Mesh!Stacked(p)' = Mesh!Stacked(p) /\ c' = c
      BY <1>2 DEF Mesh!Stacked, Mesh!Rank, Count
    <3>3. gen2[p] < Iter
      BY <1>5 DEF MeshFences, MeshEpoch
    <3> HIDE DEF c
    <3>4. QED
      BY <1>2, <1>5, <1>9, <3>1, <3>2, <3>3, Zenon DEF MeshEpoch, c
  <2>3. QED
    BY <2>1, <2>2
<1>11. \A s, t \in Mesh!Rank : Partner(s, t) => MeshPair(s, t)'
  <2>1. ASSUME NEW s \in Mesh!Rank, NEW t \in Mesh!Rank, Partner(s, t), s # p, t # p
        PROVE  MeshPair(s, t)'
    BY <1>2, <1>3, <1>4, <1>9, <2>1, PairKept DEF MeshFences
  <2>2. ASSUME NEW q \in Mesh!Rank, Partner(p, q)
        PROVE  MeshPair(p, q)'
    <3>1. MeshPair(p, q) /\ q # p
      BY <2>2, PartnersAre DEF MeshFences
    <3>2. q \in Mesh!Beside(p) => HasEdge(p, q)
      <4>1. q \in Mesh!Beside(p) <=> p \in Mesh!Beside(q)
        BY <2>2, PartnersAre
      <4>2. QED
        BY <1>8, <2>2, <3>1, <4>1, Zenon DEF MeshPair
    <3>3. /\ Waits(q, p)' <=> Waits(q, p)
          /\ HasEdge(p, q) => HasEdge(p, q)'
          /\ Mesh!Beside(p)' = Mesh!Beside(p)
      BY <1>3, <1>9, <3>1 DEF Waits, Mesh!Beside, Mesh!Rank, Mesh!prow
    <3>4. gen2[q] # gen2[p] + 1
      BY <1>8, MeshNow
    <3>5. (Later(q)' <=> Later(q)) /\ phase2'[q] = phase2[q]
      BY <1>4, <3>1
    <3>6. QED
      BY <1>2, <3>1, <3>2, <3>3, <3>4, <3>5, Zenon DEF MeshPair
  <2>3. ASSUME NEW q \in Mesh!Rank, Partner(q, p)
        PROVE  MeshPair(q, p)'
    <3>1. MeshPair(q, p) /\ q # p /\ Partner(p, q)
      BY <2>3, PartnersAre DEF MeshFences
    <3>2. /\ gen2[q] = gen2[p] /\ gen2[q] <= gen2[p] /\ ~(gen2[q] < gen2[p])
      BY <1>8, MeshNow
    <3>3. Waits(p, q)' <=> q \in Mesh!Stacked(p)
      <4> DEFINE k == 3 * c + 1 + 1
      <4>1. puts2'[p] = Mesh!Stacked(p) \X {k}
        BY <1>9
      <4> HIDE DEF k
      <4>2. Waits(p, q)' => q \in Mesh!Stacked(p)
        BY <4>1 DEF Waits
      <4>3. ASSUME q \in Mesh!Stacked(p)
            PROVE  Waits(p, q)'
        <5>1. <<q, k>> \in puts2'[p]
          BY <4>1, <4>3
        <5>2. k \in {x[2] : x \in puts2'[p]}
          BY <5>1
        <5>3. QED
          BY <5>1, <5>2 DEF Waits
      <4>4. QED
        BY <4>2, <4>3
    <3>4. ~Waits(p, q)
      BY <1>7 DEF Waits
    <3>5. q \in Mesh!Stacked(p) \/ p \in Mesh!Beside(q)
      BY <2>3, <3>1, PartnersAre DEF Partner
    <3>6. p \in Mesh!Beside(q) => HasEdge(q, p)
      BY <1>5, <3>1, <3>2, <3>4, Zenon DEF MeshPair
    <3>7. /\ HasEdge(q, p) => HasEdge(q, p)'
          /\ Mesh!Beside(q)' = Mesh!Beside(q) /\ (Later(q)' <=> Later(q))
      BY <1>3, <1>4, <3>1 DEF Mesh!Beside, Mesh!Rank, Mesh!prow
    <3>8. gen2[p] = gen2[q] + 1 \/ (p \in Mesh!Beside(q) /\ Later(q)) => HasEdge(q, p)'
      BY <3>1, <3>7, Zenon DEF MeshPair
    <3>9. ~Waits(p, q)' => HasEdge(q, p)'
      BY <3>3, <3>5, <3>6, <3>7, Zenon
    <3>10. gen2' = gen2
      BY <1>2
    <3>11. QED
      BY <3>2, <3>7, <3>8, <3>9, <3>10, Zenon DEF MeshPair
  <2>4. QED
    BY <2>1, <2>2, <2>3
<1>12. DOMAIN puts2' = Mesh!Rank
  BY <1>2 DEF MeshFences
<1>13. MeshFences'
  BY <1>6, <1>10, <1>11, <1>12
     DEF MeshFences, Partner, Mesh!Rank, Mesh!Beside, Mesh!Stacked, Mesh!prow
<1>14. QED
  BY <1>2, <1>3, <1>13, SameGeneration

(* A put lands between the fences it belongs to: its target is in the same *)
(* generation and does not compute.                                        *)
LEMMA PutKeeps ==
  ASSUME MeshLoop, MeshFences, NEW p \in Mesh!Rank, NEW q \in Mesh!Rank, Mesh!Fence!Put(p, q)
  PROVE  /\ MeshLoop' /\ MeshFences' /\ MeshStays
         /\ phase2[q] # "compute" /\ phase2' = phase2
         /\ \A s \in Mesh!Rank, b \in 0 .. 1 :
              buf2'[s][b] # buf2[s][b] => s = q /\ b = cur2[q]
<1> DEFINE c == Count(gen2[p], gen2[p] % 2)
<1>1. MeshWindows /\ MeshEpoch(p)
  BY DEF MeshFences
<1>2. PICK e : /\ <<q, e>> \in puts2[p] /\ entered[q][cur2[p]] >= e
               /\ Mesh!Store(q, cur2[p], Mesh!Edge(p, q))
               /\ puts2' = [puts2 EXCEPT ![p] = @ \ {<<q, e>>}]
               /\ UNCHANGED <<gen2, cur2, entered, phase2>>
  BY FenceActions DEF Mesh!Fence!Put, Mesh!Fence!Window
<1>3. /\ c \in Nat /\ gen2[p] \in Nat /\ gen2[q] \in Nat /\ cur2[p] = gen2[p] % 2
      /\ cur2[q] = gen2[q] % 2
      /\ Reached(q) = 3 * gen2[q] + Stage(q) /\ Stage(q) \in 0 .. 3
  BY <1>1, FencesOf
<1>4. \/ Later(p) /\ q \in Mesh!Stacked(p) /\ e = 3 * c + 2
      \/ ~Later(p) /\ q \in Mesh!Beside(p) /\ e = 3 * c + 1
  <2>1. puts2[p] \subseteq IF Later(p) THEN Mesh!Stacked(p) \X {3 * c + 1 + 1}
                                       ELSE Mesh!Beside(p) \X {3 * c + 1}
    BY <1>1 DEF MeshEpoch
  <2> HIDE DEF c
  <2>2. 3 * c + 1 + 1 = 3 * c + 2
    BY <1>3
  <2> DEFINE k == 3 * c + 1
             l == 3 * c + 1 + 1
  <2>3. puts2[p] \subseteq IF Later(p) THEN Mesh!Stacked(p) \X {l} ELSE Mesh!Beside(p) \X {k}
    BY <2>1
  <2> HIDE DEF k, l
  <2>4. \/ Later(p) /\ q \in Mesh!Stacked(p) /\ e = l
        \/ ~Later(p) /\ q \in Mesh!Beside(p) /\ e = k
    BY <1>2, <2>3
  <2>5. QED
    BY <2>2, <2>4 DEF k, l
<1>5. PICK s \in 1 .. 3 : e = 3 * c + s
  BY <1>4
<1>6. gen2[q] = gen2[p] /\ Stage(q) # 0 /\ Partner(p, q) /\ Partner(q, p) /\ Waits(p, q)
  <2>1. Reached(q) >= 3 * gen2[p] + s
    <3>1. entered[q][gen2[p] % 2] >= 3 * c + s
      BY <1>2, <1>3, <1>5, Zenon
    <3>2. QED
      BY <1>1, <1>3, <3>1, EnteredReaches
  <2> HIDE DEF c
  <2>2. 3 * gen2[q] + Stage(q) >= 3 * gen2[p] + s /\ s \in 0 .. 3 /\ s >= 1
    BY <1>3, <2>1
  <2>3. gen2[q] >= gen2[p] /\ (gen2[q] = gen2[p] => Stage(q) >= s)
    BY <1>3, <2>2, Thirds
  <2>4. Partner(p, q)
    BY <1>4 DEF Partner
  <2>5. Partner(q, p) /\ Waits(p, q)
    <3>1. e \in {x[2] : x \in puts2[p]}
      BY <1>2
    <3>2. Waits(p, q)
      BY <1>2, <3>1 DEF Waits
    <3>3. QED
      BY <2>4, <3>2, PartnersAre
  <2>6. gen2[q] <= gen2[p]
    BY <2>5 DEF MeshFences, MeshPair
  <2>7. gen2[q] = gen2[p]
    BY <1>3, <2>3, <2>6
  <2>8. Stage(q) # 0
    BY <1>3, <2>3, <2>7
  <2>9. QED
    BY <2>4, <2>5, <2>7, <2>8
<1>7. phase2[q] # "compute" /\ cur2[q] = cur2[p]
  BY <1>1, <1>3, <1>6, FencesOf
<1>8. EdgeOf(gen2[q], p, q, Mesh!Edge(p, q))
  <2>1. q \in Mesh!Stacked(p) => \A r \in Mesh!Beside(p) : HasEdge(p, r)
    <3>1. ASSUME q \in Mesh!Stacked(p), NEW r \in Mesh!Beside(p)
          PROVE  HasEdge(p, r)
      <4>1. Later(p)
        BY <1>4, <1>6, <3>1, PartnersAre
      <4>2. Partner(p, r) /\ r \in Mesh!Rank
        BY <3>1, PartnersAre DEF Partner
      <4>3. MeshPair(p, r)
        BY <4>2 DEF MeshFences
      <4>4. QED
        BY <3>1, <4>1, <4>3, Zenon DEF MeshPair
    <3>2. QED
      BY <3>1
  <2>2. EdgeOf(gen2[p], p, q, Mesh!Edge(p, q))
    BY <1>6, <2>1, EdgeRight
  <2>3. QED
    BY <1>6, <2>2
<1>9. /\ MeshLoop' /\ HasEdge(q, p)'
      /\ \A s1 \in Mesh!Rank : \A t : HasEdge(s1, t) => HasEdge(s1, t)'
  <2>1. Mesh!Store(q, cur2[q], Mesh!Edge(p, q)) /\ gen2' = gen2 /\ cur2' = cur2
    BY <1>2, <1>7
  <2>2. QED
    BY <1>8, <2>1, MeshStored
<1>10. /\ puts2'[p] = puts2[p] \ {<<q, e>>} /\ DOMAIN puts2' = Mesh!Rank
       /\ \A r \in Mesh!Rank : r # p => puts2'[r] = puts2[r]
  BY <1>2 DEF MeshFences
<1>11. MeshPhases' /\ \A r : /\ Stage(r)' = Stage(r) /\ (Later(r)' <=> Later(r))
                             /\ phase2'[r] = phase2[r]
  BY <1>1, <1>2 DEF Stage, Later, MeshWindows, MeshPhases, Mesh!Rank
<1>12. /\ MeshWindows'
       /\ \A r \in Mesh!Rank : Reached(r)' >= Reached(r) /\ Reached(r)' \in Nat /\ Reached(r) \in Nat
  BY <1>1, <1>2, <1>11, NoFence
<1>13. \A r \in Mesh!Rank : MeshEpoch(r)'
  <2>1. ASSUME NEW r \in Mesh!Rank, r # p
        PROVE  MeshEpoch(r)'
    BY <1>2, <1>10, <1>11, <1>12, <2>1, EpochKept, MeshNow DEF MeshFences
  <2>2. MeshEpoch(p)'
    <3>1. \A r \in Mesh!Rank : Reached(r)' = Reached(r)
      BY <1>2, <1>11 DEF Reached
    <3>2. /\ Mesh!Beside(p)' = Mesh!Beside(p) /\ Mesh!Stacked(p)' = Mesh!Stacked(p)
          /\ Count(gen2[p], gen2[p] % 2)' = Count(gen2[p], gen2[p] % 2)
      BY <1>2 DEF Mesh!Beside, Mesh!Rank, Mesh!prow, Mesh!Stacked, Count
    <3>3. puts2'[p] \subseteq puts2[p]
      BY <1>10
    <3>4. puts2[p] = {} => puts2'[p] = {}
      BY <3>3
    <3>5. gen2' = gen2
      BY <1>2
    <3>6. QED
      BY <1>1, <1>11, <3>1, <3>2, <3>3, <3>4, <3>5, Zenon DEF MeshEpoch
  <2>3. QED
    BY <2>1, <2>2
<1>14. \A r, t \in Mesh!Rank : Partner(r, t) => MeshPair(r, t)'
  <2>1. ASSUME NEW r \in Mesh!Rank, NEW t \in Mesh!Rank, Partner(r, t), t # p
        PROVE  MeshPair(r, t)'
    BY <1>2, <1>9, <1>10, <1>11, <2>1, PairKept DEF MeshFences
  <2>2. ASSUME NEW r \in Mesh!Rank, Partner(r, p), r # q
        PROVE  MeshPair(r, p)'
    <3>1. Waits(p, r)' <=> Waits(p, r)
      <4>1. \A x : <<r, x>> \in puts2'[p] <=> <<r, x>> \in puts2[p]
        BY <1>10, <2>2
      <4>2. \A x : <<r, x>> \in puts2[p] => x \in {y[2] : y \in puts2[p]}
        OBVIOUS
      <4>3. \A x : <<r, x>> \in puts2'[p] => x \in {y[2] : y \in puts2'[p]}
        OBVIOUS
      <4>4. QED
        BY <4>1, <4>2, <4>3 DEF Waits
    <3>2. MeshPair(r, p) /\ (HasEdge(r, p) => HasEdge(r, p)')
      BY <1>9, <2>2 DEF MeshFences
    <3>3. gen2' = gen2 /\ Mesh!Beside(r)' = Mesh!Beside(r)
      BY <1>2 DEF Mesh!Beside, Mesh!Rank, Mesh!prow
    <3>4. QED
      BY <1>11, <3>1, <3>2, <3>3, Zenon DEF MeshPair
  <2>3. MeshPair(q, p)'
    <3>1. gen2'[q] = gen2'[p] /\ gen2'[q] <= gen2'[p] /\ ~(gen2'[q] < gen2'[p])
      BY <1>2, <1>3, <1>6
    <3>2. QED
      BY <1>9, <3>1, Zenon DEF MeshPair
  <2>4. QED
    BY <2>1, <2>2, <2>3
<1>15. MeshFences'
  BY <1>10, <1>12, <1>13, <1>14
     DEF MeshFences, Partner, Mesh!Rank, Mesh!Beside, Mesh!Stacked, Mesh!prow
<1>16. \A r \in Mesh!Rank, b \in 0 .. 1 : buf2'[r][b] # buf2[r][b] => r = q /\ b = cur2[q]
  <2>1. DOMAIN buf2 = Mesh!Rank /\ \A r \in Mesh!Rank : DOMAIN buf2[r] = 0 .. 1
    BY MeshNow DEF MeshLoop, MeshMatrix
  <2>2. \E f : buf2' = [buf2 EXCEPT ![q][cur2[q]] = f]
    BY <1>2, <1>7 DEF Mesh!Store
  <2>3. QED
    BY <2>1, <2>2
<1>17. QED
  BY <1>2, <1>7, <1>9, <1>15, <1>16, SameGeneration

(* After the last fence every edge of the generation has come.             *)
LEMMA GenerationKeeps ==
  ASSUME MeshLoop, MeshFences, NEW p \in Mesh!Rank, Mesh!Fence!Generation(p)
  PROVE  MeshLoop' /\ MeshFences' /\ MeshMoves(p)
<1> DEFINE g == gen2[p]
<1>1. MeshWindows /\ MeshPhases /\ MeshEpoch(p)
  BY DEF MeshFences, MeshWindows
<1>2. /\ phase2[p] = "fence 3" /\ Mesh!Fence!FenceDone(p) /\ Mesh!Compute(p)
      /\ phase2' = [phase2 EXCEPT ![p] = "compute"]
      /\ UNCHANGED <<entered, puts2>>
  BY FenceCalls
<1>3. /\ MeshPhases' /\ phase2'[p] = "compute"
      /\ \A q \in Mesh!Rank : q # p =>
           phase2'[q] = phase2[q] /\ Stage(q)' = Stage(q) /\ (Later(q)' <=> Later(q))
  BY <1>1, <1>2, Phased
<1>4. Stage(p) = 3 /\ Later(p) /\ Stage(p)' = 0 /\ ~Later(p)' /\ phase2[p] # "compute"
  BY <1>2, <1>3 DEF Stage, Later
<1>5. /\ puts2[p] = {} /\ Stage(p) \in 2 .. 3
      /\ \A q \in Mesh!Rank : Reached(q) >= Reached(p) /\ gen2[q] >= gen2[p]
  <2>1. Stage(p) \in 2 .. 3
    BY <1>4
  <2>2. QED
    BY <1>2, <2>1, FenceEnds
<1>6. ASSUME NEW q \in Mesh!Rank, Partner(p, q)
      PROVE  /\ gen2[q] \in {g, g + 1} /\ g + 1 \in Nat /\ gen2[q] \in Nat /\ g \in Nat
             /\ gen2[q] = g + 1 => ~Later(q)
             /\ gen2[q] = g => ~Waits(q, p) /\ Later(q)
  <2>1. g \in Nat /\ gen2[q] \in Nat
    BY <1>6, MeshNow
  <2>2. gen2[q] <= g + 1 /\ (gen2[q] = g + 1 => ~Later(q))
    BY <1>4, FenceTogether
  <2>3. gen2[q] \in {g, g + 1} /\ g + 1 \in Nat
    BY <1>5, <2>1, <2>2
  <2>4. ASSUME gen2[q] = g
        PROVE  ~Waits(q, p) /\ Later(q)
    <3>1. ~Waits(q, p) /\ Stage(q) >= Stage(p)
      BY <1>2, <1>4, <1>5, <1>6, <2>4, FenceWaits
    <3>2. Stage(q) = 3
      <4>1. Stage(q) \in 0 .. 3
        BY <1>1, FencesOf
      <4>2. QED
        BY <1>4, <3>1, <4>1
    <3>3. phase2[q] = "fence 3"
      BY <1>1, <3>2, FencesOf
    <3>4. QED
      BY <3>1, <3>3 DEF Later
  <2>5. QED
    BY <2>1, <2>2, <2>3, <2>4
<1>7. ASSUME NEW q \in Mesh!Rank, Partner(p, q)
      PROVE  HasEdge(p, q)
  <2>1. MeshPair(p, q)
    BY <1>7 DEF MeshFences
  <2>2. QED
    BY <1>6, <1>7, <2>1, Zenon DEF MeshPair
<1>8. /\ MeshLoop' /\ gen2' = [gen2 EXCEPT ![p] = @ + 1]
      /\ \A q \in Mesh!Rank : q # p => /\ gen2'[q] = gen2[q]
                                       /\ \A t : HasEdge(q, t) => HasEdge(q, t)'
  <2>1. gen2[p] < Iter
    BY <1>1, <1>4 DEF MeshEpoch
  <2>2. QED
    BY <1>2, <1>7, <2>1, MeshAdvanced
<1>9. gen2'[p] = g + 1 /\ g \in Nat
  <2>1. g \in Nat /\ DOMAIN gen2 = Mesh!Rank
    BY MeshNow DEF MeshLoop
  <2>2. QED
    BY <1>8, <2>1
<1>10. \A q \in Mesh!Rank : Reached(q)' = Reached(q) /\ Reached(q) \in Nat
  <2>1. ASSUME NEW q \in Mesh!Rank
        PROVE  Reached(q) \in Nat
    <3>1. gen2[q] \in Nat /\ Stage(q) \in 0 .. 3 /\ Reached(q) = 3 * gen2[q] + Stage(q)
      BY <1>1, FencesOf
    <3>2. QED
      BY <3>1
  <2>2. \A q \in Mesh!Rank : q # p => Reached(q)' = Reached(q)
    BY <1>3, <1>8 DEF Reached
  <2>3. Reached(p)' = Reached(p)
    <3>1. Reached(p)' = 3 * (g + 1) + 0 /\ Reached(p) = 3 * g + 3
      BY <1>4, <1>9 DEF Reached
    <3>2. QED
      BY <1>9, <3>1
  <2>4. QED
    BY <2>1, <2>2, <2>3
<1>11. MeshWindows'
  <2>1. EnteredBy(p)' = EnteredBy(p)
    <3> DEFINE v == g % 2
               C(w) == Count(g, w)
               D(w) == Count(g + 1, w)
    <3>1. EnteredBy(p) = [w \in 0 .. 1 |-> 3 * C(w) + (IF w = v THEN 3 ELSE 0)]
      BY <1>4 DEF EnteredBy
    <3>2. EnteredBy(p)' = [w \in 0 .. 1 |-> 3 * D(w) + (IF w = (g + 1) % 2 THEN 0 ELSE 0)]
      BY <1>4, <1>9 DEF EnteredBy, Count
    <3>3. /\ v \in 0 .. 1 /\ D(v) = C(v) + 1
          /\ \A w \in 0 .. 1 : C(w) \in Nat /\ (w # v => D(w) = C(w))
      BY <1>9, CountNext
    <3> HIDE DEF v, C, D
    <3>4. \A w \in 0 .. 1 : 3 * D(w) + (IF w = (g + 1) % 2 THEN 0 ELSE 0)
                              = 3 * C(w) + (IF w = v THEN 3 ELSE 0)
      <4>1. ASSUME NEW w \in 0 .. 1
            PROVE  3 * D(w) + 0 = 3 * C(w) + (IF w = v THEN 3 ELSE 0)
        <5>1. CASE w = v
          BY <3>3, <5>1
        <5>2. CASE w # v
          BY <3>3, <5>2
        <5>3. QED
          BY <5>1, <5>2
      <4>2. QED
        BY <4>1
    <3>5. QED
      BY <3>1, <3>2, <3>4
  <2>2. \A q \in Mesh!Rank : q # p => EnteredBy(q)' = EnteredBy(q)
    BY <1>3, <1>8 DEF EnteredBy, Count
  <2>3. entered = [q \in Mesh!Rank |-> EnteredBy(q)]
    BY <1>1 DEF MeshWindows, EnteredBy
  <2>4. entered' = [q \in Mesh!Rank |-> EnteredBy(q)']
    BY <1>2, <2>1, <2>2, <2>3
  <2>5. QED
    BY <1>3, <2>4 DEF MeshWindows, EnteredBy, Mesh!Rank
<1>12. \A q \in Mesh!Rank : MeshEpoch(q)'
  <2>1. ASSUME NEW q \in Mesh!Rank, q # p
        PROVE  MeshEpoch(q)'
    <3>1. \A r \in Mesh!Rank : Reached(r)' >= Reached(r) /\ Reached(r)' \in Nat /\ Reached(r) \in Nat
      BY <1>10
    <3>2. MeshEpoch(q) /\ gen2[q] \in Nat
      BY MeshNow DEF MeshFences
    <3>3. gen2'[q] = gen2[q] /\ puts2'[q] = puts2[q] /\ phase2'[q] = phase2[q]
      BY <1>2, <1>3, <1>8, <2>1
    <3>4. QED
      BY <3>1, <3>2, <3>3, EpochKept
  <2>2. MeshEpoch(p)'
    <3>1. puts2'[p] = {}
      BY <1>2, <1>5
    <3>2. \A q \in Mesh!Rank : Reached(q)' >= 3 * gen2'[p] + 0
      <4>1. 3 * gen2'[p] + 0 = 3 * g + 3
        BY <1>9
      <4>2. Reached(p) = 3 * g + 3
        BY <1>4 DEF Reached
      <4>3. QED
        BY <1>5, <1>10, <4>1, <4>2
    <3>3. QED
      BY <1>3, <1>4, <3>1, <3>2, Zenon DEF MeshEpoch
  <2>3. QED
    BY <2>1, <2>2
<1>13. \A s, t \in Mesh!Rank : Partner(s, t) => MeshPair(s, t)'
  <2>1. ASSUME NEW s \in Mesh!Rank, NEW t \in Mesh!Rank, Partner(s, t), s # p, t # p
        PROVE  MeshPair(s, t)'
    <3>1. /\ gen2'[s] = gen2[s] /\ gen2'[t] = gen2[t] /\ puts2'[t] = puts2[t]
          /\ phase2'[t] = phase2[t] /\ (Later(s)' <=> Later(s)) /\ (Later(t)' <=> Later(t))
          /\ HasEdge(s, t) => HasEdge(s, t)'
      BY <1>2, <1>3, <1>8, <2>1
    <3>2. QED
      BY <2>1, <3>1, PairKept DEF MeshFences
  <2>2. ASSUME NEW q \in Mesh!Rank, Partner(p, q)
        PROVE  MeshPair(p, q)'
    <3>1. MeshPair(p, q) /\ q # p
      BY <2>2, PartnersAre DEF MeshFences
    <3>2. /\ Waits(q, p)' <=> Waits(q, p)
          /\ gen2'[q] = gen2[q] /\ phase2'[q] = phase2[q] /\ (Later(q)' <=> Later(q))
          /\ Mesh!Beside(p)' = Mesh!Beside(p)
      BY <1>2, <1>3, <1>8, <3>1 DEF Waits, Mesh!Beside, Mesh!Rank, Mesh!prow
    <3>3. /\ gen2[q] \in {g, g + 1} /\ g \in Nat
          /\ gen2[q] = g + 1 => ~Later(q)
          /\ gen2[q] = g => ~Waits(q, p)
      BY <1>6, <2>2
    <3>4. Waits(q, p)' => gen2'[p] <= gen2'[q]
      <4>1. Waits(q, p) => gen2[q] = g + 1
        BY <3>3, Zenon
      <4>2. gen2[q] = g + 1 => gen2'[p] <= gen2'[q]
        BY <1>9, <3>2
      <4>3. QED
        BY <3>2, <4>1, <4>2, Zenon
    <3>5. ~(gen2'[p] < gen2'[q]) /\ gen2'[q] # gen2'[p] + 1
      <4>1. gen2'[q] \in {g, g + 1} /\ gen2'[p] = g + 1 /\ g \in Nat
        BY <1>9, <3>2, <3>3, Zenon
      <4>2. QED
        BY <4>1
    <3>6. gen2'[q] = gen2'[p] /\ ~Waits(q, p)'
            => ~(Later(q)' \/ (q \in Mesh!Beside(p)' /\ phase2'[q] # "compute"))
      <4>1. gen2'[q] = gen2'[p] => gen2[q] = g + 1 /\ gen2[p] < gen2[q]
        BY <1>9, <3>2, <3>3
      <4>2. gen2[p] < gen2[q] /\ phase2[q] # "compute" /\ q \in Mesh!Beside(p) => Waits(q, p)
        BY <3>1, Zenon DEF MeshPair
      <4>3. QED
        BY <3>2, <3>3, <4>1, <4>2, Zenon
    <3>7. QED
      BY <1>4, <3>4, <3>5, <3>6, Zenon DEF MeshPair
  <2>3. ASSUME NEW q \in Mesh!Rank, Partner(q, p)
        PROVE  MeshPair(q, p)'
    <3>1. MeshPair(q, p) /\ q # p /\ Partner(p, q)
      BY <2>3, PartnersAre DEF MeshFences
    <3>2. ~Waits(p, q) /\ ~Waits(p, q)'
      BY <1>2, <1>5 DEF Waits
    <3>3. gen2'[q] = gen2[q] /\ (HasEdge(q, p) => HasEdge(q, p)') /\ (Later(q)' <=> Later(q))
      BY <1>3, <1>8, <3>1
    <3>4. /\ gen2[q] \in {g, g + 1} /\ g \in Nat
          /\ gen2[q] = g + 1 => ~Later(q)
      BY <1>6, <3>1
    <3>5. gen2[q] = g => HasEdge(q, p)
      BY <1>4, <3>1, <3>2, Zenon DEF MeshPair
    <3>6. gen2'[p] = gen2'[q] + 1 => gen2[q] = g
      BY <1>9, <3>3, <3>4
    <3>7. Later(q)' => gen2[q] = g
      BY <3>3, <3>4, Zenon
    <3>8. QED
      BY <1>3, <1>4, <3>2, <3>3, <3>5, <3>6, <3>7, Zenon DEF MeshPair
  <2>4. ~Partner(p, p)
    BY PartnersAre
  <2>5. QED
    BY <2>1, <2>2, <2>3, <2>4
<1>14. MeshFences'
  <2>1. DOMAIN puts2' = Mesh!Rank
    BY <1>2 DEF MeshFences
  <2>2. QED
    BY <1>11, <1>12, <1>13, <2>1
       DEF MeshFences, Partner, Mesh!Rank, Mesh!Beside, Mesh!Stacked, Mesh!prow
<1>15. MeshMoves(p)
  <2>1. gen2[p] < Iter
    BY <1>1, <1>4 DEF MeshEpoch
  <2>2. \A q \in Mesh!Around(p) : gen2[q] >= gen2[p]
    BY <1>5 DEF Mesh!Around
  <2>3. QED
    BY <1>8, <2>1, <2>2 DEF MeshMoves
<1>16. QED
  BY <1>8, <1>14, <1>15

-----------------------------------------------------------------------------
(* Nothing is stored in a matrix of a rank that computes, or in the one    *)
(* the rank does not exchange.                                             *)
MeshInside == \A q \in Mesh!Rank, b \in 0 .. 1 :
                buf2'[q][b] # buf2[q][b] /\ gen2'[q] = gen2[q] =>
                  Mesh!InExchange(q) /\ b = cur2[q]

LEMMA NothingStored ==
  ASSUME buf2' = buf2
  PROVE  MeshInside
BY DEF MeshInside

LEMMA StoredInside ==
  ASSUME MeshLoop, NEW p \in Mesh!Rank, NEW b, NEW m, Mesh!Store(p, b, m), b = cur2[p],
         Mesh!InExchange(p)
  PROVE  MeshInside
<1>1. DOMAIN buf2 = Mesh!Rank /\ \A q \in Mesh!Rank : DOMAIN buf2[q] = 0 .. 1
  BY DEF MeshLoop, MeshMatrix
<1>2. \E f : buf2' = [buf2 EXCEPT ![p][b] = f]
  BY DEF Mesh!Store
<1>3. \A q \in Mesh!Rank, w \in 0 .. 1 : buf2'[q][w] # buf2[q][w] => q = p /\ w = b
  BY <1>1, <1>2
<1>4. QED
  BY <1>3 DEF MeshInside

LEMMA ComputedInside ==
  ASSUME MeshLoop, NEW p \in Mesh!Rank, Mesh!Compute(p)
  PROVE  MeshInside
<1>1. DOMAIN buf2 = Mesh!Rank /\ gen2 \in [Mesh!Rank -> 0 .. Iter] /\ gen2[p] \in Nat
  BY MeshNow DEF MeshLoop
<1>2. gen2' = [gen2 EXCEPT ![p] = @ + 1] /\ \E b, f : buf2' = [buf2 EXCEPT ![p][b] = f]
  BY DEF Mesh!Compute
<1>3. gen2'[p] # gen2[p]
  BY <1>1, <1>2
<1>4. \A q \in Mesh!Rank : q # p => buf2'[q] = buf2[q]
  BY <1>1, <1>2
<1>5. QED
  BY <1>3, <1>4 DEF MeshInside

(* One step of a rank, two-sided.                                          *)
LEMMA MeshPt2ptStep ==
  ASSUME MeshLoop, MeshCount, MeshSent, NEW p \in Mesh!Rank, Mesh!Pt2pt!Step(p),
         exchange = "pt2pt"
  PROVE  MeshLoop' /\ MeshSent' /\ (MeshStays \/ MeshMoves(p)) /\ MeshInside
<1>1. CASE Mesh!Pt2pt!SecondHalf(p)
  <2>1. buf2' = buf2
    BY <1>1 DEF Mesh!Pt2pt!SecondHalf
  <2>2. QED
    BY <1>1, <2>1, NothingStored, MeshSecondHalf
<1>2. CASE Mesh!Pt2pt!Generation(p)
  <2>1. Mesh!Compute(p)
    BY <1>2, Pt2ptActions DEF Mesh!Pt2pt!Generation
  <2>2. QED
    BY <1>2, <2>1, ComputedInside, MeshSecondHalf
<1>3. ASSUME NEW q \in Mesh!Rank, Mesh!Pt2pt!Send(p, q)
      PROVE  MeshLoop' /\ MeshSent' /\ (MeshStays \/ MeshMoves(p)) /\ MeshInside
  <2>1. buf2' = buf2
    BY <1>3 DEF Mesh!Pt2pt!Send
  <2>2. QED
    BY <1>3, <2>1, NothingStored, MeshSend
<1>4. ASSUME NEW q \in Mesh!Rank, Mesh!Pt2pt!Recv(p, q)
      PROVE  MeshLoop' /\ MeshSent' /\ (MeshStays \/ MeshMoves(p)) /\ MeshInside
  <2>1. Mesh!Store(p, cur2[p], Head(chan2[q][p])) /\ reqs2[p] # {}
    BY <1>4, Pt2ptActions DEF Mesh!Pt2pt!Recv
  <2>2. MeshInside
    BY <2>1, StoredInside DEF Mesh!InExchange
  <2>3. QED
    BY <1>4, <2>2, MeshRecv
<1>5. QED
  BY <1>1, <1>2, <1>3, <1>4, MeshNames DEF Mesh!Pt2pt!Step

(* One step of a rank, one-sided.                                          *)
LEMMA MeshFenceStep ==
  ASSUME MeshLoop, MeshFences, NEW p \in Mesh!Rank, Mesh!Fence!Step(p), exchange = "fence"
  PROVE  MeshLoop' /\ MeshFences' /\ (MeshStays \/ MeshMoves(p)) /\ MeshInside
<1>1. CASE Mesh!Fence!FirstFence(p)
  <2>1. buf2' = buf2
    BY <1>1, FenceCalls
  <2>2. QED
    BY <1>1, <2>1, NothingStored, FirstFenceKeeps
<1>2. CASE Mesh!Fence!EnterFence(p)
  <2>1. buf2' = buf2
    BY <1>2, FenceCalls
  <2>2. QED
    BY <1>2, <2>1, NothingStored, EnterFenceKeeps
<1>3. CASE Mesh!Fence!SecondFence(p)
  <2>1. buf2' = buf2
    BY <1>3, FenceCalls
  <2>2. QED
    BY <1>3, <2>1, NothingStored, SecondFenceKeeps
<1>4. CASE Mesh!Fence!Generation(p)
  <2>1. Mesh!Compute(p)
    BY <1>4, FenceCalls
  <2>2. QED
    BY <1>4, <2>1, ComputedInside, GenerationKeeps
<1>5. ASSUME NEW q \in Mesh!Rank, Mesh!Fence!Put(p, q)
      PROVE  MeshLoop' /\ MeshFences' /\ (MeshStays \/ MeshMoves(p)) /\ MeshInside
  <2>1. /\ MeshLoop' /\ MeshFences' /\ MeshStays /\ phase2[q] # "compute"
        /\ \A s \in Mesh!Rank, b \in 0 .. 1 : buf2'[s][b] # buf2[s][b] => s = q /\ b = cur2[q]
    BY <1>5, PutKeeps
  <2>2. MeshInside
    BY <2>1 DEF MeshInside, Mesh!InExchange
  <2>3. QED
    BY <2>1, <2>2
<1>6. QED
  BY <1>1, <1>2, <1>3, <1>4, <1>5, MeshNames DEF Mesh!Fence!Step

LEMMA MeshRightStart ==
  ASSUME Init
  PROVE  MeshRight
<1>1. Mesh!Pt2pt!Init /\ Mesh!Fence!Init /\ exchange \in {"pt2pt", "fence"}
  BY DEF Init, Mesh!Init
<1>2. MeshLoop
  BY <1>1, Pt2ptActions, MeshBegins DEF Mesh!Pt2pt!Init
<1>3. /\ half = [p \in Mesh!Rank |-> 1]
      /\ reqs2 = [p \in Mesh!Rank |-> IF Iter > 0 THEN {"send", "recv"} \X Partners(p, 1) ELSE {}]
      /\ chan2 = [p \in Mesh!Rank |-> [q \in Mesh!Rank |-> <<>>]]
      /\ phase2 = [p \in Mesh!Rank |-> "compute"] /\ puts2 = [p \in Mesh!Rank |-> {}]
      /\ entered = [p \in Mesh!Rank |-> [w \in 0 .. 1 |-> 0]]
      /\ gen2 = [p \in Mesh!Rank |-> 0]
  BY <1>1, MeshNames DEF Mesh!Pt2pt!Init, Mesh!Fence!Init, Mesh!Pt2pt!LoopInit
<1>4. Iter \in Nat
  BY GridAssumption DEF GridAssumption
<1>5. MeshSent
  <2>1. ASSUME NEW p \in Mesh!Rank, NEW q \in Mesh!Rank
        PROVE  Times(p, q, <<"recv", q>>) = 0
    BY <1>3, <1>4 DEF Times, Did, Partners
  <2>2. ASSUME NEW p \in Mesh!Rank, NEW q \in Mesh!Rank
        PROVE  /\ gen2[p] = 0 /\ Len(chan2[q][p]) = 0
    BY <1>3, EmptyQueue
  <2>3. ASSUME NEW p \in Mesh!Rank, NEW q \in Mesh!Rank
        PROVE  /\ 1 .. Len(chan2[q][p]) = {}
               /\ Times(p, q, <<"recv", q>>) # gen2[p] + 1
    <3>1. Times(p, q, <<"recv", q>>) = 0 /\ gen2[p] = 0 /\ Len(chan2[q][p]) = 0
      BY <2>1, <2>2, Zenon
    <3>2. QED
      BY <3>1
  <2>4. QED
    BY <2>3 DEF MeshSent
<1>6. MeshFences
  <2>1. \A p \in Mesh!Rank : Stage(p) = 0 /\ ~Later(p) /\ phase2[p] = "compute"
    BY <1>3 DEF Stage, Later
  <2>2. \A w \in 0 .. 1 : Count(0, w) = 0
    BY DEF Count
  <2>3. MeshWindows
    <3>1. MeshPhases
      BY <1>3 DEF MeshPhases
    <3>2. ASSUME NEW p \in Mesh!Rank
          PROVE  [w \in 0 .. 1 |-> 0] = EnteredBy(p)
      <4>1. \A w \in 0 .. 1 : 3 * Count(gen2[p], w)
                                + (IF w = gen2[p] % 2 THEN Stage(p) ELSE 0) = 0
        <5>1. gen2[p] = 0 /\ Stage(p) = 0
          BY <1>3, <2>1
        <5>2. ASSUME NEW w \in 0 .. 1
              PROVE  3 * Count(gen2[p], w) + (IF w = gen2[p] % 2 THEN Stage(p) ELSE 0) = 0
          <6>1. Count(gen2[p], w) = 0
            BY <2>2, <5>1
          <6>2. QED
            BY <5>1, <6>1
        <5>3. QED
          BY <5>2
      <4>2. QED
        BY <4>1 DEF EnteredBy
    <3>3. entered = [p \in Mesh!Rank |-> EnteredBy(p)]
      BY <1>3, <3>2
    <3>4. QED
      BY <3>1, <3>3 DEF MeshWindows, EnteredBy
  <2>4. ASSUME NEW p \in Mesh!Rank
        PROVE  MeshEpoch(p)
    <3>1. \A q \in Mesh!Rank : Reached(q) >= 3 * gen2[p] + 0
      <4>1. \A q \in Mesh!Rank : gen2[q] = 0 /\ Stage(q) = 0
        BY <1>3, <2>1
      <4>2. QED
        BY <4>1 DEF Reached
    <3>2. puts2[p] = {}
      BY <1>3
    <3>3. QED
      BY <2>1, <3>1, <3>2, Zenon DEF MeshEpoch
  <2>5. ASSUME NEW p \in Mesh!Rank, NEW q \in Mesh!Rank
        PROVE  MeshPair(p, q)
    <3>1. gen2[p] = gen2[q] /\ gen2[q] # gen2[p] + 1
      BY <1>3
    <3>2. ~Waits(q, p)
      BY <1>3 DEF Waits
    <3>3. gen2[p] <= gen2[q] /\ ~(gen2[p] < gen2[q])
      BY <1>3
    <3>4. QED
      BY <2>1, <3>1, <3>2, <3>3, Zenon DEF MeshPair
  <2>6. QED
    BY <1>3, <2>3, <2>4, <2>5 DEF MeshFences
<1>7. QED
  BY <1>2, <1>5, <1>6 DEF MeshRight

(* What a step of any of the programs makes of it.                         *)
LEMMA MeshRightSteps ==
  ASSUME MeshInv, MeshRight, [Next]_vars
  PROVE  MeshRight' /\ (MeshStays \/ \E p \in Mesh!Rank : MeshMoves(p)) /\ MeshInside
<1>1. CASE UNCHANGED meshOnly
  <2>1. /\ gen2' = gen2 /\ buf2' = buf2 /\ cur2' = cur2 /\ half' = half /\ reqs2' = reqs2
        /\ chan2' = chan2 /\ phase2' = phase2 /\ puts2' = puts2 /\ entered' = entered
        /\ exchange' = exchange
    BY <1>1 DEF meshOnly
  <2>2. MeshLoop' /\ \A s, t : HasEdge(s, t) => HasEdge(s, t)'
    BY <2>1, MeshStill DEF MeshRight
  <2>3. MeshSent => MeshSent'
    <3>1. \A s, t, x : Times(s, t, x)' = Times(s, t, x)
      BY <2>1 DEF Times, Did
    <3>2. \A s, t : (HasEdge(s, t)' <=> HasEdge(s, t)) /\ (Partner(s, t)' <=> Partner(s, t))
      BY <2>1 DEF HasEdge, Mesh!matrix, Partner, Mesh!Beside, Mesh!Stacked, Mesh!Rank, Mesh!prow
    <3>3. QED
      BY <2>1, <3>1, <3>2 DEF MeshSent, Mesh!Rank
  <2>4. MeshFences => MeshFences'
    <3>1. \A q : /\ Stage(q)' = Stage(q) /\ (Later(q)' <=> Later(q)) /\ Reached(q)' = Reached(q)
                 /\ Mesh!Beside(q)' = Mesh!Beside(q) /\ Mesh!Stacked(q)' = Mesh!Stacked(q)
      BY <2>1 DEF Stage, Later, Reached, Mesh!Beside, Mesh!Stacked, Mesh!Rank, Mesh!prow
    <3>2. MeshWindows => MeshWindows'
      BY <2>1, <3>1 DEF MeshWindows, MeshPhases, Mesh!Rank, Count
    <3>3. \A q : MeshEpoch(q) => MeshEpoch(q)'
      <4>1. \A q : Count(gen2[q], gen2[q] % 2)' = Count(gen2[q], gen2[q] % 2)
        BY <2>1 DEF Count
      <4>2. QED
        BY <2>1, <3>1, <4>1 DEF MeshEpoch
    <3>4. \A s, t : MeshPair(s, t) => MeshPair(s, t)'
      BY <2>1, <2>2, <3>1, PairKept
    <3>5. QED
      BY <2>1, <3>1, <3>2, <3>3, <3>4 DEF MeshFences, Partner, Mesh!Rank
  <2>5. MeshStays
    BY <2>2, <2>1, SameGeneration DEF MeshRight
  <2>6. QED
    BY <2>1, <2>2, <2>3, <2>4, <2>5, NothingStored DEF MeshRight
<1>2. ASSUME NEW p \in Mesh!Rank, Mesh!OfPt2pt(Mesh!Pt2pt!Step(p))
      PROVE  MeshRight' /\ (MeshStays \/ \E s \in Mesh!Rank : MeshMoves(s)) /\ MeshInside
  <2>1. exchange = "pt2pt" /\ exchange' = exchange /\ Mesh!Pt2pt!Step(p)
    BY <1>2 DEF Mesh!OfPt2pt
  <2>2. MeshLoop /\ MeshSent /\ MeshCount
    BY <2>1 DEF MeshRight, MeshInv
  <2>3. MeshLoop' /\ MeshSent' /\ (MeshStays \/ MeshMoves(p)) /\ MeshInside
    BY <2>1, <2>2, MeshPt2ptStep
  <2>4. exchange' # "fence"
    BY <2>1
  <2>5. QED
    BY <2>3, <2>4 DEF MeshRight
<1>3. ASSUME NEW p \in Mesh!Rank, Mesh!OfFence(Mesh!Fence!Step(p))
      PROVE  MeshRight' /\ (MeshStays \/ \E s \in Mesh!Rank : MeshMoves(s)) /\ MeshInside
  <2>1. exchange = "fence" /\ exchange' = exchange /\ Mesh!Fence!Step(p)
    BY <1>3 DEF Mesh!OfFence
  <2>2. MeshLoop /\ MeshFences
    BY <2>1 DEF MeshRight
  <2>3. MeshLoop' /\ MeshFences' /\ (MeshStays \/ MeshMoves(p)) /\ MeshInside
    BY <2>1, <2>2, MeshFenceStep
  <2>4. exchange' # "pt2pt"
    BY <2>1
  <2>5. QED
    BY <2>3, <2>4 DEF MeshRight
<1>4. \/ UNCHANGED meshOnly
      \/ \E p \in Mesh!Rank : \/ Mesh!OfPt2pt(Mesh!Pt2pt!Step(p))
                            \/ Mesh!OfFence(Mesh!Fence!Step(p))
  BY DEF Next, Step, OfLine, OfMesh, Mesh!Step, vars
<1>5. QED
  BY <1>1, <1>2, <1>3, <1>4

(* The cells of the refinement mapping are those Rounds asks for.          *)
LEMMA CellsNow ==
  MeshLoop => [p \in Mesh!Rank |-> [c \in Mesh!Inner(p) |-> Mesh!matrix(p)[c]]]
                = [p \in Mesh!Rank |-> [c \in Mesh!Inner(p) |-> Mesh!CellAt(p, gen2[p], c)]]
<1>1. ASSUME MeshLoop, NEW p \in Mesh!Rank
      PROVE  [c \in Mesh!Inner(p) |-> Mesh!matrix(p)[c]]
               = [c \in Mesh!Inner(p) |-> Mesh!CellAt(p, gen2[p], c)]
  BY <1>1 DEF MeshLoop, MeshMatrix
<1>2. QED
  BY <1>1

(* The games of life in two dimensions compute it: with either exchange,   *)
(* for every matrix and grid of ranks, a rank that says it has computed    *)
(* generation k holds its cells of generation k of the whole matrix,       *)
(* computed from eight neighbours of generation k - 1 (the corners came    *)
(* along with the rows), and is never ahead of the ranks around it by more *)
(* than one (Mesh!ComputesLife, the part of ComputesRounds).               *)
THEOREM MeshComputesLife == AllSpec => Mesh!ComputesLife
<1> DEFINE Inv == MeshInv /\ MeshRight
           Blocked == [p \in Mesh!Rank |-> [c \in Mesh!Inner(p) |-> Mesh!matrix(p)[c]]]
<1>1. AllInit => Inv
  BY LifeAlone, MeshStart, MeshRightStart
<1>2. Inv /\ [AllNext]_allVars => Inv'
  BY LifeAlone, MeshSteps, MeshRightSteps
<1>3. AllInit => Mesh!Blocks!Init
  <2>1. SUFFICES ASSUME AllInit
                 PROVE  Mesh!Blocks!Init
    OBVIOUS
  <2>2. gen2 = [p \in Mesh!Rank |-> 0]
    <3>1. Mesh!Pt2pt!LoopInit
      BY <2>1, LifeAlone DEF Init, Mesh!Init, Mesh!Pt2pt!Init
    <3>2. QED
      BY <3>1, Pt2ptActions DEF Mesh!LoopInit
  <2>3. MeshLoop
    BY <2>1, <1>1 DEF MeshRight
  <2>4. Blocked = [p \in Mesh!Rank |-> Mesh!BlockAt("any", 0, p)]
    <3>1. \A p \in Mesh!Rank : [c \in Mesh!Inner(p) |-> Mesh!CellAt(p, gen2[p], c)]
                                 = Mesh!BlockAt("any", 0, p)
      BY <2>2 DEF Mesh!BlockAt
    <3>2. QED
      BY <2>3, <3>1, CellsNow
  <2>5. QED
    BY <2>2, <2>4 DEF Mesh!Blocks!Init
<1>4. Inv /\ [AllNext]_allVars => [Mesh!Blocks!Next]_(Mesh!Blocks!vars)
  <2>1. SUFFICES ASSUME Inv, [AllNext]_allVars
                 PROVE  [Mesh!Blocks!Next]_(Mesh!Blocks!vars)
    OBVIOUS
  <2>2. MeshRight' /\ (MeshStays \/ \E p \in Mesh!Rank : MeshMoves(p))
    BY <2>1, LifeAlone, MeshRightSteps
  <2>3. /\ MeshLoop /\ MeshLoop'
        /\ gen2 \in [Mesh!Rank -> 0 .. Iter]
    BY <2>1, <2>2 DEF MeshRight, MeshLoop
  <2>4. /\ Blocked = [p \in Mesh!Rank |-> Mesh!BlockAt("any", gen2[p], p)]
        /\ Blocked' = [p \in Mesh!Rank |-> Mesh!BlockAt("any", gen2'[p], p)]
    <3>1. (MeshLoop => Blocked = [p \in Mesh!Rank |->
             [c \in Mesh!Inner(p) |-> Mesh!CellAt(p, gen2[p], c)]])'
      BY CellsNow, PTL
    <3>2. QED
      BY <2>3, <3>1, CellsNow DEF Mesh!BlockAt
  <2>5. CASE MeshStays
    BY <2>4, <2>5 DEF MeshStays, Mesh!Blocks!vars
  <2>6. ASSUME NEW p \in Mesh!Rank, MeshMoves(p)
        PROVE  Mesh!Blocks!Advance(p)
    <3>1. gen2' = [gen2 EXCEPT ![p] = @ + 1] /\ gen2'[p] = gen2[p] + 1
      BY <2>6, <2>3 DEF MeshMoves
    <3>2. Blocked' = [Blocked EXCEPT ![p] = Mesh!BlockAt("any", gen2'[p], p)]
      BY <2>3, <2>4, <3>1
    <3>3. QED
      BY <2>6, <3>1, <3>2 DEF MeshMoves, Mesh!Blocks!Advance
  <2>7. QED
    BY <2>2, <2>5, <2>6 DEF Mesh!Blocks!Next
<1>5. QED
  BY <1>1, <1>2, <1>3, <1>4, PTL DEF AllSpec, Mesh!ComputesLife, Mesh!Blocks!Spec

(* In two dimensions nothing is stored in a matrix while its rank computes *)
(* or outside of the exchange that is to receive it, for every matrix and  *)
(* grid of ranks (Mesh!NoPutOutsideEpoch, the part of NothingOutsideEpoch).*)
THEOREM MeshInsideEpochs == AllSpec => Mesh!NoPutOutsideEpoch
<1> DEFINE Inv == MeshInv /\ MeshRight
<1>1. AllInit => Inv
  BY LifeAlone, MeshStart, MeshRightStart
<1>2. Inv /\ [AllNext]_allVars => Inv'
  BY LifeAlone, MeshSteps, MeshRightSteps
<1>3. Inv /\ [AllNext]_allVars =>
        [\A q \in Mesh!Rank, b \in 0 .. 1 :
           buf2'[q][b] # buf2[q][b] /\ gen2'[q] = gen2[q] =>
             Mesh!InExchange(q) /\ b = cur2[q]]_(Mesh!vars)
  BY LifeAlone, MeshRightSteps DEF MeshInside
<1>4. QED
  BY <1>1, <1>2, <1>3, PTL DEF AllSpec, Mesh!NoPutOutsideEpoch

-----------------------------------------------------------------------------
(* pNeo: the rounds cell c has computed, those it has fired in, and those  *)
(* in which it has completed its access; and whether it fires in round k.  *)
Rounded(c)   == itercount[c] + (IF pneoPhase[c] = "compute" THEN 0 ELSE 1)
Fired(c)     == itercount[c] + (IF pneoPhase[c] \in {"access", "wait"} THEN 1 ELSE 0)
Accessed(c)  == itercount[c] + (IF pneoPhase[c] = "wait" THEN 1 ELSE 0)
Fires(c, k)  == k > 0 /\ Pneo!Network[k][c] > 4

(* What p has sent to q, if q is in its i-th iteration and has computed r  *)
(* rounds, p has fired in s rounds and completed its access in a: the      *)
(* spikes of the rounds q has still to come to are on their way, f, in     *)
(* their order, and the one of round r is in the window unless it is, too. *)
Spikes(p, i, r, a, s, f, w) ==
  /\ i <= a
  /\ \A n \in 1 .. Len(f) : f[n] \in i + 1 .. s /\ Fires(p, f[n])
  /\ \A m, n \in 1 .. Len(f) : m < n => f[m] < f[n]
  /\ \A k \in r + 1 .. s : Fires(p, k) => \E n \in 1 .. Len(f) : f[n] = k
  /\ w = 1 <=> r <= s /\ Fires(p, r) /\ \A n \in 1 .. Len(f) : f[n] # r
SpikePair(p, q) == Spikes(p, itercount[q], Rounded(q), Accessed(p), Fired(p),
                          flights[p][q], inarray[q][Pneo!disp(p, q)])

(* The state and the window of a cell.                                     *)
CellRight(c) ==
  /\ state[c] = IF pneoPhase[c] = "start" THEN Pneo!Network[Rounded(c)][c]
                                          ELSE Pneo!CellAt("any", Rounded(c), c)
  /\ DOMAIN inarray[c] = 0 .. Pneo!inarray_count(c) - 1
  /\ \A n \in DOMAIN inarray[c] : inarray[c][n] = 1 => \E p \in Pneo!Sources(c) : n = Pneo!disp(p, c)

NetPhases == pneoPhase \in [Pneo!Cell -> {"compute", "start", "access", "wait"}]
NetTypes ==
  /\ NetPhases
  /\ itercount \in [Pneo!Cell -> 0 .. MaxSteps] /\ state \in [Pneo!Cell -> Nat]
  /\ DOMAIN inarray = Pneo!Cell /\ DOMAIN flights = Pneo!Cell
  /\ \A p \in Pneo!Cell : /\ Rounded(p) <= MaxSteps
                          /\ DOMAIN flights[p] = Pneo!Cell
                          /\ \A q \in Pneo!Cell : IsSeq(flights[p][q])

SpikesRight == /\ NetTypes
               /\ \A c \in Pneo!Cell : CellRight(c)
               /\ \A q \in Pneo!Cell : \A p \in Pneo!Sources(q) : SpikePair(p, q)

(* pneo_fence: the fences a cell has entered, and a spike that is put in   *)
(* an epoch its target has not left.                                       *)
FencePhases == pneoPhase \in [Pneo!Cell -> {"compute", "opening", "closing"}]
FenceStage(c) == IF pneoPhase[c] = "compute" THEN 0
                 ELSE IF pneoPhase[c] = "opening" THEN 1 ELSE 2
FenceSpikes ==
  /\ FencePhases
  /\ itercount \in [Pneo!Cell -> Nat]
  /\ DOMAIN inarray = Pneo!Cell /\ DOMAIN spikes = Pneo!Cell
  /\ pneoEntered = [c \in Pneo!Cell |-> 2 * itercount[c] + FenceStage(c)]
  /\ \A p, q \in Pneo!Cell : /\ 2 * itercount[q] <= pneoEntered[p]
                             /\ q \in spikes[p] => itercount[q] <= itercount[p]
  /\ \A p \in Pneo!Cell : spikes[p] # {} => FenceStage(p) = 2

PneoRight == /\ pneo = "pscw" => SpikesRight
             /\ pneo = "fence" => FenceSpikes

-----------------------------------------------------------------------------
LEMMA NetTypesAre ==
  /\ NumProcs \in Nat \ {0} /\ MaxSteps \in Nat
  /\ Pneo!Cell = 0 .. NumProcs - 1
  /\ IsFiniteSet(Pneo!Cell)
  /\ \A c \in Pneo!Cell : Pneo!FirstState(c) \in Nat
<1>1. NumProcs \in Nat \ {0} /\ MaxSteps \in Nat
  BY PneoAssumption DEF Pneo!NetAssumption
<1>2. Pneo!Cell = 0 .. NumProcs - 1
  BY DEF Pneo!Cell
<1>3. IsFiniteSet(Pneo!Cell)
  BY <1>1, <1>2, FS_Interval
<1>4. \A c \in Pneo!Cell : Pneo!FirstState(c) \in Nat
  BY <1>1, <1>2 DEF Pneo!FirstState
<1>5. QED
  BY <1>1, <1>2, <1>3, <1>4

(* To count is the same in every instance.                                 *)
LEMMA Counting ==
  \A S : Pneo!Cardinality(S) = Cardinality(S) /\ Pneo!Pscw!Cardinality(S) = Cardinality(S)
BY DEF Pneo!Cardinality, Pneo!Pscw!Cardinality, Cardinality

(* The states after round k, if m are those after the round before.        *)
NetFired(k, m) == IF k = 1 THEN {} ELSE {c \in Pneo!Cell : m[c] > 4}
NetStep(k, m) ==
  [c \in Pneo!Cell |-> (IF c \in NetFired(k, m) THEN 0 ELSE m[c])
                         + Pneo!Cardinality(NetFired(k, m) \cap Pneo!Sources(c)) + 1]

LEMMA NetStepType ==
  ASSUME NEW k \in Nat, NEW m \in [Pneo!Cell -> Nat]
  PROVE  NetStep(k, m) \in [Pneo!Cell -> Nat]
<1>1. ASSUME NEW c \in Pneo!Cell
      PROVE  Cardinality(NetFired(k, m) \cap Pneo!Sources(c)) \in Nat
  <2>1. NetFired(k, m) \cap Pneo!Sources(c) \subseteq Pneo!Cell
    BY DEF NetFired
  <2>2. QED
    BY <2>1, NetTypesAre, FS_Subset, FS_CardinalityType
<1>2. QED
  BY <1>1, Counting DEF NetStep

(* Network is what its recursive definition says.                          *)
LEMMA NetworkIs ==
  /\ Pneo!Network[0] = [c \in Pneo!Cell |-> Pneo!FirstState(c)]
  /\ \A k \in 1 .. MaxSteps : Pneo!Network[k] = NetStep(k, Pneo!Network[k - 1])
<1> DEFINE T == [Pneo!Cell -> Nat]
           b == [c \in Pneo!Cell |-> Pneo!FirstState(c)]
           Body(w, k) == IF k = 0 THEN b ELSE NetStep(k, w[k - 1])
           Def(w) == w = [k \in 0 .. MaxSteps |-> Body(w, k)]
           F == [k \in 1 .. MaxSteps |-> [m \in T |-> NetStep(k, m)]]
<1>1. b \in T /\ MaxSteps \in Nat
  BY NetTypesAre
<1>2. F \in [1 .. MaxSteps -> [T -> T]]
  <2>1. \A k \in 1 .. MaxSteps : \A m \in T : NetStep(k, m) \in T
    BY NetStepType
  <2> HIDE DEF T
  <2>2. QED
    BY <2>1
<1>3. PICK f \in [0 .. MaxSteps -> T] : f[0] = b /\ \A k \in 1 .. MaxSteps : f[k] = F[k][f[k - 1]]
  <2> HIDE DEF F, T, b
  <2>1. QED
    BY <1>1, <1>2, Recursion
<1> HIDE DEF T
<1>4. \A k \in 1 .. MaxSteps : f[k] = NetStep(k, f[k - 1])
  <2>1. ASSUME NEW k \in 1 .. MaxSteps
        PROVE  f[k] = NetStep(k, f[k - 1])
    <3>1. k - 1 \in 0 .. MaxSteps
      BY <1>1
    <3>2. f[k - 1] \in T
      BY <3>1
    <3>3. QED
      BY <1>3, <3>2
  <2>2. QED
    BY <2>1
<1>5. Def(f)
  <2>1. ASSUME NEW k \in 0 .. MaxSteps
        PROVE  f[k] = Body(f, k)
    <3> HIDE DEF b
    <3>1. CASE k = 0
      BY <1>3, <3>1
    <3>2. CASE k # 0
      <4>1. k \in 1 .. MaxSteps
        BY <1>1, <3>2
      <4>2. QED
        BY <1>4, <3>2, <4>1
    <3>3. QED
      BY <3>1, <3>2
  <2> HIDE DEF Body
  <2>2. QED
    BY <2>1
<1>6. Pneo!Network = CHOOSE w : Def(w)
  BY DEF Pneo!Network, NetStep, NetFired
<1>7. Def(Pneo!Network)
  <2> HIDE DEF Def
  <2>1. QED
    BY <1>5, <1>6
<1> DEFINE W == Pneo!Network
<1>8. W[0] = b /\ \A k \in 1 .. MaxSteps : W[k] = NetStep(k, W[k - 1])
  <2> HIDE DEF W, b
  <2>1. Def(W)
    BY <1>7 DEF W
  <2>2. ASSUME NEW k \in 0 .. MaxSteps
        PROVE  W[k] = Body(W, k)
    <3> HIDE DEF Body
    <3>1. QED
      BY <2>1
  <2>3. 0 \in 0 .. MaxSteps /\ \A k \in 1 .. MaxSteps : k \in 0 .. MaxSteps /\ k # 0
    BY <1>1
  <2>4. QED
    BY <2>2, <2>3
<1>9. QED
  BY <1>8

(* A round of the network: who fired is back at 0, and every spike counts. *)
LEMMA NetworkRound ==
  ASSUME NEW c \in Pneo!Cell, NEW k \in 0 .. MaxSteps - 1
  PROVE  Pneo!Network[k + 1][c] = Pneo!CellAt("any", k, c)
                                    + Cardinality({p \in Pneo!Sources(c) : Fires(p, k)}) + 1
<1> DEFINE m == Pneo!Network[k]
<1>1. MaxSteps \in Nat /\ k \in Nat /\ k + 1 \in 1 .. MaxSteps /\ (k + 1) - 1 = k
  BY NetTypesAre
<1>2. Pneo!Network[k + 1] = NetStep(k + 1, m)
  BY <1>1, NetworkIs
<1> HIDE DEF m
<1>3. NetFired(k + 1, m) \cap Pneo!Sources(c) = {p \in Pneo!Sources(c) : Fires(p, k)}
  <2>1. CASE k = 0
    BY <2>1 DEF NetFired, Fires
  <2>2. CASE k # 0
    <3>1. k > 0 /\ k + 1 # 1
      BY <1>1, <2>2
    <3>2. QED
      BY <3>1 DEF NetFired, Fires, Pneo!Sources, m
  <2>3. QED
    BY <2>1, <2>2
<1>4. (IF c \in NetFired(k + 1, m) THEN 0 ELSE m[c]) = Pneo!CellAt("any", k, c)
  <2>1. CASE k = 0
    BY <2>1 DEF NetFired, Pneo!CellAt, Pneo!Rested, m
  <2>2. CASE k # 0
    <3>1. k > 0 /\ k + 1 # 1
      BY <1>1, <2>2
    <3>2. QED
      BY <3>1 DEF NetFired, Pneo!CellAt, Pneo!Rested, m
  <2>3. QED
    BY <2>1, <2>2
<1>5. QED
  BY <1>2, <1>3, <1>4, Counting DEF NetStep

-----------------------------------------------------------------------------
(* The instance PneoPscw speaks of the same network.                       *)
LEMMA PscwNet ==
  /\ Pneo!Pscw!Cell = Pneo!Cell
  /\ \A c : /\ Pneo!Pscw!Sources(c) = Pneo!Sources(c)
            /\ Pneo!Pscw!Targets(c) = Pneo!Targets(c)
            /\ Pneo!Pscw!inarray_count(c) = Pneo!inarray_count(c)
            /\ Pneo!Pscw!FirstState(c) = Pneo!FirstState(c)
  /\ \A p, q : Pneo!Pscw!disp(p, q) = Pneo!disp(p, q)
<1>1. Pneo!Pscw!Cell = Pneo!Cell
  BY DEF Pneo!Pscw!Cell, Pneo!Cell
<1>2. ASSUME NEW c
      PROVE  /\ Pneo!Pscw!Sources(c) = Pneo!Sources(c)
             /\ Pneo!Pscw!Targets(c) = Pneo!Targets(c)
             /\ Pneo!Pscw!Incoming(c) = Pneo!Incoming(c)
             /\ Pneo!Pscw!FirstState(c) = Pneo!FirstState(c)
  BY <1>1 DEF Pneo!Pscw!Sources, Pneo!Sources, Pneo!Pscw!Pairs, Pneo!Pairs, Pneo!Pscw!Targets,
              Pneo!Targets, Pneo!Pscw!Incoming, Pneo!Incoming,
              Pneo!Pscw!FirstState, Pneo!FirstState
<1>3. \A c : Pneo!Pscw!inarray_count(c) = Pneo!inarray_count(c)
  BY <1>2, Counting DEF Pneo!Pscw!inarray_count, Pneo!inarray_count
<1>4. ASSUME NEW p, NEW q
      PROVE  Pneo!Pscw!disp(p, q) = Pneo!disp(p, q)
  <2>1. {i \in Pneo!Pscw!Incoming(q) : \E k \in Pneo!Pscw!Incoming(q) : i < k /\ Connections[k][1] = p}
          = {i \in Pneo!Incoming(q) : \E k \in Pneo!Incoming(q) : i < k /\ Connections[k][1] = p}
    BY <1>2
  <2>2. QED
    BY <2>1, Counting DEF Pneo!Pscw!disp, Pneo!disp
<1>5. QED
  BY <1>1, <1>2, <1>3, <1>4

(* The connections that stand before the i-th one, to the same cell.       *)
Before(q, i) == {n \in Pneo!Incoming(q) : n < i}

LEMMA FewerBefore ==
  ASSUME NEW q, NEW S, NEW i \in Pneo!Incoming(q), Before(q, i) \cup {i} \subseteq S,
         S \subseteq Pneo!Incoming(q)
  PROVE  /\ Cardinality(Before(q, i)) \in Nat /\ Cardinality(S) \in Nat
         /\ Cardinality(Before(q, i)) < Cardinality(S)
<1>1. Len(Connections) \in Nat
  BY PneoAssumption DEF Pneo!NetAssumption
<1>2. IsFiniteSet(1 .. Len(Connections)) /\ S \subseteq 1 .. Len(Connections)
  <2>1. IsFiniteSet(1 .. Len(Connections))
    BY <1>1, FS_Interval
  <2>2. Pneo!Incoming(q) \subseteq 1 .. Len(Connections)
    BY DEF Pneo!Incoming
  <2>3. QED
    BY <2>1, <2>2
<1>3. IsFiniteSet(S) /\ Before(q, i) \subseteq S /\ Before(q, i) # S
  <2>1. IsFiniteSet(S)
    BY <1>2, FS_Subset
  <2>2. i \notin Before(q, i)
    BY <1>1 DEF Before, Pneo!Incoming
  <2>3. QED
    BY <2>1, <2>2
<1>4. /\ IsFiniteSet(Before(q, i)) /\ Cardinality(Before(q, i)) <= Cardinality(S)
      /\ Cardinality(Before(q, i)) # Cardinality(S)
  BY <1>3, FS_Subset
<1>5. Cardinality(S) \in Nat /\ Cardinality(Before(q, i)) \in Nat
  BY <1>3, <1>4, FS_CardinalityType
<1>6. QED
  BY <1>4, <1>5

(* Every source of a cell has a place of its own in its window.            *)
LEMMA Places ==
  ASSUME NEW q \in Pneo!Cell, NEW p \in Pneo!Sources(q)
  PROVE  /\ Pneo!disp(p, q) \in 0 .. Pneo!inarray_count(q) - 1
         /\ \A s \in Pneo!Sources(q) : Pneo!disp(s, q) = Pneo!disp(p, q) => s = p
<1>1. /\ Len(Connections) \in Nat
      /\ \A i \in 1 .. Len(Connections) : Connections[i] \in Pneo!Cell \X Pneo!Cell
      /\ \A i, j \in 1 .. Len(Connections) : Connections[i] = Connections[j] => i = j
  BY PneoAssumption DEF Pneo!NetAssumption
<1>2. ASSUME NEW s \in Pneo!Sources(q)
      PROVE  \E i \in Pneo!Incoming(q) :
               Connections[i] = <<s, q>> /\ Pneo!disp(s, q) = Cardinality(Before(q, i))
  <2>1. PICK i \in 1 .. Len(Connections) : Connections[i] = <<s, q>>
    BY DEF Pneo!Sources, Pneo!Pairs
  <2>2. i \in Pneo!Incoming(q)
    BY <2>1 DEF Pneo!Incoming
  <2>3. ASSUME NEW k \in Pneo!Incoming(q), Connections[k][1] = s
        PROVE  k = i
    <3>1. k \in 1 .. Len(Connections) /\ Connections[k][2] = q
      BY DEF Pneo!Incoming
    <3>2. Connections[k] = <<s, q>>
      BY <1>1, <2>3, <3>1
    <3>3. QED
      BY <1>1, <2>1, <3>1, <3>2
  <2>4. {n \in Pneo!Incoming(q) : \E k \in Pneo!Incoming(q) : n < k /\ Connections[k][1] = s}
          = Before(q, i)
    BY <2>1, <2>2, <2>3 DEF Before
  <2>5. QED
    BY <2>1, <2>2, <2>4, Counting DEF Pneo!disp
<1>3. PICK i \in Pneo!Incoming(q) :
        Connections[i] = <<p, q>> /\ Pneo!disp(p, q) = Cardinality(Before(q, i))
  BY <1>2
<1>4. Pneo!disp(p, q) \in 0 .. Pneo!inarray_count(q) - 1
  <2>1. Before(q, i) \cup {i} \subseteq Pneo!Incoming(q)
    BY DEF Before
  <2>2. Pneo!inarray_count(q) = Cardinality(Pneo!Incoming(q))
    BY Counting DEF Pneo!inarray_count
  <2>3. QED
    BY <1>3, <2>1, <2>2, FewerBefore
<1>5. ASSUME NEW s \in Pneo!Sources(q), Pneo!disp(s, q) = Pneo!disp(p, q)
      PROVE  s = p
  <2>1. PICK j \in Pneo!Incoming(q) :
          Connections[j] = <<s, q>> /\ Pneo!disp(s, q) = Cardinality(Before(q, j))
    BY <1>2
  <2>2. i \in Nat /\ j \in Nat
    BY <1>1 DEF Pneo!Incoming
  <2>3. CASE i = j
    BY <1>3, <2>1, <2>3
  <2>4. CASE i < j
    <3>1. Before(q, i) \cup {i} \subseteq Before(q, j) /\ Before(q, j) \subseteq Pneo!Incoming(q)
      BY <1>1, <2>4 DEF Before, Pneo!Incoming
    <3>2. Cardinality(Before(q, i)) \in Nat /\ Cardinality(Before(q, i)) < Cardinality(Before(q, j))
          /\ Cardinality(Before(q, j)) \in Nat
      BY <3>1, FewerBefore
    <3>3. QED
      BY <1>3, <1>5, <2>1, <3>2
  <2>5. CASE j < i
    <3>1. Before(q, j) \cup {j} \subseteq Before(q, i) /\ Before(q, i) \subseteq Pneo!Incoming(q)
      BY <1>1, <2>5 DEF Before, Pneo!Incoming
    <3>2. Cardinality(Before(q, j)) \in Nat /\ Cardinality(Before(q, j)) < Cardinality(Before(q, i))
          /\ Cardinality(Before(q, i)) \in Nat
      BY <3>1, FewerBefore
    <3>3. QED
      BY <1>3, <1>5, <2>1, <3>2
  <2>6. QED
    BY <2>2, <2>3, <2>4, <2>5
<1>6. QED
  BY <1>4, <1>5

(* As many entries of a window are 1 as there are sources whose entry is.  *)
LEMMA SpikesCounted ==
  ASSUME NEW c \in Pneo!Cell, NEW S,
         S = {p \in Pneo!Sources(c) : inarray[c][Pneo!disp(p, c)] = 1},
         DOMAIN inarray[c] = 0 .. Pneo!inarray_count(c) - 1,
         \A n \in DOMAIN inarray[c] :
           inarray[c][n] = 1 => \E p \in Pneo!Sources(c) : n = Pneo!disp(p, c)
  PROVE  Pneo!Pscw!num_incoming(c) = Cardinality(S) /\ Cardinality(S) \in Nat
<1> DEFINE D == {n \in DOMAIN inarray[c] : inarray[c][n] = 1}
           f == [p \in S |-> Pneo!disp(p, c)]
<1>1. IsFiniteSet(S)
  <2>1. S \subseteq Pneo!Cell
    BY DEF Pneo!Sources
  <2>2. QED
    BY <2>1, NetTypesAre, FS_Subset
<1>2. f \in Bijection(S, D)
  <2>1. \A p \in S : Pneo!disp(p, c) \in D
    BY Places
  <2>2. \A p, q \in S : f[p] = f[q] => p = q
    BY Places
  <2>3. \A n \in D : \E p \in S : f[p] = n
    OBVIOUS
  <2>4. QED
    BY <2>1, <2>2, <2>3 DEF Bijection, Injection, Surjection, IsInjective
<1>3. Cardinality(D) = Cardinality(S)
  <2> HIDE DEF D, f
  <2>1. ExistsBijection(S, D)
    BY <1>2 DEF ExistsBijection
  <2>2. QED
    BY <1>1, <2>1, FS_Bijection
<1>4. QED
  BY <1>1, <1>3, Counting, FS_CardinalityType DEF Pneo!Pscw!num_incoming

-----------------------------------------------------------------------------
(* What becomes of the spikes from p to q.  p fires, or does not, in the   *)
(* round it has just computed.                                             *)
LEMMA SpikesFired ==
  ASSUME NEW p, NEW i \in Nat, NEW r \in Nat, NEW a \in Nat, NEW f, NEW w, IsSeq(f),
         Spikes(p, i, r, a, a, f, w), NEW g,
         g = IF Fires(p, a + 1) THEN Append(f, a + 1) ELSE f
  PROVE  Spikes(p, i, r, a, a + 1, g, w) /\ IsSeq(g)
<1>1. CASE ~Fires(p, a + 1)
  <2>1. g = f
    BY <1>1
  <2>2. \A k \in r + 1 .. a + 1 : Fires(p, k) => k \in r + 1 .. a
    BY <1>1
  <2>3. Fires(p, r) => (r <= a + 1 <=> r <= a)
    BY <1>1
  <2>4. \A n \in 1 .. Len(f) : f[n] \in i + 1 .. a + 1 /\ Fires(p, f[n])
    BY DEF Spikes
  <2>5. QED
    BY <2>1, <2>2, <2>3, <2>4 DEF Spikes
<1>2. CASE Fires(p, a + 1)
  <2> DEFINE l == Len(f)
  <2>1. /\ l \in Nat /\ IsSeq(g) /\ Len(g) = l + 1 /\ g[l + 1] = a + 1
        /\ \A n \in 1 .. l : g[n] = f[n]
    <3>1. l \in Nat
      BY NothingQueued
    <3>2. g = Append(f, a + 1)
      BY <1>2
    <3>3. QED
      BY <3>1, <3>2, Enqueued
  <2>2. i <= a /\ \A n \in 1 .. l : f[n] \in i + 1 .. a /\ Fires(p, f[n])
    BY DEF Spikes
  <2>3. /\ \A m, n \in 1 .. l : m < n => f[m] < f[n]
        /\ \A k \in r + 1 .. a : Fires(p, k) => \E n \in 1 .. l : f[n] = k
        /\ w = 1 <=> r <= a /\ Fires(p, r) /\ \A n \in 1 .. l : f[n] # r
    BY DEF Spikes
  <2> HIDE DEF l
  <2>4. \A n \in 1 .. l + 1 : n \in 1 .. l \/ n = l + 1
    BY <2>1
  <2>5. \A n \in 1 .. l + 1 : g[n] \in i + 1 .. a + 1 /\ Fires(p, g[n])
    <3>1. ASSUME NEW n \in 1 .. l
          PROVE  g[n] \in i + 1 .. a + 1 /\ Fires(p, g[n])
      <4>1. g[n] = f[n] /\ f[n] \in i + 1 .. a /\ Fires(p, f[n])
        BY <2>1, <2>2
      <4>2. f[n] \in i + 1 .. a + 1
        BY <4>1
      <4>3. QED
        BY <4>1, <4>2, Zenon
    <3>2. g[l + 1] \in i + 1 .. a + 1 /\ Fires(p, g[l + 1])
      BY <1>2, <2>1, <2>2
    <3>3. QED
      BY <2>4, <3>1, <3>2
  <2>6. ASSUME NEW m \in 1 .. l + 1, NEW n \in 1 .. l + 1, m < n
        PROVE  g[m] < g[n]
    <3>1. m \in 1 .. l /\ g[m] = f[m] /\ f[m] \in i + 1 .. a
      BY <2>1, <2>2, <2>4, <2>6
    <3>2. CASE n \in 1 .. l
      BY <2>1, <2>3, <2>6, <3>1, <3>2
    <3>3. CASE n = l + 1
      BY <2>1, <3>1, <3>3
    <3>4. QED
      BY <2>4, <3>2, <3>3
  <2>7. ASSUME NEW k \in r + 1 .. a + 1, Fires(p, k)
        PROVE  \E n \in 1 .. l + 1 : g[n] = k
    <3>1. CASE k = a + 1
      BY <2>1, <3>1
    <3>2. CASE k # a + 1
      <4>1. PICK n \in 1 .. l : f[n] = k
        BY <2>3, <2>7, <3>2
      <4>2. QED
        BY <2>1, <4>1
    <3>3. QED
      BY <3>1, <3>2
  <2>8. (\A n \in 1 .. l + 1 : g[n] # r) <=> r # a + 1 /\ \A n \in 1 .. l : f[n] # r
    <3>1. ASSUME \A n \in 1 .. l + 1 : g[n] # r
          PROVE  r # a + 1 /\ \A n \in 1 .. l : f[n] # r
      <4>1. l + 1 \in 1 .. l + 1 /\ \A n \in 1 .. l : n \in 1 .. l + 1
        BY <2>1
      <4>2. QED
        BY <2>1, <3>1, <4>1
    <3>2. ASSUME r # a + 1, \A n \in 1 .. l : f[n] # r
          PROVE  \A n \in 1 .. l + 1 : g[n] # r
      BY <2>1, <2>4, <3>2
    <3>3. QED
      BY <3>1, <3>2
  <2>9. r <= a <=> r <= a + 1 /\ r # a + 1
    OBVIOUS
  <2>10. w = 1 <=> r <= a + 1 /\ Fires(p, r) /\ \A n \in 1 .. l + 1 : g[n] # r
    BY <2>3, <2>8, <2>9, Zenon
  <2>11. i <= a /\ Len(g) = l + 1 /\ IsSeq(g)
    BY <2>1, <2>2
  <2>12. QED
    BY <2>5, <2>6, <2>7, <2>10, <2>11, Zenon DEF Spikes
<1>3. QED
  BY <1>1, <1>2

(* p completes its access.                                                 *)
LEMMA SpikesAccessed ==
  ASSUME NEW p, NEW i \in Nat, NEW r, NEW a \in Nat, NEW s, NEW f, NEW w,
         Spikes(p, i, r, a, s, f, w)
  PROVE  Spikes(p, i, r, a + 1, s, f, w)
<1>1. i <= a + 1
  BY DEF Spikes
<1>2. QED
  BY <1>1 DEF Spikes

(* The first spike reaches the window, which is open: it is the one of the *)
(* round of the window.                                                    *)
LEMMA SpikesStored ==
  ASSUME NEW p, NEW i \in Nat, NEW r \in Nat, NEW a \in Nat, NEW s \in Nat, NEW f, NEW w,
         IsSeq(f), f # <<>>, Spikes(p, i, r, a, s, f, w), r <= i + 1, r >= Head(f)
  PROVE  r = i + 1 /\ Spikes(p, i, r, a, s, Tail(f), 1) /\ IsSeq(Tail(f))
<1> DEFINE l == Len(f)
           g == Tail(f)
<1>1. /\ l \in Nat \ {0} /\ IsSeq(g) /\ Len(g) = l - 1 /\ Head(f) = f[1]
      /\ \A n \in 1 .. l - 1 : g[n] = f[n + 1]
  BY Dequeued
<1>2. /\ i <= a
      /\ \A n \in 1 .. l : f[n] \in i + 1 .. s /\ Fires(p, f[n])
      /\ \A m, n \in 1 .. l : m < n => f[m] < f[n]
      /\ \A k \in r + 1 .. s : Fires(p, k) => \E n \in 1 .. l : f[n] = k
  BY DEF Spikes
<1> HIDE DEF l, g
<1>3. 1 \in 1 .. l /\ \A n \in 1 .. l - 1 : n \in 1 .. l /\ n + 1 \in 1 .. l /\ 1 < n + 1
  BY <1>1
<1>4. f[1] = i + 1 /\ r = i + 1 /\ r <= s /\ Fires(p, r)
  <2>1. f[1] \in i + 1 .. s /\ Fires(p, f[1]) /\ Head(f) = f[1]
    BY <1>1, <1>2, <1>3
  <2>2. f[1] = i + 1 /\ r = i + 1 /\ r <= s
    BY <2>1
  <2>3. QED
    BY <2>1, <2>2
<1>5. \A n \in 1 .. l - 1 : g[n] \in i + 1 .. s /\ Fires(p, g[n])
  BY <1>1, <1>2, <1>3
<1>6. ASSUME NEW m \in 1 .. l - 1, NEW n \in 1 .. l - 1, m < n
      PROVE  g[m] < g[n]
  <2>1. g[m] = f[m + 1] /\ g[n] = f[n + 1] /\ m + 1 < n + 1
    BY <1>1, <1>6
  <2>2. QED
    BY <1>2, <1>3, <2>1
<1>7. ASSUME NEW n \in 1 .. l - 1
      PROVE  g[n] # r
  <2>1. g[n] = f[n + 1] /\ f[1] < f[n + 1]
    BY <1>1, <1>2, <1>3
  <2>2. f[1] = r /\ r \in Nat
    BY <1>4
  <2>3. QED
    BY <2>1, <2>2
<1>8. ASSUME NEW k \in r + 1 .. s, Fires(p, k)
      PROVE  \E n \in 1 .. l - 1 : g[n] = k
  <2>1. PICK n \in 1 .. l : f[n] = k
    BY <1>2, <1>8
  <2>2. n # 1 /\ n - 1 \in 1 .. l - 1 /\ (n - 1) + 1 = n
    BY <1>1, <1>4, <2>1
  <2>3. QED
    BY <1>1, <2>1, <2>2
<1>9. 1 = 1 <=> r <= s /\ Fires(p, r) /\ \A n \in 1 .. l - 1 : g[n] # r
  BY <1>4, <1>7
<1>10. Spikes(p, i, r, a, s, g, 1)
  BY <1>1, <1>2, <1>5, <1>6, <1>8, <1>9, Zenon DEF Spikes
<1>11. QED
  BY <1>1, <1>4, <1>10 DEF g

(* The window is read and cleared for the next round: a spike of that      *)
(* round has not come yet.                                                 *)
LEMMA SpikesRead ==
  ASSUME NEW p, NEW r \in Nat, NEW a \in Nat, NEW s \in Nat, NEW f, NEW w,
         a <= s, Spikes(p, r, r, a, s, f, w), IsSeq(f)
  PROVE  (w = 1 <=> Fires(p, r)) /\ Spikes(p, r, r + 1, a, s, f, 0)
<1> DEFINE l == Len(f)
<1>1. /\ r <= a /\ l \in Nat
      /\ \A n \in 1 .. l : f[n] \in r + 1 .. s /\ Fires(p, f[n])
      /\ \A m, n \in 1 .. l : m < n => f[m] < f[n]
      /\ \A k \in r + 1 .. s : Fires(p, k) => \E n \in 1 .. l : f[n] = k
      /\ w = 1 <=> r <= s /\ Fires(p, r) /\ \A n \in 1 .. l : f[n] # r
  BY NothingQueued DEF Spikes
<1> HIDE DEF l
<1>2. r <= s /\ \A n \in 1 .. l : f[n] # r
  BY <1>1
<1>3. \A k \in (r + 1) + 1 .. s : k \in r + 1 .. s
  OBVIOUS
<1>4. ~(r + 1 <= s /\ Fires(p, r + 1) /\ \A n \in 1 .. l : f[n] # r + 1)
  <2>1. r + 1 <= s => r + 1 \in r + 1 .. s
    OBVIOUS
  <2>2. QED
    BY <1>1, <2>1
<1>5. 0 = 1 <=> r + 1 <= s /\ Fires(p, r + 1) /\ \A n \in 1 .. l : f[n] # r + 1
  BY <1>4
<1>6. Spikes(p, r, r + 1, a, s, f, 0)
  BY <1>1, <1>3, <1>5, Zenon DEF Spikes, l
<1>7. QED
  BY <1>1, <1>2, <1>6

(* MPI_Win_wait returns: the spikes of the round are in the window.        *)
LEMMA SpikesAwaited ==
  ASSUME NEW p, NEW i \in Nat, NEW r, NEW a \in Nat, NEW s \in Nat, NEW f, NEW w,
         Spikes(p, i, r, a, s, f, w), a >= i + 1, \A n \in 1 .. Len(f) : f[n] > i + 1
  PROVE  Spikes(p, i + 1, r, a, s, f, w)
<1>1. \A n \in 1 .. Len(f) : f[n] \in i + 1 .. s /\ Fires(p, f[n])
  BY DEF Spikes
<1>2. \A n \in 1 .. Len(f) : f[n] \in (i + 1) + 1 .. s
  BY <1>1
<1>3. i + 1 <= a
  OBVIOUS
<1>4. QED
  BY <1>1, <1>2, <1>3, Zenon DEF Spikes

-----------------------------------------------------------------------------
(* Seen from Rounds: no cell enters a round, or c does.  And no spike is   *)
(* stored while its cell computes.                                         *)
NetStays == \A c \in Pneo!Cell : Rounded(c)' = Rounded(c)
NetMoves(c) ==
  /\ Rounded(c) < MaxSteps /\ \A p \in Pneo!Sources(c) : Rounded(p) >= Rounded(c)
  /\ \A p \in Pneo!Cell : Rounded(p)' = Rounded(p) + (IF p = c THEN 1 ELSE 0)
NetQuiet ==
  \A c \in Pneo!Cell : inarray'[c] # inarray[c] /\ pneoPhase'[c] = pneoPhase[c]
                         => pneoPhase[c] # "compute"

(* How far a cell is, phase by phase.                                      *)
LEMMA NetStages ==
  \A c : /\ pneoPhase[c] = "compute" =>
              Rounded(c) = itercount[c] + 0 /\ Fired(c) = itercount[c] + 0 /\ Accessed(c) = itercount[c] + 0
         /\ pneoPhase[c] = "start" =>
              Rounded(c) = itercount[c] + 1 /\ Fired(c) = itercount[c] + 0 /\ Accessed(c) = itercount[c] + 0
         /\ pneoPhase[c] = "access" =>
              Rounded(c) = itercount[c] + 1 /\ Fired(c) = itercount[c] + 1 /\ Accessed(c) = itercount[c] + 0
         /\ pneoPhase[c] = "wait" =>
              Rounded(c) = itercount[c] + 1 /\ Fired(c) = itercount[c] + 1 /\ Accessed(c) = itercount[c] + 1
BY DEF Rounded, Fired, Accessed

LEMMA NetStagesNext ==
  \A c : /\ pneoPhase'[c] = "compute" =>
              /\ Rounded(c)' = itercount'[c] + 0 /\ Fired(c)' = itercount'[c] + 0
              /\ Accessed(c)' = itercount'[c] + 0
         /\ pneoPhase'[c] = "start" =>
              /\ Rounded(c)' = itercount'[c] + 1 /\ Fired(c)' = itercount'[c] + 0
              /\ Accessed(c)' = itercount'[c] + 0
         /\ pneoPhase'[c] = "access" =>
              /\ Rounded(c)' = itercount'[c] + 1 /\ Fired(c)' = itercount'[c] + 1
              /\ Accessed(c)' = itercount'[c] + 0
         /\ pneoPhase'[c] = "wait" =>
              /\ Rounded(c)' = itercount'[c] + 1 /\ Fired(c)' = itercount'[c] + 1
              /\ Accessed(c)' = itercount'[c] + 1
BY DEF Rounded, Fired, Accessed

(* The numbers that say how far a cell is.                                 *)
LEMMA NetNumbers ==
  ASSUME NetTypes, NEW c \in Pneo!Cell
  PROVE  /\ itercount[c] \in Nat /\ Rounded(c) \in Nat /\ Fired(c) \in Nat /\ Accessed(c) \in Nat
         /\ Rounded(c) \in 0 .. MaxSteps /\ MaxSteps \in Nat /\ Rounded(c) <= itercount[c] + 1
         /\ Accessed(c) <= Fired(c) /\ Accessed(c) <= Rounded(c)
<1>1. /\ itercount[c] \in 0 .. MaxSteps /\ MaxSteps \in Nat /\ Rounded(c) <= MaxSteps
  BY NetTypesAre DEF NetTypes
<1>2. pneoPhase[c] \in {"compute", "start", "access", "wait"}
  BY DEF NetTypes, NetPhases
<1>3. \/ Rounded(c) = itercount[c] + 0 /\ Fired(c) = itercount[c] + 0 /\ Accessed(c) = itercount[c] + 0
      \/ Rounded(c) = itercount[c] + 1 /\ Fired(c) = itercount[c] + 0 /\ Accessed(c) = itercount[c] + 0
      \/ Rounded(c) = itercount[c] + 1 /\ Fired(c) = itercount[c] + 1 /\ Accessed(c) = itercount[c] + 0
      \/ Rounded(c) = itercount[c] + 1 /\ Fired(c) = itercount[c] + 1 /\ Accessed(c) = itercount[c] + 1
  BY <1>2, NetStages
<1>4. QED
  BY <1>1, <1>3

(* The sources and the targets of a cell.                                  *)
LEMMA SourcesTargets ==
  /\ \A c, q : q \in Pneo!Targets(c) => q \in Pneo!Cell
  /\ \A c, p : p \in Pneo!Sources(c) => p \in Pneo!Cell
  /\ \A p \in Pneo!Cell, q \in Pneo!Cell : q \in Pneo!Targets(p) <=> p \in Pneo!Sources(q)
BY DEF Pneo!Sources, Pneo!Targets

(* What a step that concerns cell c leaves alone.                          *)
LEMMA OthersStay ==
  ASSUME NEW c, NEW q \in Pneo!Cell, q # c,
         itercount'[q] = itercount[q], pneoPhase'[q] = pneoPhase[q]
  PROVE  Rounded(q)' = Rounded(q) /\ Fired(q)' = Fired(q) /\ Accessed(q)' = Accessed(q)
BY DEF Rounded, Fired, Accessed

LEMMA CellStays ==
  ASSUME NEW c, CellRight(c), Rounded(c)' = Rounded(c), state'[c] = state[c],
         inarray'[c] = inarray[c], pneoPhase'[c] = "start" <=> pneoPhase[c] = "start"
  PROVE  CellRight(c)'
BY DEF CellRight

LEMMA PairStays ==
  ASSUME NEW p, NEW q, SpikePair(p, q), itercount'[q] = itercount[q], Rounded(q)' = Rounded(q),
         Accessed(p)' = Accessed(p), Fired(p)' = Fired(p), flights'[p][q] = flights[p][q],
         inarray'[q][Pneo!disp(p, q)] = inarray[q][Pneo!disp(p, q)]
  PROVE  SpikePair(p, q)'
<1>1. \A i, r, a, s, f, w : Spikes(p, i, r, a, s, f, w)' = Spikes(p, i, r, a, s, f, w)
  BY DEF Spikes, Fires
<1>2. QED
  BY <1>1 DEF SpikePair

-----------------------------------------------------------------------------
(* pneo_pscw starts with no spike in sight.                                *)
LEMMA SpikesStart ==
  ASSUME Pneo!Pscw!Init
  PROVE  SpikesRight
<1>1. /\ state = [c \in Pneo!Cell |-> Pneo!FirstState(c)]
      /\ itercount = [c \in Pneo!Cell |-> 0]
      /\ pneoPhase = [c \in Pneo!Cell |-> "compute"]
      /\ inarray = [c \in Pneo!Cell |-> [n \in 0 .. Pneo!inarray_count(c) - 1 |-> 0]]
      /\ flights = [p \in Pneo!Cell |-> [q \in Pneo!Cell |-> <<>>]]
  BY PscwNet DEF Pneo!Pscw!Init, Pneo!Pscw!NetInit
<1>2. /\ MaxSteps \in Nat /\ \A c \in Pneo!Cell : Pneo!FirstState(c) \in Nat
  BY NetTypesAre
<1>3. ASSUME NEW c \in Pneo!Cell
      PROVE  Rounded(c) = 0 /\ Fired(c) = 0 /\ Accessed(c) = 0
  <2>1. pneoPhase[c] = "compute" /\ itercount[c] = 0
    BY <1>1
  <2>2. Rounded(c) = itercount[c] + 0 /\ Fired(c) = itercount[c] + 0 /\ Accessed(c) = itercount[c] + 0
    BY <2>1, NetStages
  <2>3. QED
    BY <2>1, <2>2
<1>4. NetTypes
  <2>1. NetPhases
    BY <1>1 DEF NetPhases
  <2>2. itercount \in [Pneo!Cell -> 0 .. MaxSteps] /\ state \in [Pneo!Cell -> Nat]
    BY <1>1, <1>2
  <2>3. /\ DOMAIN inarray = Pneo!Cell /\ DOMAIN flights = Pneo!Cell
        /\ \A p \in Pneo!Cell : Rounded(p) <= MaxSteps
        /\ \A p \in Pneo!Cell : DOMAIN flights[p] = Pneo!Cell
        /\ \A p, q \in Pneo!Cell : flights[p][q] = <<>>
    BY <1>1, <1>2, <1>3
  <2>4. QED
    BY <2>1, <2>2, <2>3, EmptyQueue DEF NetTypes
<1>5. ASSUME NEW c \in Pneo!Cell
      PROVE  CellRight(c)
  <2>1. pneoPhase[c] # "start" /\ state[c] = Pneo!FirstState(c)
    BY <1>1
  <2>2. Pneo!Network[0][c] = Pneo!FirstState(c)
    BY NetworkIs
  <2>3. Pneo!CellAt("any", 0, c) = Pneo!FirstState(c)
    BY <2>2 DEF Pneo!CellAt, Pneo!Rested
  <2>4. /\ DOMAIN inarray[c] = 0 .. Pneo!inarray_count(c) - 1
        /\ \A n \in DOMAIN inarray[c] : inarray[c][n] # 1
    BY <1>1
  <2>5. QED
    BY <1>3, <2>1, <2>3, <2>4 DEF CellRight
<1>6. ASSUME NEW q \in Pneo!Cell, NEW p \in Pneo!Sources(q)
      PROVE  SpikePair(p, q)
  <2>1. p \in Pneo!Cell /\ flights[p][q] = <<>> /\ Len(flights[p][q]) = 0
    BY <1>1, SourcesTargets, EmptyQueue
  <2>2. inarray[q][Pneo!disp(p, q)] = 0
    BY <1>1, Places
  <2>3. /\ itercount[q] = 0 /\ Rounded(q) = 0 /\ Accessed(p) = 0 /\ Fired(p) = 0
    BY <1>1, <1>3, <2>1
  <2>4. ~Fires(p, 0)
    BY DEF Fires
  <2>5. \A f : Len(f) = 0 => Spikes(p, 0, 0, 0, 0, f, 0)
    BY <2>4 DEF Spikes
  <2>6. QED
    BY <2>1, <2>2, <2>3, <2>5 DEF SpikePair
<1>7. QED
  BY <1>4, <1>5, <1>6 DEF SpikesRight

(* compute_state: the cell goes from round to round with the spikes of the *)
(* round before, which are all there.                                      *)
LEMMA SpikesComputed ==
  ASSUME SpikesRight, NEW c \in Pneo!Cell, Pneo!Pscw!ComputeState(c)
  PROVE  SpikesRight' /\ NetMoves(c) /\ NetQuiet
<1> DEFINE k == itercount[c]
<1>1. /\ pneoPhase[c] = "compute" /\ k < MaxSteps
      /\ state' = [state EXCEPT ![c] = @ + Pneo!Pscw!num_incoming(c) + 1]
      /\ inarray' = [inarray EXCEPT ![c] = [n \in DOMAIN @ |-> 0]]
      /\ pneoPhase' = [pneoPhase EXCEPT ![c] = "start"]
      /\ UNCHANGED <<itercount, flights>>
  BY DEF Pneo!Pscw!ComputeState, Pneo!Pscw!MoreToDo
<1>2. /\ NetTypes /\ CellRight(c) /\ \A q \in Pneo!Cell : CellRight(q)
      /\ \A q \in Pneo!Cell : \A p \in Pneo!Sources(q) : SpikePair(p, q)
  BY DEF SpikesRight
<1>3. NetPhases /\ DOMAIN inarray = Pneo!Cell /\ state \in [Pneo!Cell -> Nat]
  BY <1>2 DEF NetTypes
<1>4. /\ pneoPhase'[c] = "start" /\ inarray'[c] = [n \in DOMAIN inarray[c] |-> 0]
      /\ \A q \in Pneo!Cell : q # c => pneoPhase'[q] = pneoPhase[q] /\ inarray'[q] = inarray[q]
  BY <1>1, <1>3 DEF NetPhases
<1>5. /\ Rounded(c) = k + 0 /\ Fired(c) = k + 0 /\ Accessed(c) = k + 0
      /\ Rounded(c)' = k + 1 /\ Fired(c)' = k + 0 /\ Accessed(c)' = k + 0
  BY <1>1, <1>4, NetStages, NetStagesNext
<1>6. k \in Nat /\ MaxSteps \in Nat
  BY <1>2, NetNumbers
<1> HIDE DEF k
<1>7. /\ Rounded(c) = k /\ Rounded(c)' = k + 1
      /\ Fired(c)' = Fired(c) /\ Accessed(c)' = Accessed(c)
      /\ k \in 0 .. MaxSteps - 1
  BY <1>1, <1>5, <1>6 DEF k
<1>8. \A q \in Pneo!Cell : q # c => /\ Rounded(q)' = Rounded(q) /\ Fired(q)' = Fired(q)
                                    /\ Accessed(q)' = Accessed(q)
  BY <1>1, <1>4, OthersStay
<1>9. ASSUME NEW p \in Pneo!Sources(c)
      PROVE  /\ inarray[c][Pneo!disp(p, c)] = 1 <=> Fires(p, k)
             /\ SpikePair(p, c)'
             /\ Rounded(p) >= k
  <2>1. p \in Pneo!Cell
    BY SourcesTargets
  <2>2. Spikes(p, k, k, Accessed(p), Fired(p), flights[p][c], inarray[c][Pneo!disp(p, c)])
    BY <1>2, <1>7 DEF SpikePair, k
  <2>3. /\ Accessed(p) \in Nat /\ Fired(p) \in Nat /\ Accessed(p) <= Fired(p)
        /\ Accessed(p) <= Rounded(p) /\ Rounded(p) \in Nat
    BY <1>2, <2>1, NetNumbers
  <2>4. IsSeq(flights[p][c])
    BY <1>2, <2>1 DEF NetTypes
  <2>5. /\ inarray[c][Pneo!disp(p, c)] = 1 <=> Fires(p, k)
        /\ Spikes(p, k, k + 1, Accessed(p), Fired(p), flights[p][c], 0)
    BY <1>6, <2>2, <2>3, <2>4, SpikesRead
  <2>6. Accessed(p)' = Accessed(p) /\ Fired(p)' = Fired(p)
    BY <1>7, <1>8, <2>1
  <2>7. inarray'[c][Pneo!disp(p, c)] = 0
    BY <1>2, <1>4, Places DEF CellRight
  <2>8. Spikes(p, k, k + 1, Accessed(p), Fired(p), flights[p][c], 0)'
          = Spikes(p, k, k + 1, Accessed(p), Fired(p), flights[p][c], 0)
    BY <1>1, <2>6 DEF Spikes, Fires, k
  <2>9. SpikePair(p, c)'
    BY <1>1, <1>7, <2>5, <2>6, <2>7, <2>8 DEF SpikePair, k
  <2>10. Rounded(p) >= k
    <3>1. k <= Accessed(p)
      BY <2>2 DEF Spikes
    <3>2. QED
      BY <1>6, <2>3, <3>1
  <2>11. QED
    BY <2>5, <2>9, <2>10
<1>10. CellRight(c)' /\ state'[c] \in Nat
  <2> DEFINE S == {p \in Pneo!Sources(c) : inarray[c][Pneo!disp(p, c)] = 1}
  <2>1. S = {p \in Pneo!Sources(c) : Fires(p, k)}
    BY <1>9
  <2>2. Pneo!Pscw!num_incoming(c) = Cardinality(S) /\ Cardinality(S) \in Nat
    BY <1>2, SpikesCounted DEF CellRight
  <2> HIDE DEF S
  <2>3. state[c] = Pneo!CellAt("any", k, c)
    BY <1>1, <1>2, <1>7 DEF CellRight
  <2>4. state'[c] = state[c] + Cardinality(S) + 1 /\ state[c] \in Nat
    BY <1>1, <1>3, <2>2
  <2>5. Pneo!Network[k + 1][c] = state'[c]
    BY <1>7, <2>1, <2>3, <2>4, NetworkRound
  <2>6. /\ DOMAIN inarray'[c] = 0 .. Pneo!inarray_count(c) - 1
        /\ \A n \in DOMAIN inarray'[c] : inarray'[c][n] # 1
    BY <1>2, <1>4 DEF CellRight
  <2>7. QED
    BY <1>4, <1>7, <2>2, <2>4, <2>5, <2>6 DEF CellRight
<1>11. ASSUME NEW q \in Pneo!Cell
       PROVE  CellRight(q)'
  <2>1. CASE q = c
    BY <1>10, <2>1
  <2>2. CASE q # c
    <3>1. state'[q] = state[q] /\ inarray'[q] = inarray[q] /\ Rounded(q)' = Rounded(q)
          /\ pneoPhase'[q] = pneoPhase[q]
      BY <1>1, <1>3, <1>4, <1>8, <2>2
    <3>2. QED
      BY <1>2, <3>1, CellStays
  <2>3. QED
    BY <2>1, <2>2
<1>12. ASSUME NEW q \in Pneo!Cell, NEW p \in Pneo!Sources(q)
       PROVE  SpikePair(p, q)'
  <2>1. CASE q = c
    BY <1>9, <2>1
  <2>2. CASE q # c
    <3>1. p \in Pneo!Cell /\ SpikePair(p, q)
      BY <1>2, SourcesTargets
    <3>2. Accessed(p)' = Accessed(p) /\ Fired(p)' = Fired(p)
      BY <1>7, <1>8, <3>1
    <3>3. itercount'[q] = itercount[q] /\ Rounded(q)' = Rounded(q) /\ inarray'[q] = inarray[q]
          /\ flights'[p][q] = flights[p][q]
      BY <1>1, <1>4, <1>8, <2>2
    <3>4. QED
      BY <3>1, <3>2, <3>3, PairStays
  <2>3. QED
    BY <2>1, <2>2
<1>13. NetTypes'
  <2>1. NetPhases'
    BY <1>1, <1>3 DEF NetPhases
  <2>2. \A p \in Pneo!Cell : Rounded(p)' <= MaxSteps
    BY <1>2, <1>6, <1>7, <1>8 DEF NetTypes
  <2>3. state' \in [Pneo!Cell -> Nat] /\ DOMAIN inarray' = Pneo!Cell
    BY <1>1, <1>3, <1>10
  <2>4. QED
    BY <1>1, <1>2, <2>1, <2>2, <2>3 DEF NetTypes
<1>14. NetMoves(c)
  <2>1. \A p \in Pneo!Cell : Rounded(p)' = Rounded(p) + (IF p = c THEN 1 ELSE 0)
    <3>1. \A p \in Pneo!Cell : Rounded(p) \in Nat
      BY <1>2, NetNumbers
    <3>2. QED
      BY <1>7, <1>8, <3>1
  <2>2. QED
    BY <1>6, <1>7, <1>9, <2>1 DEF NetMoves
<1>15. NetQuiet
  <2>1. "start" # "compute"
    OBVIOUS
  <2>2. QED
    BY <1>1, <1>4, <2>1 DEF NetQuiet
<1>16. QED
  BY <1>11, <1>12, <1>13, <1>14, <1>15 DEF SpikesRight

(* The spikes are sent, one to each target, if the cell is ready.          *)
LEMMA SpikesSent ==
  ASSUME SpikesRight, NEW c \in Pneo!Cell, Pneo!Pscw!Fire(c)
  PROVE  SpikesRight' /\ NetStays /\ NetQuiet
<1> DEFINE k == itercount[c]
           Ready == Fires(c, k + 1)
<1>1. /\ pneoPhase[c] = "start"
      /\ flights' = [flights EXCEPT ![c] = [q \in Pneo!Cell |->
                       IF state[c] > 4 /\ q \in Pneo!Targets(c)
                         THEN Append(@[q], itercount[c] + 1) ELSE @[q]]]
      /\ state' = [state EXCEPT ![c] = IF state[c] > 4 THEN 0 ELSE state[c]]
      /\ pneoPhase' = [pneoPhase EXCEPT ![c] = "access"]
      /\ UNCHANGED <<itercount, inarray>>
  BY PscwNet DEF Pneo!Pscw!Fire, Pneo!Pscw!ready_to_fire, Pneo!Pscw!StateAfterFiring
<1>2. /\ NetTypes /\ CellRight(c) /\ \A q \in Pneo!Cell : CellRight(q)
      /\ \A q \in Pneo!Cell : \A p \in Pneo!Sources(q) : SpikePair(p, q)
  BY DEF SpikesRight
<1>3. /\ NetPhases /\ DOMAIN flights = Pneo!Cell /\ state \in [Pneo!Cell -> Nat]
      /\ \A p \in Pneo!Cell : DOMAIN flights[p] = Pneo!Cell
      /\ \A p, q \in Pneo!Cell : IsSeq(flights[p][q])
  BY <1>2 DEF NetTypes
<1>4. /\ pneoPhase'[c] = "access"
      /\ \A q \in Pneo!Cell : q # c => pneoPhase'[q] = pneoPhase[q]
  BY <1>1, <1>3 DEF NetPhases
<1>5. /\ Rounded(c) = k + 1 /\ Fired(c) = k + 0 /\ Accessed(c) = k + 0
      /\ Rounded(c)' = k + 1 /\ Fired(c)' = k + 1 /\ Accessed(c)' = k + 0
  BY <1>1, <1>4, NetStages, NetStagesNext
<1>6. k \in Nat
  BY <1>2, NetNumbers
<1>7. /\ state[c] = Pneo!Network[k + 1][c] /\ state[c] \in Nat
  BY <1>1, <1>2, <1>3, <1>5 DEF CellRight
<1>8. Ready <=> state[c] > 4
  BY <1>6, <1>7 DEF Fires
<1> HIDE DEF k, Ready
<1>9. /\ Rounded(c)' = Rounded(c) /\ Accessed(c)' = Accessed(c)
      /\ Fired(c) = k /\ Accessed(c) = k /\ Fired(c)' = k + 1
  BY <1>5, <1>6
<1>10. \A q \in Pneo!Cell : q # c => /\ Rounded(q)' = Rounded(q) /\ Fired(q)' = Fired(q)
                                     /\ Accessed(q)' = Accessed(q)
  BY <1>1, <1>4, OthersStay
<1>11. /\ DOMAIN flights' = Pneo!Cell /\ DOMAIN flights'[c] = Pneo!Cell
       /\ \A p \in Pneo!Cell : p # c => flights'[p] = flights[p]
       /\ \A q \in Pneo!Cell : flights'[c][q] = IF Ready /\ q \in Pneo!Targets(c)
                                                  THEN Append(flights[c][q], k + 1) ELSE flights[c][q]
  BY <1>1, <1>3, <1>8 DEF k
<1>12. ASSUME NEW q \in Pneo!Cell
       PROVE  /\ IsSeq(flights'[c][q])
              /\ q \in Pneo!Targets(c) => SpikePair(c, q)'
  <2>1. CASE q \notin Pneo!Targets(c)
    BY <1>3, <1>11, <2>1
  <2>2. CASE q \in Pneo!Targets(c)
    <3>1. SpikePair(c, q)
      BY <1>2, <2>2, SourcesTargets
    <3>2. Spikes(c, itercount[q], Rounded(q), k, k, flights[c][q], inarray[q][Pneo!disp(c, q)])
      BY <1>9, <3>1 DEF SpikePair
    <3>3. flights'[c][q] = IF Fires(c, k + 1) THEN Append(flights[c][q], k + 1) ELSE flights[c][q]
      BY <1>11, <2>2 DEF Ready
    <3>4. itercount[q] \in Nat /\ Rounded(q) \in Nat /\ IsSeq(flights[c][q])
      BY <1>2, <1>3, NetNumbers
    <3>5. /\ IsSeq(flights'[c][q])
          /\ Spikes(c, itercount[q], Rounded(q), k, k + 1, flights'[c][q], inarray[q][Pneo!disp(c, q)])
      BY <1>6, <3>2, <3>3, <3>4, SpikesFired
    <3>6. \A i, r, a, s, f, w : Spikes(c, i, r, a, s, f, w)' = Spikes(c, i, r, a, s, f, w)
      BY DEF Spikes, Fires
    <3>7. Rounded(q)' = Rounded(q) /\ Accessed(c)' = k /\ Fired(c)' = k + 1
      BY <1>9, <1>10
    <3>8. SpikePair(c, q)'
      BY <1>1, <3>5, <3>6, <3>7 DEF SpikePair
    <3>9. QED
      BY <3>5, <3>8
  <2>3. QED
    BY <2>1, <2>2
<1>13. ASSUME NEW q \in Pneo!Cell, NEW p \in Pneo!Sources(q)
       PROVE  SpikePair(p, q)'
  <2>1. p \in Pneo!Cell /\ SpikePair(p, q)
    BY <1>2, SourcesTargets
  <2>2. CASE p = c
    BY <1>12, <2>1, <2>2, SourcesTargets
  <2>3. CASE p # c
    <3>1. /\ Accessed(p)' = Accessed(p) /\ Fired(p)' = Fired(p) /\ Rounded(q)' = Rounded(q)
          /\ flights'[p][q] = flights[p][q] /\ itercount'[q] = itercount[q]
          /\ inarray'[q] = inarray[q]
      BY <1>1, <1>9, <1>10, <1>11, <2>1, <2>3
    <3>2. QED
      BY <2>1, <3>1, PairStays
  <2>4. QED
    BY <2>2, <2>3
<1>14. ASSUME NEW q \in Pneo!Cell
       PROVE  CellRight(q)'
  <2>1. CASE q = c
    <3>1. state'[c] = IF state[c] > 4 THEN 0 ELSE state[c]
      BY <1>1, <1>3
    <3>2. k + 1 > 0
      BY <1>6
    <3>3. state'[c] = Pneo!CellAt("any", k + 1, c)
      BY <1>7, <3>1, <3>2 DEF Pneo!CellAt, Pneo!Rested
    <3>4. Rounded(c)' = k + 1 /\ inarray'[c] = inarray[c] /\ pneoPhase'[c] # "start"
      BY <1>1, <1>4, <1>5
    <3>5. QED
      BY <1>2, <2>1, <3>3, <3>4 DEF CellRight
  <2>2. CASE q # c
    <3>1. state'[q] = state[q] /\ inarray'[q] = inarray[q] /\ Rounded(q)' = Rounded(q)
          /\ pneoPhase'[q] = pneoPhase[q]
      BY <1>1, <1>3, <1>4, <1>10, <2>2
    <3>2. QED
      BY <1>2, <3>1, CellStays
  <2>3. QED
    BY <2>1, <2>2
<1>15. NetTypes'
  <2>1. NetPhases'
    BY <1>1, <1>3 DEF NetPhases
  <2>2. \A p \in Pneo!Cell : Rounded(p)' <= MaxSteps
    BY <1>2, <1>9, <1>10 DEF NetTypes
  <2>3. state' \in [Pneo!Cell -> Nat]
    BY <1>1, <1>3
  <2>4. \A p \in Pneo!Cell : DOMAIN flights'[p] = Pneo!Cell
                             /\ \A q \in Pneo!Cell : IsSeq(flights'[p][q])
    BY <1>3, <1>11, <1>12
  <2>5. QED
    BY <1>1, <1>2, <1>11, <2>1, <2>2, <2>3, <2>4 DEF NetTypes
<1>16. NetStays /\ NetQuiet
  BY <1>1, <1>9, <1>10 DEF NetStays, NetQuiet
<1>17. QED
  BY <1>13, <1>14, <1>15, <1>16 DEF SpikesRight

(* A spike reaches a window, which is open for it and for nothing else.    *)
LEMMA SpikesArrive ==
  ASSUME SpikesRight, NEW c \in Pneo!Cell, NEW q \in Pneo!Cell, c \in Pneo!Sources(q),
         Pneo!Pscw!Store(c, q)
  PROVE  SpikesRight' /\ NetStays /\ NetQuiet
<1> DEFINE d == Pneo!disp(c, q)
<1>1. /\ flights[c][q] # <<>> /\ Pneo!Pscw!Exposures(q) >= Head(flights[c][q])
      /\ inarray' = [inarray EXCEPT ![q][d] = 1]
      /\ flights' = [flights EXCEPT ![c][q] = Tail(@)]
      /\ UNCHANGED <<state, itercount, pneoPhase>>
  BY PscwNet DEF Pneo!Pscw!Store, Pneo!Pscw!StoreSpike
<1>2. /\ NetTypes /\ \A p \in Pneo!Cell : CellRight(p)
      /\ \A s \in Pneo!Cell : \A p \in Pneo!Sources(s) : SpikePair(p, s)
  BY DEF SpikesRight
<1>3. /\ DOMAIN flights = Pneo!Cell /\ DOMAIN inarray = Pneo!Cell
      /\ \A p \in Pneo!Cell : DOMAIN flights[p] = Pneo!Cell
      /\ \A p, s \in Pneo!Cell : IsSeq(flights[p][s])
      /\ DOMAIN inarray[q] = 0 .. Pneo!inarray_count(q) - 1
  BY <1>2 DEF NetTypes, CellRight
<1>4. d \in DOMAIN inarray[q] /\ \A s \in Pneo!Sources(q) : Pneo!disp(s, q) = d => s = c
  BY <1>3, Places
<1> HIDE DEF d
<1>5. \A s : /\ Rounded(s)' = Rounded(s) /\ Fired(s)' = Fired(s) /\ Accessed(s)' = Accessed(s)
  BY <1>1 DEF Rounded, Fired, Accessed
<1>6. /\ DOMAIN inarray' = Pneo!Cell /\ inarray'[q] = [inarray[q] EXCEPT ![d] = 1]
      /\ \A s \in Pneo!Cell : s # q => inarray'[s] = inarray[s]
  BY <1>1, <1>3
<1>7. /\ DOMAIN flights' = Pneo!Cell /\ \A p \in Pneo!Cell : DOMAIN flights'[p] = Pneo!Cell
      /\ flights'[c][q] = Tail(flights[c][q])
      /\ \A p, s \in Pneo!Cell : p # c \/ s # q => flights'[p][s] = flights[p][s]
  BY <1>1, <1>3
<1>8. /\ Rounded(q) = itercount[q] + 1 /\ IsSeq(flights'[c][q])
      /\ Spikes(c, itercount[q], Rounded(q), Accessed(c), Fired(c), Tail(flights[c][q]), 1)
  <2>1. Spikes(c, itercount[q], Rounded(q), Accessed(c), Fired(c), flights[c][q], inarray[q][d])
    BY <1>2 DEF SpikePair, d
  <2>2. Pneo!Pscw!Exposures(q) = Rounded(q)
    BY DEF Pneo!Pscw!Exposures, Rounded
  <2>3. /\ itercount[q] \in Nat /\ Rounded(q) \in Nat /\ Rounded(q) <= itercount[q] + 1
        /\ Accessed(c) \in Nat /\ Fired(c) \in Nat
    BY <1>2, NetNumbers
  <2>4. IsSeq(flights[c][q]) /\ flights[c][q] # <<>> /\ Rounded(q) >= Head(flights[c][q])
    BY <1>1, <1>3, <2>2
  <2>5. /\ Rounded(q) = itercount[q] + 1 /\ IsSeq(Tail(flights[c][q]))
        /\ Spikes(c, itercount[q], Rounded(q), Accessed(c), Fired(c), Tail(flights[c][q]), 1)
    <3> DEFINE f == flights[c][q]
               w == inarray[q][d]
               i == itercount[q]
               r == Rounded(q)
               a == Accessed(c)
               s == Fired(c)
    <3>1. i \in Nat /\ r \in Nat /\ a \in Nat /\ s \in Nat /\ r <= i + 1
      BY <2>3
    <3>2. IsSeq(f) /\ f # <<>> /\ r >= Head(f) /\ Spikes(c, i, r, a, s, f, w)
      BY <2>1, <2>4
    <3> HIDE DEF f, w, i, r, a, s
    <3>3. r = i + 1 /\ Spikes(c, i, r, a, s, Tail(f), 1) /\ IsSeq(Tail(f))
      BY <3>1, <3>2, SpikesStored
    <3>4. QED
      BY <3>3 DEF f, i, r, a, s
  <2>6. QED
    BY <1>7, <2>5
<1>9. pneoPhase[q] # "compute"
  <2>1. itercount[q] \in Nat
    BY <1>2, NetNumbers
  <2>2. pneoPhase[q] = "compute" => Rounded(q) = itercount[q] + 0
    BY NetStages
  <2>3. QED
    BY <1>8, <2>1, <2>2
<1>10. ASSUME NEW s \in Pneo!Cell, NEW p \in Pneo!Sources(s)
       PROVE  SpikePair(p, s)'
  <2>1. p \in Pneo!Cell /\ SpikePair(p, s)
    BY <1>2, SourcesTargets
  <2>2. CASE p = c /\ s = q
    <3>1. inarray'[q][d] = 1 /\ flights'[c][q] = Tail(flights[c][q])
      BY <1>4, <1>6, <1>7
    <3>2. \A i, r, a, x, f, w : Spikes(c, i, r, a, x, f, w)' = Spikes(c, i, r, a, x, f, w)
      BY DEF Spikes, Fires
    <3>3. SpikePair(c, q)'
      BY <1>1, <1>5, <1>8, <3>1, <3>2 DEF SpikePair, d
    <3>4. QED
      BY <2>2, <3>3
  <2>3. CASE p # c \/ s # q
    <3>1. inarray'[s][Pneo!disp(p, s)] = inarray[s][Pneo!disp(p, s)]
      <4>1. CASE s # q
        BY <1>6, <4>1
      <4>2. CASE s = q
        <5>1. Pneo!disp(p, q) # d /\ Pneo!disp(p, q) \in DOMAIN inarray[q]
          BY <1>3, <1>4, <2>3, <4>2, Places
        <5>2. QED
          BY <1>6, <4>2, <5>1
      <4>3. QED
        BY <4>1, <4>2
    <3>2. flights'[p][s] = flights[p][s] /\ itercount'[s] = itercount[s]
      BY <1>1, <1>7, <2>1, <2>3
    <3>3. QED
      BY <1>5, <2>1, <3>1, <3>2, PairStays
  <2>4. QED
    BY <2>2, <2>3
<1>11. ASSUME NEW s \in Pneo!Cell
       PROVE  CellRight(s)'
  <2>1. CASE s = q
    <3>1. /\ DOMAIN inarray'[q] = DOMAIN inarray[q]
          /\ \A n \in DOMAIN inarray[q] : n # d => inarray'[q][n] = inarray[q][n]
      BY <1>6
    <3>2. \A n \in DOMAIN inarray'[q] : inarray'[q][n] = 1 => \E p \in Pneo!Sources(q) : n = Pneo!disp(p, q)
      BY <1>2, <3>1 DEF CellRight, d
    <3>3. QED
      BY <1>1, <1>2, <1>5, <2>1, <3>1, <3>2 DEF CellRight
  <2>2. CASE s # q
    BY <1>1, <1>2, <1>5, <1>6, <2>2, CellStays
  <2>3. QED
    BY <2>1, <2>2
<1>12. NetTypes'
  <2>1. NetPhases'
    BY <1>1, <1>2 DEF NetTypes, NetPhases
  <2>2. \A p \in Pneo!Cell : /\ DOMAIN flights'[p] = Pneo!Cell /\ Rounded(p)' <= MaxSteps
                             /\ \A s \in Pneo!Cell : IsSeq(flights'[p][s])
    <3>1. ASSUME NEW p \in Pneo!Cell, NEW s \in Pneo!Cell
          PROVE  IsSeq(flights'[p][s])
      BY <1>3, <1>7, <1>8
    <3>2. QED
      BY <1>2, <1>5, <1>7, <3>1 DEF NetTypes
  <2>3. QED
    BY <1>1, <1>2, <1>6, <1>7, <2>1, <2>2 DEF NetTypes
<1>13. NetStays /\ NetQuiet
  BY <1>5, <1>6, <1>9 DEF NetStays, NetQuiet
<1>14. QED
  BY <1>10, <1>11, <1>12, <1>13 DEF SpikesRight

(* MPI_Win_complete returns.                                               *)
LEMMA AccessCompleted ==
  ASSUME SpikesRight, NEW c \in Pneo!Cell, Pneo!Pscw!Complete(c)
  PROVE  SpikesRight' /\ NetStays /\ NetQuiet
<1>1. /\ pneoPhase[c] = "access" /\ pneoPhase' = [pneoPhase EXCEPT ![c] = "wait"]
      /\ UNCHANGED <<state, itercount, inarray, flights>>
  BY DEF Pneo!Pscw!Complete
<1>2. /\ NetTypes /\ \A q \in Pneo!Cell : CellRight(q)
      /\ \A q \in Pneo!Cell : \A p \in Pneo!Sources(q) : SpikePair(p, q)
  BY DEF SpikesRight
<1>3. /\ NetPhases /\ pneoPhase'[c] = "wait"
      /\ \A q \in Pneo!Cell : q # c => pneoPhase'[q] = pneoPhase[q]
  BY <1>1, <1>2 DEF NetTypes, NetPhases
<1>4. /\ Rounded(c) = itercount[c] + 1 /\ Fired(c) = itercount[c] + 1
      /\ Accessed(c) = itercount[c] + 0 /\ Rounded(c)' = itercount[c] + 1
      /\ Fired(c)' = itercount[c] + 1 /\ Accessed(c)' = itercount[c] + 1
  BY <1>1, <1>3, NetStages, NetStagesNext
<1>5. itercount[c] \in Nat
  BY <1>2, NetNumbers
<1>6. Rounded(c)' = Rounded(c) /\ Fired(c)' = Fired(c) /\ Accessed(c)' = Accessed(c) + 1
  BY <1>4, <1>5
<1>7. \A q \in Pneo!Cell : q # c => /\ Rounded(q)' = Rounded(q) /\ Fired(q)' = Fired(q)
                                    /\ Accessed(q)' = Accessed(q)
  BY <1>1, <1>3, OthersStay
<1>8. ASSUME NEW q \in Pneo!Cell, NEW p \in Pneo!Sources(q)
      PROVE  SpikePair(p, q)'
  <2>1. p \in Pneo!Cell /\ SpikePair(p, q)
    BY <1>2, SourcesTargets
  <2>2. CASE p = c
    <3>1. itercount[q] \in Nat /\ Accessed(c) \in Nat
      BY <1>2, NetNumbers
    <3>2. Spikes(c, itercount[q], Rounded(q), Accessed(c) + 1, Fired(c), flights[c][q],
                 inarray[q][Pneo!disp(c, q)])
      BY <2>1, <2>2, <3>1, SpikesAccessed DEF SpikePair
    <3>3. \A i, r, a, x, f, w : Spikes(c, i, r, a, x, f, w)' = Spikes(c, i, r, a, x, f, w)
      BY DEF Spikes, Fires
    <3>4. Rounded(q)' = Rounded(q)
      BY <1>6, <1>7
    <3>5. QED
      BY <1>1, <1>6, <2>2, <3>2, <3>3, <3>4 DEF SpikePair
  <2>3. CASE p # c
    <3>1. Rounded(q)' = Rounded(q) /\ Accessed(p)' = Accessed(p) /\ Fired(p)' = Fired(p)
      BY <1>6, <1>7, <2>1, <2>3
    <3>2. QED
      BY <1>1, <2>1, <3>1, PairStays
  <2>4. QED
    BY <2>2, <2>3
<1>9. ASSUME NEW q \in Pneo!Cell
      PROVE  CellRight(q)'
  <2>1. Rounded(q)' = Rounded(q)
    BY <1>6, <1>7
  <2>2. pneoPhase'[q] = "start" <=> pneoPhase[q] = "start"
    BY <1>1, <1>3
  <2>3. QED
    BY <1>1, <1>2, <2>1, <2>2, CellStays
<1>10. NetTypes'
  <2>1. NetPhases'
    BY <1>1, <1>3 DEF NetPhases
  <2>2. \A p \in Pneo!Cell : Rounded(p)' <= MaxSteps
    BY <1>2, <1>6, <1>7 DEF NetTypes
  <2>3. QED
    BY <1>1, <1>2, <2>1, <2>2 DEF NetTypes
<1>11. NetStays /\ NetQuiet
  BY <1>1, <1>6, <1>7 DEF NetStays, NetQuiet
<1>12. QED
  BY <1>8, <1>9, <1>10, <1>11 DEF SpikesRight

(* MPI_Win_wait returns, and the next iteration begins.                    *)
LEMMA EpochAwaited ==
  ASSUME SpikesRight, NEW c \in Pneo!Cell, Pneo!Pscw!EndIteration(c)
  PROVE  SpikesRight' /\ NetStays /\ NetQuiet
<1>1. /\ pneoPhase[c] = "wait" /\ pneoPhase' = [pneoPhase EXCEPT ![c] = "compute"]
      /\ itercount' = [itercount EXCEPT ![c] = @ + 1]
      /\ UNCHANGED <<state, inarray, flights>>
      /\ \A p \in Pneo!Sources(c) :
           /\ Pneo!Pscw!Completions(p) >= itercount[c] + 1
           /\ \A n \in 1 .. Len(flights[p][c]) : flights[p][c][n] > itercount[c] + 1
  BY PscwNet DEF Pneo!Pscw!EndIteration, Pneo!Pscw!Waited
<1>2. /\ NetTypes /\ \A q \in Pneo!Cell : CellRight(q)
      /\ \A q \in Pneo!Cell : \A p \in Pneo!Sources(q) : SpikePair(p, q)
  BY DEF SpikesRight
<1>3. /\ NetPhases /\ itercount \in [Pneo!Cell -> 0 .. MaxSteps]
  BY <1>2 DEF NetTypes
<1>4. /\ pneoPhase'[c] = "compute" /\ itercount'[c] = itercount[c] + 1
      /\ \A q \in Pneo!Cell : q # c => pneoPhase'[q] = pneoPhase[q] /\ itercount'[q] = itercount[q]
  BY <1>1, <1>3 DEF NetPhases
<1>5. /\ Rounded(c) = itercount[c] + 1 /\ Fired(c) = itercount[c] + 1
      /\ Accessed(c) = itercount[c] + 1 /\ Rounded(c)' = itercount'[c] + 0
      /\ Fired(c)' = itercount'[c] + 0 /\ Accessed(c)' = itercount'[c] + 0
  BY <1>1, <1>4, NetStages, NetStagesNext
<1>6. /\ itercount[c] \in Nat /\ MaxSteps \in Nat /\ Rounded(c) <= MaxSteps
  BY <1>2, NetNumbers DEF NetTypes
<1>7. Rounded(c)' = Rounded(c) /\ Fired(c)' = Fired(c) /\ Accessed(c)' = Accessed(c)
  BY <1>4, <1>5, <1>6
<1>8. \A q \in Pneo!Cell : /\ Rounded(q)' = Rounded(q) /\ Fired(q)' = Fired(q)
                           /\ Accessed(q)' = Accessed(q)
  BY <1>4, <1>7, OthersStay
<1>9. ASSUME NEW q \in Pneo!Cell, NEW p \in Pneo!Sources(q)
      PROVE  SpikePair(p, q)'
  <2>1. p \in Pneo!Cell /\ SpikePair(p, q)
    BY <1>2, SourcesTargets
  <2>2. CASE q = c
    <3>1. /\ Accessed(p) >= itercount[c] + 1
          /\ \A n \in 1 .. Len(flights[p][c]) : flights[p][c][n] > itercount[c] + 1
      BY <1>1, <2>2 DEF Pneo!Pscw!Completions, Accessed
    <3>2. Accessed(p) \in Nat /\ Fired(p) \in Nat
      BY <1>2, <2>1, NetNumbers
    <3>3. Spikes(p, itercount[c] + 1, Rounded(c), Accessed(p), Fired(p), flights[p][c],
                 inarray[c][Pneo!disp(p, c)])
      BY <1>6, <2>1, <2>2, <3>1, <3>2, SpikesAwaited DEF SpikePair
    <3>4. \A i, r, a, x, f, w : Spikes(p, i, r, a, x, f, w)' = Spikes(p, i, r, a, x, f, w)
      BY DEF Spikes, Fires
    <3>5. QED
      BY <1>1, <1>4, <1>8, <2>1, <2>2, <3>3, <3>4 DEF SpikePair
  <2>3. CASE q # c
    BY <1>1, <1>4, <1>8, <2>1, <2>3, PairStays
  <2>4. QED
    BY <2>2, <2>3
<1>10. ASSUME NEW q \in Pneo!Cell
       PROVE  CellRight(q)'
  <2>1. pneoPhase'[q] = "start" <=> pneoPhase[q] = "start"
    BY <1>1, <1>4
  <2>2. QED
    BY <1>1, <1>2, <1>8, <2>1, CellStays
<1>11. NetTypes'
  <2>1. NetPhases'
    BY <1>1, <1>3 DEF NetPhases
  <2>2. itercount' \in [Pneo!Cell -> 0 .. MaxSteps]
    BY <1>1, <1>3, <1>5, <1>6
  <2>3. \A p \in Pneo!Cell : Rounded(p)' <= MaxSteps
    BY <1>2, <1>8 DEF NetTypes
  <2>4. QED
    BY <1>1, <1>2, <2>1, <2>2, <2>3 DEF NetTypes
<1>12. NetStays /\ NetQuiet
  BY <1>1, <1>8 DEF NetStays, NetQuiet
<1>13. QED
  BY <1>9, <1>10, <1>11, <1>12 DEF SpikesRight

(* Every step of pneo_pscw.                                                *)
LEMMA SpikesStep ==
  ASSUME SpikesRight, NEW c \in Pneo!Cell, Pneo!Pscw!Step(c)
  PROVE  SpikesRight' /\ (NetStays \/ NetMoves(c)) /\ NetQuiet
<1>1. CASE Pneo!Pscw!ComputeState(c)
  BY <1>1, SpikesComputed
<1>2. CASE Pneo!Pscw!Fire(c)
  BY <1>2, SpikesSent
<1>3. CASE Pneo!Pscw!Complete(c)
  BY <1>3, AccessCompleted
<1>4. CASE Pneo!Pscw!EndIteration(c)
  BY <1>4, EpochAwaited
<1>5. ASSUME NEW q \in Pneo!Pscw!Targets(c), Pneo!Pscw!Store(c, q)
      PROVE  SpikesRight' /\ NetStays /\ NetQuiet
  <2>1. q \in Pneo!Cell /\ c \in Pneo!Sources(q)
    BY PscwNet, SourcesTargets
  <2>2. QED
    BY <1>5, <2>1, SpikesArrive
<1>6. QED
  BY <1>1, <1>2, <1>3, <1>4, <1>5 DEF Pneo!Pscw!Step

-----------------------------------------------------------------------------
(* pneo_fence: how far its cells are, and nothing reaches a window while   *)
(* its cell computes.                                                      *)
LEMMA FenceStages ==
  \A c : /\ pneoPhase[c] = "compute" <=> FenceStage(c) = 0
         /\ pneoPhase[c] = "opening" => FenceStage(c) = 1
         /\ pneoPhase[c] = "closing" => FenceStage(c) = 2
         /\ FenceStage(c) \in 0 .. 2
BY DEF FenceStage

LEMMA FenceStagesNext ==
  \A c : /\ pneoPhase'[c] = "compute" => FenceStage(c)' = 0
         /\ pneoPhase'[c] = "opening" => FenceStage(c)' = 1
         /\ pneoPhase'[c] = "closing" => FenceStage(c)' = 2
         /\ pneoPhase'[c] = pneoPhase[c] => FenceStage(c)' = FenceStage(c)
BY DEF FenceStage

LEMMA FenceNet ==
  /\ Pneo!Fence!Cell = Pneo!Cell
  /\ \A c, q : q \in Pneo!Fence!Targets(c) => q \in Pneo!Cell
BY DEF Pneo!Fence!Cell, Pneo!Cell, Pneo!Fence!Targets

LEMMA FenceSpikesStart ==
  ASSUME Pneo!Fence!Init
  PROVE  FenceSpikes
<1>1. /\ pneoPhase = [c \in Pneo!Cell |-> "compute"] /\ itercount = [c \in Pneo!Cell |-> 0]
      /\ pneoEntered = [c \in Pneo!Cell |-> 0] /\ spikes = [c \in Pneo!Cell |-> {}]
      /\ DOMAIN inarray = Pneo!Cell
  BY FenceNet DEF Pneo!Fence!Init, Pneo!Fence!NetInit
<1>2. \A c \in Pneo!Cell : FenceStage(c) = 0
  BY <1>1, FenceStages
<1>3. FencePhases
  BY <1>1 DEF FencePhases
<1>4. pneoEntered = [c \in Pneo!Cell |-> 2 * itercount[c] + FenceStage(c)]
  BY <1>1, <1>2
<1>5. \A p, q \in Pneo!Cell : /\ 2 * itercount[q] <= pneoEntered[p]
                              /\ q \in spikes[p] => itercount[q] <= itercount[p]
  BY <1>1
<1>6. QED
  BY <1>1, <1>3, <1>4, <1>5 DEF FenceSpikes

(* What cell c changes, and what a step of it has to show.                 *)
LEMMA FenceSpikesKept ==
  ASSUME FenceSpikes, NEW c \in Pneo!Cell, NEW i \in Nat, FencePhases',
         itercount' = [itercount EXCEPT ![c] = i],
         pneoEntered' = [pneoEntered EXCEPT ![c] = 2 * i + FenceStage(c)'],
         \A q \in Pneo!Cell : q # c => FenceStage(q)' = FenceStage(q),
         pneoEntered[c] <= 2 * i + FenceStage(c)', FenceStage(c)' \in 0 .. 2,
         \A q \in Pneo!Cell : 2 * i <= pneoEntered'[q],
         DOMAIN inarray' = Pneo!Cell, DOMAIN spikes' = Pneo!Cell,
         \A p, q \in Pneo!Cell : q \in spikes'[p] => itercount'[q] <= itercount'[p],
         \A p \in Pneo!Cell : spikes'[p] # {} => FenceStage(p)' = 2
  PROVE  FenceSpikes'
<1>1. /\ itercount \in [Pneo!Cell -> Nat]
      /\ pneoEntered = [q \in Pneo!Cell |-> 2 * itercount[q] + FenceStage(q)]
      /\ \A p, q \in Pneo!Cell : 2 * itercount[q] <= pneoEntered[p]
      /\ \A p \in Pneo!Cell : FenceStage(p) \in 0 .. 2
  BY FenceStages DEF FenceSpikes
<1>2. /\ itercount' \in [Pneo!Cell -> Nat] /\ itercount'[c] = i
      /\ \A q \in Pneo!Cell : q # c => itercount'[q] = itercount[q]
  BY <1>1
<1>3. pneoEntered' = [q \in Pneo!Cell |-> 2 * itercount'[q] + FenceStage(q)']
  BY <1>1, <1>2
<1>4. ASSUME NEW p \in Pneo!Cell, NEW q \in Pneo!Cell
      PROVE  2 * itercount'[q] <= pneoEntered'[p]
  <2>1. CASE q = c
    BY <1>2, <2>1
  <2>2. CASE q # c
    <3>1. 2 * itercount[q] <= pneoEntered[p] /\ itercount[q] \in Nat /\ itercount[p] \in Nat
      BY <1>1
    <3>2. pneoEntered[p] \in Nat /\ pneoEntered[p] <= pneoEntered'[p]
      BY <1>1, <3>1
    <3>3. pneoEntered'[p] \in Nat
      <4>1. itercount'[p] \in Nat /\ FenceStage(p)' \in 0 .. 2
        BY <1>1, <1>2
      <4>2. QED
        BY <1>3, <4>1
    <3>4. QED
      BY <1>2, <2>2, <3>1, <3>2, <3>3
  <2>3. QED
    BY <2>1, <2>2
<1>5. QED
  BY <1>2, <1>3, <1>4 DEF FenceSpikes

LEMMA FenceComputes ==
  ASSUME FenceSpikes, NEW c \in Pneo!Cell, Pneo!Fence!ComputeState(c)
  PROVE  FenceSpikes' /\ NetQuiet
<1>1. /\ pneoPhase[c] = "compute" /\ pneoPhase' = [pneoPhase EXCEPT ![c] = "opening"]
      /\ pneoEntered' = [pneoEntered EXCEPT ![c] = @ + 1]
      /\ UNCHANGED <<itercount, inarray, spikes>>
  BY DEF Pneo!Fence!ComputeState, Pneo!Fence!EnterFence
<1>2. /\ FencePhases /\ itercount \in [Pneo!Cell -> Nat]
      /\ pneoEntered = [q \in Pneo!Cell |-> 2 * itercount[q] + FenceStage(q)]
      /\ DOMAIN inarray = Pneo!Cell /\ DOMAIN spikes = Pneo!Cell
      /\ \A p, q \in Pneo!Cell : /\ 2 * itercount[q] <= pneoEntered[p]
                                 /\ q \in spikes[p] => itercount[q] <= itercount[p]
      /\ \A p \in Pneo!Cell : spikes[p] # {} => FenceStage(p) = 2
  BY DEF FenceSpikes
<1>3. /\ FencePhases' /\ pneoPhase'[c] = "opening"
      /\ \A q \in Pneo!Cell : q # c => pneoPhase'[q] = pneoPhase[q]
  BY <1>1, <1>2 DEF FencePhases
<1>4. /\ FenceStage(c) = 0 /\ FenceStage(c)' = 1
      /\ \A q \in Pneo!Cell : q # c => FenceStage(q)' = FenceStage(q)
  BY <1>1, <1>3, FenceStages, FenceStagesNext
<1> DEFINE i == itercount[c]
<1>5. i \in Nat /\ itercount' = [itercount EXCEPT ![c] = i]
  BY <1>1, <1>2
<1>6. /\ pneoEntered[c] = 2 * i + 0
      /\ pneoEntered' = [pneoEntered EXCEPT ![c] = 2 * i + FenceStage(c)']
      /\ pneoEntered[c] <= 2 * i + FenceStage(c)' /\ FenceStage(c)' \in 0 .. 2
  <2>1. pneoEntered[c] = 2 * i + 0
    BY <1>2, <1>4
  <2> HIDE DEF i
  <2>2. pneoEntered[c] + 1 = 2 * i + FenceStage(c)' /\ FenceStage(c)' \in 0 .. 2
    BY <1>4, <1>5, <2>1
  <2>3. pneoEntered' = [pneoEntered EXCEPT ![c] = pneoEntered[c] + 1]
    BY <1>1
  <2>4. pneoEntered[c] <= 2 * i + FenceStage(c)'
    BY <1>4, <1>5, <2>1
  <2>5. QED
    BY <2>1, <2>2, <2>3, <2>4
<1>7. \A q \in Pneo!Cell : 2 * i <= pneoEntered'[q]
  <2>1. \A q \in Pneo!Cell : 2 * i <= pneoEntered[q] /\ (q # c => pneoEntered'[q] = pneoEntered[q])
    BY <1>2, <1>6
  <2>2. pneoEntered'[c] = 2 * i + 1
    BY <1>2, <1>4, <1>6
  <2>3. QED
    BY <1>5, <2>1, <2>2
<1>8. \A p \in Pneo!Cell : spikes'[p] # {} => FenceStage(p)' = 2
  BY <1>1, <1>2, <1>4
<1>9. /\ DOMAIN inarray' = Pneo!Cell /\ DOMAIN spikes' = Pneo!Cell
      /\ \A p, q \in Pneo!Cell : q \in spikes'[p] => itercount'[q] <= itercount'[p]
  BY <1>1, <1>2
<1> HIDE DEF i
<1>10. FenceSpikes'
  BY <1>3, <1>4, <1>5, <1>6, <1>7, <1>8, <1>9, FenceSpikesKept
<1>11. QED
  BY <1>1, <1>10 DEF NetQuiet

LEMMA FenceFires ==
  ASSUME FenceSpikes, NEW c \in Pneo!Cell, Pneo!Fence!Fire(c)
  PROVE  FenceSpikes' /\ NetQuiet
<1>1. /\ pneoPhase[c] = "opening" /\ pneoPhase' = [pneoPhase EXCEPT ![c] = "closing"]
      /\ pneoEntered' = [pneoEntered EXCEPT ![c] = @ + 1]
      /\ pneoEntered[c] = 1 \/ \A q \in Pneo!Cell : pneoEntered[q] >= pneoEntered[c]
      /\ \E S : spikes' = [spikes EXCEPT ![c] = S]
      /\ UNCHANGED <<itercount, inarray>>
  BY FenceNet DEF Pneo!Fence!Fire, Pneo!Fence!EnterFence, Pneo!Fence!Opened
<1>2. /\ FencePhases /\ itercount \in [Pneo!Cell -> Nat]
      /\ pneoEntered = [q \in Pneo!Cell |-> 2 * itercount[q] + FenceStage(q)]
      /\ DOMAIN inarray = Pneo!Cell /\ DOMAIN spikes = Pneo!Cell
      /\ \A p, q \in Pneo!Cell : /\ 2 * itercount[q] <= pneoEntered[p]
                                 /\ q \in spikes[p] => itercount[q] <= itercount[p]
      /\ \A p \in Pneo!Cell : spikes[p] # {} => FenceStage(p) = 2
  BY DEF FenceSpikes
<1>3. /\ FencePhases' /\ pneoPhase'[c] = "closing"
      /\ \A q \in Pneo!Cell : q # c => pneoPhase'[q] = pneoPhase[q]
  BY <1>1, <1>2 DEF FencePhases
<1>4. /\ FenceStage(c) = 1 /\ FenceStage(c)' = 2
      /\ \A q \in Pneo!Cell : q # c => FenceStage(q)' = FenceStage(q)
  BY <1>1, <1>3, FenceStages, FenceStagesNext
<1> DEFINE i == itercount[c]
<1>5. i \in Nat /\ itercount' = [itercount EXCEPT ![c] = i]
  BY <1>1, <1>2
<1>6. /\ pneoEntered[c] = 2 * i + 1
      /\ pneoEntered' = [pneoEntered EXCEPT ![c] = 2 * i + FenceStage(c)']
      /\ pneoEntered[c] <= 2 * i + FenceStage(c)' /\ FenceStage(c)' \in 0 .. 2
  <2>1. pneoEntered[c] = 2 * i + 1
    BY <1>2, <1>4
  <2> HIDE DEF i
  <2>2. pneoEntered[c] + 1 = 2 * i + FenceStage(c)' /\ FenceStage(c)' \in 0 .. 2
    BY <1>4, <1>5, <2>1
  <2>3. pneoEntered' = [pneoEntered EXCEPT ![c] = pneoEntered[c] + 1]
    BY <1>1
  <2>4. pneoEntered[c] <= 2 * i + FenceStage(c)'
    BY <1>4, <1>5, <2>1
  <2>5. QED
    BY <2>1, <2>2, <2>3, <2>4
<1>7. \A q \in Pneo!Cell : 2 * i <= pneoEntered'[q]
  <2>1. \A q \in Pneo!Cell : 2 * i <= pneoEntered[q] /\ (q # c => pneoEntered'[q] = pneoEntered[q])
    BY <1>2, <1>6
  <2>2. pneoEntered'[c] = 2 * i + 2
    BY <1>2, <1>4, <1>6
  <2>3. QED
    BY <1>5, <2>1, <2>2
<1>8. \A p \in Pneo!Cell : spikes'[p] # {} => FenceStage(p)' = 2
  BY <1>1, <1>2, <1>4
<1>9. \A q \in Pneo!Cell : itercount[q] \in Nat /\ itercount[q] <= i
  <2>1. ASSUME NEW q \in Pneo!Cell
        PROVE  itercount[q] \in Nat /\ itercount[q] <= i
    <3>1. itercount[q] \in Nat /\ 2 * itercount[q] <= pneoEntered[c]
      BY <1>2
    <3>2. QED
      BY <1>5, <1>6, <3>1
  <2>2. QED
    BY <2>1
<1>10. \A p, q \in Pneo!Cell : q \in spikes'[p] => itercount'[q] <= itercount'[p]
  BY <1>1, <1>2, <1>9
<1>11. DOMAIN inarray' = Pneo!Cell /\ DOMAIN spikes' = Pneo!Cell
  BY <1>1, <1>2
<1> HIDE DEF i
<1>12. FenceSpikes'
  BY <1>3, <1>4, <1>5, <1>6, <1>7, <1>8, <1>10, <1>11, FenceSpikesKept
<1>13. QED
  BY <1>1, <1>12 DEF NetQuiet

LEMMA FenceEndsIteration ==
  ASSUME FenceSpikes, NEW c \in Pneo!Cell, Pneo!Fence!EndIteration(c)
  PROVE  FenceSpikes' /\ NetQuiet
<1>1. /\ pneoPhase[c] = "closing" /\ pneoPhase' = [pneoPhase EXCEPT ![c] = "compute"]
      /\ itercount' = [itercount EXCEPT ![c] = @ + 1]
      /\ \A q \in Pneo!Cell : pneoEntered[q] >= pneoEntered[c] /\ c \notin spikes[q]
      /\ spikes[c] = {}
      /\ UNCHANGED <<pneoEntered, inarray, spikes>>
  BY FenceNet DEF Pneo!Fence!EndIteration, Pneo!Fence!Closed
<1>2. /\ FencePhases /\ itercount \in [Pneo!Cell -> Nat]
      /\ pneoEntered = [q \in Pneo!Cell |-> 2 * itercount[q] + FenceStage(q)]
      /\ DOMAIN inarray = Pneo!Cell /\ DOMAIN spikes = Pneo!Cell
      /\ \A p, q \in Pneo!Cell : /\ 2 * itercount[q] <= pneoEntered[p]
                                 /\ q \in spikes[p] => itercount[q] <= itercount[p]
      /\ \A p \in Pneo!Cell : spikes[p] # {} => FenceStage(p) = 2
  BY DEF FenceSpikes
<1>3. /\ FencePhases' /\ pneoPhase'[c] = "compute"
      /\ \A q \in Pneo!Cell : q # c => pneoPhase'[q] = pneoPhase[q]
  BY <1>1, <1>2 DEF FencePhases
<1>4. /\ FenceStage(c) = 2 /\ FenceStage(c)' = 0
      /\ \A q \in Pneo!Cell : q # c => FenceStage(q)' = FenceStage(q)
  BY <1>1, <1>3, FenceStages, FenceStagesNext
<1> DEFINE i == itercount[c] + 1
<1>5. i \in Nat /\ itercount' = [itercount EXCEPT ![c] = i]
  BY <1>1, <1>2
<1>6. /\ pneoEntered[c] = 2 * i /\ 2 * i + FenceStage(c)' = 2 * i /\ FenceStage(c)' \in 0 .. 2
      /\ 2 * i <= 2 * i
  <2>1. itercount[c] \in Nat /\ pneoEntered[c] = 2 * itercount[c] + 2
    BY <1>2, <1>4
  <2>2. QED
    BY <1>4, <2>1
<1>7. /\ pneoEntered' = [pneoEntered EXCEPT ![c] = 2 * i + FenceStage(c)']
      /\ pneoEntered[c] <= 2 * i + FenceStage(c)'
  BY <1>1, <1>2, <1>6
<1>8. \A q \in Pneo!Cell : 2 * i <= pneoEntered'[q]
  <2>1. \A q \in Pneo!Cell : pneoEntered[q] \in Int
    <3>1. \A q \in Pneo!Cell : itercount[q] \in Nat /\ FenceStage(q) \in 0 .. 2
      BY <1>2, FenceStages
    <3>2. QED
      BY <1>2, <3>1
  <2>2. QED
    BY <1>1, <1>5, <1>6, <2>1
<1>9. \A p \in Pneo!Cell : spikes'[p] # {} => FenceStage(p)' = 2
  BY <1>1, <1>2, <1>4
<1>10. \A p, q \in Pneo!Cell : q \in spikes'[p] => itercount'[q] <= itercount'[p]
  BY <1>1, <1>2
<1>11. DOMAIN inarray' = Pneo!Cell /\ DOMAIN spikes' = Pneo!Cell
  BY <1>1, <1>2
<1> HIDE DEF i
<1>12. FenceSpikes'
  BY <1>3, <1>4, <1>5, <1>6, <1>7, <1>8, <1>9, <1>10, <1>11, FenceSpikesKept
<1>13. QED
  BY <1>1, <1>12 DEF NetQuiet

(* A spike arrives: its target is in the fences of the iteration.          *)
LEMMA FencePuts ==
  ASSUME FenceSpikes, NEW c \in Pneo!Cell, NEW q \in Pneo!Cell, Pneo!Fence!Put(c, q)
  PROVE  FenceSpikes' /\ NetQuiet
<1>1. /\ q \in spikes[c] /\ pneoEntered[q] >= 2 * itercount[c] + 1
      /\ \E f : inarray' = [inarray EXCEPT ![q] = f]
      /\ spikes' = [spikes EXCEPT ![c] = @ \ {q}]
      /\ UNCHANGED <<itercount, pneoPhase, pneoEntered>>
  <2>1. \E f : inarray' = [inarray EXCEPT ![q] = f]
    BY DEF Pneo!Fence!Put, Pneo!Fence!StoreSpike
  <2>2. QED
    BY <2>1 DEF Pneo!Fence!Put, Pneo!Fence!TargetReady
<1>2. /\ FencePhases /\ itercount \in [Pneo!Cell -> Nat]
      /\ pneoEntered = [p \in Pneo!Cell |-> 2 * itercount[p] + FenceStage(p)]
      /\ DOMAIN inarray = Pneo!Cell /\ DOMAIN spikes = Pneo!Cell
      /\ \A p, s \in Pneo!Cell : /\ 2 * itercount[s] <= pneoEntered[p]
                                 /\ s \in spikes[p] => itercount[s] <= itercount[p]
      /\ \A p \in Pneo!Cell : spikes[p] # {} => FenceStage(p) = 2
  BY DEF FenceSpikes
<1>3. FenceStage(q) # 0
  <2>1. /\ itercount[q] \in Nat /\ itercount[c] \in Nat /\ itercount[q] <= itercount[c]
        /\ pneoEntered[q] = 2 * itercount[q] + FenceStage(q)
    BY <1>1, <1>2
  <2>2. QED
    BY <1>1, <2>1
<1>4. /\ FencePhases' /\ \A p : FenceStage(p)' = FenceStage(p)
      /\ DOMAIN inarray' = Pneo!Cell /\ DOMAIN spikes' = Pneo!Cell
      /\ \A p \in Pneo!Cell : spikes'[p] \subseteq spikes[p]
  BY <1>1, <1>2 DEF FencePhases, FenceStage
<1>5. \A p \in Pneo!Cell : spikes'[p] # {} => FenceStage(p)' = 2
  BY <1>2, <1>4
<1>6. FenceSpikes'
  BY <1>1, <1>2, <1>4, <1>5 DEF FenceSpikes
<1>7. NetQuiet
  BY <1>1, <1>2, <1>3, FenceStages DEF NetQuiet
<1>8. QED
  BY <1>6, <1>7

LEMMA FenceSpikesStep ==
  ASSUME FenceSpikes, NEW c \in Pneo!Cell, Pneo!Fence!Step(c)
  PROVE  FenceSpikes' /\ NetQuiet
<1>1. CASE Pneo!Fence!ComputeState(c)
  BY <1>1, FenceComputes
<1>2. CASE Pneo!Fence!Fire(c)
  BY <1>2, FenceFires
<1>3. CASE Pneo!Fence!EndIteration(c)
  BY <1>3, FenceEndsIteration
<1>4. ASSUME NEW q \in Pneo!Fence!Targets(c), Pneo!Fence!Put(c, q)
      PROVE  FenceSpikes' /\ NetQuiet
  <2>1. q \in Pneo!Cell
    BY FenceNet
  <2>2. QED
    BY <1>4, <2>1, FencePuts
<1>5. QED
  BY <1>1, <1>2, <1>3, <1>4 DEF Pneo!Fence!Step

-----------------------------------------------------------------------------
(* Both programs of pNeo, and the others, which leave its variables alone. *)
PneoStays == UNCHANGED <<pneo, state, itercount, pneoPhase>>

LEMMA PneoKept ==
  ASSUME PneoRight, UNCHANGED pneoVars
  PROVE  PneoRight' /\ PneoStays /\ NetQuiet
<1>1. UNCHANGED <<pneo, state, itercount, pneoPhase, inarray, pneoEntered, spikes, flights>>
  BY DEF pneoVars
<1>2. \A c : /\ Rounded(c)' = Rounded(c) /\ Fired(c)' = Fired(c) /\ Accessed(c)' = Accessed(c)
             /\ FenceStage(c)' = FenceStage(c)
  BY <1>1 DEF Rounded, Fired, Accessed, FenceStage
<1>3. ASSUME SpikesRight
      PROVE  SpikesRight'
  <2>1. NetTypes'
    BY <1>1, <1>2, <1>3 DEF SpikesRight, NetTypes, NetPhases
  <2>2. \A c \in Pneo!Cell : CellRight(c)'
    BY <1>1, <1>2, <1>3, CellStays DEF SpikesRight
  <2>3. ASSUME NEW q \in Pneo!Cell, NEW p \in Pneo!Sources(q)
        PROVE  SpikePair(p, q)'
    <3>1. SpikePair(p, q)
      BY <1>3 DEF SpikesRight
    <3>2. QED
      BY <1>1, <1>2, <3>1, PairStays
  <2>4. QED
    BY <2>1, <2>2, <2>3 DEF SpikesRight
<1>4. ASSUME FenceSpikes
      PROVE  FenceSpikes'
  BY <1>1, <1>2, <1>4 DEF FenceSpikes, FencePhases
<1>5. PneoStays /\ NetQuiet
  BY <1>1 DEF PneoStays, NetQuiet
<1>6. QED
  BY <1>1, <1>3, <1>4, <1>5 DEF PneoRight

LEMMA PneoStart ==
  ASSUME AllInit
  PROVE  PneoRight
<1>1. Pneo!Init
  BY DEF AllInit
<1>2. (pneo = "fence" /\ Pneo!Fence!Init) \/ (pneo # "fence" /\ Pneo!Pscw!Init)
  BY <1>1 DEF Pneo!Init
<1>3. CASE pneo = "fence" /\ Pneo!Fence!Init
  BY <1>3, FenceSpikesStart DEF PneoRight
<1>4. CASE pneo # "fence" /\ Pneo!Pscw!Init
  BY <1>4, SpikesStart DEF PneoRight
<1>5. QED
  BY <1>2, <1>3, <1>4

LEMMA PneoSteps ==
  ASSUME PneoRight, [AllNext]_allVars
  PROVE  /\ PneoRight' /\ NetQuiet /\ pneo' = pneo
         /\ \/ PneoStays
            \/ pneo = "fence"
            \/ pneo = "pscw" /\ (NetStays \/ \E c \in Pneo!Cell : NetMoves(c))
<1>1. CASE UNCHANGED pneoVars
  <2>1. PneoRight' /\ PneoStays /\ NetQuiet
    BY <1>1, PneoKept
  <2>2. pneo' = pneo
    BY <2>1 DEF PneoStays
  <2>3. QED
    BY <2>1, <2>2
<1>2. CASE \E c \in Pneo!Cell : Pneo!FenceStep(Pneo!Fence!Step(c))
  <2>1. PICK c \in Pneo!Cell : Pneo!FenceStep(Pneo!Fence!Step(c))
    BY <1>2
  <2>2. pneo = "fence" /\ pneo' = pneo /\ Pneo!Fence!Step(c)
    BY <2>1 DEF Pneo!FenceStep
  <2>3. FenceSpikes' /\ NetQuiet
    BY <2>2, FenceSpikesStep DEF PneoRight
  <2>4. PneoRight'
    BY <2>2, <2>3 DEF PneoRight
  <2>5. QED
    BY <2>2, <2>3, <2>4
<1>3. CASE \E c \in Pneo!Cell : Pneo!PscwStep(Pneo!Pscw!Step(c))
  <2>1. PICK c \in Pneo!Cell : Pneo!PscwStep(Pneo!Pscw!Step(c))
    BY <1>3
  <2>2. pneo = "pscw" /\ pneo' = pneo /\ Pneo!Pscw!Step(c)
    BY <2>1 DEF Pneo!PscwStep
  <2>3. SpikesRight' /\ (NetStays \/ NetMoves(c)) /\ NetQuiet
    BY <2>2, SpikesStep DEF PneoRight
  <2>4. QED
    BY <2>2, <2>3 DEF PneoRight
<1>4. QED
  <2>1. UNCHANGED allVars => UNCHANGED pneoVars
    BY DEF allVars
  <2>2. AllNext => UNCHANGED pneoVars \/ Pneo!Next
    BY DEF AllNext, OfLife, OfPneo
  <2>3. Pneo!Next => (\E c \in Pneo!Cell : Pneo!FenceStep(Pneo!Fence!Step(c)))
                       \/ (\E c \in Pneo!Cell : Pneo!PscwStep(Pneo!Pscw!Step(c)))
    BY DEF Pneo!Next
  <2>4. QED
    BY <1>1, <1>2, <1>3, <2>1, <2>2, <2>3

(* What Rounds sees of pNeo.                                               *)
NetState == [c \in Pneo!Cell |-> IF pneo = "fence" THEN Pneo!FirstState(c)
                                 ELSE Pneo!Rested(Pneo!Round(c), state[c])]
NetGen == [c \in Pneo!Cell |-> Pneo!Round(c)]

LEMMA NetNow ==
  PneoRight /\ pneo = "pscw" =>
    /\ NetGen = [c \in Pneo!Cell |-> Rounded(c)]
    /\ NetState = [c \in Pneo!Cell |-> Pneo!CellAt("any", Rounded(c), c)]
<1>1. SUFFICES ASSUME PneoRight, pneo = "pscw"
               PROVE  /\ NetGen = [c \in Pneo!Cell |-> Rounded(c)]
                      /\ NetState = [c \in Pneo!Cell |-> Pneo!CellAt("any", Rounded(c), c)]
  OBVIOUS
<1>2. SpikesRight /\ pneo # "fence"
  BY <1>1 DEF PneoRight
<1>3. \A c : Pneo!Round(c) = Rounded(c)
  BY <1>2 DEF Pneo!Round, Rounded
<1>4. ASSUME NEW c \in Pneo!Cell
      PROVE  Pneo!Rested(Rounded(c), state[c]) = Pneo!CellAt("any", Rounded(c), c)
  <2>1. CellRight(c)
    BY <1>2 DEF SpikesRight
  <2>2. CASE pneoPhase[c] = "start"
    BY <2>1, <2>2 DEF CellRight, Pneo!CellAt
  <2>3. CASE pneoPhase[c] # "start"
    <3>1. state[c] = Pneo!CellAt("any", Rounded(c), c)
      BY <2>1, <2>3 DEF CellRight
    <3>2. QED
      BY <3>1 DEF Pneo!CellAt, Pneo!Rested
  <2>4. QED
    BY <2>2, <2>3
<1>5. QED
  BY <1>2, <1>3, <1>4 DEF NetGen, NetState

LEMMA NetStart ==
  ASSUME AllInit
  PROVE  Pneo!Rounds!Init
<1>1. PneoRight /\ Pneo!Init
  BY PneoStart DEF AllInit
<1>2. /\ NetGen = [c \in Pneo!Cell |-> 0]
      /\ NetState = [c \in Pneo!Cell |-> Pneo!CellAt("any", 0, c)]
  <2>1. CASE pneo = "fence"
    <3>1. \A c \in Pneo!Cell : Pneo!CellAt("any", 0, c) = Pneo!FirstState(c)
      BY NetworkIs DEF Pneo!CellAt, Pneo!Rested
    <3>2. QED
      BY <2>1, <3>1 DEF NetGen, NetState, Pneo!Round
  <2>2. CASE pneo # "fence"
    <3>1. Pneo!Pscw!NetInit
      BY <1>1, <2>2 DEF Pneo!Init, Pneo!Pscw!Init
    <3>2. \A c \in Pneo!Cell : itercount[c] = 0 /\ pneoPhase[c] = "compute" /\ state[c] = Pneo!FirstState(c)
      BY <3>1, PscwNet DEF Pneo!Pscw!NetInit
    <3>3. \A c \in Pneo!Cell : Pneo!Round(c) = 0
      BY <2>2, <3>2 DEF Pneo!Round
    <3>4. \A c \in Pneo!Cell : Pneo!CellAt("any", 0, c) = Pneo!FirstState(c)
      BY NetworkIs DEF Pneo!CellAt, Pneo!Rested
    <3>5. \A c \in Pneo!Cell : Pneo!Rested(0, state[c]) = Pneo!FirstState(c)
      BY <3>2 DEF Pneo!Rested
    <3>6. QED
      BY <2>2, <3>3, <3>4, <3>5 DEF NetGen, NetState
  <2>3. QED
    BY <2>1, <2>2
<1>3. QED
  BY <1>2 DEF Pneo!Rounds!Init, NetGen, NetState

LEMMA NetStepsRight ==
  ASSUME PneoRight, PneoRight', pneo' = pneo,
         \/ PneoStays
         \/ pneo = "fence"
         \/ pneo = "pscw" /\ (NetStays \/ \E c \in Pneo!Cell : NetMoves(c))
  PROVE  [Pneo!Rounds!Next]_(Pneo!Rounds!vars)
<1>1. CASE PneoStays
  <2>1. \A c : Pneo!Round(c)' = Pneo!Round(c)
    BY <1>1 DEF PneoStays, Pneo!Round
  <2>2. NetGen' = NetGen /\ NetState' = NetState
    BY <1>1, <2>1 DEF PneoStays, NetGen, NetState, Pneo!Rested
  <2>3. QED
    BY <2>2 DEF Pneo!Rounds!vars, NetGen, NetState
<1>2. CASE pneo = "fence"
  <2>1. \A c : Pneo!Round(c) = 0 /\ Pneo!Round(c)' = 0
    BY <1>2 DEF Pneo!Round
  <2>2. NetGen' = NetGen /\ NetState' = NetState
    BY <1>2, <2>1 DEF NetGen, NetState
  <2>3. QED
    BY <2>2 DEF Pneo!Rounds!vars, NetGen, NetState
<1>3. ASSUME pneo = "pscw", NetStays \/ \E c \in Pneo!Cell : NetMoves(c)
      PROVE  [Pneo!Rounds!Next]_(Pneo!Rounds!vars)
  <2>1. /\ NetGen = [c \in Pneo!Cell |-> Rounded(c)]
        /\ NetState = [c \in Pneo!Cell |-> Pneo!CellAt("any", Rounded(c), c)]
        /\ NetGen' = [c \in Pneo!Cell |-> Rounded(c)']
        /\ NetState' = [c \in Pneo!Cell |-> Pneo!CellAt("any", Rounded(c)', c)]
    <3>1. (PneoRight /\ pneo = "pscw" =>
             /\ NetGen = [c \in Pneo!Cell |-> Rounded(c)]
             /\ NetState = [c \in Pneo!Cell |-> Pneo!CellAt("any", Rounded(c), c)])'
      BY NetNow, PTL
    <3>2. QED
      BY <1>3, <3>1, NetNow
  <2>2. CASE NetStays
    <3>1. NetGen' = NetGen /\ NetState' = NetState
      BY <2>1, <2>2 DEF NetStays
    <3>2. QED
      BY <3>1 DEF Pneo!Rounds!vars, NetGen, NetState
  <2>3. ASSUME NEW c \in Pneo!Cell, NetMoves(c)
        PROVE  Pneo!Rounds!Advance(c)
    <3>1. \A p \in Pneo!Cell : Rounded(p)' = IF p = c THEN Rounded(c) + 1 ELSE Rounded(p)
      <4>1. \A p \in Pneo!Cell : Rounded(p) + 0 = Rounded(p)
        <5>1. SpikesRight
          BY <1>3 DEF PneoRight
        <5>2. QED
          BY <5>1, NetNumbers DEF SpikesRight
      <4>2. QED
        BY <2>3, <4>1 DEF NetMoves
    <3>2. NetGen' = [NetGen EXCEPT ![c] = @ + 1] /\ NetGen'[c] = Rounded(c)'
      BY <2>1, <3>1
    <3>3. NetState' = [NetState EXCEPT ![c] = Pneo!CellAt("any", NetGen'[c], c)]
      BY <2>1, <3>1, <3>2
    <3>4. NetGen[c] < MaxSteps /\ \A p \in Pneo!Sources(c) : NetGen[p] >= NetGen[c]
      BY <2>1, <2>3, SourcesTargets DEF NetMoves
    <3>5. QED
      BY <3>2, <3>3, <3>4 DEF Pneo!Rounds!Advance, NetGen, NetState
  <2>4. QED
    BY <1>3, <2>2, <2>3 DEF Pneo!Rounds!Next
<1>4. QED
  BY <1>1, <1>2, <1>3

(* pneo_pscw computes its network, for every connection file: each spike   *)
(* is counted by its target once, in the round after the one it was sent   *)
(* in, however far its source has run ahead (Pneo!ComputesNetwork, the     *)
(* part of RoundsComputed; pneo_fence, whose spikes do not arrive, is not  *)
(* held to it).                                                            *)
THEOREM PneoComputesNetwork == AllSpec => Pneo!ComputesNetwork
<1>1. AllInit => PneoRight /\ Pneo!Rounds!Init
  BY PneoStart, NetStart
<1>2. PneoRight /\ [AllNext]_allVars => PneoRight' /\ [Pneo!Rounds!Next]_(Pneo!Rounds!vars)
  BY PneoSteps, NetStepsRight
<1>3. QED
  BY <1>1, <1>2, PTL DEF AllSpec, Pneo!ComputesNetwork, Pneo!Rounds!Spec

(* In neither program of pNeo is a spike stored in a window while its      *)
(* process computes, for every connection file (Pneo!NoSpikeWhileComputing,*)
(* the part of NothingOutsideEpoch).                                       *)
THEOREM NoSpikeOutsideEpoch == AllSpec => Pneo!NoSpikeWhileComputing
<1>1. AllInit => PneoRight
  BY PneoStart
<1>2. PneoRight /\ [AllNext]_allVars =>
        PneoRight' /\ [\A c \in Pneo!Cell :
           inarray'[c] # inarray[c] /\ pneoPhase'[c] = pneoPhase[c]
             => pneoPhase[c] # "compute"]_(Pneo!vars)
  BY PneoSteps DEF NetQuiet
<1>3. QED
  BY <1>1, <1>2, PTL DEF AllSpec, Pneo!NoSpikeWhileComputing
-----------------------------------------------------------------------------
(* The threaded programs.  The row whose neighbours rank p computes its    *)
(* row i from: the third sweep computes the last row from those of the     *)
(* first.                                                                  *)
From(p, i) == IF program = "omp3" /\ i = MyRows(p) THEN 1 ELSE i

(* W is what the sweep makes of a matrix, generation after generation.     *)
Sweeps(W) ==
  \A s \in Starts :
    /\ W[s] \in [0 .. Iter -> GridType] /\ W[s][0] = s
    /\ \A k \in 0 .. Iter : Bounded(W[s][k])
    /\ \A k \in 1 .. Iter, p \in Rank : \A i \in 1 .. MyRows(p), j \in 1 .. Cols :
         W[s][k][MyRowOffset(p) + i][j]
           = NextState(W[s][k - 1], MyRowOffset(p) + From(p, i), j)

(* The names the threaded programs share with the others.                  *)
LEMMA SweptGrid ==
  /\ Swept!Rank = Rank
  /\ \A p : Swept!MyRows(p) = MyRows(p) /\ Swept!MyRowOffset(p) = MyRowOffset(p)
  /\ \A m, i, j : Swept!NextState(m, i, j) = NextState(m, i, j)
  /\ Swept!DIES = DIES
BY DEF Swept!Rank, Rank, Swept!MyRows, MyRows, Swept!MyRowOffset, MyRowOffset,
       Swept!MLIFE_myrows, MLIFE_myrows, Swept!MLIFE_myrowoffset, MLIFE_myrowoffset,
       Swept!NextState, NextState, Swept!DIES, DIES, Swept!BORN, BORN

(* The row of the whole matrix that row i of rank p is computed from.      *)
LEMMA SourceIs ==
  ASSUME NEW p \in Rank, NEW i \in 1 .. MyRows(p)
  PROVE  Swept!Source(MyRowOffset(p) + i)
           = MyRowOffset(p) + (IF i = MyRows(p) THEN 1 ELSE i)
<1>1. /\ Rows \in Nat /\ NProcs \in Nat \ {0} /\ MyRows(p) \in Nat /\ MyRowOffset(p) \in Nat
      /\ MyRowOffset(p) + MyRows(p) \in 0 .. Rows
  BY GridTypes
<1> DEFINE x == MyRowOffset(p) + i
           Has(q) == x \in MyRowOffset(q) + 1 .. MyRowOffset(q) + MyRows(q)
<1>2. x \in 1 .. Rows /\ Has(p)
  BY <1>1
<1>3. \A q \in Rank : Has(q) => q = p
  <2>1. \A q : RowsOf(Rows, q, NProcs) = MyRowOffset(q) + 1 .. MyRowOffset(q) + MyRows(q)
    BY DEF RowsOf, MyRows, MyRowOffset
  <2> HIDE DEF x
  <2>2. \A q, s \in Rank : x \in RowsOf(Rows, q, NProcs) /\ x \in RowsOf(Rows, s, NProcs) => q = s
    BY <1>1, <1>2, EveryRowOnce DEF Rank
  <2>3. QED
    BY <1>2, <2>1, <2>2
<1>4. Swept!Owner(x) = CHOOSE q \in Rank : Has(q)
  BY SweptGrid DEF Swept!Owner
<1>5. Swept!Owner(x) = p
  <2> HIDE DEF Has
  <2>1. QED
    BY <1>2, <1>3, <1>4
<1>6. Swept!Source(x) = IF x \in {MyRowOffset(p) + MyRows(p)} THEN MyRowOffset(p) + 1 ELSE x
  <2> HIDE DEF x
  <2>1. QED
    BY <1>5, SweptGrid DEF Swept!Source
<1>7. QED
  BY <1>1, <1>6

(* Each row has an owner.                                                  *)
LEMMA RowHasOwner ==
  ASSUME NEW x \in 1 .. Rows
  PROVE  \E p \in Rank : \E i \in 1 .. MyRows(p) : x = MyRowOffset(p) + i
<1>1. Rows \in Nat /\ NProcs \in Nat \ {0}
  BY GridAssumption DEF GridAssumption
<1>2. PICK p \in Rank : x \in RowsOf(Rows, p, NProcs)
  BY <1>1, EveryRowOnce DEF Rank
<1>3. x \in MyRowOffset(p) + 1 .. MyRowOffset(p) + MyRows(p)
  BY <1>2 DEF RowsOf, MyRows, MyRowOffset
<1>4. MyRows(p) \in Nat /\ MyRowOffset(p) \in Nat
  BY GridTypes
<1>5. x - MyRowOffset(p) \in 1 .. MyRows(p) /\ x = MyRowOffset(p) + (x - MyRowOffset(p))
  BY <1>1, <1>3, <1>4
<1>6. QED
  BY <1>5

(* What the third sweep makes of a matrix is a matrix with a dead boundary.*)
LEMMA Evolve3Type ==
  ASSUME NEW m \in GridType
  PROVE  Swept!EvolveOmp3(m) \in GridType /\ Bounded(Swept!EvolveOmp3(m))
<1>1. Rows \in Nat /\ Cols \in Nat
  BY GridAssumption DEF GridAssumption
<1> DEFINE Cell(i, j) == IF i \in 1 .. Rows /\ j \in 1 .. Cols
                           THEN NextState(m, Swept!Source(i), j) ELSE DIES
           e == [i \in 0 .. Rows + 1 |-> [j \in 0 .. Cols + 1 |-> Cell(i, j)]]
<1>2. Swept!EvolveOmp3(m) = e
  BY SweptGrid DEF Swept!EvolveOmp3
<1>3. ASSUME NEW i \in 1 .. Rows, NEW j \in 1 .. Cols
      PROVE  NextState(m, Swept!Source(i), j) \in {DIES, BORN}
  <2>0. PICK p \in Rank : \E k \in 1 .. MyRows(p) : i = MyRowOffset(p) + k
    BY RowHasOwner
  <2>1. PICK k \in 1 .. MyRows(p) : i = MyRowOffset(p) + k
    BY <2>0
  <2>2. /\ MyRows(p) \in Nat /\ MyRowOffset(p) \in Nat
        /\ MyRowOffset(p) + MyRows(p) \in 0 .. Rows
    BY GridTypes
  <2>3. Swept!Source(i) = MyRowOffset(p) + (IF k = MyRows(p) THEN 1 ELSE k)
    BY <2>1, SourceIs
  <2>4. Swept!Source(i) \in 0 .. Rows + 1 /\ j \in 0 .. Cols + 1
    BY <1>1, <2>1, <2>2, <2>3
  <2>5. m[Swept!Source(i)][j] \in {DIES, BORN}
    BY <2>4 DEF GridType, RowType
  <2>6. QED
    BY <2>5 DEF NextState
<1>4. \A i \in 0 .. Rows + 1, j \in 0 .. Cols + 1 : Cell(i, j) \in {DIES, BORN}
  BY <1>3
<1>5. \A i \in 0 .. Rows + 1, j \in 0 .. Cols + 1 :
        i \in {0, Rows + 1} \/ j \in {0, Cols + 1} => Cell(i, j) = DIES
  BY <1>1
<1> HIDE DEF Cell
<1>6. e \in GridType
  BY <1>4 DEF GridType, RowType
<1>7. Bounded(e)
  BY <1>5 DEF Bounded
<1>8. QED
  BY <1>2, <1>6, <1>7
(* The matrices omp3 computes are what their recursive definition says.    *)
LEMMA Omp3Is ==
  ASSUME NEW s \in Starts
  PROVE  /\ Swept!WorldOmp3[s] \in [0 .. Iter -> GridType]
         /\ Swept!WorldOmp3[s][0] = s
         /\ \A k \in 1 .. Iter : Swept!WorldOmp3[s][k] = Swept!EvolveOmp3(Swept!WorldOmp3[s][k - 1])
         /\ \A k \in 0 .. Iter : Bounded(Swept!WorldOmp3[s][k])
<1> DEFINE Body(w, k) == IF k = 0 THEN s ELSE Swept!EvolveOmp3(w[k - 1])
           Def(w) == w = [k \in 0 .. Iter |-> Body(w, k)]
           F == [k \in 1 .. Iter |-> [m \in GridType |-> Swept!EvolveOmp3(m)]]
<1>1. s \in GridType /\ Bounded(s) /\ Iter \in Nat
  BY StartTypes
<1>2. F \in [1 .. Iter -> [GridType -> GridType]]
  BY Evolve3Type
<1>3. PICK f \in [0 .. Iter -> GridType] : f[0] = s /\ \A k \in 1 .. Iter : f[k] = F[k][f[k - 1]]
  <2> HIDE DEF F
  <2>1. QED
    BY <1>1, <1>2, Recursion
<1>4. \A k \in 1 .. Iter : f[k] = Swept!EvolveOmp3(f[k - 1])
  <2>1. ASSUME NEW k \in 1 .. Iter
        PROVE  f[k] = Swept!EvolveOmp3(f[k - 1])
    <3>1. k - 1 \in 0 .. Iter
      BY <1>1
    <3>2. f[k - 1] \in GridType
      BY <3>1
    <3>3. QED
      BY <1>3, <3>2
  <2>2. QED
    BY <2>1
<1>5. Def(f)
  <2>1. ASSUME NEW k \in 0 .. Iter
        PROVE  f[k] = Body(f, k)
    <3>1. CASE k = 0
      BY <1>3, <3>1
    <3>2. CASE k # 0
      <4>1. k \in 1 .. Iter
        BY <1>1, <3>2
      <4>2. QED
        BY <1>4, <3>2, <4>1
    <3>3. QED
      BY <3>1, <3>2
  <2> HIDE DEF Body
  <2>2. QED
    BY <2>1
<1>6. Swept!WorldOmp3[s] = CHOOSE w : Def(w)
  BY DEF Swept!WorldOmp3
<1>7. Def(Swept!WorldOmp3[s])
  <2> HIDE DEF Def
  <2>1. QED
    BY <1>5, <1>6
<1>8. ASSUME NEW k \in 0 .. Iter
      PROVE  Swept!WorldOmp3[s][k] = f[k]
  <2> DEFINE W == Swept!WorldOmp3[s]
             S == {n \in Nat : n <= Iter => W[n] = f[n]}
  <2> HIDE DEF W
  <2>1. Def(W)
    BY <1>7 DEF W
  <2>2. W[0] = s
    <3>1. 0 \in 0 .. Iter
      BY <1>1
    <3>2. QED
      BY <2>1, <3>1
  <2>3. ASSUME NEW n \in Nat, n + 1 <= Iter
        PROVE  W[n + 1] = Swept!EvolveOmp3(W[n])
    <3>1. n + 1 \in 0 .. Iter /\ n + 1 # 0 /\ (n + 1) - 1 = n
      BY <1>1, <2>3
    <3>2. W[n + 1] = Body(W, n + 1)
      <4> HIDE DEF Body
      <4>1. QED
        BY <2>1, <3>1
    <3>3. QED
      BY <3>1, <3>2
  <2>4. 0 \in S
    BY <1>3, <2>2
  <2>5. ASSUME NEW n \in S
        PROVE  n + 1 \in S
    <3>1. SUFFICES ASSUME n + 1 <= Iter PROVE W[n + 1] = f[n + 1]
      OBVIOUS
    <3>2. n \in Nat /\ n + 1 \in 1 .. Iter /\ W[n] = f[n] /\ (n + 1) - 1 = n
      BY <1>1, <2>5, <3>1
    <3>3. QED
      BY <1>4, <2>3, <3>1, <3>2
  <2>6. S = Nat
    <3>1. S \subseteq Nat
      OBVIOUS
    <3> HIDE DEF S
    <3>2. QED
      BY <2>4, <2>5, <3>1, NatSetInduction
  <2>7. k \in S /\ k <= Iter
    BY <1>1, <1>8, <2>6
  <2>8. QED
    BY <2>7 DEF W
<1>9. DOMAIN Swept!WorldOmp3[s] = 0 .. Iter /\ Swept!WorldOmp3[s] = [k \in 0 .. Iter |-> Swept!WorldOmp3[s][k]]
  BY <1>7
<1>10. Swept!WorldOmp3[s] \in [0 .. Iter -> GridType]
  BY <1>3, <1>8, <1>9
<1>11. \A k \in 1 .. Iter : Swept!WorldOmp3[s][k] = Swept!EvolveOmp3(Swept!WorldOmp3[s][k - 1])
  <2>1. ASSUME NEW k \in 1 .. Iter
        PROVE  Swept!WorldOmp3[s][k] = Swept!EvolveOmp3(Swept!WorldOmp3[s][k - 1])
    <3>1. k \in 0 .. Iter /\ k - 1 \in 0 .. Iter
      BY <1>1
    <3>2. QED
      BY <1>4, <1>8, <3>1
  <2>2. QED
    BY <2>1
<1>12. Swept!WorldOmp3[s][0] = s
  BY <1>1, <1>3, <1>8
<1>13. ASSUME NEW k \in 0 .. Iter
       PROVE  Bounded(Swept!WorldOmp3[s][k])
  <2>1. CASE k = 0
    BY <1>1, <1>12, <2>1
  <2>2. CASE k # 0
    <3>1. k \in 1 .. Iter /\ k - 1 \in 0 .. Iter
      BY <1>1, <2>2
    <3>2. Swept!WorldOmp3[s][k - 1] \in GridType
      BY <1>10, <3>1
    <3>3. QED
      BY <1>11, <3>1, <3>2, Evolve3Type
  <2>3. QED
    BY <2>1, <2>2
<1>14. QED
  BY <1>10, <1>11, <1>12, <1>13

(* A cell of the whole matrix, computed.                                   *)
LEMMA CellsAre ==
  ASSUME NEW m, NEW x \in 1 .. Rows, NEW j \in 1 .. Cols
  PROVE  /\ Evolve(m, Rows)[x][j] = NextState(m, x, j)
         /\ Swept!EvolveOmp3(m)[x][j] = NextState(m, Swept!Source(x), j)
<1>1. Rows \in Nat /\ Cols \in Nat
  BY GridAssumption DEF GridAssumption
<1>2. x \in 0 .. Rows + 1 /\ j \in 0 .. Cols + 1
  BY <1>1
<1>3. Swept!EvolveOmp3(m) = [i \in 0 .. Rows + 1 |-> [h \in 0 .. Cols + 1 |->
        IF i \in 1 .. Rows /\ h \in 1 .. Cols THEN NextState(m, Swept!Source(i), h) ELSE DIES]]
  BY SweptGrid DEF Swept!EvolveOmp3
<1>4. QED
  BY <1>2, <1>3 DEF Evolve

(* The first and the second sweep make World of the matrix.                *)
LEMMA WorldSweeps ==
  ASSUME program # "omp3"
  PROVE  Sweeps(World)
<1>1. Iter \in Nat
  BY GridAssumption DEF GridAssumption
<1>2. ASSUME NEW s \in Starts, NEW k \in 1 .. Iter, NEW p \in Rank, NEW i \in 1 .. MyRows(p),
             NEW j \in 1 .. Cols
      PROVE  World[s][k][MyRowOffset(p) + i][j]
               = NextState(World[s][k - 1], MyRowOffset(p) + From(p, i), j)
  <2>1. World[s][k] = Evolve(World[s][k - 1], Rows)
    BY WorldIs
  <2>2. MyRowOffset(p) + i \in 1 .. Rows
    BY GridTypes
  <2>3. From(p, i) = i
    BY DEF From
  <2>4. QED
    BY <2>1, <2>2, <2>3, CellsAre
<1>3. ASSUME NEW s \in Starts
      PROVE  /\ World[s] \in [0 .. Iter -> GridType] /\ World[s][0] = s
             /\ \A k \in 0 .. Iter : Bounded(World[s][k])
  BY WorldIs
<1>4. QED
  BY <1>2, <1>3 DEF Sweeps

(* The third sweep makes WorldOmp3 of it.                                  *)
LEMMA Omp3Sweeps ==
  ASSUME program = "omp3"
  PROVE  Sweeps(Swept!WorldOmp3)
<1> DEFINE W == Swept!WorldOmp3
<1>1. Iter \in Nat
  BY GridAssumption DEF GridAssumption
<1>2. ASSUME NEW s \in Starts, NEW k \in 1 .. Iter, NEW p \in Rank, NEW i \in 1 .. MyRows(p),
             NEW j \in 1 .. Cols
      PROVE  W[s][k][MyRowOffset(p) + i][j]
               = NextState(W[s][k - 1], MyRowOffset(p) + From(p, i), j)
  <2>1. W[s][k] = Swept!EvolveOmp3(W[s][k - 1])
    BY Omp3Is
  <2>2. MyRowOffset(p) + i \in 1 .. Rows
    BY GridTypes
  <2>3. Swept!Source(MyRowOffset(p) + i) = MyRowOffset(p) + From(p, i)
    BY SourceIs DEF From
  <2> HIDE DEF W
  <2>4. QED
    BY <2>1, <2>2, <2>3, CellsAre
<1>3. ASSUME NEW s \in Starts
      PROVE  /\ W[s] \in [0 .. Iter -> GridType] /\ W[s][0] = s
             /\ \A k \in 0 .. Iter : Bounded(W[s][k])
  BY Omp3Is
<1>4. QED
  BY <1>2, <1>3 DEF Sweeps

(* The rows around are dead.                                               *)
LEMMA SweepsDead ==
  ASSUME NEW W, Sweeps(W)
  PROVE  DeadOutside(W)
<1>1. ASSUME NEW s \in Starts, NEW k \in 0 .. Iter
      PROVE  W[s][k][0] = DeadRow /\ W[s][k][Rows + 1] = DeadRow
  <2>1. W[s][k] \in GridType /\ Bounded(W[s][k])
    BY DEF Sweeps
  <2>2. QED
    BY <2>1, DeadAround
<1>2. QED
  BY <1>1 DEF DeadOutside

(* The parts of the threads of n iterations are all of them.               *)
LEMMA PartsCover ==
  ASSUME NEW n \in Nat, NEW i \in 1 .. n
  PROVE  \E t \in 0 .. NThreads - 1 : i \in Swept!Part(t, n)
<1> DEFINE c == (n + NThreads - 1) \div NThreads
           t == (i - 1) \div c
<1>1. NThreads \in Nat \ {0}
  BY ThreadsAssumption
<1>2. c \in Nat /\ n <= NThreads * c
  <2> DEFINE a == n + NThreads - 1
  <2>1. a \in Nat
    BY <1>1
  <2>2. /\ a \div NThreads \in Nat /\ a % NThreads \in 0 .. NThreads - 1
        /\ a = NThreads * (a \div NThreads) + (a % NThreads)
    <3> HIDE DEF a
    <3>1. QED
      BY <1>1, <2>1, Division
  <2> DEFINE y == NThreads * c
             r == a % NThreads
  <2>3. c \in Nat /\ r \in 0 .. NThreads - 1 /\ a = y + r /\ y \in Nat
    BY <1>1, <2>2
  <2> HIDE DEF y, r, c
  <2>4. n <= y
    BY <1>1, <2>3
  <2>5. QED
    BY <2>3, <2>4 DEF y
<1> HIDE DEF c
<1>3. c # 0
  <2>1. SUFFICES ASSUME c = 0 PROVE FALSE
    OBVIOUS
  <2>2. NThreads * c = 0
    BY <1>1, <2>1
  <2>3. QED
    BY <1>2, <2>2
<1>4. t \in Nat /\ t * c <= i - 1 /\ i - 1 < (t + 1) * c
  <2>1. i - 1 \in Nat /\ c \in Nat \ {0}
    BY <1>2, <1>3
  <2>2. /\ (i - 1) \div c \in Nat /\ (i - 1) % c \in 0 .. c - 1
        /\ i - 1 = c * ((i - 1) \div c) + ((i - 1) % c)
    BY <2>1, Division
  <2> DEFINE r == (i - 1) % c
  <2>3. t \in Nat /\ r \in 0 .. c - 1 /\ i - 1 = c * t + r
    BY <2>2
  <2> HIDE DEF t, r
  <2>4. c * t = t * c /\ (t + 1) * c = t * c + c /\ t * c \in Nat
    BY <2>1, <2>3
  <2> DEFINE y == t * c
             z == (t + 1) * c
  <2>5. i - 1 = y + r /\ z = y + c /\ y \in Nat
    BY <2>3, <2>4
  <2> HIDE DEF y, z
  <2>6. y <= i - 1 /\ i - 1 < z
    BY <2>1, <2>3, <2>5
  <2>7. QED
    BY <2>3, <2>6 DEF y, z
<1> HIDE DEF t
<1>5. t < NThreads
  <2>1. SUFFICES ASSUME NThreads <= t PROVE FALSE
    BY <1>1, <1>4
  <2>2. NThreads * c <= t * c
    BY <1>1, <1>2, <1>4, <2>1, TimesMonotone
  <2> DEFINE y == t * c
             z == NThreads * c
  <2>3. z <= y /\ n <= z /\ y <= i - 1 /\ y \in Int /\ z \in Int
    BY <1>1, <1>2, <1>4, <2>2
  <2> HIDE DEF y, z
  <2>4. QED
    BY <2>3
<1>6. i \in t * c + 1 .. (t + 1) * c
  <2> DEFINE y == t * c
             z == (t + 1) * c
  <2>1. y <= i - 1 /\ i - 1 < z /\ y \in Int /\ z \in Int
    BY <1>2, <1>4
  <2> HIDE DEF y, z
  <2>2. i \in y + 1 .. z
    BY <2>1
  <2>3. QED
    BY <2>2 DEF y, z
<1>7. i \in Swept!Part(t, n)
  BY <1>6 DEF Swept!Part, c
<1>8. QED
  BY <1>1, <1>4, <1>5, <1>7

-----------------------------------------------------------------------------
(* The threads of a rank: where they are, and which cells of temp they     *)
(* have computed.                                                          *)
Third        == program = "omp3"
AtSwap(p, t) == at[p][t] = "swap"
InRows(p, t) == at[p][t] = "rows"

Done(p, i, j) ==
  IF Third
    THEN \/ i \in 2 .. MyRows(p) - 1 /\ i \notin left[p]
         \/ /\ i \in {1, MyRows(p)}
            /\ \E t \in 0 .. NThreads - 1 : AtSwap(p, t) /\ j \in Swept!Part(t, Cols)
    ELSE \E t \in 0 .. NThreads - 1 : AtSwap(p, t) /\ i \in Swept!Part(t, MyRows(p))

TempRight(W, p, i, j) ==
  buf[p][1 - cur[p]][i][j] = W[start][gen[p] + 1][MyRowOffset(p) + i][j]

PlacesOf(p) ==
  /\ left[p] \subseteq 2 .. MyRows(p) - 1
  /\ \A t \in 0 .. NThreads - 1 :
       /\ at[p][t] \in {"rows", "edges", "swap"}
       /\ ~Third => InRows(p, t) \/ AtSwap(p, t)
       /\ Third /\ ~InRows(p, t) => left[p] = {}
       /\ Third /\ AtSwap(p, t) => \A u \in 0 .. NThreads - 1 : ~InRows(p, u)

Working(W) ==
  /\ DOMAIN left = Rank
  /\ \A p \in Rank : /\ PlacesOf(p)
                     /\ \A i \in 1 .. MyRows(p), j \in 1 .. Cols :
                          Done(p, i, j) => TempRight(W, p, i, j)

(* What the threaded programs keep true besides CountInv and ThreadInv.    *)
SweptIn(W) == LoopIn(W) /\ PtIn(W) /\ Working(W)

(* Some cells of temp are computed.                                        *)
SweepOf(p, cells) ==
  /\ buf' = [buf EXCEPT ![p][1 - cur[p]] =
               [i \in 0 .. MyRows(p) + 1 |-> [j \in 0 .. Cols + 1 |->
                  IF <<i, j>> \in cells THEN NextState(matrix(p), From(p, i), j)
                                         ELSE buf[p][1 - cur[p]][i][j]]]]
  /\ start' = start /\ gen' = gen /\ cur' = cur

(* Row r of rank p is that of its generation, also when it is in the halo. *)
Seen(W, p, r) == matrix(p)[r] = W[start][gen[p]][MyRowOffset(p) + r]

(* The halo of matrix b of rank q is not written; none is, outside of the  *)
(* exchange it is meant for.                                               *)
HaloStays(q, b) == \A i \in {0, MyRows(q) + 1} : buf'[q][b][i] = buf[q][b][i]
HalosStay       == \A q \in Rank, b \in 0 .. 1 : HaloStays(q, b)
HalosInside     == \A q \in Rank, b \in 0 .. 1 : HaloStays(q, b) \/ InExchange(q, b)

(* The cells a thread computes become those of the next generation; nothing*)
(* else changes.                                                           *)
LEMMA Sweeping ==
  ASSUME NEW W, Sweeps(W), LoopIn(W), NEW p \in Rank, gen[p] < Iter,
         NEW cells \in SUBSET ((1 .. MyRows(p)) \X (1 .. Cols)), SweepOf(p, cells),
         \A c \in cells : /\ Seen(W, p, From(p, c[1]) - 1) /\ Seen(W, p, From(p, c[1]))
                          /\ Seen(W, p, From(p, c[1]) + 1)
  PROVE  /\ LoopIn(W)' /\ HalosStay
         /\ \A s \in Rank, t \in Rank : HaloIn(W, s, t)' = HaloIn(W, s, t)
         /\ \A s \in Rank : s # p => buf'[s] = buf[s]
         /\ \A i \in 1 .. MyRows(p), j \in 1 .. Cols :
              IF <<i, j>> \in cells THEN TempRight(W, p, i, j)'
                                     ELSE TempRight(W, p, i, j)' = TempRight(W, p, i, j)
<1>1. /\ MyRows(p) \in Nat /\ MyRowOffset(p) \in Nat /\ MyRowOffset(p) + MyRows(p) <= Rows
      /\ Rows \in Nat /\ Cols \in Nat /\ Iter \in Nat
  BY GridTypes
<1>2. /\ cur[p] \in 0 .. 1 /\ 1 - cur[p] \in 0 .. 1 /\ cur[p] # 1 - cur[p]
      /\ gen[p] \in Nat /\ gen[p] + 1 \in 1 .. Iter /\ gen[p] + 1 \in 0 .. Iter
      /\ gen[p] \in 0 .. Iter /\ start \in Starts /\ (gen[p] + 1) - 1 = gen[p]
  BY <1>1, CurIsIn
<1>3. DOMAIN buf = Rank /\ \A s \in Rank : MatrixShape(s) /\ RowsIn(W, s)
  BY DEF LoopIn
<1>4. start' = start /\ gen' = gen /\ cur' = cur
  BY DEF SweepOf
<1> DEFINE n == 1 - cur[p]
           cell(i, j) == IF <<i, j>> \in cells THEN NextState(matrix(p), From(p, i), j)
                         ELSE buf[p][n][i][j]
           new(i) == [j \in 0 .. Cols + 1 |-> cell(i, j)]
<1>5. buf' = [buf EXCEPT ![p][n] = [i \in 0 .. MyRows(p) + 1 |-> new(i)]]
  BY DEF SweepOf
<1>6. \A i \in 1 .. MyRows(p), j \in 1 .. Cols : <<i, j>> \in cells =>
        cell(i, j) = W[start][gen[p] + 1][MyRowOffset(p) + i][j]
  <2>1. ASSUME NEW i \in 1 .. MyRows(p), NEW j \in 1 .. Cols, <<i, j>> \in cells
        PROVE  NextState(matrix(p), From(p, i), j)
                 = W[start][gen[p] + 1][MyRowOffset(p) + i][j]
    <3> DEFINE f == From(p, i)
               m == W[start][gen[p]]
               off == MyRowOffset(p)
    <3>1. W[start][gen[p] + 1][off + i][j] = NextState(m, off + f, j)
      BY <1>2 DEF Sweeps
    <3>2. <<i, j>>[1] = i
      OBVIOUS
    <3>3. matrix(p)[f - 1] = m[off + (f - 1)] /\ matrix(p)[f] = m[off + f]
          /\ matrix(p)[f + 1] = m[off + (f + 1)]
      BY <2>1, <3>2 DEF Seen
    <3>4. f \in Int /\ off \in Int
      BY <1>1 DEF From
    <3> HIDE DEF f, m, off
    <3>5. off + (f - 1) = (off + f) - 1 /\ off + (f + 1) = (off + f) + 1
      BY <3>4
    <3>6. NextState(matrix(p), f, j) = NextState(m, off + f, j)
      BY <3>3, <3>5 DEF NextState
    <3>7. QED
      BY <3>1, <3>6 DEF f, off
  <2>2. QED
    BY <2>1
<1>7. \A c \in cells : c[1] \in 1 .. MyRows(p) /\ c[2] \in 1 .. Cols
  OBVIOUS
<1>8. ASSUME NEW i \in 0 .. MyRows(p) + 1, NEW j \in 0 .. Cols + 1
      PROVE  /\ cell(i, j) \in Nat
             /\ j \in {0, Cols + 1} => cell(i, j) = DIES
             /\ i \in {0, MyRows(p) + 1} => cell(i, j) = buf[p][n][i][j]
  <2>1. Shape(buf[p][n][i])
    BY <1>2, <1>3 DEF MatrixShape
  <2>2. CASE <<i, j>> \in cells
    <3>1. i \in 1 .. MyRows(p) /\ j \in 1 .. Cols
      BY <2>2
    <3>2. cell(i, j) = W[start][gen[p] + 1][MyRowOffset(p) + i][j]
      BY <1>6, <2>2, <3>1
    <3>3. MyRowOffset(p) + i \in 0 .. Rows + 1
      BY <1>1, <3>1
    <3>4. cell(i, j) \in {DIES, BORN}
      <4> DEFINE m == W[start][gen[p] + 1]
                 k == MyRowOffset(p) + i
      <4>1. m \in GridType
        BY <1>2 DEF Sweeps
      <4> HIDE DEF m, cell
      <4>2. m[k][j] \in {DIES, BORN}
        BY <3>3, <4>1 DEF GridType, RowType
      <4>3. QED
        BY <3>2, <4>2 DEF m
    <3>5. i \notin {0, MyRows(p) + 1} /\ j \notin {0, Cols + 1}
      BY <1>1, <3>1
    <3> HIDE DEF cell
    <3>6. QED
      BY <3>4, <3>5 DEF DIES, BORN
  <2>3. CASE <<i, j>> \notin cells
    BY <2>1, <2>3 DEF Shape
  <2>4. QED
    BY <2>2, <2>3
<1>9. ASSUME NEW i \in 1 .. MyRows(p), NEW j \in 1 .. Cols
      PROVE  /\ new(i)[j] = cell(i, j)
             /\ <<i, j>> \notin cells => cell(i, j) = buf[p][n][i][j]
  <2>1. j \in 0 .. Cols + 1
    BY <1>1
  <2>2. QED
    BY <2>1
<1> HIDE DEF cell
<1>10. ASSUME NEW i \in 0 .. MyRows(p) + 1
       PROVE  /\ Shape(new(i))
              /\ i \in {0, MyRows(p) + 1} => new(i) = buf[p][n][i]
  <2>1. 0 \in 0 .. Cols + 1 /\ Cols + 1 \in 0 .. Cols + 1
    BY <1>1
  <2>2. Shape(new(i))
    BY <1>8, <2>1 DEF Shape
  <2>3. ASSUME i \in {0, MyRows(p) + 1}
        PROVE  new(i) = buf[p][n][i]
    <3>1. buf[p][n][i] \in [0 .. Cols + 1 -> Nat]
      BY <1>2, <1>3 DEF MatrixShape, Shape
    <3>2. \A j \in 0 .. Cols + 1 : cell(i, j) = buf[p][n][i][j]
      BY <1>8, <2>3
    <3>3. QED
      BY <3>1, <3>2
  <2>4. QED
    BY <2>2, <2>3
<1> HIDE DEF new
<1> HIDE DEF n
<1>11. /\ n \in 0 .. 1 /\ DOMAIN buf[p] = 0 .. 1 /\ cur[p] # n
  BY <1>2, <1>3 DEF n, MatrixShape
<1>12. DOMAIN buf' = Rank /\ \A s \in Rank : s # p => buf'[s] = buf[s]
  BY <1>3, <1>5
<1>13. /\ DOMAIN buf'[p] = 0 .. 1
       /\ buf'[p][n] = [i \in 0 .. MyRows(p) + 1 |-> new(i)]
       /\ \A b \in 0 .. 1 : b # n => buf'[p][b] = buf[p][b]
  <2>1. buf'[p] = [buf[p] EXCEPT ![n] = [i \in 0 .. MyRows(p) + 1 |-> new(i)]]
    BY <1>3, <1>5
  <2>2. QED
    BY <1>11, <2>1
<1>14. \A s \in Rank : matrix(s)' = matrix(s)
  BY <1>2, <1>4, <1>11, <1>12, <1>13 DEF matrix
<1>15. ASSUME NEW s \in Rank
       PROVE  MatrixShape(s)'
  <2>1. CASE s # p
    BY <1>3, <1>12, <2>1 DEF MatrixShape
  <2>2. CASE s = p
    <3>1. 0 \in 0 .. MyRows(p) + 1 /\ MyRows(p) + 1 \in 0 .. MyRows(p) + 1
      BY <1>1
    <3>2. ASSUME NEW b \in 0 .. 1
          PROVE  /\ DOMAIN buf'[p][b] = 0 .. MyRows(p) + 1
                 /\ \A i \in 0 .. MyRows(p) + 1 : Shape(buf'[p][b][i])
                 /\ p = 0 => buf'[p][b][0] = DeadRow
                 /\ Bottom(p) => buf'[p][b][MyRows(p) + 1] = DeadRow
      <4>1. CASE b = n
        BY <1>3, <1>10, <1>11, <1>13, <3>1, <4>1 DEF MatrixShape
      <4>2. CASE b # n
        BY <1>3, <1>13, <4>2 DEF MatrixShape
      <4>3. QED
        BY <4>1, <4>2
    <3>3. QED
      BY <1>13, <2>2, <3>2 DEF MatrixShape, Shape, DeadRow, Bottom
  <2>3. QED
    BY <2>1, <2>2
<1>16. LoopIn(W)'
  <2>1. \A s \in Rank : RowsIn(W, s)'
    BY <1>3, <1>4, <1>14 DEF RowsIn
  <2>2. QED
    BY <1>4, <1>12, <1>15, <2>1 DEF LoopIn
<1>17. ASSUME NEW s \in Rank, NEW t \in Rank
       PROVE  HaloIn(W, s, t)' = HaloIn(W, s, t)
  BY <1>4, <1>14 DEF HaloIn, RightIn, HaloIndex, MyRows, MyRowOffset, MLIFE_myrows,
                     MLIFE_myrowoffset
<1>18. ASSUME NEW i \in 1 .. MyRows(p), NEW j \in 1 .. Cols
       PROVE  IF <<i, j>> \in cells THEN TempRight(W, p, i, j)'
                                     ELSE TempRight(W, p, i, j)' = TempRight(W, p, i, j)
  <2>1. i \in 0 .. MyRows(p) + 1
    BY <1>1
  <2>2. buf'[p][1 - cur'[p]][i][j] = cell(i, j)
    BY <1>4, <1>9, <1>13, <2>1 DEF n
  <2>3. CASE <<i, j>> \in cells
    BY <1>4, <1>6, <2>2, <2>3 DEF TempRight
  <2>4. CASE <<i, j>> \notin cells
    BY <1>4, <1>9, <2>2, <2>4 DEF TempRight, n
  <2>5. QED
    BY <2>3, <2>4
<1>19. HalosStay
  <2>1. ASSUME NEW s \in Rank, NEW b \in 0 .. 1, NEW i \in {0, MyRows(s) + 1}
        PROVE  buf'[s][b][i] = buf[s][b][i]
    <3>1. CASE s # p
      BY <1>12, <3>1
    <3>2. CASE s = p /\ b # n
      BY <1>13, <3>2
    <3>3. CASE s = p /\ b = n
      <4>1. i \in 0 .. MyRows(p) + 1 /\ i \in {0, MyRows(p) + 1}
        BY <1>1, <3>3
      <4>2. QED
        BY <1>10, <1>13, <3>3, <4>1
    <3>4. QED
      BY <3>1, <3>2, <3>3
  <2>2. QED
    BY <2>1 DEF HalosStay, HaloStays
<1>20. QED
  BY <1>12, <1>16, <1>17, <1>18, <1>19

(* The exchange of the threaded programs is that of mlife-pt2pt.c.         *)
LEMMA ExchangeNames ==
  ASSUME NEW p, NEW q
  PROVE  /\ Swept!Exchange!Send(p, q) <=> Pt2pt!Send(p, q)
         /\ Swept!Exchange!Recv(p, q) <=> Pt2pt!Recv(p, q)
<1>1. Swept!Exchange!EdgeRow(p, q) = Pt2pt!EdgeRow(p, q)
  BY DEF Swept!Exchange!EdgeRow, Pt2pt!EdgeRow, Swept!Exchange!matrix, Pt2pt!matrix,
         Swept!Exchange!MyRows, Pt2pt!MyRows, Swept!Exchange!MLIFE_myrows, Pt2pt!MLIFE_myrows
<1>2. Swept!Exchange!HaloIndex(q, p) = Pt2pt!HaloIndex(q, p)
  BY DEF Swept!Exchange!HaloIndex, Pt2pt!HaloIndex, Swept!Exchange!MyRows, Pt2pt!MyRows,
         Swept!Exchange!MLIFE_myrows, Pt2pt!MLIFE_myrows
<1>3. \A b, r : Swept!Exchange!StoreHalo(q, p, b, r) <=> Pt2pt!StoreHalo(q, p, b, r)
  BY <1>2 DEF Swept!Exchange!StoreHalo, Pt2pt!StoreHalo
<1>4. QED
  BY <1>1, <1>3 DEF Swept!Exchange!Send, Pt2pt!Send, Swept!Exchange!Recv, Pt2pt!Recv,
                    Swept!Exchange!loopVars, Pt2pt!loopVars

(* A step that changes neither messages nor rows of the generation.        *)
LEMMA PtSame ==
  ASSUME NEW W, PtIn(W), UNCHANGED <<start, gen, reqs, chan>>,
         \A s \in Rank, t \in Rank : HaloIn(W, s, t)' = HaloIn(W, s, t)
  PROVE  PtIn(W)'
<1>1. \A s, t, x : Sane(s, t, x)' = Sane(s, t, x)
  BY DEF Sane, Shape, Bottom, DeadRow
<1>2. \A k, s, t, x : RightIn(W, k, s, t, x)' = RightIn(W, k, s, t, x)
  BY DEF RightIn, HaloIndex, MyRows, MyRowOffset, MLIFE_myrows, MLIFE_myrowoffset
<1>3. \A s, t : Sent(s, t)' = Sent(s, t) /\ Got(s, t)' = Got(s, t)
  BY DEF Sent, Got
<1>4. ASSUME NEW s \in Rank, NEW t \in Neighbours(s)
      PROVE  /\ ChanIn(W, s, t)'
             /\ gen'[t] < Iter /\ <<"recv", s>> \notin reqs'[t] => HaloIn(W, s, t)'
  <2>1. t \in Rank
    BY NeighbourIs
  <2>2. ChanIn(W, s, t) /\ (gen[t] < Iter /\ <<"recv", s>> \notin reqs[t] => HaloIn(W, s, t))
    BY DEF PtIn
  <2>3. ChanIn(W, s, t)'
    BY <1>1, <1>2, <1>3, <2>2 DEF ChanIn
  <2>4. QED
    BY <2>1, <2>2, <2>3
<1>5. QED
  BY <1>4 DEF PtIn, Neighbours, Rank

(* The threads of rank p go on, and some cells of its temp are computed.   *)
LEMMA WorkingStep ==
  ASSUME NEW W, Working(W), NEW p \in Rank, NEW cells,
         start' = start, gen' = gen, cur' = cur, program' = program,
         DOMAIN left' = Rank,
         \A s \in Rank : s # p => /\ at'[s] = at[s] /\ left'[s] = left[s]
                                  /\ buf'[s][1 - cur[s]] = buf[s][1 - cur[s]],
         PlacesOf(p)',
         \A i \in 1 .. MyRows(p), j \in 1 .. Cols :
           /\ Done(p, i, j)' => Done(p, i, j) \/ <<i, j>> \in cells
           /\ IF <<i, j>> \in cells THEN TempRight(W, p, i, j)'
                                     ELSE TempRight(W, p, i, j)' = TempRight(W, p, i, j)
  PROVE  Working(W)'
<1>1. ASSUME NEW s \in Rank, s # p
      PROVE  PlacesOf(s)' /\ \A i, j : /\ Done(s, i, j)' = Done(s, i, j)
                                       /\ TempRight(W, s, i, j)' = TempRight(W, s, i, j)
  <2>1. at'[s] = at[s] /\ left'[s] = left[s] /\ buf'[s][1 - cur[s]] = buf[s][1 - cur[s]]
    BY <1>1
  <2>2. PlacesOf(s)
    BY DEF Working
  <2>3. PlacesOf(s)'
    BY <2>1, <2>2 DEF PlacesOf, Third, InRows, AtSwap
  <2>4. ASSUME NEW i, NEW j
        PROVE  Done(s, i, j)' = Done(s, i, j)
    BY <2>1 DEF Done, Third, AtSwap
  <2>5. ASSUME NEW i, NEW j
        PROVE  TempRight(W, s, i, j)' = TempRight(W, s, i, j)
    BY <2>1 DEF TempRight
  <2>6. QED
    BY <2>3, <2>4, <2>5
<1>2. ASSUME NEW s \in Rank, NEW i \in 1 .. MyRows(s), NEW j \in 1 .. Cols, Done(s, i, j)'
      PROVE  TempRight(W, s, i, j)'
  <2>1. CASE s = p
    BY <1>2, <2>1 DEF Working
  <2>2. CASE s # p
    BY <1>1, <1>2, <2>2 DEF Working
  <2>3. QED
    BY <2>1, <2>2
<1>3. \A s \in Rank : PlacesOf(s)'
  BY <1>1
<1>4. QED
  BY <1>2, <1>3 DEF Working, Rank, MyRows, MLIFE_myrows

(* Nothing is written.                                                     *)
LEMMA NoRowStored ==
  ASSUME buf' = buf
  PROVE  HalosStay /\ HalosInside
<1>1. HalosStay
  BY DEF HalosStay, HaloStays
<1>2. HalosInside
  BY DEF HalosInside, HaloStays
<1>3. QED
  BY <1>1, <1>2

(* Only one halo is written, of a rank that is in its exchange.            *)
LEMMA RowStoredInside ==
  ASSUME NEW W, LoopIn(W), NEW p \in Rank, NEW q \in Rank, NEW b \in 0 .. 1, NEW r,
         StoreHalo(p, q, b, r), InExchange(q, b)
  PROVE  HalosInside
<1>1. DOMAIN buf = Rank /\ \A s \in Rank : DOMAIN buf[s] = 0 .. 1
  BY DEF LoopIn, MatrixShape
<1>2. buf' = [buf EXCEPT ![q][b][HaloIndex(p, q)] = r]
  BY DEF StoreHalo
<1>3. buf'[q] = [buf[q] EXCEPT ![b][HaloIndex(p, q)] = r]
  BY <1>1, <1>2
<1>4. \A s \in Rank, c \in 0 .. 1 : s # q \/ c # b => buf'[s][c] = buf[s][c]
  BY <1>1, <1>2, <1>3
<1>5. ASSUME NEW s \in Rank, NEW c \in 0 .. 1
      PROVE  HaloStays(s, c) \/ InExchange(s, c)
  <2>1. CASE s = q /\ c = b
    BY <2>1
  <2>2. CASE s # q \/ c # b
    BY <1>4, <2>2 DEF HaloStays
  <2>3. QED
    BY <2>1, <2>2
<1>6. \A s \in Rank, c \in 0 .. 1 : HaloStays(s, c) \/ InExchange(s, c)
  BY <1>5, Zenon
<1>7. QED
  BY <1>6, Zenon DEF HalosInside

(* A message arrives while its receiver waits for it.                      *)
LEMMA ReceivedInside ==
  ASSUME NEW W, LoopIn(W), program \notin {"fence", "pscw"}, NEW p \in Rank, NEW q \in Rank,
         Pt2pt!Recv(p, q)
  PROVE  HalosInside
<1>1. <<"recv", q>> \in reqs[p] /\ StoreHalo(q, p, cur[p], Head(chan[q][p]))
  BY Pt2ptLoop DEF Pt2pt!Recv
<1>2. cur[p] \in 0 .. 1
  BY CurIsIn
<1>3. InExchange(p, cur[p])
  BY <1>1 DEF InExchange
<1>4. QED
  BY <1>1, <1>2, <1>3, RowStoredInside, Zenon

(* A message leaves temp alone.                                            *)
LEMMA MessageSwept ==
  ASSUME NEW W, Sweeps(W), SweptIn(W), CountInv, program \in Threaded,
         NEW p \in Rank, Swept!Message(p)
  PROVE  SweptIn(W)' /\ Stays /\ HalosInside
<1>1. at' = at /\ left' = left /\ program' = program
  BY DEF Swept!Message
<1>2. PICK q \in Neighbours(p) : Pt2pt!Send(p, q) \/ Pt2pt!Recv(p, q)
  BY SweptNames, ExchangeNames DEF Swept!Message
<1>3. q \in Rank /\ p \in Neighbours(q)
  BY NeighbourIs
<1>4. LoopIn(W)' /\ PtIn(W)' /\ Stays /\ HalosInside
  <2>1. CASE Pt2pt!Send(p, q)
    <3>1. LoopIn(W)' /\ PtIn(W)' /\ Stays
      BY <2>1, SweepsDead, Pt2ptSendIn DEF SweptIn
    <3>2. buf' = buf
      BY <2>1 DEF Pt2pt!Send, Pt2pt!loopVars
    <3>3. QED
      BY <3>1, <3>2, NoRowStored, Zenon
  <2>2. CASE Pt2pt!Recv(p, q)
    <3>1. LoopIn(W)' /\ PtIn(W)' /\ Stays
      BY <1>3, <2>2, Pt2ptRecvIn DEF SweptIn
    <3>2. LoopIn(W) /\ program \notin {"fence", "pscw"}
      BY DEF SweptIn, Threaded
    <3>3. QED
      BY <1>3, <2>2, <3>1, <3>2, ReceivedInside, Zenon
  <2>3. QED
    BY <1>2, <2>1, <2>2
<1>5. start' = start /\ gen' = gen /\ cur' = cur
  BY <1>2, <1>4 DEF Stays, Pt2pt!Send, Pt2pt!Recv, Pt2pt!loopVars
<1>6. \A s \in Rank : buf'[s][1 - cur[s]] = buf[s][1 - cur[s]]
  <2>1. CASE buf' = buf
    BY <2>1
  <2>2. ASSUME NEW r, NEW h, buf' = [buf EXCEPT ![p][cur[p]][h] = r]
        PROVE  \A s \in Rank : buf'[s][1 - cur[s]] = buf[s][1 - cur[s]]
    <3>1. cur[p] # 1 - cur[p]
      BY CurIsIn DEF SweptIn
    <3>2. buf' = [buf EXCEPT ![p] = [buf[p] EXCEPT ![cur[p]] = [buf[p][cur[p]] EXCEPT ![h] = r]]]
      BY <2>2
    <3>3. DOMAIN buf = Rank
      BY DEF SweptIn, LoopIn
    <3>4. QED
      BY <3>1, <3>2, <3>3
  <2>3. buf' = buf \/ \E r, h : buf' = [buf EXCEPT ![p][cur[p]][h] = r]
    BY <1>2 DEF Pt2pt!Send, Pt2pt!Recv, Pt2pt!StoreHalo, Pt2pt!loopVars
  <2>4. QED
    BY <2>1, <2>2, <2>3
<1>7. Working(W)'
  <2>1. Working(W)
    BY DEF SweptIn
  <2>2. DOMAIN left' = Rank /\ PlacesOf(p)'
    BY <1>1, <2>1 DEF Working, PlacesOf, Third, InRows, AtSwap
  <2>3. ASSUME NEW i, NEW j
        PROVE  /\ Done(p, i, j)' = Done(p, i, j)
               /\ TempRight(W, p, i, j)' = TempRight(W, p, i, j)
    BY <1>1, <1>5, <1>6 DEF Done, Third, AtSwap, TempRight
  <2> DEFINE none == {}
  <2>4. \A i, j : <<i, j>> \notin none
    OBVIOUS
  <2> HIDE DEF none
  <2>5. \A i \in 1 .. MyRows(p), j \in 1 .. Cols :
          /\ Done(p, i, j)' => Done(p, i, j) \/ <<i, j>> \in none
          /\ IF <<i, j>> \in none THEN TempRight(W, p, i, j)'
                                   ELSE TempRight(W, p, i, j)' = TempRight(W, p, i, j)
    BY <2>3, <2>4, Zenon
  <2>6. QED
    BY <1>1, <1>5, <1>6, <2>1, <2>2, <2>5, WorkingStep, Zenon
<1>8. QED
  BY <1>4, <1>7 DEF SweptIn

(* When its requests are complete a rank sees all its rows, and the halo.  *)
LEMMA SeesAll ==
  ASSUME NEW W, Sweeps(W), SweptIn(W), NEW p \in Rank, gen[p] < Iter, reqs[p] = {},
         MyRows(p) > 0, NEW r \in 0 .. MyRows(p) + 1
  PROVE  Seen(W, p, r)
<1>1. ASSUME NEW q \in Neighbours(p)
      PROVE  HaloIn(W, q, p)
  <2>1. q \in Rank /\ p \in Neighbours(q)
    BY NeighbourIs
  <2>2. QED
    BY <2>1 DEF SweptIn, PtIn
<1>2. DeadOutside(W) /\ LoopIn(W)
  BY SweepsDead DEF SweptIn
<1>3. \A q \in Neighbours(p) : HaloIn(W, q, p)
  BY <1>1
<1>4. matrix(p)[r] = W[start][gen[p]][MyRowOffset(p) + r]
  BY <1>2, <1>3, AllRowsRightIn, Zenon
<1>5. QED
  BY <1>4 DEF Seen

(* Its own rows it always sees.                                            *)
LEMMA SeesOwn ==
  ASSUME NEW W, SweptIn(W), NEW p \in Rank, NEW r \in 1 .. MyRows(p)
  PROVE  Seen(W, p, r)
BY DEF SweptIn, LoopIn, RowsIn, Seen

(* The sweep of MLIFE_Sweep, with the row a cell is computed from given by *)
(* From.                                                                   *)
LEMMA SweepIsOf ==
  ASSUME NEW p, NEW cells, \A c \in cells : From(p, c[1]) = c[1],
         Swept!Sweep(p, cells, LAMBDA i : i)
  PROVE  SweepOf(p, cells)
<1>1. Swept!matrix(p) = matrix(p) /\ Swept!MyRows(p) = MyRows(p)
      /\ \A m, i, j : Swept!NextState(m, i, j) = NextState(m, i, j)
  BY SweptGrid DEF Swept!matrix, matrix
<1>2. \A i, j : <<i, j>> \in cells => From(p, i) = i
  <2>1. \A i, j : <<i, j>>[1] = i
    OBVIOUS
  <2>2. QED
    BY <2>1
<1>3. /\ buf' = [buf EXCEPT ![p][1 - cur[p]] =
                  [i \in 0 .. MyRows(p) + 1 |-> [j \in 0 .. Cols + 1 |->
                     IF <<i, j>> \in cells THEN NextState(matrix(p), i, j)
                                            ELSE buf[p][1 - cur[p]][i][j]]]]
      /\ start' = start /\ gen' = gen /\ cur' = cur
  BY <1>1 DEF Swept!Sweep
<1>4. [i \in 0 .. MyRows(p) + 1 |-> [j \in 0 .. Cols + 1 |->
         IF <<i, j>> \in cells THEN NextState(matrix(p), i, j)
                                ELSE buf[p][1 - cur[p]][i][j]]]
      = [i \in 0 .. MyRows(p) + 1 |-> [j \in 0 .. Cols + 1 |->
         IF <<i, j>> \in cells THEN NextState(matrix(p), From(p, i), j)
                                ELSE buf[p][1 - cur[p]][i][j]]]
  BY <1>2
<1>5. QED
  BY <1>3, <1>4 DEF SweepOf

(* The same with the third sweep's last two rows.                          *)
LEMMA EdgesAreOf ==
  ASSUME NEW p, NEW cells, \A c \in cells : From(p, c[1]) = 1,
         Swept!Sweep(p, cells, LAMBDA i : 1)
  PROVE  SweepOf(p, cells)
<1>1. Swept!matrix(p) = matrix(p) /\ Swept!MyRows(p) = MyRows(p)
      /\ \A m, i, j : Swept!NextState(m, i, j) = NextState(m, i, j)
  BY SweptGrid DEF Swept!matrix, matrix
<1>2. \A i, j : <<i, j>> \in cells => From(p, i) = 1
  <2>1. \A i, j : <<i, j>>[1] = i
    OBVIOUS
  <2>2. QED
    BY <2>1
<1>3. /\ buf' = [buf EXCEPT ![p][1 - cur[p]] =
                  [i \in 0 .. MyRows(p) + 1 |-> [j \in 0 .. Cols + 1 |->
                     IF <<i, j>> \in cells THEN NextState(matrix(p), 1, j)
                                            ELSE buf[p][1 - cur[p]][i][j]]]]
      /\ start' = start /\ gen' = gen /\ cur' = cur
  BY <1>1 DEF Swept!Sweep
<1>4. [i \in 0 .. MyRows(p) + 1 |-> [j \in 0 .. Cols + 1 |->
         IF <<i, j>> \in cells THEN NextState(matrix(p), 1, j)
                                ELSE buf[p][1 - cur[p]][i][j]]]
      = [i \in 0 .. MyRows(p) + 1 |-> [j \in 0 .. Cols + 1 |->
         IF <<i, j>> \in cells THEN NextState(matrix(p), From(p, i), j)
                                ELSE buf[p][1 - cur[p]][i][j]]]
  BY <1>2
<1>5. QED
  BY <1>3, <1>4 DEF SweepOf

(* A thread that computes cells of temp and is then somewhere else.        *)
LEMMA CellsSwept ==
  ASSUME NEW W, Sweeps(W), SweptIn(W), NEW p \in Rank, gen[p] < Iter,
         NEW cells \in SUBSET ((1 .. MyRows(p)) \X (1 .. Cols)), SweepOf(p, cells),
         \A c \in cells : /\ Seen(W, p, From(p, c[1]) - 1) /\ Seen(W, p, From(p, c[1]))
                          /\ Seen(W, p, From(p, c[1]) + 1),
         reqs' = reqs, chan' = chan, program' = program, DOMAIN left' = Rank,
         \A s \in Rank : s # p => at'[s] = at[s] /\ left'[s] = left[s],
         PlacesOf(p)',
         \A i \in 1 .. MyRows(p), j \in 1 .. Cols :
           Done(p, i, j)' => Done(p, i, j) \/ <<i, j>> \in cells
  PROVE  SweptIn(W)' /\ Stays /\ HalosStay
<1>1. LoopIn(W) /\ PtIn(W) /\ Working(W)
  BY DEF SweptIn
<1>2. start' = start /\ gen' = gen /\ cur' = cur
  BY DEF SweepOf
<1>3. /\ LoopIn(W)' /\ HalosStay
      /\ \A s \in Rank, t \in Rank : HaloIn(W, s, t)' = HaloIn(W, s, t)
      /\ \A s \in Rank : s # p => buf'[s] = buf[s]
      /\ \A i \in 1 .. MyRows(p), j \in 1 .. Cols :
           IF <<i, j>> \in cells THEN TempRight(W, p, i, j)'
                                  ELSE TempRight(W, p, i, j)' = TempRight(W, p, i, j)
  BY <1>1, Sweeping
<1>4. PtIn(W)'
  BY <1>1, <1>2, <1>3, PtSame
<1>5. Working(W)'
  <2>1. \A s \in Rank : s # p => /\ at'[s] = at[s] /\ left'[s] = left[s]
                                 /\ buf'[s][1 - cur[s]] = buf[s][1 - cur[s]]
    BY <1>3
  <2>2. \A i \in 1 .. MyRows(p), j \in 1 .. Cols :
          /\ Done(p, i, j)' => Done(p, i, j) \/ <<i, j>> \in cells
          /\ IF <<i, j>> \in cells THEN TempRight(W, p, i, j)'
                                    ELSE TempRight(W, p, i, j)' = TempRight(W, p, i, j)
    BY <1>3, Zenon
  <2>3. QED
    BY <1>1, <1>2, <2>1, <2>2, WorkingStep, Zenon
<1>6. QED
  BY <1>2, <1>3, <1>4, <1>5 DEF SweptIn, Stays

(* Thread t of rank p goes to c; the others stay.                          *)
Goes(p, t, c) ==
  /\ at'[p][t] = c
  /\ \A s \in Rank : s # p => at'[s] = at[s]
  /\ \A u \in 0 .. NThreads - 1 : u # t => at'[p][u] = at[p][u]

LEMMA ThreadGoes ==
  ASSUME ThreadInv, NEW p \in Rank, NEW t \in 0 .. NThreads - 1, NEW c,
         Swept!Goto(p, t, c)
  PROVE  Goes(p, t, c)
BY DEF ThreadInv, Goes, Swept!Goto

(* omp1 and omp2: the rows of a thread.                                    *)
LEMMA Rows12Swept ==
  ASSUME NEW W, Sweeps(W), SweptIn(W), ThreadInv, NEW p \in Rank,
         NEW t \in 0 .. NThreads - 1, Swept!Rows12(p, t)
  PROVE  SweptIn(W)' /\ Stays /\ HalosStay
<1> DEFINE part == Swept!Part(t, MyRows(p))
           cells == part \X (1 .. Cols)
<1>1. /\ ~Third /\ gen[p] < Iter /\ reqs[p] = {} /\ left' = left
      /\ Swept!Sweep(p, cells, LAMBDA i : i)
      /\ at' = [at EXCEPT ![p][t] = "swap"]
  BY SweptGrid, SweptNames DEF Third, Swept!Rows12, Swept!Goto
<1>2. part \subseteq 1 .. MyRows(p)
  BY DEF Swept!Part
<1> HIDE DEF part
<1>3. cells \in SUBSET ((1 .. MyRows(p)) \X (1 .. Cols))
  BY <1>2
<1>4. \A c \in cells : From(p, c[1]) = c[1]
  BY <1>1 DEF From, Third
<1> HIDE DEF cells
<1>5. SweepOf(p, cells)
  BY <1>1, <1>4, SweepIsOf
<1>6. ASSUME NEW c \in cells
      PROVE  /\ Seen(W, p, From(p, c[1]) - 1) /\ Seen(W, p, From(p, c[1]))
             /\ Seen(W, p, From(p, c[1]) + 1)
  <2>1. c[1] \in 1 .. MyRows(p) /\ MyRows(p) \in Nat
    BY <1>3, GridTypes
  <2>2. /\ MyRows(p) > 0 /\ c[1] - 1 \in 0 .. MyRows(p) + 1 /\ c[1] \in 0 .. MyRows(p) + 1
        /\ c[1] + 1 \in 0 .. MyRows(p) + 1
    BY <2>1
  <2>3. \A r \in 0 .. MyRows(p) + 1 : Seen(W, p, r)
    BY <1>1, <2>2, SeesAll, Zenon
  <2>4. QED
    BY <1>4, <2>2, <2>3
<1>7. /\ AtSwap(p, t)' /\ \A s \in Rank : s # p => at'[s] = at[s]
      /\ \A u \in 0 .. NThreads - 1 : u # t => at'[p][u] = at[p][u]
  <2>1. Swept!Goto(p, t, "swap")
    BY DEF Swept!Rows12
  <2>2. Goes(p, t, "swap")
    BY <2>1, ThreadGoes
  <2>3. QED
    BY <2>2 DEF Goes, AtSwap
<1>8. /\ reqs' = reqs /\ chan' = chan /\ program' = program
      /\ DOMAIN left' = Rank
  BY <1>1 DEF Swept!Sweep, SweptIn, Working
<1>9. PlacesOf(p)'
  <2>1. PlacesOf(p) /\ at'[p][t] = "swap"
    BY <1>7 DEF SweptIn, Working, AtSwap
  <2>2. ~Third' /\ left'[p] = left[p]
    BY <1>1, <1>8 DEF Third
  <2>3. QED
    BY <1>1, <1>7, <2>1, <2>2 DEF PlacesOf, InRows, AtSwap
<1>10. ASSUME NEW i \in 1 .. MyRows(p), NEW j \in 1 .. Cols, Done(p, i, j)'
       PROVE  Done(p, i, j) \/ <<i, j>> \in cells
  <2>1. ~Third' /\ ~Third
    BY <1>1, <1>8 DEF Third
  <2>2. PICK u \in 0 .. NThreads - 1 : AtSwap(p, u)' /\ i \in Swept!Part(u, MyRows(p))
    BY <1>10, <2>1 DEF Done
  <2>3. CASE u = t
    BY <2>2, <2>3 DEF cells, part
  <2>4. CASE u # t
    BY <1>7, <2>1, <2>2, <2>4 DEF Done, AtSwap
  <2>5. QED
    BY <2>3, <2>4
<1>11. QED
  BY <1>1, <1>3, <1>5, <1>6, <1>7, <1>8, <1>9, <1>10, CellsSwept

(* omp3: an interior row, or the way to the edges when none is left.       *)
LEMMA InteriorSwept ==
  ASSUME NEW W, Sweeps(W), SweptIn(W), ThreadInv, NEW p \in Rank,
         NEW t \in 0 .. NThreads - 1, Swept!Interior(p, t)
  PROVE  SweptIn(W)' /\ Stays /\ HalosStay
<1>1. /\ Third /\ gen[p] < Iter /\ InRows(p, t)
      /\ reqs' = reqs /\ chan' = chan /\ program' = program
  BY SweptNames DEF Third, InRows, Swept!Interior, Swept!Sweep
<1>2. /\ LoopIn(W) /\ PtIn(W) /\ Working(W) /\ PlacesOf(p) /\ DOMAIN left = Rank
      /\ left[p] \subseteq 2 .. MyRows(p) - 1
  BY DEF SweptIn, Working, PlacesOf
<1>3. \A u \in 0 .. NThreads - 1 : ~AtSwap(p, u)
  BY <1>1, <1>2 DEF PlacesOf
<1>4. CASE left[p] = {}
  <2>1. /\ start' = start /\ gen' = gen /\ cur' = cur /\ buf' = buf /\ left' = left
        /\ at' = [at EXCEPT ![p][t] = "edges"]
    BY <1>4 DEF Swept!Interior, Swept!Goto, Swept!loopVars
  <2>2. /\ at'[p][t] = "edges" /\ \A s \in Rank : s # p => at'[s] = at[s]
        /\ \A u \in 0 .. NThreads - 1 : u # t => at'[p][u] = at[p][u]
    <3>1. Swept!Goto(p, t, "edges")
      BY <1>4 DEF Swept!Interior
    <3>2. Goes(p, t, "edges")
      BY <3>1, ThreadGoes
    <3>3. QED
      BY <3>2 DEF Goes
  <2>3. LoopIn(W)' /\ \A s, u : HaloIn(W, s, u)' = HaloIn(W, s, u)
    BY <1>2, <2>1, LoopSameIn
  <2>4. PtIn(W)'
    BY <1>1, <1>2, <2>1, <2>3, PtSame
  <2>5. \A u \in 0 .. NThreads - 1 : ~AtSwap(p, u)'
    BY <1>3, <2>2 DEF AtSwap
  <2>6. Third'
    BY <1>1 DEF Third
  <2>7. PlacesOf(p)'
    <3>1. \A u \in 0 .. NThreads - 1 : at'[p][u] \in {"rows", "edges", "swap"}
      BY <1>2, <2>2 DEF PlacesOf
    <3>2. left'[p] = {}
      BY <1>4, <2>1
    <3>3. QED
      BY <2>5, <2>6, <3>1, <3>2 DEF PlacesOf
  <2> DEFINE none == {}
  <2>8. \A i, j : <<i, j>> \notin none
    OBVIOUS
  <2> HIDE DEF none
  <2>9. ASSUME NEW i \in 1 .. MyRows(p), NEW j \in 1 .. Cols
        PROVE  /\ Done(p, i, j)' => Done(p, i, j) \/ <<i, j>> \in none
               /\ IF <<i, j>> \in none THEN TempRight(W, p, i, j)'
                                        ELSE TempRight(W, p, i, j)' = TempRight(W, p, i, j)
    <3>1. TempRight(W, p, i, j)' = TempRight(W, p, i, j)
      BY <2>1 DEF TempRight
    <3>2. Done(p, i, j)' => Done(p, i, j)
      BY <1>1, <2>1, <2>5, <2>6 DEF Done
    <3>3. QED
      BY <2>8, <3>1, <3>2
  <2>10. Working(W)'
    <3>1. \A s \in Rank : s # p => /\ at'[s] = at[s] /\ left'[s] = left[s]
                                   /\ buf'[s][1 - cur[s]] = buf[s][1 - cur[s]]
      BY <2>1, <2>2
    <3>2. DOMAIN left' = Rank
      BY <1>2, <2>1
    <3>3. QED
      BY <1>1, <1>2, <2>1, <2>7, <2>9, <3>1, <3>2, WorkingStep, Zenon
  <2>11. HalosStay
    BY <2>1, NoRowStored
  <2>12. QED
    BY <2>1, <2>3, <2>4, <2>10, <2>11 DEF SweptIn, Stays
<1>5. CASE left[p] # {}
  <2>1. PICK k \in left[p] : /\ Swept!Sweep(p, {k} \X (1 .. Cols), LAMBDA i : i)
                             /\ left' = [left EXCEPT ![p] = @ \ {k}] /\ at' = at
    BY <1>5 DEF Swept!Interior
  <2> DEFINE cells == {k} \X (1 .. Cols)
  <2>2. k \in 2 .. MyRows(p) - 1 /\ MyRows(p) \in Nat
    BY <1>2, GridTypes
  <2>3. cells \in SUBSET ((1 .. MyRows(p)) \X (1 .. Cols)) /\ \A c \in cells : c[1] = k
    BY <2>2
  <2>4. From(p, k) = k
    BY <2>2 DEF From
  <2>5. \A j \in 1 .. Cols : <<k, j>> \in cells
    OBVIOUS
  <2> HIDE DEF cells
  <2>6. SweepOf(p, cells)
    <3>1. Swept!Sweep(p, cells, LAMBDA i : i)
      BY <2>1 DEF cells
    <3>2. \A c \in cells : From(p, c[1]) = c[1]
      BY <2>3, <2>4
    <3>3. QED
      BY <3>1, <3>2, SweepIsOf
  <2>7. \A c \in cells : /\ Seen(W, p, From(p, c[1]) - 1) /\ Seen(W, p, From(p, c[1]))
                         /\ Seen(W, p, From(p, c[1]) + 1)
    <3>1. k - 1 \in 1 .. MyRows(p) /\ k \in 1 .. MyRows(p) /\ k + 1 \in 1 .. MyRows(p)
      BY <2>2
    <3>2. Seen(W, p, k - 1) /\ Seen(W, p, k) /\ Seen(W, p, k + 1)
      BY <3>1, SeesOwn
    <3>3. QED
      BY <2>3, <2>4, <3>2
  <2>8. /\ DOMAIN left' = Rank /\ left'[p] = left[p] \ {k}
        /\ \A s \in Rank : s # p => at'[s] = at[s] /\ left'[s] = left[s]
    BY <1>2, <2>1
  <2>9. Third' /\ \A u : InRows(p, u)' = InRows(p, u) /\ AtSwap(p, u)' = AtSwap(p, u)
    BY <1>1, <2>1 DEF Third, InRows, AtSwap
  <2>10. PlacesOf(p)'
    <3>1. left'[p] \subseteq 2 .. MyRows(p) - 1
      BY <1>2, <2>8
    <3>2. \A u \in 0 .. NThreads - 1 : at'[p][u] \in {"rows", "edges", "swap"}
      BY <1>2, <2>1 DEF PlacesOf
    <3>3. \A u \in 0 .. NThreads - 1 : InRows(p, u)
      BY <1>1, <1>2, <1>5 DEF PlacesOf
    <3>4. QED
      BY <1>3, <2>9, <3>1, <3>2, <3>3 DEF PlacesOf
  <2>11. ASSUME NEW i \in 1 .. MyRows(p), NEW j \in 1 .. Cols, Done(p, i, j)'
         PROVE  Done(p, i, j) \/ <<i, j>> \in cells
    <3>1. i \in 2 .. MyRows(p) - 1 /\ i \notin left'[p]
      BY <1>3, <2>9, <2>11 DEF Done
    <3>2. CASE i = k
      BY <2>5, <3>2
    <3>3. CASE i # k
      BY <1>1, <2>8, <3>1, <3>3 DEF Done
    <3>4. QED
      BY <3>2, <3>3
  <2>12. QED
    BY <1>1, <2>3, <2>6, <2>7, <2>8, <2>10, <2>11, CellsSwept
<1>6. QED
  BY <1>4, <1>5

(* With as many rows as ranks every rank has one.                          *)
LEMMA RanksHaveRows ==
  ASSUME NProcs <= Rows, NEW p \in Rank
  PROVE  MyRows(p) > 0
<1>1. Rows \in Nat /\ NProcs \in Nat \ {0}
  BY GridAssumption DEF GridAssumption
<1>2. /\ Rows \div NProcs \in Nat /\ Rows % NProcs \in 0 .. NProcs - 1
      /\ Rows = NProcs * (Rows \div NProcs) + (Rows % NProcs)
  BY <1>1, Division
<1> DEFINE n == Rows \div NProcs
           r == Rows % NProcs
<1>3. n # 0
  <2>1. ASSUME n = 0
        PROVE  FALSE
    <3>1. NProcs * n = 0
      BY <1>1, <2>1
    <3> DEFINE y == NProcs * n
    <3>2. Rows = y + r /\ y = 0 /\ r \in 0 .. NProcs - 1
      BY <1>2, <3>1
    <3> HIDE DEF n, r, y
    <3>3. QED
      BY <1>1, <3>2
  <2>2. QED
    BY <2>1
<1>4. MyRows(p) = n + (IF p < r THEN 1 ELSE 0) /\ n \in Nat
  BY <1>2 DEF MyRows, MLIFE_myrows
<1> HIDE DEF n, r
<1>5. QED
  BY <1>3, <1>4

(* omp3: a thread's part of the first and the last row.                    *)
LEMMA EdgesSwept ==
  ASSUME NEW W, Sweeps(W), SweptIn(W), ThreadInv, NEW p \in Rank, MyRows(p) > 0,
         NEW t \in 0 .. NThreads - 1, Swept!Edges(p, t)
  PROVE  SweptIn(W)' /\ Stays /\ HalosStay
<1> DEFINE part == Swept!Part(t, Cols)
           cells == {1, MyRows(p)} \X part
<1>1. /\ at[p][t] = "edges" /\ left' = left
      /\ Swept!Sweep(p, cells, LAMBDA i : 1)
      /\ at' = [at EXCEPT ![p][t] = "swap"]
      /\ \A u \in 0 .. NThreads - 1 : ~InRows(p, u)
  BY SweptGrid, SweptNames DEF Swept!Edges, Swept!Goto, Swept!RowsDone, InRows
<1>2. part \subseteq 1 .. Cols
  BY DEF Swept!Part
<1>3. 0 \in 0 .. NThreads - 1
  BY ThreadsAssumption
<1>4. gen[p] < Iter /\ reqs[p] = {}
  BY <1>1, <1>3 DEF ThreadInv, InRows
<1>5. PlacesOf(p) /\ DOMAIN left = Rank
  BY DEF SweptIn, Working
<1>6. Third /\ left[p] = {}
  <2>1. ~InRows(p, t) /\ ~AtSwap(p, t)
    BY <1>1 DEF InRows, AtSwap
  <2>2. QED
    BY <1>5, <2>1 DEF PlacesOf
<1> HIDE DEF part
<1>7. MyRows(p) \in Nat /\ {1, MyRows(p)} \subseteq 1 .. MyRows(p)
  BY GridTypes
<1>8. /\ cells \in SUBSET ((1 .. MyRows(p)) \X (1 .. Cols))
      /\ \A c \in cells : c[1] \in {1, MyRows(p)}
      /\ \A i, j : i \in {1, MyRows(p)} /\ j \in part => <<i, j>> \in cells
  BY <1>2, <1>7
<1> HIDE DEF cells
<1>9. \A c \in cells : From(p, c[1]) = 1
  BY <1>6, <1>8 DEF From, Third
<1>10. SweepOf(p, cells)
  BY <1>1, <1>9, EdgesAreOf
<1>11. ASSUME NEW c \in cells
       PROVE  /\ Seen(W, p, From(p, c[1]) - 1) /\ Seen(W, p, From(p, c[1]))
              /\ Seen(W, p, From(p, c[1]) + 1)
  <2>1. \A r \in 0 .. MyRows(p) + 1 : Seen(W, p, r)
    BY <1>4, SeesAll, Zenon
  <2>2. /\ 1 - 1 \in 0 .. MyRows(p) + 1 /\ 1 \in 0 .. MyRows(p) + 1
        /\ 1 + 1 \in 0 .. MyRows(p) + 1
    BY <1>7
  <2>3. Seen(W, p, 1 - 1) /\ Seen(W, p, 1) /\ Seen(W, p, 1 + 1)
    BY <2>1, <2>2
  <2>4. QED
    BY <1>9, <2>3
<1>12. /\ AtSwap(p, t)' /\ \A s \in Rank : s # p => at'[s] = at[s]
       /\ \A u \in 0 .. NThreads - 1 : u # t => at'[p][u] = at[p][u]
  <2>1. Swept!Goto(p, t, "swap")
    BY Zenon DEF Swept!Edges
  <2>2. Goes(p, t, "swap")
    BY <2>1, ThreadGoes
  <2>3. QED
    BY <2>2 DEF Goes, AtSwap
<1>13. /\ reqs' = reqs /\ chan' = chan /\ program' = program
       /\ DOMAIN left' = Rank /\ left'[p] = {}
       /\ \A s \in Rank : s # p => at'[s] = at[s] /\ left'[s] = left[s]
  BY <1>1, <1>5, <1>6, <1>12 DEF Swept!Sweep
<1>14. PlacesOf(p)'
  <2>1. Third'
    BY <1>6, <1>13 DEF Third
  <2>2. \A u \in 0 .. NThreads - 1 : ~InRows(p, u)'
    BY <1>1, <1>12 DEF InRows, AtSwap
  <2>3. \A u \in 0 .. NThreads - 1 : at'[p][u] \in {"rows", "edges", "swap"}
    BY <1>5, <1>12 DEF PlacesOf, AtSwap
  <2>4. QED
    BY <1>13, <2>1, <2>2, <2>3 DEF PlacesOf
<1>15. ASSUME NEW i \in 1 .. MyRows(p), NEW j \in 1 .. Cols, Done(p, i, j)'
       PROVE  Done(p, i, j) \/ <<i, j>> \in cells
  <2>1. Third'
    BY <1>6, <1>13 DEF Third
  <2>2. CASE i \in 2 .. MyRows(p) - 1
    BY <1>6, <2>2 DEF Done
  <2>3. ASSUME i \in {1, MyRows(p)},
               NEW u \in 0 .. NThreads - 1, AtSwap(p, u)', j \in Swept!Part(u, Cols)
        PROVE  Done(p, i, j) \/ <<i, j>> \in cells
    <3>1. CASE u = t
      BY <1>8, <2>3, <3>1 DEF part
    <3>2. CASE u # t
      <4>1. AtSwap(p, u)
        BY <1>12, <2>3, <3>2 DEF AtSwap
      <4>2. QED
        BY <1>6, <2>3, <4>1 DEF Done
    <3>3. QED
      BY <3>1, <3>2
  <2>4. QED
    BY <1>15, <2>1, <2>2, <2>3 DEF Done
<1>16. QED
  BY <1>4, <1>8, <1>10, <1>11, <1>13, <1>14, <1>15, CellsSwept

(* When all threads wait for the swap all of temp is computed.             *)
LEMMA AllDoneAtSwap ==
  ASSUME NEW W, Working(W), NEW p \in Rank,
         \A t \in 0 .. NThreads - 1 : AtSwap(p, t),
         NEW i \in 1 .. MyRows(p), NEW j \in 1 .. Cols
  PROVE  TempRight(W, p, i, j)
<1>1. MyRows(p) \in Nat /\ Cols \in Nat
  BY GridTypes
<1>2. 0 \in 0 .. NThreads - 1
  BY ThreadsAssumption
<1>3. PlacesOf(p) /\ AtSwap(p, 0)
  BY <1>2 DEF Working
<1>4. Done(p, i, j)
  <2>1. CASE ~Third
    <3>1. PICK t \in 0 .. NThreads - 1 : i \in Swept!Part(t, MyRows(p))
      BY <1>1, PartsCover
    <3>2. QED
      BY <2>1, <3>1 DEF Done
  <2>2. CASE Third
    <3>1. left[p] = {}
      <4>1. ~InRows(p, 0)
        BY <1>3 DEF InRows, AtSwap
      <4>2. QED
        BY <1>2, <1>3, <2>2, <4>1 DEF PlacesOf
    <3>2. CASE i \in 2 .. MyRows(p) - 1
      BY <2>2, <3>1, <3>2 DEF Done
    <3>3. CASE i \in {1, MyRows(p)}
      <4>1. PICK t \in 0 .. NThreads - 1 : j \in Swept!Part(t, Cols)
        BY <1>1, PartsCover
      <4>2. QED
        BY <2>2, <3>3, <4>1 DEF Done
    <3>4. QED
      BY <1>1, <3>2, <3>3
  <2>3. QED
    BY <2>1, <2>2
<1>5. QED
  BY <1>4 DEF Working
(* A computed row of temp is the row of the next generation.               *)
LEMMA TempRows ==
  ASSUME NEW W, Sweeps(W), LoopIn(W), NEW p \in Rank, gen[p] < Iter, NEW i \in 1 .. MyRows(p),
         \A j \in 1 .. Cols : TempRight(W, p, i, j)
  PROVE  buf[p][1 - cur[p]][i] = W[start][gen[p] + 1][MyRowOffset(p) + i]
<1>1. /\ MyRows(p) \in Nat /\ MyRowOffset(p) \in Nat /\ MyRowOffset(p) + MyRows(p) <= Rows
      /\ Rows \in Nat /\ Cols \in Nat /\ Iter \in Nat
  BY GridTypes
<1>2. 1 - cur[p] \in 0 .. 1 /\ gen[p] + 1 \in 0 .. Iter /\ start \in Starts
  BY <1>1, CurIsIn
<1> DEFINE r == buf[p][1 - cur[p]][i]
           m == W[start][gen[p] + 1]
           x == MyRowOffset(p) + i
<1>3. x \in 0 .. Rows + 1 /\ i \in 0 .. MyRows(p) + 1
  BY <1>1
<1>4. Shape(r)
  BY <1>2, <1>3 DEF LoopIn, MatrixShape
<1>5. m \in GridType /\ Bounded(m)
  BY <1>2 DEF Sweeps
<1>6. \A j \in 1 .. Cols : r[j] = m[x][j]
  BY DEF TempRight
<1> HIDE DEF r, m, x
<1>7. m[x] \in RowType /\ m[x][0] = DIES /\ m[x][Cols + 1] = DIES
  <2>1. 0 \in 0 .. Cols + 1 /\ Cols + 1 \in 0 .. Cols + 1
    BY <1>1
  <2>2. QED
    BY <1>3, <1>5, <2>1 DEF GridType, Bounded
<1>8. DOMAIN r = 0 .. Cols + 1 /\ DOMAIN m[x] = 0 .. Cols + 1
      /\ r = [j \in 0 .. Cols + 1 |-> r[j]] /\ m[x] = [j \in 0 .. Cols + 1 |-> m[x][j]]
  BY <1>4, <1>7 DEF Shape, RowType
<1>9. \A j \in 0 .. Cols + 1 : r[j] = m[x][j]
  <2>1. ASSUME NEW j \in 0 .. Cols + 1
        PROVE  r[j] = m[x][j]
    <3>1. j \in 1 .. Cols \/ j = 0 \/ j = Cols + 1
      BY <1>1
    <3>2. r[0] = DIES /\ r[Cols + 1] = DIES
      BY <1>4 DEF Shape
    <3>3. QED
      BY <1>6, <1>7, <3>1, <3>2
  <2>2. QED
    BY <2>1
<1>10. r = m[x]
  BY <1>8, <1>9
<1>11. QED
  BY <1>10 DEF r, m, x

(* The swap after the last barrier: temp is the next generation.           *)
LEMMA SwapSwept ==
  ASSUME NEW W, Sweeps(W), SweptIn(W), CountInv, ThreadInv, NEW p \in Rank, Swept!SwapAll(p)
  PROVE  SweptIn(W)' /\ Moves(p) /\ HalosStay
<1>1. /\ \A t \in 0 .. NThreads - 1 : AtSwap(p, t)
      /\ at' = [at EXCEPT ![p] = [t \in 0 .. NThreads - 1 |-> "rows"]]
      /\ gen' = [gen EXCEPT ![p] = @ + 1] /\ cur' = [cur EXCEPT ![p] = 1 - @]
      /\ left' = [left EXCEPT ![p] = 2 .. MyRows(p) - 1]
      /\ reqs' = [reqs EXCEPT ![p] = IF gen'[p] < Iter
                                       THEN {"send", "recv"} \X Neighbours(p) ELSE {}]
      /\ start' = start /\ buf' = buf /\ program' = program /\ chan' = chan
  BY SweptNames, SweptGrid DEF Swept!SwapAll, AtSwap, Swept!InteriorRows
<1>2. 0 \in 0 .. NThreads - 1
  BY ThreadsAssumption
<1>3. gen[p] < Iter /\ reqs[p] = {}
  BY <1>1, <1>2 DEF ThreadInv, AtSwap
<1>4. LoopIn(W) /\ PtIn(W) /\ Working(W)
  BY DEF SweptIn
<1>5. /\ \A q \in Neighbours(p) : gen[q] >= gen[p]
      /\ gen'[p] < Iter => \A q \in Neighbours(p) : <<"recv", q>> \in reqs'[p]
      /\ \A s \in Rank : s # p => reqs'[s] = reqs[s] /\ gen'[s] = gen[s]
      /\ \A s \in Rank : \A t \in Neighbours(s) :
           Sent(s, t)' = Sent(s, t) /\ Got(s, t)' = Got(s, t)
  BY <1>1, <1>3, Posting
<1>6. /\ start \in Starts /\ gen \in [Rank -> 0 .. Iter] /\ Iter \in Nat
      /\ cur = [s \in Rank |-> gen[s] % 2]
      /\ DOMAIN buf = Rank /\ \A s \in Rank : MatrixShape(s) /\ RowsIn(W, s)
  BY <1>4, GridTypes DEF LoopIn
<1>7. gen' \in [Rank -> 0 .. Iter] /\ gen'[p] = gen[p] + 1
  BY <1>1, <1>3, <1>6
<1>8. cur' = [s \in Rank |-> gen'[s] % 2] /\ cur'[p] = 1 - cur[p]
      /\ \A s \in Rank : s # p => cur'[s] = cur[s]
  <2>1. /\ cur'[p] = 1 - cur[p] /\ DOMAIN cur' = Rank /\ cur' = [s \in Rank |-> cur'[s]]
        /\ \A s \in Rank : s # p => cur'[s] = cur[s]
    BY <1>1, <1>6
  <2>2. 1 - cur[p] = (gen[p] + 1) % 2
    BY <1>4, CurIsIn
  <2>3. \A s \in Rank : cur'[s] = gen'[s] % 2
    BY <1>5, <1>6, <1>7, <2>1, <2>2
  <2>4. QED
    BY <2>1, <2>3
<1>9. matrix(p)' = buf[p][1 - cur[p]] /\ \A s \in Rank : s # p => matrix(s)' = matrix(s)
  BY <1>1, <1>8 DEF matrix
<1>10. ASSUME NEW i \in 1 .. MyRows(p)
       PROVE  matrix(p)'[i] = W[start][gen[p] + 1][MyRowOffset(p) + i]
  <2>1. \A j \in 1 .. Cols : TempRight(W, p, i, j)
    BY <1>1, <1>4, AllDoneAtSwap
  <2>2. QED
    BY <1>3, <1>4, <1>9, <2>1, TempRows
<1>11. LoopIn(W)'
  <2>1. ASSUME NEW s \in Rank
        PROVE  RowsIn(W, s)'
    <3>1. CASE s = p
      BY <1>1, <1>7, <1>10, <3>1 DEF RowsIn, MyRows, MyRowOffset, MLIFE_myrows,
                                     MLIFE_myrowoffset
    <3>2. CASE s # p
      BY <1>1, <1>5, <1>6, <1>9, <3>2 DEF RowsIn
    <3>3. QED
      BY <3>1, <3>2
  <2>2. \A s \in Rank : MatrixShape(s)'
    <3>1. buf' = buf
      BY <1>1
    <3>2. \A s : MatrixShape(s)' = MatrixShape(s)
      BY <3>1 DEF MatrixShape, Shape, DeadRow, Bottom
    <3>3. QED
      BY <1>6, <3>2
  <2>3. start' \in Starts /\ DOMAIN buf' = Rank
    BY <1>1, <1>6
  <2>4. QED
    BY <1>7, <1>8, <2>1, <2>2, <2>3, Zenon DEF LoopIn, Rank
<1>12. ASSUME NEW s \in Rank, NEW t \in Rank, t # p
       PROVE  HaloIn(W, s, t)' = HaloIn(W, s, t)
  BY <1>1, <1>5, <1>9, <1>12 DEF HaloIn, RightIn, HaloIndex, MyRows, MyRowOffset, MLIFE_myrows,
                                 MLIFE_myrowoffset
<1>13. PtIn(W)'
  <2>1. \A s, t, x : Sane(s, t, x)' = Sane(s, t, x)
    BY DEF Sane, Shape, Bottom, DeadRow
  <2>2. \A k, s, t, x : RightIn(W, k, s, t, x)' = RightIn(W, k, s, t, x)
    BY <1>1 DEF RightIn, HaloIndex, MyRows, MyRowOffset, MLIFE_myrows, MLIFE_myrowoffset
  <2>3. ASSUME NEW s \in Rank, NEW t \in Neighbours(s)
        PROVE  /\ ChanIn(W, s, t)'
               /\ gen'[t] < Iter /\ <<"recv", s>> \notin reqs'[t] => HaloIn(W, s, t)'
    <3>1. t \in Rank /\ s \in Neighbours(t)
      BY NeighbourIs
    <3>2. ChanIn(W, s, t) /\ (gen[t] < Iter /\ <<"recv", s>> \notin reqs[t] => HaloIn(W, s, t))
      BY <1>4 DEF PtIn
    <3>3. ChanIn(W, s, t)'
      BY <1>1, <1>5, <2>1, <2>2, <3>2 DEF ChanIn
    <3>4. gen'[t] < Iter /\ <<"recv", s>> \notin reqs'[t] => HaloIn(W, s, t)'
      BY <1>5, <1>12, <3>1, <3>2
    <3>5. QED
      BY <3>3, <3>4
  <2>4. QED
    BY <2>3 DEF PtIn, Neighbours, Rank
<1>14. Working(W)'
  <2>1. DOMAIN left' = Rank /\ left'[p] = 2 .. MyRows(p) - 1
        /\ \A s \in Rank : s # p => left'[s] = left[s] /\ at'[s] = at[s]
    BY <1>1, <1>4 DEF Working
  <2>2. \A t \in 0 .. NThreads - 1 : at'[p][t] = "rows"
    BY <1>1 DEF ThreadInv
  <2>3. \A t \in 0 .. NThreads - 1 : InRows(p, t)' /\ ~AtSwap(p, t)'
    BY <2>2 DEF InRows, AtSwap
  <2>4. PlacesOf(p)'
    BY <2>1, <2>2, <2>3 DEF PlacesOf
  <2>5. \A i, j : ~Done(p, i, j)'
    BY <2>1, <2>3 DEF Done
  <2>6. ASSUME NEW s \in Rank, s # p
        PROVE  /\ PlacesOf(s)'
               /\ \A i \in 1 .. MyRows(s), j \in 1 .. Cols : Done(s, i, j)' => TempRight(W, s, i, j)'
    <3>1. at'[s] = at[s] /\ left'[s] = left[s] /\ Third' = Third
      BY <1>1, <2>1, <2>6 DEF Third
    <3>2. PlacesOf(s)'
      BY <1>4, <3>1 DEF Working, PlacesOf, InRows, AtSwap
    <3>3. \A i, j : Done(s, i, j)' = Done(s, i, j)
      BY <3>1 DEF Done, AtSwap
    <3>4. \A i, j : TempRight(W, s, i, j)' = TempRight(W, s, i, j)
      BY <1>1, <1>5, <1>8, <2>6 DEF TempRight
    <3>5. QED
      BY <1>4, <3>2, <3>3, <3>4 DEF Working
  <2>7. \A s \in Rank : /\ PlacesOf(s)'
                        /\ \A i \in 1 .. MyRows(s), j \in 1 .. Cols :
                             Done(s, i, j)' => TempRight(W, s, i, j)'
    BY <2>4, <2>5, <2>6
  <2>8. QED
    BY <2>1, <2>7 DEF Working, Rank, MyRows, MLIFE_myrows
<1>15. HalosStay
  BY <1>1, NoRowStored
<1>16. QED
  BY <1>1, <1>3, <1>5, <1>11, <1>13, <1>14, <1>15 DEF SweptIn, Moves

(* The threaded programs start with no cell of temp computed.              *)
LEMMA SweptBegins ==
  ASSUME NEW W, Sweeps(W), Swept!Init
  PROVE  SweptIn(W) /\ start \in Starts /\ gen = [p \in Rank |-> 0]
<1>1. /\ Swept!Exchange!Init
      /\ at = [p \in Rank |-> [t \in 0 .. NThreads - 1 |-> "rows"]]
      /\ left = [p \in Rank |-> 2 .. MyRows(p) - 1]
  BY SweptNames, SweptGrid DEF Swept!Init, Swept!InteriorRows
<1>2. Pt2pt!Init
  <2>1. Swept!Exchange!LoopInit <=> Pt2pt!LoopInit
    BY DEF Swept!Exchange!LoopInit, Pt2pt!LoopInit, Swept!Exchange!Inner, Pt2pt!Inner,
           Swept!Exchange!Rank, Pt2pt!Rank, Swept!Exchange!DIES, Pt2pt!DIES,
           Swept!Exchange!Junk, Pt2pt!Junk,
           Swept!Exchange!MyRows, Pt2pt!MyRows, Swept!Exchange!MLIFE_myrows,
           Pt2pt!MLIFE_myrows, Swept!Exchange!MyRowOffset, Pt2pt!MyRowOffset,
           Swept!Exchange!MLIFE_myrowoffset, Pt2pt!MLIFE_myrowoffset
  <2>2. \A p : Swept!Exchange!AllRequests(p) = Pt2pt!AllRequests(p)
    BY SweptNames, Pt2ptLoop
  <2>3. Swept!Exchange!Rank = Pt2pt!Rank
    BY DEF Swept!Exchange!Rank, Pt2pt!Rank
  <2>4. QED
    BY <1>1, <2>1, <2>2, <2>3 DEF Swept!Exchange!Init, Pt2pt!Init
<1>3. LoopInit /\ LoopInv /\ CountInv /\ PtInv
  BY <1>2, Pt2ptStart, LoopStart
<1>4. gen = [p \in Rank |-> 0] /\ start \in Starts /\ Iter \in Nat /\ 0 \in 0 .. Iter
  BY <1>3, GridAssumption DEF LoopInit, LoopInv, LoopIn, GridAssumption
<1>5. W[start][0] = World[start][0]
  BY <1>4, WorldIs DEF Sweeps
<1>6. LoopIn(W)
  <2>1. \A p \in Rank : RowsIn(W, p)
    BY <1>3, <1>4, <1>5 DEF LoopInv, LoopIn, RowsIn
  <2>2. QED
    BY <1>3, <2>1 DEF LoopInv, LoopIn
<1>7. PtIn(W)
  <2>1. ASSUME NEW p \in Rank, NEW q \in Neighbours(p)
        PROVE  /\ ChanIn(W, p, q)
               /\ gen[q] < Iter /\ <<"recv", p>> \notin reqs[q] => HaloIn(W, p, q)
    <3>1. q \in Rank /\ p \in Neighbours(q)
      BY NeighbourIs
    <3>2. /\ reqs = [s \in Rank |-> IF Iter > 0 THEN {"send", "recv"} \X Neighbours(s) ELSE {}]
          /\ chan = [s \in Rank |-> [t \in Rank |-> <<>>]]
      BY <1>2, Pt2ptLoop DEF Pt2pt!Init
    <3>3. gen[q] < Iter => <<"recv", p>> \in reqs[q]
      BY <1>4, <3>1, <3>2
    <3>4. Len(chan[p][q]) = Sent(p, q) - Got(p, q)
      BY <1>3, CountTypes
    <3>5. chan[p][q] = <<>>
      BY <3>1, <3>2
    <3>6. Sent(p, q) - Got(p, q) = 0
      BY <3>4, <3>5, EmptyQueue
    <3>7. QED
      BY <3>3, <3>6 DEF ChanIn
  <2>2. QED
    BY <2>1 DEF PtIn
<1>8. Working(W)
  <2>1. ASSUME NEW p \in Rank
        PROVE  PlacesOf(p) /\ \A i, j : ~Done(p, i, j)
    <3>1. \A t \in 0 .. NThreads - 1 : at[p][t] = "rows"
      BY <1>1
    <3>2. \A t \in 0 .. NThreads - 1 : InRows(p, t) /\ ~AtSwap(p, t)
      BY <3>1 DEF InRows, AtSwap
    <3>3. left[p] = 2 .. MyRows(p) - 1
      BY <1>1
    <3>4. QED
      BY <3>1, <3>2, <3>3 DEF PlacesOf, Done
  <2>2. QED
    BY <1>1, <2>1 DEF Working
<1>9. QED
  BY <1>4, <1>6, <1>7, <1>8 DEF SweptIn
(* Computing writes no halo.                                               *)
LEMMA ComputeKeepsHalo ==
  ASSUME NEW W, LoopIn(W), NEW p \in Rank, Compute(p)
  PROVE  HalosStay
<1>1. MyRows(p) \in Nat /\ Cols \in Nat
  BY GridTypes
<1>2. DOMAIN buf = Rank /\ MatrixShape(p) /\ 1 - cur[p] \in 0 .. 1
  BY CurIsIn DEF LoopIn
<1> DEFINE n == 1 - cur[p]
           new(i) == [j \in 0 .. Cols + 1 |->
                        IF Inner(p, i, j) THEN NextState(matrix(p), i, j) ELSE buf[p][n][i][j]]
<1>3. buf' = [buf EXCEPT ![p][n] = [i \in 0 .. MyRows(p) + 1 |-> new(i)]]
  BY DEF Compute
<1>4. ASSUME NEW i \in {0, MyRows(p) + 1}
      PROVE  i \in 0 .. MyRows(p) + 1 /\ new(i) = buf[p][n][i]
  <2>1. i \in 0 .. MyRows(p) + 1 /\ i \notin 1 .. MyRows(p)
    BY <1>1
  <2>2. buf[p][n][i] \in [0 .. Cols + 1 -> Nat]
    BY <1>2, <2>1 DEF MatrixShape, Shape
  <2>3. \A j : ~Inner(p, i, j)
    BY <2>1 DEF Inner
  <2>4. QED
    BY <2>1, <2>2, <2>3
<1> HIDE DEF new
<1>5. buf'[p] = [buf[p] EXCEPT ![n] = [i \in 0 .. MyRows(p) + 1 |-> new(i)]]
      /\ \A s \in Rank : s # p => buf'[s] = buf[s]
  BY <1>2, <1>3
<1> HIDE DEF n
<1>6. /\ buf'[p][n] = [i \in 0 .. MyRows(p) + 1 |-> new(i)]
      /\ \A b \in 0 .. 1 : b # n => buf'[p][b] = buf[p][b]
  BY <1>2, <1>5 DEF MatrixShape, n
<1>7. ASSUME NEW s \in Rank, NEW b \in 0 .. 1, NEW i \in {0, MyRows(s) + 1}
      PROVE  buf'[s][b][i] = buf[s][b][i]
  <2>1. CASE s # p
    BY <1>5, <2>1
  <2>2. CASE s = p /\ b # n
    BY <1>6, <2>2
  <2>3. CASE s = p /\ b = n
    BY <1>4, <1>6, <2>3
  <2>4. QED
    BY <2>1, <2>2, <2>3
<1>8. QED
  BY <1>7 DEF HalosStay, HaloStays

LEMMA StayInside ==
  ASSUME HalosStay
  PROVE  HalosInside
BY DEF HalosStay, HalosInside

(* A put is carried out when its target has entered the fence of the same  *)
(* generation, and the origin waits for it before it computes.             *)
LEMMA FenceInside ==
  ASSUME LoopInv, FenceInv, program = "fence", NEW p \in Rank, NEW q \in Neighbours(p),
         Fence!Put(p, q)
  PROVE  HalosInside
<1>1. /\ q \in puts[p] /\ opened[q][cur[p]] >= opened[p][cur[p]]
      /\ StoreHalo(p, q, cur[p], EdgeRow(p, q))
  BY FenceLoop DEF Fence!Put, Fence!TargetReady, Fence!Window
<1>2. /\ phase[p] # "compute" /\ FencePair(p, q)
  BY <1>1 DEF FenceInv
<1>3. q \in Rank
  BY NeighbourIs
<1>4. /\ gen[p] \in Nat /\ gen[q] \in Nat /\ cur[p] = gen[p] % 2 /\ cur[q] = gen[q] % 2
      /\ cur[p] \in 0 .. 1
  BY <1>3, CurIs
<1>5. Opens(p) = gen[p] + 1
  BY <1>2 DEF Opens
<1>6. Count(Opens(q), gen[p] % 2) >= Count(gen[p] + 1, gen[p] % 2) /\ Opens(q) \in Nat
  <2>1. opened[p][cur[p]] = Count(Opens(p), cur[p])
    BY <1>4, FenceTypes
  <2>2. opened[q][cur[p]] = Count(Opens(q), cur[p]) /\ Opens(q) \in Nat
    BY <1>3, <1>4, FenceTypes
  <2>3. QED
    BY <1>1, <1>4, <1>5, <2>1, <2>2
<1>7. Opens(q) >= gen[p] + 1
  BY <1>4, <1>6, CountReaches
<1>8. gen[q] <= gen[p]
  BY <1>1, <1>2 DEF FencePair
<1>9. phase[q] # "compute" /\ cur[q] = cur[p]
  <2>1. Opens(q) = gen[q] \/ (Opens(q) = gen[q] + 1 /\ phase[q] # "compute")
    BY <1>4 DEF Opens
  <2>2. Opens(q) # gen[q]
    BY <1>4, <1>7, <1>8
  <2>3. gen[q] = gen[p]
    BY <1>4, <1>7, <1>8, <2>1, <2>2
  <2>4. QED
    BY <1>4, <2>1, <2>2, <2>3
<1>10. InExchange(q, cur[p])
  BY <1>9 DEF InExchange
<1>11. QED
  BY <1>1, <1>3, <1>4, <1>10, RowStoredInside, Zenon DEF LoopInv

(* A row is stored when its target has posted the window of the generation *)
(* the row is of, which is then the one the target is in.                  *)
LEMMA PscwInside ==
  ASSUME LoopInv, PscwInv, program = "pscw", NEW p \in Rank, NEW q \in Neighbours(p),
         NEW w \in 0 .. 1, Pscw!Store(p, q, w)
  PROVE  HalosInside
<1> DEFINE f == flight[p][q][w]
<1>1. /\ f # <<>> /\ posted[q][w] >= Head(f).epoch /\ StoreHalo(p, q, w, Head(f).row)
  BY PscwLoop DEF Pscw!Store, Pscw!Exposed
<1>2. /\ q \in Rank /\ gen[q] \in Nat /\ (w = gen[q] % 2 \/ w = (gen[q] + 1) % 2)
      /\ PscwPair(p, q)
  BY PscwPairIs
<1>3. IsSeq(f)
  BY <1>2 DEF PscwInv, FlightShape
<1>4. Head(f) = f[1] /\ Len(f) # 0
  BY <1>1, <1>3, Dequeued
<1>5. posted[q][w] = Count(Posts(q), w) /\ Posts(q) \in {gen[q], gen[q] + 1}
  BY <1>2, PscwTypes
<1>6. Posts(q) \in Nat
  BY <1>2, <1>5
<1>7. w = gen[q] % 2
  <2>1. SUFFICES ASSUME w = (gen[q] + 1) % 2 PROVE FALSE
    BY <1>2
  <2>2. InFlight(f, gen[q] + 1, p, q)
    BY <1>2, <1>4, <2>1 DEF PscwPair
  <2>3. Count(Posts(q), (gen[q] + 1) % 2) >= Count((gen[q] + 1) + 1, (gen[q] + 1) % 2)
    BY <1>1, <1>4, <1>5, <2>1, <2>2 DEF InFlight
  <2>4. Posts(q) >= (gen[q] + 1) + 1
    BY <1>2, <1>6, <2>3, CountReaches
  <2>5. QED
    BY <1>2, <1>5, <2>4
<1>8. InFlight(f, gen[q], p, q)
  BY <1>2, <1>4, <1>7 DEF PscwPair
<1>9. Count(Posts(q), gen[q] % 2) >= Count(gen[q] + 1, gen[q] % 2)
  BY <1>1, <1>4, <1>5, <1>7, <1>8 DEF InFlight
<1>10. Posts(q) >= gen[q] + 1
  BY <1>2, <1>6, <1>9, CountReaches
<1>11. phase[q] # "compute"
  <2>1. Posts(q) # gen[q]
    BY <1>2, <1>5, <1>10
  <2>2. phase[q] = "compute" => Posts(q) = gen[q] + 0
    BY DEF Posts
  <2>3. QED
    BY <1>2, <2>1, <2>2
<1>12. w = cur[q]
  BY <1>2, <1>7, CurIs
<1>13. InExchange(q, w)
  BY <1>11, <1>12 DEF InExchange
<1>14. QED
  BY <1>1, <1>2, <1>13, RowStoredInside, Zenon DEF LoopInv

(* Steps of the programs with one thread per rank.                         *)
LEMMA LineInside ==
  ASSUME LifeInv, LoopInv, NEW p \in Rank, LineStep(p), program \notin Threaded
  PROVE  HalosInside
<1>1. LoopIn(World)
  BY DEF LoopInv
<1>2. CASE program = "pt2pt" /\ Pt2pt!Step(p)
  <2>1. CASE Pt2pt!Generation(p)
    BY <1>1, <2>1, Pt2ptLoop, ComputeKeepsHalo, StayInside DEF Pt2pt!Generation
  <2>2. ASSUME NEW q \in Neighbours(p), Pt2pt!Send(p, q)
        PROVE  HalosInside
    <3>1. buf' = buf
      BY <2>2 DEF Pt2pt!Send, Pt2pt!loopVars
    <3>2. QED
      BY <3>1, NoRowStored
  <2>3. ASSUME NEW q \in Neighbours(p), Pt2pt!Recv(p, q)
        PROVE  HalosInside
    <3>1. q \in Rank /\ program \notin {"fence", "pscw"}
      BY <1>2, NeighbourIs
    <3>2. QED
      BY <1>1, <2>3, <3>1, ReceivedInside
  <2>4. \/ Pt2pt!Generation(p)
        \/ \E q \in Neighbours(p) : Pt2pt!Send(p, q) \/ Pt2pt!Recv(p, q)
    BY <1>2, Pt2ptLoop DEF Pt2pt!Step
  <2>5. QED
    BY <2>1, <2>2, <2>3, <2>4
<1>3. CASE program = "fence" /\ Fence!Step(p)
  <2>1. CASE Fence!Generation(p)
    BY <1>1, <2>1, FenceLoop, ComputeKeepsHalo, StayInside DEF Fence!Generation
  <2>2. CASE Fence!OpenFence(p) \/ Fence!CloseFence(p)
    <3>1. buf' = buf
      BY <2>2 DEF Fence!OpenFence, Fence!CloseFence, Fence!loopVars
    <3>2. QED
      BY <3>1, NoRowStored
  <2>3. ASSUME NEW q \in Neighbours(p), Fence!Put(p, q)
        PROVE  HalosInside
    BY <1>3, <2>3, FenceInside DEF LifeInv
  <2>4. \/ Fence!OpenFence(p) \/ Fence!CloseFence(p) \/ Fence!Generation(p)
        \/ \E q \in Neighbours(p) : Fence!Put(p, q)
    BY <1>3, FenceLoop DEF Fence!Step
  <2>5. QED
    BY <2>1, <2>2, <2>3, <2>4
<1>4. CASE program = "pscw" /\ Pscw!Step(p)
  <2>1. CASE Pscw!Generation(p)
    BY <1>1, <2>1, PscwLoop, ComputeKeepsHalo, StayInside DEF Pscw!Generation
  <2>2. CASE Pscw!Post(p) \/ Pscw!Start(p) \/ Pscw!Complete(p)
    <3>1. buf' = buf
      BY <2>2 DEF Pscw!Post, Pscw!Start, Pscw!Complete, Pscw!loopVars
    <3>2. QED
      BY <3>1, NoRowStored
  <2>3. ASSUME NEW q \in Neighbours(p), Pscw!Put(p, q)
        PROVE  HalosInside
    <3>1. buf' = buf
      BY <2>3 DEF Pscw!Put, Pscw!loopVars
    <3>2. QED
      BY <3>1, NoRowStored
  <2>4. ASSUME NEW q \in Neighbours(p), NEW w \in 0 .. 1, Pscw!Store(p, q, w)
        PROVE  HalosInside
    BY <1>4, <2>4, PscwInside DEF LifeInv
  <2>5. \/ Pscw!Post(p) \/ Pscw!Start(p) \/ Pscw!Complete(p) \/ Pscw!Generation(p)
        \/ \E q \in Neighbours(p) : Pscw!Put(p, q) \/ \E w \in 0 .. 1 : Pscw!Store(p, q, w)
    BY <1>4, PscwLoop DEF Pscw!Step
  <2>6. QED
    BY <2>1, <2>2, <2>3, <2>4, <2>5
<1>5. QED
  BY <1>2, <1>3, <1>4 DEF LineStep, OfPt2pt, OfFence, OfPscw, OfSwept
(* Every step of the threaded programs.                                    *)
LEMMA ThreadsStep ==
  ASSUME NEW W, Sweeps(W), SweptIn(W), CountInv, ThreadInv, Third => NProcs <= Rows,
         program \in Threaded, NEW p \in Rank, Swept!Step(p)
  PROVE  SweptIn(W)' /\ (Stays \/ Moves(p)) /\ HalosInside
<1>1. CASE Swept!Message(p)
  BY <1>1, MessageSwept, Zenon
<1>2. CASE Swept!SwapAll(p)
  BY <1>2, SwapSwept, StayInside, Zenon
<1>3. ASSUME NEW t \in 0 .. NThreads - 1, Swept!Rows12(p, t)
      PROVE  SweptIn(W)' /\ Stays /\ HalosInside
  BY <1>3, Rows12Swept, StayInside, Zenon
<1>4. ASSUME NEW t \in 0 .. NThreads - 1, Swept!Interior(p, t)
      PROVE  SweptIn(W)' /\ Stays /\ HalosInside
  BY <1>4, InteriorSwept, StayInside, Zenon
<1>5. ASSUME NEW t \in 0 .. NThreads - 1, Swept!Edges(p, t)
      PROVE  SweptIn(W)' /\ Stays /\ HalosInside
  <2>1. at[p][t] = "edges"
    BY <1>5 DEF Swept!Edges
  <2>2. ~InRows(p, t) /\ ~AtSwap(p, t) /\ PlacesOf(p)
    BY <2>1 DEF InRows, AtSwap, SweptIn, Working
  <2>3. Third
    BY <2>2 DEF PlacesOf
  <2>4. MyRows(p) > 0
    BY <2>3, RanksHaveRows
  <2>5. QED
    BY <1>5, <2>4, EdgesSwept, StayInside, Zenon
<1>6. \/ Swept!Message(p) \/ Swept!SwapAll(p)
      \/ \E t \in 0 .. NThreads - 1 :
           Swept!Rows12(p, t) \/ Swept!Interior(p, t) \/ Swept!Edges(p, t)
  BY SweptNames DEF Swept!Step
<1>7. QED
  BY <1>1, <1>2, <1>3, <1>4, <1>5, <1>6, Zenon

(* A step of others.                                                       *)
LEMMA SweptSame ==
  ASSUME NEW W, SweptIn(W), UNCHANGED <<start, gen, buf, cur, reqs, chan, at, left, program>>
  PROVE  SweptIn(W)'
<1>1. LoopIn(W) /\ PtIn(W) /\ Working(W)
  BY DEF SweptIn
<1>2. LoopIn(W)' /\ \A s, t : HaloIn(W, s, t)' = HaloIn(W, s, t)
  BY <1>1, LoopSameIn, Zenon
<1>3. PtIn(W)'
  BY <1>1, <1>2, PtSame
<1>4. ASSUME NEW s, NEW i, NEW j
      PROVE  /\ PlacesOf(s)' = PlacesOf(s) /\ Done(s, i, j)' = Done(s, i, j)
             /\ TempRight(W, s, i, j)' = TempRight(W, s, i, j)
  <2>1. PlacesOf(s)' = PlacesOf(s)
    BY DEF PlacesOf, Third, InRows, AtSwap
  <2>2. Done(s, i, j)' = Done(s, i, j)
    BY DEF Done, Third, AtSwap
  <2>3. TempRight(W, s, i, j)' = TempRight(W, s, i, j)
    BY DEF TempRight
  <2>4. QED
    BY <2>1, <2>2, <2>3
<1>5. Working(W)'
  BY <1>1, <1>4 DEF Working, Rank, MyRows, MLIFE_myrows
<1>6. QED
  BY <1>2, <1>3, <1>5 DEF SweptIn

(* What all programs in one dimension keep true; the matrices of those in  *)
(* two are not touched.                                                    *)
RoundsInv ==
  /\ LifeInv /\ program \in Programs
  /\ program = "omp3" => SweptIn(Swept!WorldOmp3)
  /\ program \in {"omp1", "omp2"} => SweptIn(World)
  /\ program \notin Threaded => LoopInv

LEMMA RoundsBegin ==
  ASSUME AllInit
  PROVE  RoundsInv /\ gen = [p \in Rank |-> 0]
<1>1. Init /\ program \in Programs /\ LifeInv
  BY LifeAlone, LifeStart DEF Init
<1>2. Fence!Init
  BY <1>1 DEF Init
<1>3. LoopInit /\ LoopInv
  BY <1>2, FenceStart, LoopStart
<1>4. gen = [p \in Rank |-> 0]
  BY <1>3 DEF LoopInit
<1>5. program \in Threaded => Swept!Init
  BY <1>1 DEF Init
<1>6. CASE program = "omp3"
  <2>1. SweptIn(Swept!WorldOmp3)
    BY <1>5, <1>6, Omp3Sweeps, SweptBegins DEF Threaded
  <2>2. QED
    BY <1>1, <1>4, <1>6, <2>1 DEF RoundsInv, Threaded
<1>7. CASE program \in {"omp1", "omp2"}
  <2>1. SweptIn(World)
    BY <1>5, <1>7, WorldSweeps, SweptBegins DEF Threaded
  <2>2. QED
    BY <1>1, <1>4, <1>7, <2>1 DEF RoundsInv, Threaded
<1>8. CASE program \notin Threaded
  BY <1>1, <1>3, <1>4, <1>8 DEF RoundsInv, Threaded
<1>9. QED
  BY <1>6, <1>7, <1>8 DEF Threaded

LEMMA RoundsSteps ==
  ASSUME "omp3" \in Programs => NProcs <= Rows, RoundsInv, [Next]_vars
  PROVE  /\ RoundsInv' /\ program' = program /\ HalosInside
         /\ Stays \/ \E p \in Rank : Moves(p)
<1>1. LifeInv /\ LifeInv' /\ program' = program /\ program \in Programs
  BY LifeSteps DEF RoundsInv
<1>2. CASE UNCHANGED <<program, lineVars>>
  <2>1. UNCHANGED <<start, gen, buf, cur, reqs, chan, at, left, program>>
    BY <1>2 DEF lineVars, loopVars, pt2ptOnly, sweepOnly
  <2>2. LoopInv => LoopInv'
    BY <2>1, LoopSame
  <2>3. SweptIn(World) => SweptIn(World)'
    BY <2>1, SweptSame, Zenon
  <2>4. SweptIn(Swept!WorldOmp3) => SweptIn(Swept!WorldOmp3)'
    BY <2>1, SweptSame, Zenon
  <2>5. RoundsInv'
    BY <1>1, <2>2, <2>3, <2>4 DEF RoundsInv, Threaded
  <2>6. HalosInside /\ Stays
    BY <2>1, NoRowStored DEF Stays
  <2>7. QED
    BY <1>1, <2>5, <2>6, Zenon
<1>3. ASSUME NEW p \in Rank, LineStep(p), program \notin Threaded
      PROVE  RoundsInv' /\ (Stays \/ Moves(p)) /\ HalosInside
  <2>1. program \in {"pt2pt", "fence", "pscw"}
    BY <1>3 DEF LineStep, OfPt2pt, OfFence, OfPscw, OfSwept, Threaded
  <2>2. Stays \/ Moves(p)
    BY <1>1, <1>3, <2>1, LineSteps
  <2>3. LoopInv'
    BY <1>1, <2>1 DEF LifeInv
  <2>4. RoundsInv'
    BY <1>1, <2>1, <2>3 DEF RoundsInv, Threaded
  <2>5. HalosInside
    BY <1>1, <1>3, LineInside DEF RoundsInv
  <2>6. QED
    BY <2>2, <2>4, <2>5, Zenon
<1>4. ASSUME NEW p \in Rank, LineStep(p), program \in Threaded
      PROVE  RoundsInv' /\ (Stays \/ Moves(p)) /\ HalosInside
  <2>1. Swept!Step(p) /\ CountInv /\ ThreadInv
    BY <1>1, <1>4 DEF LineStep, OfPt2pt, OfFence, OfPscw, OfSwept, LifeInv, Threaded
  <2>2. Third => NProcs <= Rows
    BY <1>1 DEF Third
  <2>3. CASE program = "omp3"
    <3>1. Sweeps(Swept!WorldOmp3) /\ SweptIn(Swept!WorldOmp3)
      BY <2>3, Omp3Sweeps DEF RoundsInv
    <3>2. SweptIn(Swept!WorldOmp3)' /\ (Stays \/ Moves(p)) /\ HalosInside
      BY <1>4, <2>1, <2>2, <3>1, ThreadsStep, Zenon
    <3>3. RoundsInv'
      BY <1>1, <2>3, <3>2 DEF RoundsInv, Threaded
    <3>4. QED
      BY <3>2, <3>3, Zenon
  <2>4. CASE program # "omp3"
    <3>1. Sweeps(World) /\ SweptIn(World)
      BY <1>4, <2>4, WorldSweeps DEF RoundsInv, Threaded
    <3>2. SweptIn(World)' /\ (Stays \/ Moves(p)) /\ HalosInside
      BY <1>4, <2>1, <2>2, <3>1, ThreadsStep, Zenon
    <3>3. RoundsInv'
      BY <1>1, <1>4, <2>4, <3>2 DEF RoundsInv, Threaded
    <3>4. QED
      BY <3>2, <3>3, Zenon
  <2>5. QED
    BY <2>3, <2>4, Zenon
<1>5. UNCHANGED <<program, lineVars>> \/ \E p \in Rank : LineStep(p)
  BY DEF Next, Step, OfLine, OfMesh, vars
<1>6. QED
  BY <1>1, <1>2, <1>3, <1>4, <1>5, Zenon

-----------------------------------------------------------------------------
(* The blocks Rounds asks for are rows of W.                               *)
BlocksFrom(W) ==
  \A s, k, p : BlockOf(<<program, s>>, k, p)
                 = [i \in 1 .. MyRows(p) |-> W[s][k][MyRowOffset(p) + i]]

(* The blocks the ranks hold.                                              *)
Blocked == [p \in Rank |-> [i \in 1 .. MyRows(p) |-> matrix(p)[i]]]

LEMMA BlocksInit ==
  ASSUME NEW W, LoopIn(W), BlocksFrom(W), program \in Programs, gen = [p \in Rank |-> 0]
  PROVE  Blocks!Init
<1>1. start \in Starts /\ \A p \in Rank : RowsIn(W, p)
  BY DEF LoopIn
<1>2. \A p \in Rank : [i \in 1 .. MyRows(p) |-> matrix(p)[i]] = BlockOf(<<program, start>>, 0, p)
  BY <1>1 DEF RowsIn, BlocksFrom
<1>3. [p \in Rank |-> [i \in 1 .. MyRows(p) |-> matrix(p)[i]]]
        = [p \in Rank |-> BlockOf(<<program, start>>, 0, p)]
  BY <1>2
<1>4. QED
  BY <1>1, <1>3 DEF Blocks!Init

LEMMA BlocksStep ==
  ASSUME NEW W, LoopIn(W), LoopIn(W)', BlocksFrom(W), program' = program,
         Stays \/ \E p \in Rank : Moves(p)
  PROVE  [Blocks!Next]_(Blocks!vars)
<1>1. start' = start
  BY DEF Stays, Moves
<1> DEFINE Block(k, p) == BlockOf(<<program, start>>, k, p)
<1>2. \A k, p : Block(k, p) = [i \in 1 .. MyRows(p) |-> W[start][k][MyRowOffset(p) + i]]
  BY DEF BlocksFrom
<1> HIDE DEF Block
<1>3. Blocked = [p \in Rank |-> Block(gen[p], p)]
  <2>1. \A p \in Rank : RowsIn(W, p)
    BY DEF LoopIn
  <2>2. \A p \in Rank : [i \in 1 .. MyRows(p) |-> matrix(p)[i]] = Block(gen[p], p)
    BY <1>2, <2>1 DEF RowsIn
  <2>3. QED
    BY <2>2 DEF Blocked
<1>4. Blocked' = [p \in Rank |-> Block(gen'[p], p)]
  <2>1. \A p \in Rank : \A i \in 1 .. MyRows(p) :
          matrix(p)'[i] = W[start][gen'[p]][MyRowOffset(p) + i]
    BY <1>1 DEF LoopIn, RowsIn, Rank, MyRows, MyRowOffset, MLIFE_myrows, MLIFE_myrowoffset
  <2>2. \A p \in Rank : [i \in 1 .. MyRows(p) |-> matrix(p)'[i]] = Block(gen'[p], p)
    BY <1>2, <2>1
  <2>3. Blocked' = [p \in Rank |-> [i \in 1 .. MyRows(p) |-> matrix(p)'[i]]]
    BY DEF Blocked, Rank, MyRows, MLIFE_myrows
  <2>4. QED
    BY <2>2, <2>3
<1>5. CASE Stays
  BY <1>3, <1>4, <1>5 DEF Stays, Blocks!vars, Blocked
<1>6. ASSUME NEW p \in Rank, Moves(p)
      PROVE  Blocks!Advance(p)
  <2>1. gen' = [gen EXCEPT ![p] = @ + 1] /\ gen \in [Rank -> 0 .. Iter]
    BY <1>6 DEF Moves, LoopIn
  <2>2. Blocked' = [Blocked EXCEPT ![p] = Block(gen'[p], p)]
    BY <1>3, <1>4, <2>1
  <2>3. QED
    BY <1>1, <1>6, <2>2 DEF Moves, Blocks!Advance, Blocked, Block
<1>7. QED
  BY <1>5, <1>6 DEF Blocks!Next

LEMMA BlocksAre ==
  /\ program = "omp3" => BlocksFrom(Swept!WorldOmp3)
  /\ program # "omp3" => BlocksFrom(World)
BY SweptGrid DEF BlocksFrom, BlockOf, BlockAt, Swept!BlockOmp3

(* Every program that computes in rounds computes what it would without    *)
(* processes, in every instance: the ranks of the games of life, in one    *)
(* dimension with all exchanges and with threads and in two, hold their    *)
(* part of the generation they say, and so do the cells of pneo_pscw; no   *)
(* process runs ahead of one it depends on (RoundsComputed; pneo_fence,    *)
(* whose spikes do not arrive, is not held to it).  In the third sweep a   *)
(* rank without rows would compute a row its matrix does not have.         *)
THEOREM RoundsComputedRight ==
  ASSUME "omp3" \in Programs => NProcs <= Rows
  PROVE  AllSpec => RoundsComputed
<1>1. AllInit => RoundsInv /\ Blocks!Init
  <2>1. SUFFICES ASSUME AllInit PROVE RoundsInv /\ Blocks!Init
    OBVIOUS
  <2>2. RoundsInv /\ gen = [p \in Rank |-> 0] /\ program \in Programs
    BY <2>1, RoundsBegin DEF RoundsInv
  <2>3. CASE program = "omp3"
    BY <2>2, <2>3, BlocksAre, BlocksInit DEF RoundsInv, SweptIn
  <2>4. CASE program # "omp3"
    BY <2>2, <2>4, BlocksAre, BlocksInit DEF RoundsInv, SweptIn, LoopInv, Threaded
  <2>5. QED
    BY <2>2, <2>3, <2>4
<1>2. RoundsInv /\ [AllNext]_allVars => RoundsInv' /\ [Blocks!Next]_(Blocks!vars)
  <2>1. SUFFICES ASSUME RoundsInv, [AllNext]_allVars
                 PROVE  RoundsInv' /\ [Blocks!Next]_(Blocks!vars)
    OBVIOUS
  <2>2. RoundsInv' /\ program' = program /\ (Stays \/ \E p \in Rank : Moves(p))
    BY <2>1, LifeAlone, RoundsSteps
  <2>3. CASE program = "omp3"
    <3>1. LoopIn(Swept!WorldOmp3) /\ LoopIn(Swept!WorldOmp3)'
      BY <2>1, <2>2, <2>3 DEF RoundsInv, SweptIn
    <3>2. QED
      BY <2>2, <2>3, <3>1, BlocksAre, BlocksStep, Zenon
  <2>4. CASE program # "omp3"
    <3>1. LoopIn(World) /\ LoopIn(World)'
      BY <2>1, <2>2, <2>4 DEF RoundsInv, SweptIn, LoopInv, Threaded
    <3>2. QED
      BY <2>2, <2>4, <3>1, BlocksAre, BlocksStep, Zenon
  <2>5. QED
    BY <2>2, <2>3, <2>4
<1>3. AllSpec => Blocks!Spec
  BY <1>1, <1>2, PTL DEF AllSpec, Blocks!Spec
<1>4. QED
  BY <1>3, MeshComputesLife, PneoComputesNetwork, PTL DEF RoundsComputed, ComputesRounds

(* In every instance no row reaches a halo, and no spike a window, outside *)
(* of the exchange that is to receive it: not while its process computes,  *)
(* and not in the matrix the process is not exchanging                     *)
(* (NothingOutsideEpoch).                                                  *)
THEOREM NothingOutsideEpochHolds ==
  ASSUME "omp3" \in Programs => NProcs <= Rows
  PROVE  AllSpec => NothingOutsideEpoch
<1> DEFINE Written == \A q \in Rank, b \in 0 .. 1 :
                        (\E i \in {0, MyRows(q) + 1} : buf'[q][b][i] # buf[q][b][i])
                          => InExchange(q, b)
<1>1. AllInit => RoundsInv
  BY RoundsBegin
<1>2. RoundsInv /\ [AllNext]_allVars => RoundsInv'
  BY LifeAlone, RoundsSteps
<1>3. RoundsInv /\ [AllNext]_allVars => [Written]_vars
  <2>1. SUFFICES ASSUME RoundsInv, [AllNext]_allVars
                 PROVE  Written
    OBVIOUS
  <2>2. HalosInside
    BY <2>1, LifeAlone, RoundsSteps
  <2>3. QED
    BY <2>2 DEF HalosInside, HaloStays
<1> HIDE DEF Written
<1>4. AllSpec => [][Written]_vars
  BY <1>1, <1>2, <1>3, PTL DEF AllSpec
<1>5. QED
  BY <1>4, MeshInsideEpochs, NoSpikeOutsideEpoch
     DEF NothingOutsideEpoch, NoPutOutsideEpoch, Written
=============================================================================
