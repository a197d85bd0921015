-------------------------- MODULE Life2dMeshProofs --------------------------
(***************************************************************************)
(* The block-block distribution of mlife2d.c tiles the matrix, for every   *)
(* matrix and every grid of processes, the ones with more processes than   *)
(* rows or columns included.                                               *)
(***************************************************************************)
EXTENDS Life2dMesh, SharedLemmas

(* One direction: count blocks of the same size, the last extended to n.   *)
Last(r, count, size, n) == IF r = count - 1 THEN n ELSE (r + 1) * size
Slab(r, count, size, n) == 1 + r * size .. Last(r, count, size, n)

LEMMA SlabsTile ==
  ASSUME NEW n \in Nat, NEW count \in Nat \ {0}, NEW size \in Nat, NEW x \in 1 .. n
  PROVE  /\ \E r \in 0 .. count - 1 : x \in Slab(r, count, size, n)
         /\ \A r, s \in 0 .. count - 1 :
              x \in Slab(r, count, size, n) /\ x \in Slab(s, count, size, n) => r = s
<1> DEFINE L(r) == Last(r, count, size, n)
<1>1. \A r \in 0 .. count - 1 : /\ r * size \in Nat /\ (r + 1) * size \in Nat
                                /\ L(r) \in Nat
  <2> SUFFICES ASSUME NEW r \in 0 .. count - 1
               PROVE  r * size \in Nat /\ (r + 1) * size \in Nat /\ L(r) \in Nat
    OBVIOUS
  <2>1. r \in Nat /\ r + 1 \in Nat
    OBVIOUS
  <2>2. r * size \in Nat /\ (r + 1) * size \in Nat
    BY <2>1, TimesMonotone
  <2>3. QED
    BY <2>2 DEF Last
<1>2. \E r \in 0 .. count - 1 : x \in Slab(r, count, size, n)
  <2> DEFINE Ends == {r \in 0 .. count - 1 : x <= L(r)}
  <2>1. Ends \subseteq Nat /\ Ends # {}
    <3>1. count - 1 \in Ends
      BY DEF Last
    <3>2. QED
      BY <3>1
  <2>2. PICK m \in Ends : \A k \in Ends : m <= k
    <3> HIDE DEF Ends
    <3>1. QED
      BY <2>1, LeastElement
  <2>3. m \in 0 .. count - 1 /\ x <= L(m) /\ m * size \in Nat /\ L(m) \in Nat
    BY <1>1
  <2>4. m * size < x
    <3>1. CASE m = 0
      BY <3>1
    <3>2. CASE m # 0
      <4>1. m - 1 \in 0 .. count - 1 /\ ~(m <= m - 1) /\ (m - 1) + 1 = m
        BY <2>3, <3>2
      <4>2. ~(x <= L(m - 1))
        BY <2>2, <4>1
      <4>3. L(m - 1) = m * size
        BY <2>3, <4>1 DEF Last
      <4>4. QED
        BY <2>3, <4>2, <4>3
    <3>3. QED
      BY <3>1, <3>2
  <2>5. x \in 1 + m * size .. L(m)
    BY <2>3, <2>4
  <2>6. QED
    BY <2>3, <2>5 DEF Slab
<1>3. ASSUME NEW r \in 0 .. count - 1, NEW s \in 0 .. count - 1, r < s,
             x \in Slab(r, count, size, n), x \in Slab(s, count, size, n)
      PROVE  FALSE
  <2>1. x <= L(r) /\ 1 + s * size <= x
    BY <1>1, <1>3 DEF Slab
  <2>2. r # count - 1 /\ r + 1 \in Nat /\ s \in Nat /\ r + 1 <= s
    BY <1>3
  <2>3. L(r) = (r + 1) * size
    BY <2>2 DEF Last
  <2>4. (r + 1) * size <= s * size
    BY <2>2, TimesMonotone
  <2>5. s * size \in Nat /\ (r + 1) * size \in Nat
    BY <1>1
  <2>6. QED
    BY <2>1, <2>3, <2>4, <2>5
<1>4. QED
  BY <1>2, <1>3

(* A place in the grid of processes has one number, and back.              *)
LEMMA GridNumbers ==
  ASSUME NEW m \in Nat \ {0}, NEW a \in Nat, NEW b \in 0 .. m - 1
  PROVE  (a * m + b) \div m = a /\ (a * m + b) % m = b
<1> DEFINE p == a * m + b
           q == p \div m
           r == p % m
<1>1. p \in Nat /\ a * m \in Nat
  BY TimesMonotone
<1>2. q \in Nat /\ r \in 0 .. m - 1 /\ p = m * q + r
  BY <1>1, Division
<1>3. q * m \in Nat /\ m * q = q * m
  BY <1>2, TimesMonotone
<1>4. ~(a < q)
  <2> SUFFICES ASSUME a < q PROVE FALSE
    OBVIOUS
  <2>1. (a + 1) * m <= q * m /\ (a + 1) * m = a * m + m
    <3>1. a + 1 \in Nat /\ a + 1 <= q
      BY <1>2
    <3>2. QED
      BY <1>2, <3>1, TimesMonotone
  <2> HIDE DEF q, r
  <2>2. QED
    BY <1>1, <1>2, <1>3, <2>1
<1>5. ~(q < a)
  <2> SUFFICES ASSUME q < a PROVE FALSE
    OBVIOUS
  <2>1. (q + 1) * m <= a * m /\ (q + 1) * m = q * m + m
    <3>1. q + 1 \in Nat /\ q + 1 <= a
      BY <1>2
    <3>2. QED
      BY <1>2, <3>1, TimesMonotone
  <2> HIDE DEF q, r
  <2>2. QED
    BY <1>1, <1>2, <1>3, <2>1
<1> HIDE DEF q, r
<1>6. a = q
  BY <1>2, <1>4, <1>5
<1>7. b = r
  BY <1>1, <1>2, <1>3, <1>6
<1>8. QED
  BY <1>6, <1>7 DEF q, r

LEMMA PlaceOfRank ==
  ASSUME MeshAssumption, NEW p \in Rank
  PROVE  /\ prow(p) \in 0 .. PRows - 1 /\ pcol(p) \in 0 .. PCols - 1
         /\ p = prow(p) * PCols + pcol(p)
<1> DEFINE a == p \div PCols
           b == p % PCols
           total == PRows * PCols
<1>1. total \in Nat /\ p \in Nat /\ p < total
  BY TimesMonotone DEF MeshAssumption, Rank
<1>2. a \in Nat /\ b \in 0 .. PCols - 1 /\ p = PCols * a + b
  BY <1>1, Division DEF MeshAssumption
<1>3. PCols * a = a * PCols /\ a * PCols \in Nat
  BY <1>2, TimesMonotone DEF MeshAssumption
<1>4. ~(PRows <= a)
  <2> SUFFICES ASSUME PRows <= a PROVE FALSE
    OBVIOUS
  <2>1. total <= a * PCols
    BY <1>2, TimesMonotone DEF MeshAssumption
  <2> HIDE DEF total, a, b
  <2>2. QED
    BY <1>1, <1>2, <1>3, <2>1 DEF MeshAssumption
<1>5. prow(p) = a /\ pcol(p) = b
  BY DEF prow, pcol
<1> HIDE DEF total, a, b
<1>6. QED
  BY <1>2, <1>3, <1>4, <1>5 DEF MeshAssumption

LEMMA RankOfPlace ==
  ASSUME MeshAssumption, NEW a \in 0 .. PRows - 1, NEW b \in 0 .. PCols - 1
  PROVE  \E p \in Rank : prow(p) = a /\ pcol(p) = b
<1> DEFINE p == a * PCols + b
<1>1. a \in Nat /\ a + 1 \in Nat /\ a + 1 <= PRows /\ PRows \in Nat
  BY DEF MeshAssumption
<1>2. a * PCols \in Nat /\ (a + 1) * PCols = a * PCols + PCols
  BY <1>1, TimesMonotone DEF MeshAssumption
<1>3. (a + 1) * PCols <= PRows * PCols /\ PRows * PCols \in Nat
  BY <1>1, TimesMonotone DEF MeshAssumption
<1>4. p \in Rank
  <2> DEFINE total == PRows * PCols
             rest == a * PCols
  <2>1. rest \in Nat /\ rest + PCols <= total /\ total \in Nat
    BY <1>2, <1>3
  <2>2. p = rest + b
    OBVIOUS
  <2>3. Rank = 0 .. total - 1
    BY DEF Rank
  <2> HIDE DEF total, rest, p
  <2>4. QED
    BY <2>1, <2>2, <2>3 DEF MeshAssumption
<1>5. p \div PCols = a /\ p % PCols = b
  BY <1>1, GridNumbers DEF MeshAssumption
<1>6. QED
  BY <1>4, <1>5 DEF prow, pcol

(* The rows and the columns of a rank are slabs.                           *)
LEMMA BlockIsSlabs ==
  ASSUME NEW p \in Rank
  PROVE  CellsOf(p) = Slab(prow(p), PRows, GRows \div PRows, GRows)
                        \X Slab(pcol(p), PCols, GCols \div PCols, GCols)
  BY DEF CellsOf, Slab, Last, firstrow, lastrow, firstcol, lastcol

(* Every cell of the matrix is held by exactly one rank (mlife2d.c,        *)
(* MLIFE_MeshDecomp): none is computed twice, none is left out.            *)
THEOREM MeshTiling ==
  ASSUME MeshAssumption, NEW i \in 1 .. GRows, NEW j \in 1 .. GCols
  PROVE  /\ \E p \in Rank : <<i, j>> \in CellsOf(p)
         /\ \A p, q \in Rank :
              <<i, j>> \in CellsOf(p) /\ <<i, j>> \in CellsOf(q) => p = q
<1> DEFINE RowSlab(a) == Slab(a, PRows, GRows \div PRows, GRows)
           ColSlab(b) == Slab(b, PCols, GCols \div PCols, GCols)
<1>1. /\ GRows \in Nat /\ GCols \in Nat
      /\ PRows \in Nat \ {0} /\ PCols \in Nat \ {0}
      /\ GRows \div PRows \in Nat /\ GCols \div PCols \in Nat
  BY Division DEF MeshAssumption
<1>2. /\ \E a \in 0 .. PRows - 1 : i \in RowSlab(a)
      /\ \A a, b \in 0 .. PRows - 1 : i \in RowSlab(a) /\ i \in RowSlab(b) => a = b
  BY <1>1, SlabsTile
<1>3. /\ \E a \in 0 .. PCols - 1 : j \in ColSlab(a)
      /\ \A a, b \in 0 .. PCols - 1 : j \in ColSlab(a) /\ j \in ColSlab(b) => a = b
  BY <1>1, SlabsTile
<1>4. \A p \in Rank : CellsOf(p) = RowSlab(prow(p)) \X ColSlab(pcol(p))
  BY BlockIsSlabs
<1> HIDE DEF RowSlab, ColSlab
<1>5. \E p \in Rank : <<i, j>> \in CellsOf(p)
  <2>1. PICK a \in 0 .. PRows - 1 : i \in RowSlab(a)
    BY <1>2
  <2>2. PICK b \in 0 .. PCols - 1 : j \in ColSlab(b)
    BY <1>3
  <2>3. PICK p \in Rank : prow(p) = a /\ pcol(p) = b
    BY RankOfPlace
  <2>4. QED
    BY <1>4, <2>1, <2>2, <2>3
<1>6. ASSUME NEW p \in Rank, NEW q \in Rank,
             <<i, j>> \in CellsOf(p), <<i, j>> \in CellsOf(q)
      PROVE  p = q
  <2>1. /\ i \in RowSlab(prow(p)) /\ j \in ColSlab(pcol(p))
        /\ i \in RowSlab(prow(q)) /\ j \in ColSlab(pcol(q))
    BY <1>4, <1>6
  <2>2. prow(p) = prow(q) /\ pcol(p) = pcol(q)
    BY <1>2, <1>3, <2>1, PlaceOfRank
  <2>3. p = prow(p) * PCols + pcol(p) /\ q = prow(q) * PCols + pcol(q)
    BY PlaceOfRank
  <2>4. QED
    BY <2>2, <2>3
<1>7. QED
  BY <1>5, <1>6
=============================================================================
