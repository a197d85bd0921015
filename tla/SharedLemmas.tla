---------------------------- MODULE SharedLemmas ----------------------------
(***************************************************************************)
(* What the proofs of several components share: facts about sets of        *)
(* natural numbers, which stand in for induction in a form that takes a    *)
(* set and not an operator; and the row-block distribution of mlife.c,     *)
(* which tiles the matrix for every number of rows and of processes.       *)
(***************************************************************************)
EXTENDS RowBlocks, Integers, TLAPS, WellFoundedInduction, NaturalsInduction

(* Every nonempty set of naturals has a least element.                     *)
LEMMA LeastElement ==
  ASSUME NEW S, S \subseteq Nat, S # {}
  PROVE  \E m \in S : \A k \in S : m <= k
<1> DEFINE R == {ss \in Nat \X Nat : ss[1] < ss[2]}
<1>1. IsWellFoundedOn(R, Nat)
  BY NatLessThanWellFounded DEF OpToRel
<1>2. PICK m \in S : \A k \in S : <<k, m>> \notin R
  <2> HIDE DEF R
  <2>1. QED
    BY <1>1, WFMin
<1>3. ASSUME NEW k \in S PROVE m <= k
  <2>1. m \in Nat /\ k \in Nat
    OBVIOUS
  <2>2. k < m => <<k, m>> \in R
    BY <2>1
  <2>3. <<k, m>> \notin R
    BY <1>2, Zenon
  <2>4. ~(k < m)
    <3> HIDE DEF R
    <3>1. QED
      BY <2>2, <2>3
  <2>5. QED
    <3> HIDE DEF R
    <3>1. QED
      BY <2>1, <2>4
<1>4. QED
  BY <1>3

(* A set of naturals that contains 0 and is closed under successor is Nat. *)
LEMMA NatSetInduction ==
  ASSUME NEW S, S \subseteq Nat, 0 \in S, \A n \in S : n + 1 \in S
  PROVE  S = Nat
<1> SUFFICES ASSUME Nat \ S # {} PROVE FALSE
  OBVIOUS
<1>1. PICK m \in Nat \ S : \A k \in Nat \ S : m <= k
  <2>1. Nat \ S \subseteq Nat
    OBVIOUS
  <2>2. QED
    BY <2>1, LeastElement
<1>2. m # 0 /\ m - 1 \in Nat
  OBVIOUS
<1>3. m - 1 \in S
  BY <1>1, <1>2
<1>4. (m - 1) + 1 \in S
  BY <1>3
<1>5. QED
  BY <1>4

(* What is defined from 0 upwards by a step F exists up to any n.          *)
LEMMA Recursion ==
  ASSUME NEW T, NEW b \in T, NEW n \in Nat, NEW F \in [1 .. n -> [T -> T]]
  PROVE  \E f \in [0 .. n -> T] : f[0] = b /\ \A k \in 1 .. n : f[k] = F[k][f[k - 1]]
<1> DEFINE Good(k, f) == /\ f \in [0 .. k -> T] /\ f[0] = b
                         /\ \A i \in 1 .. k : f[i] = F[i][f[i - 1]]
           S == {k \in Nat : k <= n => \E f : Good(k, f)}
<1>1. 0 \in S
  <2>1. Good(0, [i \in 0 .. 0 |-> b])
    OBVIOUS
  <2>2. QED
    BY <2>1
<1>2. ASSUME NEW k \in S PROVE k + 1 \in S
  <2> SUFFICES ASSUME k + 1 <= n PROVE \E f : Good(k + 1, f)
    <3> HIDE DEF Good
    <3>1. QED
      OBVIOUS
  <2>1. PICK f : Good(k, f)
    <3> HIDE DEF Good
    <3>1. QED
      OBVIOUS
  <2> DEFINE g == [i \in 0 .. k + 1 |-> IF i = k + 1 THEN F[k + 1][f[k]] ELSE f[i]]
  <2>2. F[k + 1][f[k]] \in T
    BY <2>1
  <2>3. g \in [0 .. k + 1 -> T] /\ g[0] = b
    BY <2>1, <2>2
  <2>4. ASSUME NEW i \in 1 .. k + 1 PROVE g[i] = F[i][g[i - 1]]
    <3>1. CASE i = k + 1
      BY <3>1
    <3>2. CASE i \in 1 .. k
      <4>1. g[i] = f[i] /\ g[i - 1] = f[i - 1]
        BY <3>2
      <4>2. QED
        BY <2>1, <3>2, <4>1
    <3>3. QED
      BY <3>1, <3>2
  <2>5. QED
    BY <2>3, <2>4
<1>3. S = Nat
  <2> HIDE DEF S
  <2>1. S \subseteq Nat
    BY DEF S
  <2>2. QED
    BY <1>1, <1>2, <2>1, NatSetInduction
<1>4. \E f : Good(n, f)
  <2> HIDE DEF Good
  <2>1. n \in {k \in Nat : k <= n => \E f : Good(k, f)}
    BY <1>3
  <2>2. QED
    BY <2>1
<1>5. QED
  BY <1>4

-----------------------------------------------------------------------------
(* The quotient and the remainder the distribution is built from.          *)
LEMMA Division ==
  ASSUME NEW rows \in Nat, NEW nprocs \in Nat \ {0}
  PROVE  /\ rows \div nprocs \in Nat
         /\ rows % nprocs \in 0 .. nprocs - 1
         /\ rows = nprocs * (rows \div nprocs) + (rows % nprocs)
  OBVIOUS

(* Multiplication by a natural number is monotone.                         *)
LEMMA TimesMonotone ==
  ASSUME NEW q \in Nat, NEW m \in Nat, NEW n \in Nat, m <= n
  PROVE  /\ m * q \in Nat
         /\ n * q \in Nat
         /\ m * q <= n * q
         /\ (m + 1) * q = m * q + q
<1>1. PICK d \in Nat : n = m + d
  <2>1. n - m \in Nat /\ n = m + (n - m)
    OBVIOUS
  <2>2. QED
    BY <2>1
<1>2. n * q = m * q + d * q /\ d * q \in Nat /\ m * q \in Nat
  BY <1>1
<1>3. (m + 1) * q = m * q + q
  OBVIOUS
<1>4. QED
  BY <1>2, <1>3

(* Sizes and offsets are natural numbers, for the rank after the last one  *)
(* as well.                                                                *)
LEMMA BlockTypes ==
  ASSUME NEW rows \in Nat, NEW nprocs \in Nat \ {0}, NEW p \in 0 .. nprocs
  PROVE  /\ MLIFE_myrows(rows, p, nprocs) \in Nat
         /\ MLIFE_myrowoffset(rows, p, nprocs) \in Nat
<1> DEFINE q == rows \div nprocs
           r == rows % nprocs
<1>1. q \in Nat /\ r \in Nat /\ p \in Nat
  BY Division
<1>2. p * q \in Nat
  BY <1>1, TimesMonotone
<1>3. /\ MLIFE_myrows(rows, p, nprocs) = q + (IF p < r THEN 1 ELSE 0)
      /\ MLIFE_myrowoffset(rows, p, nprocs) = p * q + (IF p > r THEN r ELSE p)
  BY DEF MLIFE_myrows, MLIFE_myrowoffset
<1> HIDE DEF q, r
<1>4. QED
  BY <1>1, <1>2, <1>3

(* The blocks follow one another without a gap or an overlap: the first    *)
(* starts at the first row, each starts where the one before it ends, and  *)
(* the last ends at the last row (mlife.c, MLIFE_myrows and                *)
(* MLIFE_myrowoffset, which are written independently of each other).      *)
THEOREM Tiling ==
  ASSUME NEW rows \in Nat, NEW nprocs \in Nat \ {0}
  PROVE  /\ MLIFE_myrowoffset(rows, 0, nprocs) = 0
         /\ MLIFE_myrowoffset(rows, nprocs, nprocs) = rows
         /\ \A p \in 0 .. nprocs - 1 :
              MLIFE_myrowoffset(rows, p + 1, nprocs) =
                MLIFE_myrowoffset(rows, p, nprocs)
                  + MLIFE_myrows(rows, p, nprocs)
<1> DEFINE q == rows \div nprocs
           r == rows % nprocs
<1>1. q \in Nat /\ r \in 0 .. nprocs - 1 /\ rows = nprocs * q + r
  BY Division
<1>2. \A p : /\ MLIFE_myrows(rows, p, nprocs) = q + (IF p < r THEN 1 ELSE 0)
             /\ MLIFE_myrowoffset(rows, p, nprocs) =
                  p * q + (IF p > r THEN r ELSE p)
  BY DEF MLIFE_myrows, MLIFE_myrowoffset
<1> HIDE DEF q, r
<1>3. 0 * q = 0 /\ nprocs * q \in Nat
  BY <1>1
<1>4. MLIFE_myrowoffset(rows, 0, nprocs) = 0
  BY <1>1, <1>2, <1>3
<1>5. MLIFE_myrowoffset(rows, nprocs, nprocs) = rows
  BY <1>1, <1>2, <1>3
<1>6. ASSUME NEW p \in 0 .. nprocs - 1
      PROVE  MLIFE_myrowoffset(rows, p + 1, nprocs) =
               MLIFE_myrowoffset(rows, p, nprocs)
                 + MLIFE_myrows(rows, p, nprocs)
  <2>1. p \in Nat
    OBVIOUS
  <2>2. p * q \in Nat /\ (p + 1) * q = p * q + q
    BY <1>1, <2>1, TimesMonotone
  <2>3. /\ MLIFE_myrowoffset(rows, p + 1, nprocs) =
             (p + 1) * q + (IF p + 1 > r THEN r ELSE p + 1)
        /\ MLIFE_myrowoffset(rows, p, nprocs) =
             p * q + (IF p > r THEN r ELSE p)
        /\ MLIFE_myrows(rows, p, nprocs) = q + (IF p < r THEN 1 ELSE 0)
    BY <1>2
  <2>4. QED
    BY <1>1, <2>1, <2>2, <2>3
<1>7. QED
  BY <1>4, <1>5, <1>6

(* Later ranks hold later rows.                                            *)
LEMMA OffsetsGrow ==
  ASSUME NEW rows \in Nat, NEW nprocs \in Nat \ {0},
         NEW p \in 0 .. nprocs, NEW s \in 0 .. nprocs, p <= s
  PROVE  MLIFE_myrowoffset(rows, p, nprocs)
           <= MLIFE_myrowoffset(rows, s, nprocs)
<1> DEFINE q == rows \div nprocs
           r == rows % nprocs
<1>1. q \in Nat /\ r \in Nat /\ p \in Nat /\ s \in Nat
  BY Division
<1>2. p * q \in Nat /\ s * q \in Nat /\ p * q <= s * q
  BY <1>1, TimesMonotone
<1>3. /\ MLIFE_myrowoffset(rows, p, nprocs) = p * q + (IF p > r THEN r ELSE p)
      /\ MLIFE_myrowoffset(rows, s, nprocs) = s * q + (IF s > r THEN r ELSE s)
  BY DEF MLIFE_myrowoffset
<1> HIDE DEF q, r
<1>4. QED
  BY <1>1, <1>2, <1>3

(* Every row of the matrix is held by exactly one rank, so the ranks       *)
(* compute, print and store each row once.                                 *)
THEOREM EveryRowOnce ==
  ASSUME NEW rows \in Nat, NEW nprocs \in Nat \ {0}, NEW row \in 1 .. rows
  PROVE  /\ \E p \in 0 .. nprocs - 1 : row \in RowsOf(rows, p, nprocs)
         /\ \A p, s \in 0 .. nprocs - 1 :
              row \in RowsOf(rows, p, nprocs) /\ row \in RowsOf(rows, s, nprocs)
                => p = s
<1> DEFINE Off(p) == MLIFE_myrowoffset(rows, p, nprocs)
           Size(p) == MLIFE_myrows(rows, p, nprocs)
<1>1. \A p \in 0 .. nprocs : Off(p) \in Nat /\ Size(p) \in Nat
  BY BlockTypes
<1>2. /\ Off(0) = 0 /\ Off(nprocs) = rows
      /\ \A p \in 0 .. nprocs - 1 : Off(p + 1) = Off(p) + Size(p)
  BY Tiling
<1>3. \A p, s \in 0 .. nprocs : p <= s => Off(p) <= Off(s)
  BY OffsetsGrow
<1>4. \A p : RowsOf(rows, p, nprocs) = Off(p) + 1 .. Off(p) + Size(p)
  BY DEF RowsOf
<1> HIDE DEF Off, Size
<1>5. \E p \in 0 .. nprocs - 1 : row \in RowsOf(rows, p, nprocs)
  <2> DEFINE Ends == {k \in 0 .. nprocs : row <= Off(k)}
  <2>1. Ends \subseteq Nat /\ Ends # {}
    BY <1>2
  <2>2. PICK m \in Ends : \A k \in Ends : m <= k
    <3> HIDE DEF Ends
    <3>1. QED
      BY <2>1, LeastElement
  <2>3. m \in 1 .. nprocs
    BY <1>2
  <2>4. m - 1 \in 0 .. nprocs - 1 /\ m - 1 \in 0 .. nprocs /\ (m - 1) + 1 = m
    BY <2>3
  <2>5. ~(row <= Off(m - 1))
    BY <2>2, <2>4
  <2>6. Off(m) = Off(m - 1) + Size(m - 1) /\ row <= Off(m)
    BY <1>2, <2>2, <2>4
  <2>7. Off(m - 1) \in Nat /\ Size(m - 1) \in Nat /\ row \in Nat
    BY <1>1, <2>4
  <2>8. row \in Off(m - 1) + 1 .. Off(m - 1) + Size(m - 1)
    BY <2>5, <2>6, <2>7
  <2>9. row \in RowsOf(rows, m - 1, nprocs)
    BY <1>4, <2>8
  <2>10. QED
    BY <2>4, <2>9
<1>6. ASSUME NEW p \in 0 .. nprocs - 1, NEW s \in 0 .. nprocs - 1, p < s,
             row \in RowsOf(rows, p, nprocs), row \in RowsOf(rows, s, nprocs)
      PROVE  FALSE
  <2>1. p + 1 \in 0 .. nprocs /\ s \in 0 .. nprocs /\ p + 1 <= s
    BY <1>6
  <2>2. Off(p) + Size(p) <= Off(s)
    BY <1>2, <1>3, <2>1
  <2>3. /\ row \in Off(p) + 1 .. Off(p) + Size(p)
        /\ row \in Off(s) + 1 .. Off(s) + Size(s)
    BY <1>4, <1>6, Zenon
  <2>4. Off(p) \in Nat /\ Size(p) \in Nat /\ Off(s) \in Nat
    BY <1>1
  <2>5. QED
    BY <2>2, <2>3, <2>4
<1>7. QED
  BY <1>5, <1>6
=============================================================================
