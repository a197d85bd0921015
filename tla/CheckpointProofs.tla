-------------------------- MODULE CheckpointProofs --------------------------
(***************************************************************************)
(* For every set of jobs, of any shape and number of ranks: what a job     *)
(* restores is what the last whole checkpoint holds, a checkpoint of       *)
(* another shape is refused, and the ranks of a job restart together.      *)
(***************************************************************************)
EXTENDS MCLifeCheckpoint, SharedLemmas

Places == {"start", "header", "alloc", "reduce", "rows", "failed", "close", "compute",
           "define", "write", "closing", "done", "over"}

CheckpointTypeOK ==
  /\ id \in Nat \ {0}
  /\ job \in Options
  /\ pc \in [Ranks -> Places]
  /\ header \in [Ranks -> BOOLEAN]
  /\ DOMAIN mem = Ranks
  /\ hurt \subseteq Ranks
  /\ whole # None => whole.id \in Nat \ {0} /\ whole.job \in Options

(* Nobody reads while the file is written, and the ranks fail together.    *)
WritersTogether ==
  (\E p \in Ranks : pc[p] \in {"write", "closing"}) =>
    \A p \in Ranks : pc[p] \in {"write", "closing"}

(* Where column j of row r is in a file of cols columns.                   *)
At(cols, r, j) == (r - 1) * cols + 2 + j

(* The file holds the rows of the checkpoint whole that were written.      *)
FileWhole ==
  whole # None =>
    /\ {0, 1} \subseteq DOMAIN file
    /\ file[0] = <<whole.job.rows>> /\ file[1] = <<whole.job.cols>>
    /\ \A r \in Missing + 1 .. whole.job.rows, j \in 1 .. whole.job.cols :
         LET x == At(whole.job.cols, r, j)
         IN  x \in DOMAIN file /\ file[x] = <<whole.id, r, j>>

(* ... and, while it is written, what the ranks that are done have put     *)
(* there.                                                                  *)
Written(p) ==
  /\ p = 0 => /\ {0, 1} \subseteq DOMAIN file
              /\ file[0] = <<job.rows>> /\ file[1] = <<job.cols>>
  /\ p # 0 => \A c \in Cells(p) :
                /\ Position(p, c) \in DOMAIN file
                /\ file[Position(p, c)] = <<id, MyOffset(p) + c[1], c[2]>>

HeaderKnown(p) ==
  whole # None => /\ pc[p] = "reduce" /\ p \notin hurt => header[p] = HeaderFits
                  /\ pc[p] \in {"rows", "close"} => HeaderFits
                  /\ pc[p] = "compute" /\ job.restart => HeaderFits

MemoryRead(p) ==
  pc[p] \in {"close", "compute"} /\ job.restart /\ hurt = {} =>
    \A c \in Cells(p) : mem[p][c] = Contents(Position(p, c))

MpiRank(p) ==
  /\ pc[p] = "closing" /\ hurt = {} => Written(p)
  /\ HeaderKnown(p)
  /\ MemoryRead(p)
  /\ pc[p] \notin {"alloc", "define"}

MpiInv == FileWhole /\ \A p \in Ranks : MpiRank(p)

(* PnetCDF: where int k of rank p is in the variable of a job o.           *)
NcPlace(o, p, k) ==
  LET n == MLIFE_myrows(o.rows, p, o.np)
  IN  <<k \div n, MLIFE_myrowoffset(o.rows, p, o.np) + (k % n)>>

NcHolds(o, n, p) ==
  \A i \in 1 .. MLIFE_myrows(o.rows, p, o.np), j \in 0 .. o.cols - 1 :
    LET x == NcPlace(o, p, (i - 1) * o.cols + j)
    IN  /\ x \in DOMAIN file
        /\ file[x] = <<n, MLIFE_myrowoffset(o.rows, p, o.np) + i, j + 1>>

NcHasHeader(o) ==
  /\ {<<"col">>, <<"row">>} \subseteq DOMAIN file
  /\ file[<<"col">>] = <<o.cols>> /\ file[<<"row">>] = <<o.rows>>

NcFileWhole ==
  whole # None => /\ NcHasHeader(whole.job)
                  /\ \A p \in 0 .. whole.job.np - 1 : NcHolds(whole.job, whole.id, p)

NcMemoryRead(p) ==
  pc[p] = "compute" /\ job.restart /\ hurt = {} =>
    \A i \in 1 .. MyRows(p), j \in 0 .. job.cols - 1 :
      mem[p][<<i, j>>] = NcContents(NcPosition(p, BufIndex(i, j)))

NcRank(p) ==
  /\ pc[p] \in {"write", "closing"} /\ hurt = {} => NcHasHeader(job)
  /\ pc[p] \in {"define", "write", "closing"} => whole = None
  /\ pc[p] = "closing" /\ hurt = {} => NcHolds(job, id, p)
  /\ pc[p] \in {"alloc", "reduce", "rows"} => NcHasHeader(job)
  /\ pc[p] = "compute" /\ job.restart => NcHasHeader(job)
  /\ NcMemoryRead(p)
  /\ pc[p] \notin {"header", "close"}

NcInv == NcFileWhole /\ \A p \in Ranks : NcRank(p)

CInv ==
  /\ backend \in {"mpiio", "pnetcdf"}
  /\ CheckpointTypeOK /\ WritersTogether /\ RestartTogether
  /\ backend = "mpiio" => MpiInv
  /\ backend = "pnetcdf" => NcInv

-----------------------------------------------------------------------------
LEMMA OptionTypes ==
  ASSUME NEW o \in Options
  PROVE  /\ o.rows \in Nat \ {0} /\ o.cols \in Nat \ {0} /\ o.np \in Nat \ {0}
         /\ o.restart \in BOOLEAN /\ 0 \in 0 .. o.np - 1
BY CheckpointAssumption DEF CheckpointAssumption

(* The rows of a rank are rows of the matrix, ...                          *)
LEMMA RowsInside ==
  ASSUME NEW o \in Options, NEW p \in 0 .. o.np - 1
  PROVE  /\ MLIFE_myrows(o.rows, p, o.np) \in Nat
         /\ MLIFE_myrowoffset(o.rows, p, o.np) \in Nat
         /\ MLIFE_myrowoffset(o.rows, p, o.np) + MLIFE_myrows(o.rows, p, o.np) <= o.rows
         /\ MLIFE_myrowoffset(o.rows, 0, o.np) = 0
<1> DEFINE Off(s) == MLIFE_myrowoffset(o.rows, s, o.np)
           Size(s) == MLIFE_myrows(o.rows, s, o.np)
<1>1. o.rows \in Nat /\ o.np \in Nat \ {0} /\ p \in 0 .. o.np /\ p + 1 \in 0 .. o.np
      /\ p + 1 <= o.np /\ o.np \in 0 .. o.np
  BY OptionTypes
<1>2. Size(p) \in Nat /\ Off(p) \in Nat
  BY <1>1, BlockTypes
<1>3. Off(0) = 0 /\ Off(o.np) = o.rows /\ Off(p + 1) = Off(p) + Size(p)
  BY <1>1, Tiling
<1>4. Off(p + 1) <= Off(o.np)
  BY <1>1, OffsetsGrow
<1> HIDE DEF Off, Size
<1>5. Off(p) + Size(p) <= o.rows
  BY <1>3, <1>4
<1>6. QED
  BY <1>2, <1>3, <1>5 DEF Off, Size

(* ... each of exactly one rank.                                           *)
LEMMA RowOwner ==
  ASSUME NEW o \in Options, NEW r \in 1 .. o.rows
  PROVE  \E p \in 0 .. o.np - 1 : \E i \in 1 .. MLIFE_myrows(o.rows, p, o.np) :
           r = MLIFE_myrowoffset(o.rows, p, o.np) + i
<1>1. o.rows \in Nat /\ o.np \in Nat \ {0}
  BY OptionTypes
<1>2. PICK p \in 0 .. o.np - 1 : r \in RowsOf(o.rows, p, o.np)
  BY <1>1, EveryRowOnce
<1>3. /\ MLIFE_myrows(o.rows, p, o.np) \in Nat /\ MLIFE_myrowoffset(o.rows, p, o.np) \in Nat
  BY RowsInside
<1> DEFINE i == r - MLIFE_myrowoffset(o.rows, p, o.np)
<1>4. i \in 1 .. MLIFE_myrows(o.rows, p, o.np) /\ r = MLIFE_myrowoffset(o.rows, p, o.np) + i
  BY <1>2, <1>3 DEF RowsOf
<1>5. QED
  BY <1>4

LEMMA OneOwner ==
  ASSUME NEW o \in Options, NEW p \in 0 .. o.np - 1, NEW q \in 0 .. o.np - 1,
         NEW i \in 1 .. MLIFE_myrows(o.rows, p, o.np),
         NEW k \in 1 .. MLIFE_myrows(o.rows, q, o.np),
         MLIFE_myrowoffset(o.rows, p, o.np) + i = MLIFE_myrowoffset(o.rows, q, o.np) + k
  PROVE  p = q /\ i = k
<1>1. o.rows \in Nat /\ o.np \in Nat \ {0}
  BY OptionTypes
<1> DEFINE r == MLIFE_myrowoffset(o.rows, p, o.np) + i
<1>2. r \in 1 .. o.rows /\ r \in RowsOf(o.rows, p, o.np)
  <2>1. /\ MLIFE_myrows(o.rows, p, o.np) \in Nat /\ MLIFE_myrowoffset(o.rows, p, o.np) \in Nat
        /\ MLIFE_myrowoffset(o.rows, p, o.np) + MLIFE_myrows(o.rows, p, o.np) <= o.rows
    BY RowsInside
  <2>2. QED
    BY <1>1, <2>1 DEF RowsOf
<1>3. r \in RowsOf(o.rows, q, o.np)
  <2>1. /\ MLIFE_myrows(o.rows, q, o.np) \in Nat /\ MLIFE_myrowoffset(o.rows, q, o.np) \in Nat
    BY RowsInside
  <2>2. QED
    BY <1>1, <2>1 DEF RowsOf
<1>4. p = q
  <2> HIDE DEF r
  <2>1. QED
    BY <1>1, <1>2, <1>3, EveryRowOnce
<1>5. i = k
  <2>1. MLIFE_myrowoffset(o.rows, p, o.np) \in Nat
    BY RowsInside
  <2>2. QED
    BY <1>4, <2>1
<1>6. QED
  BY <1>4, <1>5

(* Two cells of the matrix are at two places.                              *)
LEMMA AtInjective ==
  ASSUME NEW cols \in Nat, NEW r \in Nat \ {0}, NEW s \in Nat \ {0},
         NEW i \in 1 .. cols, NEW j \in 1 .. cols, At(cols, r, i) = At(cols, s, j)
  PROVE  r = s /\ i = j
<1>1. ASSUME NEW a \in Nat \ {0}, NEW b \in Nat \ {0}, NEW k \in 1 .. cols,
             NEW l \in 1 .. cols, a < b
      PROVE  At(cols, a, k) < At(cols, b, l)
  <2>1. (a - 1) + 1 <= b - 1 /\ a - 1 \in Nat /\ b - 1 \in Nat /\ (a - 1) + 1 \in Nat
    BY <1>1
  <2>2. (a - 1) * cols + cols <= (b - 1) * cols
        /\ (a - 1) * cols \in Nat /\ (b - 1) * cols \in Nat
    BY <2>1, TimesMonotone
  <2>3. QED
    BY <2>2 DEF At
<1>2. At(cols, r, i) \in Nat /\ At(cols, s, j) \in Nat
  <2>1. r - 1 \in Nat /\ s - 1 \in Nat
    OBVIOUS
  <2>2. (r - 1) * cols \in Nat /\ (s - 1) * cols \in Nat
    BY <2>1, TimesMonotone
  <2>3. QED
    BY <2>2 DEF At
<1>3. r = s
  BY <1>1, <1>2
<1>4. i = j
  <2>1. (r - 1) * cols \in Nat
    BY TimesMonotone
  <2>2. QED
    BY <1>3, <2>1 DEF At
<1>5. QED
  BY <1>3, <1>4

(* A product distributes over a sum.                                       *)
LEMMA ProductSum ==
  ASSUME NEW a \in Nat, NEW b \in Nat, NEW c \in Nat
  PROVE  a * c \in Nat /\ b * c \in Nat /\ (a + b) * c = a * c + b * c
OBVIOUS

(* The type of a rank other than 0 puts its cells where they belong.       *)
LEMMA PositionIsAt ==
  ASSUME job \in Options, NEW p \in Ranks, NEW c \in Cells(p)
  PROVE  /\ Position(p, c) = At(job.cols, MyOffset(p) + c[1], c[2])
         /\ MyOffset(p) \in Nat /\ c[1] \in 1 .. MyRows(p) /\ c[2] \in 1 .. job.cols
         /\ MyOffset(p) + c[1] \in 1 .. job.rows
         /\ Position(p, c) \in Nat /\ Position(p, c) > 2
<1>1. job.rows \in Nat \ {0} /\ job.cols \in Nat \ {0} /\ p \in 0 .. job.np - 1
  BY OptionTypes DEF Ranks
<1>2. MyOffset(p) \in Nat /\ MyRows(p) \in Nat /\ MyOffset(p) + MyRows(p) <= job.rows
  BY <1>1, RowsInside DEF MyOffset, MyRows
<1>3. c[1] \in 1 .. MyRows(p) /\ c[2] \in 1 .. job.cols
  BY DEF Cells
<1>4. /\ MyOffset(p) * job.cols \in Nat /\ (c[1] - 1) * job.cols \in Nat
      /\ (MyOffset(p) + (c[1] - 1)) * job.cols
           = MyOffset(p) * job.cols + (c[1] - 1) * job.cols
  BY <1>1, <1>2, <1>3, ProductSum
<1>5. (MyOffset(p) + c[1]) - 1 = MyOffset(p) + (c[1] - 1)
  BY <1>2, <1>3
<1>6. /\ Position(p, c) = At(job.cols, MyOffset(p) + c[1], c[2])
      /\ Position(p, c) \in Nat /\ Position(p, c) > 2
  BY <1>1, <1>2, <1>3, <1>4, <1>5 DEF Position, FileOffset, At
<1>7. MyOffset(p) + c[1] \in 1 .. job.rows
  BY <1>1, <1>2, <1>3
<1>8. QED
  BY <1>2, <1>3, <1>6, <1>7
-----------------------------------------------------------------------------
(* What one step does to the types.                                        *)
LEMMA RanksNotEmpty ==
  ASSUME job \in Options
  PROVE  0 \in Ranks
BY OptionTypes DEF Ranks

LEMMA TypesStart ==
  ASSUME MCInit
  PROVE  CheckpointTypeOK /\ WritersTogether /\ RestartTogether
BY OptionTypes DEF MCInit, Init, CheckpointTypeOK, WritersTogether, RestartTogether, Everywhere,
                   Places, None

LEMMA TypesMoved ==
  ASSUME CheckpointTypeOK, UNCHANGED <<id, job, header, mem, whole>>, hurt' \subseteq Ranks,
         pc' \in [Ranks -> Places]
  PROVE  CheckpointTypeOK'
BY DEF CheckpointTypeOK, Ranks

LEMMA TypesMpi ==
  ASSUME CheckpointTypeOK, Next
  PROVE  CheckpointTypeOK'
<1> USE DEF CheckpointTypeOK, Everywhere, Places, AllAt
<1>1. CASE OpenForReading
  BY <1>1, TypesMoved DEF OpenForReading
<1>2. CASE CheckHeader
  BY <1>2, TypesMoved DEF CheckHeader
<1>3. CASE CloseAfterReading
  BY <1>3, TypesMoved DEF CloseAfterReading
<1>4. CASE Abort
  BY <1>4, TypesMoved DEF Abort
<1>5. CASE OpenForWriting
  BY <1>5, TypesMoved DEF OpenForWriting
<1>6. CASE CloseAfterWriting
  BY <1>6 DEF CloseAfterWriting, Ranks, None
<1>7. CASE Crash
  BY <1>7, TypesMoved DEF Crash
<1>8. CASE NextJob
  BY <1>8 DEF NextJob, StartJob, Ranks
<1>9. ASSUME NEW p \in Ranks, ReadHeader(p)
      PROVE  CheckpointTypeOK'
  BY <1>9 DEF ReadHeader, Ranks, HeaderFits
<1>10. ASSUME NEW p \in Ranks, ReadRows(p)
       PROVE  CheckpointTypeOK'
  BY <1>10 DEF ReadRows, Ranks
<1>11. ASSUME NEW p \in Ranks, WriteRank(p)
       PROVE  CheckpointTypeOK'
  BY <1>11 DEF WriteRank, Ranks
<1>12. QED
  BY <1>1, <1>2, <1>3, <1>4, <1>5, <1>6, <1>7, <1>8, <1>9, <1>10, <1>11 DEF Next

LEMMA TypesNc ==
  ASSUME CheckpointTypeOK, NcNext
  PROVE  CheckpointTypeOK'
<1> USE DEF CheckpointTypeOK, Everywhere, Places, AllAt
<1>1. CASE NcOpenForReading
  BY <1>1, TypesMoved DEF NcOpenForReading
<1>2. CASE AgreeOnBuffers
  BY <1>2, TypesMoved DEF AgreeOnBuffers
<1>3. CASE Abort
  BY <1>3, TypesMoved DEF Abort
<1>4. CASE Create
  BY <1>4 DEF Create, Ranks
<1>5. CASE EndDefinitions
  BY <1>5, TypesMoved DEF EndDefinitions
<1>6. CASE NcClose
  BY <1>6 DEF NcClose, CloseAfterWriting, Ranks, None
<1>7. CASE Crash
  BY <1>7, TypesMoved DEF Crash
<1>8. CASE NextJob
  BY <1>8 DEF NextJob, StartJob, Ranks
<1>9. ASSUME NEW p \in Ranks, Allocate(p)
      PROVE  CheckpointTypeOK'
  BY <1>9, TypesMoved DEF Allocate
<1>10. ASSUME NEW p \in Ranks, NcReadRows(p)
       PROVE  CheckpointTypeOK'
  BY <1>10 DEF NcReadRows, Ranks
<1>11. ASSUME NEW p \in Ranks, NcWriteRank(p)
       PROVE  CheckpointTypeOK'
  BY <1>11 DEF NcWriteRank, Ranks
<1>12. QED
  BY <1>1, <1>2, <1>3, <1>4, <1>5, <1>6, <1>7, <1>8, <1>9, <1>10, <1>11 DEF NcNext

-----------------------------------------------------------------------------
(* A job is not writing and doing something else at once.                  *)
LEMMA WritersMpi ==
  ASSUME CheckpointTypeOK, WritersTogether, Next
  PROVE  WritersTogether'
<1> USE DEF WritersTogether, CheckpointTypeOK, Everywhere, AllAt, Ranks
<1>1. CASE OpenForReading
  BY <1>1 DEF OpenForReading
<1>2. CASE CheckHeader
  BY <1>2 DEF CheckHeader
<1>3. CASE CloseAfterReading
  BY <1>3 DEF CloseAfterReading
<1>4. CASE Abort
  BY <1>4 DEF Abort
<1>5. CASE OpenForWriting
  BY <1>5 DEF OpenForWriting
<1>6. CASE CloseAfterWriting
  BY <1>6 DEF CloseAfterWriting
<1>7. CASE Crash
  BY <1>7 DEF Crash
<1>8. CASE NextJob
  BY <1>8 DEF NextJob, StartJob
<1>9. ASSUME NEW p \in Ranks, ReadHeader(p)
      PROVE  WritersTogether'
  BY <1>9 DEF ReadHeader
<1>10. ASSUME NEW p \in Ranks, ReadRows(p)
       PROVE  WritersTogether'
  BY <1>10 DEF ReadRows
<1>11. ASSUME NEW p \in Ranks, WriteRank(p)
       PROVE  WritersTogether'
  BY <1>11 DEF WriteRank
<1>12. QED
  BY <1>1, <1>2, <1>3, <1>4, <1>5, <1>6, <1>7, <1>8, <1>9, <1>10, <1>11 DEF Next

LEMMA WritersNc ==
  ASSUME CheckpointTypeOK, WritersTogether, NcNext
  PROVE  WritersTogether'
<1> USE DEF WritersTogether, CheckpointTypeOK, Everywhere, AllAt, Ranks
<1>1. CASE NcOpenForReading
  BY <1>1 DEF NcOpenForReading
<1>2. CASE AgreeOnBuffers
  BY <1>2 DEF AgreeOnBuffers
<1>3. CASE Abort
  BY <1>3 DEF Abort
<1>4. CASE Create
  BY <1>4 DEF Create
<1>5. CASE EndDefinitions
  BY <1>5 DEF EndDefinitions
<1>6. CASE NcClose
  BY <1>6 DEF NcClose, CloseAfterWriting
<1>7. CASE Crash
  BY <1>7 DEF Crash
<1>8. CASE NextJob
  BY <1>8 DEF NextJob, StartJob
<1>9. ASSUME NEW p \in Ranks, Allocate(p)
      PROVE  WritersTogether'
  BY <1>9 DEF Allocate
<1>10. ASSUME NEW p \in Ranks, NcReadRows(p)
       PROVE  WritersTogether'
  BY <1>10 DEF NcReadRows
<1>11. ASSUME NEW p \in Ranks, NcWriteRank(p)
       PROVE  WritersTogether'
  BY <1>11 DEF NcWriteRank
<1>12. QED
  BY <1>1, <1>2, <1>3, <1>4, <1>5, <1>6, <1>7, <1>8, <1>9, <1>10, <1>11 DEF NcNext

-----------------------------------------------------------------------------
(* What the rank of a job writes into its own rows, ...                    *)
LEMMA RowDataIs ==
  ASSUME job \in Options, NEW p \in Ranks
  PROVE  /\ DOMAIN RowData(p) = {Position(p, c) : c \in Cells(p)}
         /\ \A c \in Cells(p) :
              RowData(p)[Position(p, c)] = <<id, MyOffset(p) + c[1], c[2]>>
<1>1. ASSUME NEW c \in Cells(p)
      PROVE  RowData(p)[Position(p, c)] = <<id, MyOffset(p) + c[1], c[2]>>
  <2>1. ASSUME NEW d \in Cells(p), Position(p, d) = Position(p, c)
        PROVE  d = c
    <3>1. /\ At(job.cols, MyOffset(p) + c[1], c[2]) = At(job.cols, MyOffset(p) + d[1], d[2])
          /\ MyOffset(p) + c[1] \in 1 .. job.rows /\ MyOffset(p) + d[1] \in 1 .. job.rows
          /\ c[1] \in 1 .. MyRows(p) /\ d[1] \in 1 .. MyRows(p)
          /\ c[2] \in 1 .. job.cols /\ d[2] \in 1 .. job.cols /\ MyOffset(p) \in Nat
      BY <2>1, PositionIsAt
    <3>2. job.rows \in Nat /\ job.cols \in Nat
      BY OptionTypes
    <3>3. MyOffset(p) + c[1] \in Nat \ {0} /\ MyOffset(p) + d[1] \in Nat \ {0}
      BY <3>1, <3>2
    <3>4. MyOffset(p) + c[1] = MyOffset(p) + d[1] /\ c[2] = d[2]
      <4> DEFINE r == MyOffset(p) + c[1]
                 s == MyOffset(p) + d[1]
                 i == c[2]
                 j == d[2]
      <4>1. /\ job.cols \in Nat /\ r \in Nat \ {0} /\ s \in Nat \ {0}
            /\ i \in 1 .. job.cols /\ j \in 1 .. job.cols
            /\ At(job.cols, r, i) = At(job.cols, s, j)
        BY <3>1, <3>2, <3>3
      <4> HIDE DEF r, s, i, j
      <4>2. r = s /\ i = j
        BY <4>1, AtInjective
      <4>3. QED
        BY <4>2 DEF r, s, i, j
    <3>5. c[1] = d[1]
      BY <3>1, <3>4
    <3>6. QED
      BY <3>4, <3>5 DEF Cells
  <2> DEFINE d == CHOOSE d \in Cells(p) : Position(p, d) = Position(p, c)
  <2>2. d \in Cells(p) /\ Position(p, d) = Position(p, c)
    OBVIOUS
  <2>3. d = c
    BY <2>1, <2>2
  <2>4. RowData(p)[Position(p, c)] = <<id, MyOffset(p) + d[1], d[2]>>
    BY DEF RowData
  <2>5. QED
    BY <2>3, <2>4
<1>2. QED
  BY <1>1 DEF RowData

(* ... which are the rows of no other rank and not the header.             *)
LEMMA RanksApart ==
  ASSUME job \in Options, NEW p \in Ranks, NEW q \in Ranks, p # q,
         NEW c \in Cells(p), NEW d \in Cells(q)
  PROVE  Position(p, c) # Position(q, d)
<1>1. SUFFICES ASSUME Position(p, c) = Position(q, d)
               PROVE  FALSE
  OBVIOUS
<1>2. /\ At(job.cols, MyOffset(p) + c[1], c[2]) = At(job.cols, MyOffset(q) + d[1], d[2])
      /\ MyOffset(p) + c[1] \in 1 .. job.rows /\ MyOffset(q) + d[1] \in 1 .. job.rows
      /\ c[1] \in 1 .. MyRows(p) /\ d[1] \in 1 .. MyRows(q)
      /\ c[2] \in 1 .. job.cols /\ d[2] \in 1 .. job.cols
  BY <1>1, PositionIsAt
<1>3. job.rows \in Nat /\ job.cols \in Nat
  BY OptionTypes
<1>4. MyOffset(p) + c[1] \in Nat \ {0} /\ MyOffset(q) + d[1] \in Nat \ {0}
  BY <1>2, <1>3
<1>5. MyOffset(p) + c[1] = MyOffset(q) + d[1]
  BY <1>2, <1>3, <1>4, AtInjective
<1>6. p = q
  BY <1>2, <1>5, OneOwner DEF MyOffset, MyRows, Ranks
<1>7. QED
  BY <1>6

LEMMA HeaderDataIs ==
  /\ DOMAIN HeaderData = 0 .. 2
  /\ {0, 1} \subseteq 0 .. 2
  /\ HeaderData[0] = <<job.rows>> /\ HeaderData[1] = <<job.cols>>
BY DEF HeaderData

-----------------------------------------------------------------------------
(* MPI-IO: what a step leaves alone, and the places where nothing is       *)
(* promised.                                                               *)
LEMMA FileWholeKept ==
  ASSUME FileWhole, UNCHANGED <<file, whole>>
  PROVE  FileWhole'
BY DEF FileWhole, Missing

LEMMA MpiRankKept ==
  ASSUME NEW p, MpiRank(p), UNCHANGED <<id, job, file, whole>>, hurt \subseteq hurt',
         pc'[p] = pc[p], header'[p] = header[p], mem'[p] = mem[p]
  PROVE  MpiRank(p)'
<1>1. pc'[p] = "closing" /\ hurt' = {} => Written(p)'
  BY DEF MpiRank, Written, Cells, Position, FileOffset, MyOffset, MyRows
<1>2. HeaderKnown(p)'
  BY DEF MpiRank, HeaderKnown, HeaderFits
<1>3. MemoryRead(p)'
  BY DEF MpiRank, MemoryRead, Cells, Position, FileOffset, MyOffset, MyRows, Contents
<1>4. QED
  BY <1>1, <1>2, <1>3 DEF MpiRank

LEMMA MpiQuiet ==
  ASSUME NEW p, \/ pc'[p] \in {"start", "header", "failed", "write", "done", "over"}
                \/ pc'[p] = "compute" /\ ~job'.restart
  PROVE  MpiRank(p)'
BY DEF MpiRank, HeaderKnown, MemoryRead

-----------------------------------------------------------------------------
LEMMA MpiStart ==
  ASSUME MCInit
  PROVE  MpiInv
BY DEF MCInit, Init, MpiInv, MpiRank, FileWhole, HeaderKnown, MemoryRead, Everywhere

(* Collective steps that read or write nothing.                            *)
LEMMA MpiCollective ==
  ASSUME CheckpointTypeOK, MpiInv,
         OpenForReading \/ Abort \/ OpenForWriting \/ Crash
  PROVE  MpiInv'
<1>1. UNCHANGED <<job, file, whole>>
  BY DEF OpenForReading, Abort, OpenForWriting, Crash
<1>2. ASSUME NEW p \in Ranks
      PROVE  MpiRank(p)'
  <2>1. pc'[p] \in {"start", "header", "failed", "write", "done", "over"}
    BY DEF OpenForReading, Abort, OpenForWriting, Crash, Everywhere
  <2>2. QED
    BY <2>1, MpiQuiet
<1>3. QED
  BY <1>1, <1>2, FileWholeKept DEF MpiInv, Ranks

LEMMA MpiNextJob ==
  ASSUME CheckpointTypeOK, MpiInv, NextJob
  PROVE  MpiInv'
<1>1. UNCHANGED <<file, whole>>
  BY DEF NextJob
<1>2. ASSUME NEW p \in Ranks'
      PROVE  MpiRank(p)'
  <2>1. pc'[p] = "start" \/ (pc'[p] = "compute" /\ ~job'.restart)
    BY OptionTypes DEF NextJob, StartJob, Ranks
  <2>2. QED
    BY <2>1, MpiQuiet
<1>3. QED
  BY <1>1, <1>2, FileWholeKept DEF MpiInv

LEMMA MpiReadHeader ==
  ASSUME CheckpointTypeOK, MpiInv, NEW p \in Ranks, ReadHeader(p)
  PROVE  MpiInv'
<1>1. UNCHANGED <<id, job, mem, file, whole>>
  BY DEF ReadHeader
<1>2. ASSUME NEW q \in Ranks, q # p
      PROVE  MpiRank(q)'
  <2>1. /\ pc'[q] = pc[q] /\ header'[q] = header[q] /\ hurt \subseteq hurt'
        /\ mem'[q] = mem[q]
    BY <1>2 DEF ReadHeader, CheckpointTypeOK
  <2>2. QED
    BY <1>1, <2>1, MpiRankKept DEF MpiInv
<1>3. MpiRank(p)'
  <2>1. pc'[p] = "reduce"
    BY DEF ReadHeader, CheckpointTypeOK
  <2>2. ASSUME whole # None, p \notin hurt'
        PROVE  header'[p] = HeaderFits
    <3>1. 0 \in DOMAIN file
      BY <2>2 DEF MpiInv, FileWhole
    <3>2. file # <<>>
      BY <3>1
    <3>3. QED
      BY <2>2, <3>2 DEF ReadHeader, CheckpointTypeOK
  <2>3. HeaderKnown(p)'
    BY <1>1, <2>1, <2>2 DEF HeaderKnown, HeaderFits
  <2>4. QED
    BY <2>1, <2>3 DEF MpiRank, MemoryRead
<1>4. QED
  BY <1>1, <1>2, <1>3, FileWholeKept DEF MpiInv, Ranks

LEMMA MpiCheckHeader ==
  ASSUME CheckpointTypeOK, MpiInv, CheckHeader
  PROVE  MpiInv'
<1>1. UNCHANGED <<id, job, header, mem, hurt, file, whole>>
  BY DEF CheckHeader
<1>2. ASSUME NEW p \in Ranks
      PROVE  MpiRank(p)'
  <2>1. CASE pc'[p] = "failed"
    BY <2>1, MpiQuiet
  <2>2. CASE pc'[p] = "rows"
    <3>1. hurt = {} /\ header[p] /\ pc[p] = "reduce"
      BY <2>2 DEF CheckHeader, GlobalError, AllAt
    <3>2. whole # None => HeaderFits
      BY <3>1 DEF MpiInv, MpiRank, HeaderKnown
    <3>3. HeaderKnown(p)'
      BY <1>1, <2>2, <3>2 DEF HeaderKnown, HeaderFits
    <3>4. QED
      BY <2>2, <3>3 DEF MpiRank, MemoryRead
  <2>3. pc'[p] \in {"failed", "rows"}
    BY DEF CheckHeader
  <2>4. QED
    BY <2>1, <2>2, <2>3
<1>3. QED
  BY <1>1, <1>2, FileWholeKept DEF MpiInv, Ranks

LEMMA MpiReadRows ==
  ASSUME CheckpointTypeOK, MpiInv, NEW p \in Ranks, ReadRows(p)
  PROVE  MpiInv'
<1>1. UNCHANGED <<id, job, header, file, whole>>
  BY DEF ReadRows
<1>2. ASSUME NEW q \in Ranks, q # p
      PROVE  MpiRank(q)'
  <2>1. /\ pc'[q] = pc[q] /\ header'[q] = header[q] /\ hurt \subseteq hurt'
        /\ mem'[q] = mem[q]
    BY <1>2 DEF ReadRows, CheckpointTypeOK
  <2>2. QED
    BY <1>1, <2>1, MpiRankKept DEF MpiInv
<1>3. MpiRank(p)'
  <2>1. pc'[p] = "close" /\ pc[p] = "rows"
    BY DEF ReadRows, CheckpointTypeOK
  <2>2. HeaderKnown(p)'
    BY <1>1, <2>1 DEF MpiInv, MpiRank, HeaderKnown, HeaderFits
  <2>3. ASSUME hurt' = {}
        PROVE  mem'[p] = [c \in Cells(p) |-> Contents(Position(p, c))]
    BY <2>3 DEF ReadRows, CheckpointTypeOK
  <2>4. MemoryRead(p)'
    BY <1>1, <2>3 DEF MemoryRead, Cells, Position, FileOffset, MyOffset, MyRows, Contents
  <2>5. QED
    BY <2>1, <2>2, <2>4 DEF MpiRank
<1>4. QED
  BY <1>1, <1>2, <1>3, FileWholeKept DEF MpiInv, Ranks

LEMMA MpiCloseAfterReading ==
  ASSUME CheckpointTypeOK, MpiInv, CloseAfterReading
  PROVE  MpiInv'
<1>1. UNCHANGED <<id, job, header, mem, hurt, file, whole>>
  BY DEF CloseAfterReading
<1>2. ASSUME NEW p \in Ranks
      PROVE  MpiRank(p)'
  <2>1. pc[p] = "close" /\ pc'[p] \in {"compute", "failed"}
    BY DEF CloseAfterReading, AllAt
  <2>2. HeaderKnown(p)'
    BY <1>1, <2>1 DEF MpiInv, MpiRank, HeaderKnown, HeaderFits
  <2>3. MemoryRead(p)'
    BY <1>1, <2>1
       DEF MpiInv, MpiRank, MemoryRead, Cells, Position, FileOffset, MyOffset, MyRows, Contents
  <2>4. QED
    BY <2>1, <2>2, <2>3 DEF MpiRank
<1>3. QED
  BY <1>1, <1>2, FileWholeKept DEF MpiInv, Ranks

(* A rank writes: the others are writing too, and their rows stay.         *)
LEMMA MpiWriteRank ==
  ASSUME CheckpointTypeOK, WritersTogether, MpiInv, NEW p \in Ranks, WriteRank(p)
  PROVE  MpiInv'
<1>1. UNCHANGED <<id, job, header, mem>> /\ whole' = None
  BY DEF WriteRank
<1>2. job \in Options
  BY DEF CheckpointTypeOK
<1>3. pc[p] = "write" /\ pc'[p] = "closing" /\ hurt \subseteq hurt'
  BY DEF WriteRank, CheckpointTypeOK
<1>4. hurt' = {} => file' = Over(Data(p), file)
  BY DEF WriteRank
<1>5. ASSUME NEW q \in Ranks, hurt' = {}, pc'[q] = "closing"
      PROVE  Written(q)'
  <2>1. file' = Over(Data(p), file) /\ hurt = {}
    BY <1>3, <1>4, <1>5
  <2>2. /\ DOMAIN file' = DOMAIN Data(p) \cup DOMAIN file
        /\ \A x \in DOMAIN Data(p) : file'[x] = Data(p)[x]
        /\ \A x \in DOMAIN file : x \notin DOMAIN Data(p) => file'[x] = file[x]
    BY <2>1 DEF Over
  <2>3. q # p => Written(q)
    BY <1>5, <2>1 DEF WriteRank, MpiInv, MpiRank, CheckpointTypeOK
  <2>4. CASE q = 0
    <3>1. /\ {0, 1} \subseteq DOMAIN file'
          /\ file'[0] = <<job.rows>> /\ file'[1] = <<job.cols>>
      <4>1. CASE p = 0
        <5>1. Data(p) = HeaderData
          BY <4>1 DEF Data
        <5>2. QED
          BY <2>2, <5>1, HeaderDataIs
      <4>2. CASE p # 0
        <5>1. /\ {0, 1} \subseteq DOMAIN file
              /\ file[0] = <<job.rows>> /\ file[1] = <<job.cols>>
          BY <2>3, <2>4, <4>2 DEF Written
        <5>2. DOMAIN Data(p) = {Position(p, c) : c \in Cells(p)}
          BY <1>2, <4>2, RowDataIs DEF Data
        <5>3. 0 \notin DOMAIN Data(p) /\ 1 \notin DOMAIN Data(p)
          <6>1. \A c \in Cells(p) : Position(p, c) \in Nat /\ Position(p, c) > 2
            BY <1>2, PositionIsAt
          <6>2. QED
            BY <5>2, <6>1
        <5>4. QED
          BY <2>2, <5>1, <5>3
      <4>3. QED
        BY <4>1, <4>2
    <3>2. QED
      BY <1>1, <2>4, <3>1 DEF Written
  <2>5. CASE q # 0
    <3>1. ASSUME NEW c \in Cells(q)
          PROVE  /\ Position(q, c) \in DOMAIN file'
                 /\ file'[Position(q, c)] = <<id, MyOffset(q) + c[1], c[2]>>
      <4>1. CASE q = p
        <5>1. Data(p) = RowData(q)
          BY <2>5, <4>1 DEF Data
        <5>2. QED
          BY <1>2, <2>2, <5>1, RowDataIs
      <4>2. CASE q # p
        <5>1. /\ Position(q, c) \in DOMAIN file
              /\ file[Position(q, c)] = <<id, MyOffset(q) + c[1], c[2]>>
          BY <2>3, <2>5, <4>2 DEF Written
        <5>2. Position(q, c) \notin DOMAIN Data(p)
          <6>1. CASE p = 0
            <7>1. DOMAIN Data(p) = 0 .. 2
              BY <6>1, HeaderDataIs DEF Data
            <7>2. Position(q, c) \in Nat /\ Position(q, c) > 2
              BY <1>2, PositionIsAt
            <7>3. QED
              BY <7>1, <7>2
          <6>2. CASE p # 0
            <7>1. DOMAIN Data(p) = {Position(p, d) : d \in Cells(p)}
              BY <1>2, <6>2, RowDataIs DEF Data
            <7>2. \A d \in Cells(p) : Position(q, c) # Position(p, d)
              BY <1>2, <4>2, RanksApart
            <7>3. QED
              BY <7>1, <7>2
          <6>3. QED
            BY <6>1, <6>2
        <5>3. QED
          BY <2>2, <5>1, <5>2
      <4>3. QED
        BY <4>1, <4>2
    <3>2. QED
      BY <1>1, <2>5, <3>1 DEF Written, Cells, Position, FileOffset, MyOffset, MyRows
  <2>6. QED
    BY <2>4, <2>5
<1>6. ASSUME NEW q \in Ranks
      PROVE  MpiRank(q)'
  <2>1. pc[q] \in {"write", "closing"}
    BY <1>3 DEF WritersTogether
  <2>2. pc'[q] \in {"write", "closing"}
    BY <2>1 DEF WriteRank, CheckpointTypeOK
  <2>3. HeaderKnown(q)' /\ MemoryRead(q)'
    BY <1>1, <2>2 DEF HeaderKnown, MemoryRead
  <2>4. QED
    BY <1>5, <2>2, <2>3 DEF MpiRank
<1>7. FileWhole'
  BY <1>1 DEF FileWhole
<1>8. QED
  BY <1>1, <1>6, <1>7 DEF MpiInv, Ranks

(* The file is closed: the rows of all ranks but the first are there.      *)
LEMMA MpiCloseAfterWriting ==
  ASSUME CheckpointTypeOK, MpiInv, CloseAfterWriting
  PROVE  MpiInv'
<1>1. UNCHANGED <<id, job, file>>
  BY DEF CloseAfterWriting
<1>2. ASSUME NEW p \in Ranks
      PROVE  MpiRank(p)'
  <2>1. pc'[p] = "done"
    BY DEF CloseAfterWriting, Everywhere
  <2>2. QED
    BY <2>1, MpiQuiet
<1>3. ASSUME whole' # None
      PROVE  /\ whole'.id = id /\ whole'.job = job
             /\ Missing' = MyRows(0)
             /\ \A p \in Ranks : Written(p)
  <2>1. hurt = {} /\ whole' = [id |-> id, job |-> job]
    BY <1>3 DEF CloseAfterWriting
  <2>2. \A p \in Ranks : pc[p] = "closing"
    BY DEF CloseAfterWriting, AllAt
  <2>3. QED
    BY <1>3, <2>1, <2>2 DEF MpiInv, MpiRank, Missing, MyRows
<1>4. ASSUME whole' # None,
             NEW r \in Missing' + 1 .. whole'.job.rows, NEW j \in 1 .. whole'.job.cols
      PROVE  /\ At(whole'.job.cols, r, j) \in DOMAIN file'
             /\ file'[At(whole'.job.cols, r, j)] = <<whole'.id, r, j>>
  <2>1. job \in Options /\ 0 \in Ranks
    BY RanksNotEmpty DEF CheckpointTypeOK
  <2>2. r \in MyRows(0) + 1 .. job.rows /\ j \in 1 .. job.cols
    BY <1>3, <1>4
  <2>3. MyRows(0) \in Nat /\ MyOffset(0) = 0 /\ job.rows \in Nat
    BY <2>1, RowsInside, OptionTypes DEF MyRows, MyOffset, Ranks
  <2>4. r \in 1 .. job.rows /\ r > MyRows(0)
    BY <2>2, <2>3
  <2>5. PICK p \in Ranks : \E i \in 1 .. MyRows(p) : r = MyOffset(p) + i
    BY <2>1, <2>4, RowOwner DEF MyRows, MyOffset, Ranks
  <2>6. PICK i \in 1 .. MyRows(p) : r = MyOffset(p) + i
    BY <2>5
  <2>7. p # 0
    BY <2>3, <2>4, <2>6
  <2> DEFINE c == <<i, j>>
  <2>8. c \in Cells(p) /\ c[1] = i /\ c[2] = j
    BY <2>2, <2>6 DEF Cells
  <2>9. /\ Position(p, c) \in DOMAIN file
        /\ file[Position(p, c)] = <<id, MyOffset(p) + c[1], c[2]>>
    BY <1>3, <1>4, <2>7, <2>8 DEF Written
  <2>10. Position(p, c) = At(job.cols, r, j)
    BY <2>1, <2>6, <2>8, PositionIsAt
  <2>11. QED
    BY <1>1, <1>3, <1>4, <2>6, <2>8, <2>9, <2>10
<1>5. ASSUME whole' # None
      PROVE  /\ {0, 1} \subseteq DOMAIN file'
             /\ file'[0] = <<whole'.job.rows>> /\ file'[1] = <<whole'.job.cols>>
  <2>1. 0 \in Ranks
    BY RanksNotEmpty DEF CheckpointTypeOK
  <2>2. QED
    BY <1>1, <1>3, <1>5, <2>1 DEF Written
<1>6. FileWhole'
  BY <1>4, <1>5 DEF FileWhole
<1>7. QED
  BY <1>1, <1>2, <1>6 DEF MpiInv, Ranks

LEMMA MpiStep ==
  ASSUME CheckpointTypeOK, WritersTogether, MpiInv, Next
  PROVE  MpiInv'
BY MpiCollective, MpiNextJob, MpiReadHeader, MpiCheckHeader, MpiReadRows, MpiCloseAfterReading,
   MpiWriteRank, MpiCloseAfterWriting DEF Next

(* The ranks of a job restart or fail together.                            *)
LEMMA TogetherMpi ==
  ASSUME CheckpointTypeOK, RestartTogether, MpiInv, Next
  PROVE  RestartTogether'
<1> USE DEF RestartTogether, Everywhere, AllAt
<1>1. CASE OpenForReading
  <2>1. \A p \in Ranks : pc'[p] = (IF exists THEN "header" ELSE "failed")
    BY <1>1 DEF OpenForReading
  <2>2. Ranks' = Ranks
    BY <1>1 DEF OpenForReading, Ranks
  <2>3. QED
    BY <2>1, <2>2
<1>2. CASE CheckHeader
  <2>1. UNCHANGED <<job, whole>>
    BY <1>2 DEF CheckHeader
  <2>2. ASSUME whole # None, hurt = {}, NEW p \in Ranks
        PROVE  header[p] = HeaderFits
    BY <1>2, <2>2 DEF CheckHeader, MpiInv, MpiRank, HeaderKnown
  <2>3. ASSUME whole # None, NEW p \in Ranks, NEW q \in Ranks
        PROVE  pc'[p] = pc'[q]
    BY <1>2, <2>2, <2>3 DEF CheckHeader, GlobalError
  <2>4. ASSUME NEW p \in Ranks
        PROVE  pc'[p] \in {"failed", "rows"}
    BY <1>2 DEF CheckHeader
  <2>5. QED
    BY <2>1, <2>3, <2>4 DEF Ranks
<1>3. CASE CloseAfterReading
  BY <1>3 DEF CloseAfterReading, Ranks
<1>4. CASE Abort
  BY <1>4 DEF Abort, Ranks
<1>5. CASE OpenForWriting
  BY <1>5 DEF OpenForWriting, Ranks
<1>6. CASE CloseAfterWriting
  BY <1>6 DEF CloseAfterWriting, Ranks
<1>7. CASE Crash
  BY <1>7 DEF Crash, Ranks
<1>8. CASE NextJob
  <2>1. \A p \in Ranks' : pc'[p] \in {"start", "compute"}
    BY <1>8 DEF NextJob, StartJob, Ranks
  <2>2. QED
    BY <2>1
<1>9. ASSUME NEW p \in Ranks, ReadHeader(p)
      PROVE  RestartTogether'
  BY <1>9 DEF ReadHeader, Ranks, CheckpointTypeOK
<1>10. ASSUME NEW p \in Ranks, ReadRows(p)
       PROVE  RestartTogether'
  BY <1>10 DEF ReadRows, Ranks, CheckpointTypeOK
<1>11. ASSUME NEW p \in Ranks, WriteRank(p)
       PROVE  RestartTogether'
  BY <1>11 DEF WriteRank
<1>12. QED
  BY <1>1, <1>2, <1>3, <1>4, <1>5, <1>6, <1>7, <1>8, <1>9, <1>10, <1>11 DEF Next

-----------------------------------------------------------------------------
(* PnetCDF: the ints of a rank are at as many places, ...                  *)
LEMMA IndexInjective ==
  ASSUME NEW cols \in Nat, NEW i \in Nat \ {0}, NEW k \in Nat \ {0},
         NEW j \in 0 .. cols - 1, NEW l \in 0 .. cols - 1
  PROVE  /\ (i - 1) * cols + j \in Nat
         /\ (i - 1) * cols + j = (k - 1) * cols + l => i = k /\ j = l
<1>1. j + 1 \in 1 .. cols /\ l + 1 \in 1 .. cols /\ j \in Nat /\ l \in Nat
      /\ i - 1 \in Nat /\ k - 1 \in Nat
  OBVIOUS
<1>2. (i - 1) * cols \in Nat /\ (k - 1) * cols \in Nat
  BY <1>1, TimesMonotone
<1>3. ASSUME (i - 1) * cols + j = (k - 1) * cols + l
      PROVE  i = k /\ j = l
  <2>1. At(cols, i, j + 1) = At(cols, k, l + 1)
    BY <1>1, <1>2, <1>3 DEF At
  <2>2. i = k /\ j + 1 = l + 1
    BY <1>1, <2>1, AtInjective
  <2>3. QED
    BY <1>1, <2>2
<1>4. QED
  BY <1>1, <1>2, <1>3

LEMMA QuotientAndRest ==
  ASSUME NEW n \in Nat \ {0}, NEW a \in Nat, NEW b \in Nat,
         a \div n = b \div n, a % n = b % n
  PROVE  a = b
<1>1. a = n * (a \div n) + (a % n) /\ b = n * (b \div n) + (b % n)
  BY Division
<1>2. QED
  BY <1>1

(* ... no two of the matrix at the same.                                   *)
LEMMA PlacesApart ==
  ASSUME NEW o \in Options, NEW p \in 0 .. o.np - 1, NEW q \in 0 .. o.np - 1,
         NEW i \in 1 .. MLIFE_myrows(o.rows, p, o.np), NEW j \in 0 .. o.cols - 1,
         NEW k \in 1 .. MLIFE_myrows(o.rows, q, o.np), NEW l \in 0 .. o.cols - 1,
         NcPlace(o, p, (i - 1) * o.cols + j) = NcPlace(o, q, (k - 1) * o.cols + l)
  PROVE  p = q /\ i = k /\ j = l
<1> DEFINE n == MLIFE_myrows(o.rows, p, o.np)
           m == MLIFE_myrows(o.rows, q, o.np)
           off == MLIFE_myrowoffset(o.rows, p, o.np)
           offq == MLIFE_myrowoffset(o.rows, q, o.np)
           a == (i - 1) * o.cols + j
           b == (k - 1) * o.cols + l
<1>1. /\ n \in Nat \ {0} /\ m \in Nat \ {0} /\ off \in Nat /\ offq \in Nat
      /\ i \in Nat \ {0} /\ k \in Nat \ {0} /\ o.cols \in Nat
  BY RowsInside, OptionTypes
<1>2. a \in Nat /\ b \in Nat /\ (a = b => i = k /\ j = l)
  BY <1>1, IndexInjective
<1>3. a \div n = b \div m /\ off + (a % n) = offq + (b % m)
  BY DEF NcPlace
<1> HIDE DEF a, b
<1>4. a % n \in 0 .. n - 1 /\ b % m \in 0 .. m - 1
  BY <1>1, <1>2, Division
<1>5. p = q
  <2> DEFINE s == (a % n) + 1
             t == (b % m) + 1
  <2>1. s \in 1 .. n /\ t \in 1 .. m /\ off + s = offq + t
    BY <1>1, <1>3, <1>4
  <2> HIDE DEF s, t
  <2>2. QED
    BY <2>1, OneOwner
<1>6. m = n /\ off = offq
  BY <1>5
<1> HIDE DEF n, m, off, offq
<1>7. a \div n = b \div n /\ a % n = b % n
  <2> DEFINE s == a % n
             t == b % n
  <2>1. s \in Nat /\ t \in Nat /\ off + s = off + t
    BY <1>3, <1>4, <1>6
  <2> HIDE DEF s, t
  <2>2. s = t
    BY <1>1, <2>1
  <2>3. QED
    BY <1>3, <1>6, <2>2 DEF s, t
<1>8. a = b
  BY <1>1, <1>2, <1>7, QuotientAndRest
<1>9. QED
  BY <1>2, <1>5, <1>8

LEMMA NoDimension ==
  ASSUME NEW o, NEW p, NEW k
  PROVE  NcPlace(o, p, k) \notin {<<"col">>, <<"row">>}
BY DEF NcPlace

(* What a rank writes.                                                     *)
LEMMA NcRowDataIs ==
  ASSUME job \in Options, NEW p \in Ranks
  PROVE  /\ \A x \in DOMAIN NcRowData(p) :
              \E i \in 1 .. MyRows(p), j \in 0 .. job.cols - 1 :
                x = NcPlace(job, p, (i - 1) * job.cols + j)
         /\ \A i \in 1 .. MyRows(p), j \in 0 .. job.cols - 1 :
              LET x == NcPlace(job, p, (i - 1) * job.cols + j)
              IN  /\ x \in DOMAIN NcRowData(p)
                  /\ NcRowData(p)[x] = <<id, MyOffset(p) + i, j + 1>>
<1> DEFINE index(c) == (c[1] - 1) * job.cols + c[2] - 1
           Place(i, j) == NcPlace(job, p, (i - 1) * job.cols + j)
<1>1. /\ job.cols \in Nat /\ p \in 0 .. job.np - 1 /\ MyRows(p) \in Nat
      /\ MyRows(p) = MLIFE_myrows(job.rows, p, job.np)
  BY OptionTypes, RowsInside DEF Ranks, MyRows
<1>2. ASSUME NEW c \in Cells(p)
      PROVE  /\ c[1] \in 1 .. MyRows(p) /\ c[2] - 1 \in 0 .. job.cols - 1
             /\ NcPosition(p, index(c)) = Place(c[1], c[2] - 1)
             /\ c = <<c[1], c[2]>> /\ c[2] \in Nat
  <2>1. c[1] \in 1 .. MyRows(p) /\ c[2] \in 1 .. job.cols /\ c = <<c[1], c[2]>>
    BY DEF Cells
  <2>2. c[1] - 1 \in Nat
    BY <1>1, <2>1
  <2>3. (c[1] - 1) * job.cols \in Nat
    BY <1>1, <2>2, TimesMonotone
  <2>4. index(c) = (c[1] - 1) * job.cols + (c[2] - 1)
    BY <1>1, <2>1, <2>3
  <2> HIDE DEF index
  <2>5. NcPosition(p, index(c)) = Place(c[1], c[2] - 1)
    BY <2>4 DEF NcPosition, NcPlace, MyRows, MyOffset
  <2>6. QED
    BY <1>1, <2>1, <2>5
<1> HIDE DEF index, Place
<1>3. DOMAIN NcRowData(p) = {NcPosition(p, index(c)) : c \in Cells(p)}
  BY DEF NcRowData, index
<1>4. ASSUME NEW c \in Cells(p)
      PROVE  NcRowData(p)[NcPosition(p, index(c))] = <<id, MyOffset(p) + c[1], c[2]>>
  <2>1. ASSUME NEW d \in Cells(p), NcPosition(p, index(d)) = NcPosition(p, index(c))
        PROVE  d = c
    <3>1. Place(d[1], d[2] - 1) = Place(c[1], c[2] - 1)
      BY <1>2, <2>1
    <3> DEFINE i == d[1]
               j == d[2] - 1
               k == c[1]
               l == c[2] - 1
    <3>2. /\ i \in 1 .. MLIFE_myrows(job.rows, p, job.np) /\ j \in 0 .. job.cols - 1
          /\ k \in 1 .. MLIFE_myrows(job.rows, p, job.np) /\ l \in 0 .. job.cols - 1
          /\ NcPlace(job, p, (i - 1) * job.cols + j) = NcPlace(job, p, (k - 1) * job.cols + l)
      BY <1>1, <1>2, <3>1 DEF Place
    <3> HIDE DEF i, j, k, l
    <3>3. i = k /\ j = l
      BY <1>1, <3>2, PlacesApart
    <3>4. d[1] = c[1] /\ d[2] = c[2]
      BY <1>2, <3>3 DEF i, j, k, l
    <3>5. QED
      BY <1>2, <3>4
  <2> DEFINE d == CHOOSE d \in Cells(p) : NcPosition(p, index(d)) = NcPosition(p, index(c))
  <2>2. d \in Cells(p) /\ NcPosition(p, index(d)) = NcPosition(p, index(c))
    OBVIOUS
  <2>3. d = c
    BY <2>1, <2>2
  <2>4. NcRowData(p)[NcPosition(p, index(c))] = <<id, MyOffset(p) + d[1], d[2]>>
    BY DEF NcRowData, index
  <2>5. QED
    BY <2>3, <2>4
<1>5. ASSUME NEW x \in DOMAIN NcRowData(p)
      PROVE  \E i \in 1 .. MyRows(p), j \in 0 .. job.cols - 1 : x = Place(i, j)
  BY <1>2, <1>3, <1>5
<1>6. ASSUME NEW i \in 1 .. MyRows(p), NEW j \in 0 .. job.cols - 1
      PROVE  /\ Place(i, j) \in DOMAIN NcRowData(p)
             /\ NcRowData(p)[Place(i, j)] = <<id, MyOffset(p) + i, j + 1>>
  <2> DEFINE c == <<i, j + 1>>
  <2>1. c \in Cells(p) /\ c[1] = i /\ c[2] = j + 1 /\ c[2] - 1 = j
    BY <1>1 DEF Cells
  <2>2. NcPosition(p, index(c)) = Place(i, j)
    BY <1>2, <2>1
  <2> HIDE DEF c
  <2>3. QED
    BY <1>3, <1>4, <2>1, <2>2
<1>7. QED
  BY <1>5, <1>6 DEF Place

-----------------------------------------------------------------------------
LEMMA NcFileKept ==
  ASSUME NcFileWhole, UNCHANGED <<file, whole>>
  PROVE  NcFileWhole'
BY DEF NcFileWhole, NcHasHeader, NcHolds, NcPlace

LEMMA NcRankKept ==
  ASSUME NEW p, NcRank(p), UNCHANGED <<id, job, file, whole>>, hurt \subseteq hurt',
         pc'[p] = pc[p], mem'[p] = mem[p]
  PROVE  NcRank(p)'
<1>1. NcHasHeader(job)' <=> NcHasHeader(job)
  BY DEF NcHasHeader
<1>2. NcHolds(job, id, p)' <=> NcHolds(job, id, p)
  BY DEF NcHolds, NcPlace
<1>3. NcMemoryRead(p)'
  BY DEF NcRank, NcMemoryRead, MyRows, MyOffset, NcPosition, BufIndex, NcContents
<1>4. QED
  BY <1>1, <1>2, <1>3 DEF NcRank

LEMMA NcQuiet ==
  ASSUME NEW p, \/ pc'[p] \in {"start", "failed", "done", "over"}
                \/ pc'[p] = "compute" /\ ~job'.restart
  PROVE  NcRank(p)'
BY DEF NcRank, NcMemoryRead

LEMMA NcStart ==
  ASSUME MCInit
  PROVE  NcInv
BY DEF MCInit, Init, NcInv, NcRank, NcFileWhole, NcMemoryRead, Everywhere

LEMMA NcCollective ==
  ASSUME CheckpointTypeOK, NcInv, Abort \/ Crash
  PROVE  NcInv'
<1>1. UNCHANGED <<job, file, whole>>
  BY DEF Abort, Crash
<1>2. ASSUME NEW p \in Ranks
      PROVE  NcRank(p)'
  BY NcQuiet DEF Abort, Crash, Everywhere
<1>3. QED
  BY <1>1, <1>2, NcFileKept DEF NcInv, Ranks

LEMMA NcNextJob ==
  ASSUME CheckpointTypeOK, NcInv, NextJob
  PROVE  NcInv'
<1>1. UNCHANGED <<file, whole>>
  BY DEF NextJob
<1>2. ASSUME NEW p \in Ranks'
      PROVE  NcRank(p)'
  <2>1. pc'[p] = "start" \/ (pc'[p] = "compute" /\ ~job'.restart)
    BY OptionTypes DEF NextJob, StartJob, Ranks
  <2>2. QED
    BY <2>1, NcQuiet
<1>3. QED
  BY <1>1, <1>2, NcFileKept DEF NcInv

LEMMA NcOpen ==
  ASSUME CheckpointTypeOK, NcInv, NcOpenForReading
  PROVE  NcInv'
<1>1. UNCHANGED <<job, file, whole>>
  BY DEF NcOpenForReading
<1>2. ASSUME NEW p \in Ranks
      PROVE  NcRank(p)'
  <2>1. CASE exists /\ NcHeaderFits
    <3>1. pc'[p] = "alloc"
      BY <2>1 DEF NcOpenForReading, Everywhere
    <3>2. NcHasHeader(job)'
      BY <1>1, <2>1 DEF NcHeaderFits, NcHasHeader
    <3>3. QED
      BY <3>1, <3>2 DEF NcRank, NcMemoryRead
  <2>2. CASE ~(exists /\ NcHeaderFits)
    <3>1. pc'[p] = "failed"
      BY <2>2 DEF NcOpenForReading, Everywhere
    <3>2. QED
      BY <3>1, NcQuiet
  <2>3. QED
    BY <2>1, <2>2
<1>3. QED
  BY <1>1, <1>2, NcFileKept DEF NcInv, Ranks

LEMMA NcAllocate ==
  ASSUME CheckpointTypeOK, NcInv, NEW p \in Ranks, Allocate(p)
  PROVE  NcInv'
<1>1. UNCHANGED <<id, job, mem, file, whole>> /\ hurt \subseteq hurt'
  BY DEF Allocate
<1>2. ASSUME NEW q \in Ranks, q # p
      PROVE  NcRank(q)'
  <2>1. pc'[q] = pc[q] /\ mem'[q] = mem[q]
    BY <1>2 DEF Allocate, CheckpointTypeOK
  <2>2. QED
    BY <1>1, <2>1, NcRankKept DEF NcInv
<1>3. NcRank(p)'
  <2>1. pc[p] = "alloc" /\ pc'[p] = "reduce"
    BY DEF Allocate, CheckpointTypeOK
  <2>2. NcHasHeader(job)'
    BY <1>1, <2>1 DEF NcInv, NcRank, NcHasHeader
  <2>3. QED
    BY <2>1, <2>2 DEF NcRank, NcMemoryRead
<1>4. QED
  BY <1>1, <1>2, <1>3, NcFileKept DEF NcInv, Ranks

LEMMA NcAgree ==
  ASSUME CheckpointTypeOK, NcInv, AgreeOnBuffers
  PROVE  NcInv'
<1>1. UNCHANGED <<id, job, mem, file, whole>>
  BY DEF AgreeOnBuffers
<1>2. ASSUME NEW p \in Ranks
      PROVE  NcRank(p)'
  <2>1. pc[p] = "reduce" /\ pc'[p] \in {"failed", "rows"}
    BY DEF AgreeOnBuffers, AllAt
  <2>2. NcHasHeader(job)'
    BY <1>1, <2>1 DEF NcInv, NcRank, NcHasHeader
  <2>3. QED
    BY <2>1, <2>2 DEF NcRank, NcMemoryRead
<1>3. QED
  BY <1>1, <1>2, NcFileKept DEF NcInv, Ranks

LEMMA NcRead ==
  ASSUME CheckpointTypeOK, NcInv, NEW p \in Ranks, NcReadRows(p)
  PROVE  NcInv'
<1>1. UNCHANGED <<id, job, file, whole>> /\ hurt \subseteq hurt'
  BY DEF NcReadRows
<1>2. ASSUME NEW q \in Ranks, q # p
      PROVE  NcRank(q)'
  <2>1. pc'[q] = pc[q] /\ mem'[q] = mem[q]
    BY <1>2 DEF NcReadRows, CheckpointTypeOK
  <2>2. QED
    BY <1>1, <2>1, NcRankKept DEF NcInv
<1>3. NcRank(p)'
  <2>1. pc[p] = "rows" /\ pc'[p] = "compute"
    BY DEF NcReadRows, CheckpointTypeOK
  <2>2. NcHasHeader(job)'
    BY <1>1, <2>1 DEF NcInv, NcRank, NcHasHeader
  <2>3. ASSUME hurt' = {}, NEW i \in 1 .. MyRows(p), NEW j \in 0 .. job.cols - 1
        PROVE  mem'[p][<<i, j>>] = NcContents(NcPosition(p, BufIndex(i, j)))
    <3> DEFINE stored == (1 .. MyRows(p)) \X (0 .. job.cols - 1)
               buf == [c \in stored |-> NcContents(NcPosition(p, BufIndex(c[1], c[2])))]
               c == <<i, j>>
    <3>1. mem'[p] = Over(buf, [d \in Cells(p) |-> Junk])
      BY <2>3 DEF NcReadRows, CheckpointTypeOK
    <3>2. c \in stored /\ c[1] = i /\ c[2] = j
      BY <2>3
    <3>3. c \in DOMAIN buf /\ buf[c] = NcContents(NcPosition(p, BufIndex(i, j)))
      BY <3>2
    <3> HIDE DEF buf, c
    <3>4. mem'[p][c] = buf[c]
      BY <3>1, <3>3 DEF Over
    <3>5. QED
      BY <3>3, <3>4 DEF c
  <2>4. NcMemoryRead(p)'
    BY <1>1, <2>3 DEF NcMemoryRead, MyRows, MyOffset, NcPosition, BufIndex, NcContents
  <2>5. QED
    BY <2>1, <2>2, <2>4 DEF NcRank
<1>4. QED
  BY <1>1, <1>2, <1>3, NcFileKept DEF NcInv, Ranks

LEMMA NcCreate ==
  ASSUME CheckpointTypeOK, NcInv, Create
  PROVE  NcInv'
<1>1. UNCHANGED <<id, job>>
  BY DEF Create
<1>2. CASE whole' = None /\ \A p \in Ranks : pc'[p] = "define"
  <2>1. \A p \in Ranks : NcRank(p)'
    BY <1>2 DEF NcRank, NcMemoryRead
  <2>2. NcFileWhole'
    BY <1>2 DEF NcFileWhole
  <2>3. QED
    BY <1>1, <2>1, <2>2 DEF NcInv, Ranks
<1>3. CASE UNCHANGED <<file, whole>> /\ \A p \in Ranks : pc'[p] = "done"
  <2>1. \A p \in Ranks : NcRank(p)'
    BY <1>3, NcQuiet
  <2>2. QED
    BY <1>1, <1>3, <2>1, NcFileKept DEF NcInv, Ranks
<1>4. QED
  BY <1>2, <1>3 DEF Create, Everywhere

LEMMA NcEndDefinitions ==
  ASSUME CheckpointTypeOK, NcInv, EndDefinitions
  PROVE  NcInv'
<1>1. UNCHANGED <<id, job, whole>> /\ 0 \in Ranks
  BY RanksNotEmpty DEF EndDefinitions, CheckpointTypeOK
<1>2. whole = None
  BY <1>1 DEF EndDefinitions, AllAt, NcInv, NcRank
<1>3. hurt' = {} => NcHasHeader(job)'
  <2>1. hurt' = {} => file' = NcHeader
    BY <1>1 DEF EndDefinitions
  <2>2. /\ DOMAIN NcHeader = {<<"col">>, <<"row">>}
        /\ NcHeader[<<"col">>] = <<job.cols>> /\ NcHeader[<<"row">>] = <<job.rows>>
    BY DEF NcHeader
  <2>3. QED
    BY <1>1, <2>1, <2>2 DEF NcHasHeader
<1>4. ASSUME NEW p \in Ranks
      PROVE  NcRank(p)'
  <2>1. pc'[p] = "write"
    BY DEF EndDefinitions, Everywhere
  <2>2. QED
    BY <1>1, <1>2, <1>3, <2>1 DEF NcRank, NcMemoryRead
<1>5. NcFileWhole'
  BY <1>1, <1>2 DEF NcFileWhole
<1>6. QED
  BY <1>1, <1>4, <1>5 DEF NcInv, Ranks

(* A rank writes: the dimensions and the rows of the others stay.          *)
LEMMA NcWrite ==
  ASSUME CheckpointTypeOK, WritersTogether, NcInv, NEW p \in Ranks, NcWriteRank(p)
  PROVE  NcInv'
<1>1. UNCHANGED <<id, job, whole>> /\ hurt \subseteq hurt'
  BY DEF NcWriteRank
<1>2. job \in Options /\ p \in 0 .. job.np - 1
  BY DEF CheckpointTypeOK, Ranks
<1>3. pc[p] = "write" /\ pc'[p] = "closing"
  BY DEF NcWriteRank, CheckpointTypeOK
<1>4. whole = None
  BY <1>3 DEF NcInv, NcRank
<1>5. ASSUME hurt' = {}
      PROVE  /\ hurt = {} /\ DOMAIN file' = DOMAIN NcRowData(p) \cup DOMAIN file
             /\ \A x \in DOMAIN NcRowData(p) : file'[x] = NcRowData(p)[x]
             /\ \A x \in DOMAIN file : x \notin DOMAIN NcRowData(p) => file'[x] = file[x]
  <2>1. file' = Over(NcRowData(p), file) /\ hurt = {}
    BY <1>5 DEF NcWriteRank
  <2>2. QED
    BY <2>1 DEF Over
<1>6. ASSUME hurt' = {}
      PROVE  NcHasHeader(job)'
  <2>1. NcHasHeader(job)
    BY <1>3, <1>5, <1>6 DEF NcInv, NcRank
  <2>2. \A x \in DOMAIN NcRowData(p) : x \notin {<<"col">>, <<"row">>}
    BY <1>2, NcRowDataIs, NoDimension
  <2>3. QED
    BY <1>1, <1>5, <1>6, <2>1, <2>2 DEF NcHasHeader
<1>7. ASSUME NEW q \in Ranks, hurt' = {}, pc'[q] = "closing"
      PROVE  NcHolds(job, id, q)'
  <2> DEFINE Place(s, i, j) == NcPlace(job, s, (i - 1) * job.cols + j)
  <2>1. q \in 0 .. job.np - 1
    BY DEF Ranks
  <2>2. ASSUME NEW i \in 1 .. MyRows(q), NEW j \in 0 .. job.cols - 1
        PROVE  /\ Place(q, i, j) \in DOMAIN file'
               /\ file'[Place(q, i, j)] = <<id, MyOffset(q) + i, j + 1>>
    <3>1. CASE q = p
      <4>1. /\ Place(p, i, j) \in DOMAIN NcRowData(p)
            /\ NcRowData(p)[Place(p, i, j)] = <<id, MyOffset(p) + i, j + 1>>
        BY <1>2, <2>2, <3>1, NcRowDataIs
      <4>2. QED
        BY <1>5, <1>7, <3>1, <4>1
    <3>2. CASE q # p
      <4>1. pc[q] = "closing"
        BY <1>7, <3>2 DEF NcWriteRank, CheckpointTypeOK
      <4>2. NcHolds(job, id, q)
        BY <1>5, <1>7, <4>1 DEF NcInv, NcRank
      <4>3. /\ Place(q, i, j) \in DOMAIN file
            /\ file[Place(q, i, j)] = <<id, MyOffset(q) + i, j + 1>>
        BY <2>2, <4>2 DEF NcHolds, MyRows, MyOffset
      <4>4. ASSUME NEW k \in 1 .. MyRows(p), NEW l \in 0 .. job.cols - 1
            PROVE  Place(q, i, j) # Place(p, k, l)
        BY <1>2, <2>1, <2>2, <3>2, <4>4, PlacesApart DEF MyRows
      <4>5. Place(q, i, j) \notin DOMAIN NcRowData(p)
        <5>1. SUFFICES ASSUME Place(q, i, j) \in DOMAIN NcRowData(p)
                       PROVE  FALSE
          OBVIOUS
        <5>2. \E k \in 1 .. MyRows(p), l \in 0 .. job.cols - 1 : Place(q, i, j) = Place(p, k, l)
          BY <1>2, <5>1, NcRowDataIs
        <5>3. QED
          BY <4>4, <5>2
      <4>6. QED
        BY <1>5, <1>7, <4>3, <4>5
    <3>3. QED
      BY <3>1, <3>2
  <2>3. QED
    BY <1>1, <2>2 DEF NcHolds, NcPlace, MyRows, MyOffset
<1>8. ASSUME NEW q \in Ranks
      PROVE  NcRank(q)'
  <2>1. pc[q] \in {"write", "closing"}
    BY <1>3 DEF WritersTogether
  <2>2. pc'[q] \in {"write", "closing"}
    BY <2>1 DEF NcWriteRank, CheckpointTypeOK
  <2>3. QED
    BY <1>1, <1>4, <1>6, <1>7, <2>2 DEF NcRank, NcMemoryRead
<1>9. NcFileWhole'
  BY <1>1, <1>4 DEF NcFileWhole
<1>10. QED
  BY <1>1, <1>8, <1>9 DEF NcInv, Ranks

LEMMA NcClosed ==
  ASSUME CheckpointTypeOK, NcInv, NcClose
  PROVE  NcInv'
<1>1. UNCHANGED <<id, job, file>> /\ 0 \in Ranks
  BY RanksNotEmpty DEF NcClose, CloseAfterWriting, CheckpointTypeOK
<1>2. ASSUME NEW p \in Ranks
      PROVE  NcRank(p)'
  <2>1. pc'[p] = "done"
    BY DEF NcClose, CloseAfterWriting, Everywhere
  <2>2. QED
    BY <2>1, NcQuiet
<1>3. ASSUME whole' # None
      PROVE  /\ NcHasHeader(whole.job)'
             /\ \A p \in 0 .. whole'.job.np - 1 : NcHolds(whole.job, whole.id, p)'
  <2>1. hurt = {} /\ whole'.id = id /\ whole'.job = job
    BY <1>3 DEF NcClose, CloseAfterWriting
  <2>2. \A p \in Ranks : pc[p] = "closing"
    BY DEF NcClose, CloseAfterWriting, AllAt
  <2>3. NcHasHeader(job) /\ \A p \in Ranks : NcHolds(job, id, p)
    BY <1>1, <2>1, <2>2 DEF NcInv, NcRank
  <2>4. NcHasHeader(whole.job)'
    BY <1>1, <2>1, <2>3 DEF NcHasHeader
  <2>5. ASSUME NEW p \in 0 .. whole'.job.np - 1
        PROVE  NcHolds(whole.job, whole.id, p)'
    <3>1. NcHolds(job, id, p)
      BY <2>1, <2>3, <2>5 DEF Ranks
    <3>2. QED
      BY <1>1, <2>1, <3>1 DEF NcHolds, NcPlace
  <2>6. QED
    BY <2>4, <2>5
<1>4. NcFileWhole'
  BY <1>3 DEF NcFileWhole
<1>5. QED
  BY <1>1, <1>2, <1>4 DEF NcInv, Ranks

LEMMA NcStep ==
  ASSUME CheckpointTypeOK, WritersTogether, NcInv, NcNext
  PROVE  NcInv'
BY NcCollective, NcNextJob, NcOpen, NcAllocate, NcAgree, NcRead, NcCreate, NcEndDefinitions,
   NcWrite, NcClosed DEF NcNext

LEMMA TogetherNc ==
  ASSUME CheckpointTypeOK, RestartTogether, NcNext
  PROVE  RestartTogether'
<1> USE DEF RestartTogether, Everywhere, AllAt
<1>1. CASE NcOpenForReading
  <2>1. \A p \in Ranks : pc'[p] = (IF exists /\ NcHeaderFits THEN "alloc" ELSE "failed")
    BY <1>1 DEF NcOpenForReading
  <2>2. Ranks' = Ranks
    BY <1>1 DEF NcOpenForReading, Ranks
  <2>3. QED
    BY <2>1, <2>2
<1>2. CASE AgreeOnBuffers
  BY <1>2 DEF AgreeOnBuffers, Ranks, NoBuffer
<1>3. CASE Abort
  BY <1>3 DEF Abort, Ranks
<1>4. CASE Create
  BY <1>4 DEF Create, Ranks
<1>5. CASE EndDefinitions
  BY <1>5 DEF EndDefinitions, Ranks
<1>6. CASE NcClose
  BY <1>6 DEF NcClose, CloseAfterWriting, Ranks
<1>7. CASE Crash
  BY <1>7 DEF Crash, Ranks
<1>8. CASE NextJob
  <2>1. \A p \in Ranks' : pc'[p] \in {"start", "compute"}
    BY <1>8 DEF NextJob, StartJob, Ranks
  <2>2. QED
    BY <2>1
<1>9. ASSUME NEW p \in Ranks, Allocate(p)
      PROVE  RestartTogether'
  BY <1>9 DEF Allocate, Ranks, CheckpointTypeOK
<1>10. ASSUME NEW p \in Ranks, NcReadRows(p)
       PROVE  RestartTogether'
  BY <1>10 DEF NcReadRows, Ranks, CheckpointTypeOK
<1>11. ASSUME NEW p \in Ranks, NcWriteRank(p)
       PROVE  RestartTogether'
  BY <1>11 DEF NcWriteRank, Ranks, CheckpointTypeOK
<1>12. QED
  BY <1>1, <1>2, <1>3, <1>4, <1>5, <1>6, <1>7, <1>8, <1>9, <1>10, <1>11 DEF NcNext

-----------------------------------------------------------------------------
LEMMA CInvStart ==
  ASSUME MCInit
  PROVE  CInv
<1>1. backend \in {"mpiio", "pnetcdf"}
  BY BackendsAssumption DEF BackendsAssumption, MCInit
<1>2. QED
  BY <1>1, TypesStart, MpiStart, NcStart DEF CInv

LEMMA CInvStep ==
  ASSUME CInv, [MCNext]_<<vars, backend>>
  PROVE  CInv'
<1>1. CASE backend = "mpiio" /\ Next /\ UNCHANGED backend
  <2>1. CheckpointTypeOK' /\ WritersTogether'
    BY <1>1, TypesMpi, WritersMpi DEF CInv
  <2>2. RestartTogether' /\ MpiInv'
    BY <1>1, TogetherMpi, MpiStep DEF CInv
  <2>3. QED
    BY <1>1, <2>1, <2>2 DEF CInv
<1>2. CASE backend = "pnetcdf" /\ NcNext /\ UNCHANGED backend
  <2>1. CheckpointTypeOK' /\ WritersTogether'
    BY <1>2, TypesNc, WritersNc DEF CInv
  <2>2. RestartTogether' /\ NcInv'
    BY <1>2, TogetherNc, NcStep DEF CInv
  <2>3. QED
    BY <1>2, <2>1, <2>2 DEF CInv
<1>3. CASE UNCHANGED <<vars, backend>>
  <2>1. UNCHANGED <<id, job, pc, ret, header, mem, hurt, file, exists, whole, backend>>
    BY <1>3 DEF vars
  <2>2. Ranks' = Ranks
    BY <2>1 DEF Ranks
  <2>3. CheckpointTypeOK' /\ WritersTogether' /\ RestartTogether'
    BY <2>1, <2>2 DEF CInv, CheckpointTypeOK, WritersTogether, RestartTogether
  <2>4. backend = "mpiio" => MpiInv'
    BY <2>1, <2>2, FileWholeKept, MpiRankKept DEF CInv, MpiInv
  <2>5. backend = "pnetcdf" => NcInv'
    BY <2>1, <2>2, NcFileKept, NcRankKept DEF CInv, NcInv
  <2>6. QED
    BY <2>1, <2>3, <2>4, <2>5 DEF CInv
<1>4. QED
  BY <1>1, <1>2, <1>3 DEF MCNext

(* The invariant of every job of every program.                           *)
LEMMA CInvAlways == MCSpec => []CInv
<1>1. MCInit => CInv
  BY CInvStart
<1>2. CInv /\ [MCNext]_<<vars, backend>> => CInv'
  BY CInvStep
<1>3. QED
  BY <1>1, <1>2, PTL DEF MCSpec

-----------------------------------------------------------------------------
LEMMA BothShapes ==
  ASSUME CInv, Restored, whole # None
  PROVE  job.rows = whole.job.rows /\ job.cols = whole.job.cols
<1>1. 0 \in Ranks /\ pc[0] = "compute" /\ job.restart
  BY RanksNotEmpty DEF CInv, CheckpointTypeOK, Restored, AllAt
<1>2. CASE backend = "mpiio"
  <2>1. HeaderFits /\ FileWhole
    BY <1>1, <1>2 DEF CInv, MpiInv, MpiRank, HeaderKnown
  <2>2. <<job.rows>> = <<whole.job.rows>> /\ <<job.cols>> = <<whole.job.cols>>
    BY <2>1 DEF HeaderFits, FileWhole
  <2>3. QED
    BY <2>2
<1>3. CASE backend = "pnetcdf"
  <2>1. NcHasHeader(job) /\ NcHasHeader(whole.job)
    BY <1>1, <1>3 DEF CInv, NcInv, NcRank, NcFileWhole
  <2>2. <<job.rows>> = <<whole.job.rows>> /\ <<job.cols>> = <<whole.job.cols>>
    BY <2>1 DEF NcHasHeader
  <2>3. QED
    BY <2>2
<1>4. QED
  BY <1>2, <1>3 DEF CInv

LEMMA MpiRestores ==
  ASSUME CInv, backend = "mpiio"
  PROVE  RestoresRows
<1>1. SUFFICES ASSUME Restored, whole # None, hurt = {}, NEW p \in Ranks,
                      NEW i \in 1 .. MyRows(p), MyOffset(p) + i > Missing,
                      NEW j \in 1 .. job.cols
               PROVE  mem[p][<<i, j>>] = <<whole.id, MyOffset(p) + i, j>>
  BY DEF RestoresRows, RowRight
<1>2. job.rows = whole.job.rows /\ job.cols = whole.job.cols
  BY <1>1, BothShapes
<1>3. job \in Options /\ whole.job \in Options
  BY <1>1 DEF CInv, CheckpointTypeOK
<1> DEFINE c == <<i, j>>
<1>4. c \in Cells(p) /\ c[1] = i /\ c[2] = j
  BY <1>1 DEF Cells
<1>5. /\ Position(p, c) = At(job.cols, MyOffset(p) + i, j)
      /\ MyOffset(p) + i \in 1 .. job.rows
  BY <1>3, <1>4, PositionIsAt
<1>6. mem[p][c] = Contents(Position(p, c))
  <2>1. pc[p] = "compute" /\ job.restart
    BY <1>1 DEF Restored, AllAt
  <2>2. MemoryRead(p)
    BY DEF CInv, MpiInv, MpiRank
  <2>3. QED
    BY <1>1, <1>4, <2>1, <2>2 DEF MemoryRead
<1>7. Missing \in Nat
  <2>1. 0 \in 0 .. whole.job.np - 1
    BY <1>3, OptionTypes
  <2>2. QED
    BY <1>3, <2>1, RowsInside DEF Missing
<1>8. MyOffset(p) + i \in Missing + 1 .. whole.job.rows
  <2>1. job.rows \in Nat
    BY <1>3, OptionTypes
  <2>2. QED
    BY <1>1, <1>2, <1>5, <1>7, <2>1
<1>9. /\ Position(p, c) \in DOMAIN file
      /\ file[Position(p, c)] = <<whole.id, MyOffset(p) + i, j>>
  BY <1>1, <1>2, <1>5, <1>8 DEF CInv, MpiInv, FileWhole
<1>10. QED
  BY <1>6, <1>9 DEF Contents

LEMMA NcRestores ==
  ASSUME CInv, backend = "pnetcdf", Restored, whole # None, hurt = {}, job.np = whole.job.np
  PROVE  NcRowsRestored
<1>1. job.rows = whole.job.rows /\ job.cols = whole.job.cols
  BY BothShapes
<1>2. ASSUME NEW p \in Ranks, NEW i \in 1 .. MyRows(p), NEW j \in 0 .. job.cols - 1
      PROVE  mem[p][<<i, j>>] = <<whole.id, MyOffset(p) + i, j + 1>>
  <2> DEFINE x == NcPlace(whole.job, p, (i - 1) * whole.job.cols + j)
  <2>1. /\ x \in DOMAIN file
        /\ file[x] = <<whole.id, MyOffset(p) + i, j + 1>>
    <3>1. NcHolds(whole.job, whole.id, p)
      BY DEF CInv, NcInv, NcFileWhole, Ranks
    <3>2. QED
      BY <1>1, <1>2, <3>1 DEF NcHolds, MyRows, MyOffset
  <2>2. NcPosition(p, BufIndex(i, j)) = x
    BY <1>1 DEF NcPosition, NcPlace, BufIndex, MyRows, MyOffset
  <2>3. mem[p][<<i, j>>] = NcContents(x)
    <3>1. pc[p] = "compute" /\ job.restart
      BY <1>2 DEF Restored, AllAt
    <3>2. NcMemoryRead(p)
      BY <1>2 DEF CInv, NcInv, NcRank
    <3> HIDE DEF x
    <3>3. QED
      BY <1>2, <2>2, <3>1, <3>2 DEF NcMemoryRead
  <2> HIDE DEF x
  <2>4. QED
    BY <2>1, <2>3 DEF NcContents
<1>3. ASSUME NEW p \in Ranks, NEW i \in 1 .. MyRows(p)
      PROVE  {mem[p][<<i, j>>] : j \in 0 .. job.cols - 1}
               = {<<whole.id, MyOffset(p) + i, j>> : j \in 1 .. job.cols}
  <2>1. job.cols \in Nat
    BY OptionTypes DEF CInv, CheckpointTypeOK
  <2>2. ASSUME NEW j \in 0 .. job.cols - 1
        PROVE  j + 1 \in 1 .. job.cols
    BY <2>1
  <2>3. ASSUME NEW j \in 1 .. job.cols
        PROVE  j - 1 \in 0 .. job.cols - 1 /\ (j - 1) + 1 = j
    BY <2>1
  <2>4. ASSUME NEW j \in 0 .. job.cols - 1
        PROVE  mem[p][<<i, j>>] \in {<<whole.id, MyOffset(p) + i, k>> : k \in 1 .. job.cols}
    <3>1. mem[p][<<i, j>>] = <<whole.id, MyOffset(p) + i, j + 1>>
      BY <1>2, <1>3, <2>4
    <3>2. QED
      BY <2>2, <2>4, <3>1
  <2>5. ASSUME NEW j \in 1 .. job.cols
        PROVE  <<whole.id, MyOffset(p) + i, j>> \in {mem[p][<<i, k>>] : k \in 0 .. job.cols - 1}
    BY <1>2, <1>3, <2>3
  <2>6. QED
    BY <2>4, <2>5
<1>4. QED
  BY <1>3 DEF NcRowsRestored

-----------------------------------------------------------------------------
(* A job restored from a whole checkpoint holds the rows that are in it    *)
(* (mlife-io-mpiio.c:111, mlife-io-pnetcdf.c:115).                         *)
THEOREM CheckpointRestored == MCSpec => []RowsRestored
<1>1. ASSUME CInv
      PROVE  RowsRestored
  <2>1. backend \in {"mpiio", "pnetcdf"}
    BY <1>1 DEF CInv
  <2>2. QED
    BY <1>1, <2>1, MpiRestores, NcRestores DEF RowsRestored
<1>2. QED
  BY <1>1, CInvAlways, PTL

(* A job of another shape does not restart from it                         *)
(* (mlife-io-mpiio.c:138, mlife-io-pnetcdf.c:151).                         *)
THEOREM ShapeRefused == MCSpec => []OtherShapeRejected
<1>1. CInv => OtherShapeRejected
  BY BothShapes DEF OtherShapeRejected
<1>2. QED
  BY <1>1, CInvAlways, PTL

(* From a whole checkpoint the ranks restart together or not at all        *)
(* (mlife-io-mpiio.c:143).                                                 *)
THEOREM RestartsTogether == MCSpec => []RestartTogether
<1>1. CInv => RestartTogether
  BY DEF CInv
<1>2. QED
  BY <1>1, CInvAlways, PTL
=============================================================================
