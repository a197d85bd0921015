----------------------------- MODULE RowBlocks -----------------------------
(***************************************************************************)
(* The row-block distribution of mlife.c: a matrix of rows rows, numbered  *)
(* from 1, is divided into nprocs blocks of consecutive rows; the first    *)
(* ranks get one row more when nprocs does not divide rows.                *)
(***************************************************************************)
EXTENDS Integers

MLIFE_myrows(rows, rank, nprocs) ==
  (rows \div nprocs) + (IF rank < rows % nprocs THEN 1 ELSE 0)

(* The rows before the first row of rank.                                  *)
MLIFE_myrowoffset(rows, rank, nprocs) ==
  rank * (rows \div nprocs)
    + (IF rank > rows % nprocs THEN rows % nprocs ELSE rank)

(* The numbers of the rows a rank holds.                                   *)
RowsOf(rows, rank, nprocs) ==
  MLIFE_myrowoffset(rows, rank, nprocs) + 1 ..
    MLIFE_myrowoffset(rows, rank, nprocs) + MLIFE_myrows(rows, rank, nprocs)
=============================================================================
