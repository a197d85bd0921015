-------------------------- MODULE MCLifeCheckpoint --------------------------
(***************************************************************************)
(* Jobs for LifeCheckpoint: one shape in one to three ranks, and two other *)
(* shapes that share its rows or its size, each fresh or restarted, of the *)
(* program linked with mlife-io-mpiio.c or with mlife-io-pnetcdf.c.        *)
(***************************************************************************)
EXTENDS LifePnetcdf

CONSTANT Backends             \* "mpiio", "pnetcdf"

ASSUME BackendsAssumption == Backends \subseteq {"mpiio", "pnetcdf"}

VARIABLE backend              \* the I/O module that is linked

Job(rows, cols, np, restart) ==
  [rows |-> rows, cols |-> cols, np |-> np, restart |-> restart]

SomeJobs == {Job(4, 2, np, restart) : np \in 1 .. 3, restart \in BOOLEAN}
              \cup {Job(4, 1, 2, restart) : restart \in BOOLEAN}
              \cup {Job(2, 4, 2, restart) : restart \in BOOLEAN}

MCInit == Init /\ backend \in Backends

MCNext == \/ backend = "mpiio" /\ Next /\ UNCHANGED backend
          \/ backend = "pnetcdf" /\ NcNext /\ UNCHANGED backend

MCSpec == MCInit /\ [][MCNext]_<<vars, backend>>

-----------------------------------------------------------------------------
(* Restart (mlife-io-mpiio.c:111, mlife-io-pnetcdf.c:115) finds each row   *)
(* where Checkpoint put it, unless the checkpoint or a read failed: with   *)
(* MPI-IO whatever the number of ranks of the two jobs and for all rows    *)
(* that are in the file, with PnetCDF for as many ranks as before.         *)
RowsRestored ==
  Restored /\ whole # None /\ hurt = {} =>
    \/ backend = "mpiio" /\ RestoresRows
    \/ backend = "pnetcdf" /\ (job.np = whole.job.np => NcRowsRestored)
=============================================================================
