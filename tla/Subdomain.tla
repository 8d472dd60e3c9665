------------------------------ MODULE Subdomain ------------------------------
(***************************************************************************)
(* The share of the grid that DataBlock::DataBlock gives to a process: np  *)
(* is Grid::np_int, nproc the number of processes in each direction, x the *)
(* coordinates xproc of the process in the Cartesian communicator.         *)
(* Directions are numbered from 1.                                         *)
(***************************************************************************)
EXTENDS Integers

Dirs == 1..3

Product(f) == f[1] * f[2] * f[3]

\* The processes of the communicator.
Coordinates(nproc) == (0..(nproc[1] - 1)) \X (0..(nproc[2] - 1)) \X (0..(nproc[3] - 1))

\* DataBlock::np_int: an even distribution of the points.
Local(np, nproc, d) == np[d] \div nproc[d]

\* Mutant: a subdomain that starts at the last cell of the previous one.
StartOverlap(np, nproc, x, d) ==
  IF x[d] = 0 THEN 0 ELSE x[d] * Local(np, nproc, d) - 1

\* gbeg - nghost and gend - nghost: where the subdomain starts, and the first
\* index after it.
Start(np, nproc, x, d) == x[d] * Local(np, nproc, d)
Stop(np, nproc, x, d) == (x[d] + 1) * Local(np, nproc, d)

\* The cells of the grid, and those of one process.
Cells(np) == (0..(np[1] - 1)) \X (0..(np[2] - 1)) \X (0..(np[3] - 1))
Holds(np, nproc, x, c) ==
  \A d \in Dirs: Start(np, nproc, x, d) <= c[d] /\ c[d] < Stop(np, nproc, x, d)
=============================================================================
