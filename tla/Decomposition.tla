---------------------------- MODULE Decomposition ----------------------------
(***************************************************************************)
(* The decomposition of the grid over the MPI processes: the checks of the *)
(* constructor of Grid, the option -dec, and the automatic decomposition   *)
(* by successive halves (Grid::makeDomainDecomposition).  Every process    *)
(* makes the same computation.                                             *)
(***************************************************************************)
EXTENDS Subdomain

CONSTANTS
  Dims,     \* the values of DIMENSIONS the code is compiled for
  PSizes,   \* the numbers of processes the user may start
  Grids,    \* the sizes of grid the user may ask for
  Decs,     \* the values the user may give to -dec
  NoDec     \* the option is absent

ASSUME DecompositionAssumption ==
  /\ Dims \subseteq Dirs
  /\ PSizes \subseteq Nat \ {0}
  /\ Grids \subseteq [Dirs -> Nat \ {0}] /\ Decs \subseteq [Dirs -> Nat \ {0}]
  /\ NoDec \notin Decs

VARIABLES
  phase,   \* "check", "split", "done", or which IDEFIX_ERROR was raised
  dim,     \* DIMENSIONS
  psize,   \* the number of processes
  np,      \* np_int of the grid
  dec,     \* the value of -dec
  nproc,   \* the number of processes in each direction
  nlocal,  \* the points in each direction after the halves made so far
  nleft    \* the number of processes each subdomain is still to be shared by

gridVars == <<phase, dim, psize, np, dec, nproc, nlocal, nleft>>
-----------------------------------------------------------------------------
\* n & (n-1) is zero: n has no odd divisor but 1.
isPow2(n) == \A m \in 1..n: n % m = 0 => m = 1 \/ m % 2 = 0

\* There is one point, and one process, in a direction that does not exist.
Flat(f) == \A d \in Dirs: d > dim => f[d] = 1

GridInit ==
  /\ phase = "check"
  /\ dim \in Dims /\ psize \in PSizes
  /\ np \in {f \in Grids: Flat(f)} /\ dec \in {f \in Decs: Flat(f)} \cup {NoDec}
  /\ nproc = [d \in Dirs |-> 1]
  /\ nlocal = np /\ nleft = psize

\* One process needs no decomposition, and -dec is not looked at.
OneProcess ==
  /\ phase = "check" /\ psize = 1
  /\ phase' = "done"
  /\ UNCHANGED <<dim, psize, np, dec, nproc, nlocal, nleft>>

\* The size of the grid, which every decomposition must share evenly.
Divisible == Product(np) % psize = 0

\* Mutant: only the total is compared.
ManualTotal ==
  /\ phase = "check" /\ psize > 1 /\ dec # NoDec
  /\ IF Divisible /\ Product(dec) = psize
       THEN phase' = "done" /\ nproc' = dec
       ELSE phase' = "refused" /\ nproc' = nproc
  /\ UNCHANGED <<dim, psize, np, dec, nlocal, nleft>>

\* -dec n1 n2 n3: each direction is shared evenly, among psize processes.
Manual ==
  /\ phase = "check" /\ psize > 1 /\ dec # NoDec
  /\ IF Divisible /\ (\A d \in Dirs: np[d] % dec[d] = 0) /\ Product(dec) = psize
       THEN phase' = "done" /\ nproc' = dec
       ELSE phase' = "refused" /\ nproc' = nproc
  /\ UNCHANGED <<dim, psize, np, dec, nlocal, nleft>>

\* Mutant: the size of the grid is not compared with the number of processes.
AutomaticUnchecked ==
  /\ phase = "check" /\ psize > 1 /\ dec = NoDec
  /\ IF dim = 1
       THEN phase' = "done" /\ nproc' = [nproc EXCEPT ![1] = psize]
     ELSE /\ phase' = IF isPow2(psize) /\ \A d \in Dirs: isPow2(np[d]) THEN "split"
                                                                     ELSE "refused"
          /\ nproc' = nproc
  /\ UNCHANGED <<dim, psize, np, dec, nlocal, nleft>>

\* Without -dec, one dimension is cut in psize parts, and more dimensions are
\* halved if all the numbers are powers of 2.
Automatic ==
  /\ phase = "check" /\ psize > 1 /\ dec = NoDec
  /\ IF ~Divisible
       THEN phase' = "refused" /\ nproc' = nproc
     ELSE IF dim = 1
       THEN phase' = "done" /\ nproc' = [nproc EXCEPT ![1] = psize]
     ELSE /\ phase' = IF isPow2(psize) /\ \A d \in Dirs: isPow2(np[d]) THEN "split"
                                                                     ELSE "refused"
          /\ nproc' = nproc
  /\ UNCHANGED <<dim, psize, np, dec, nlocal, nleft>>

\* dirmax: the last of the directions with the most points.
Longest(d) == \A e \in Dirs: nlocal[e] < nlocal[d] \/ (nlocal[e] = nlocal[d] /\ e <= d)

\* One turn of makeDomainDecomposition: the longest direction is halved, or
\* "Your domain size is too small to be decomposed".
Split ==
  /\ phase = "split" /\ nleft > 1
  /\ \E d \in Dirs:
       /\ Longest(d)
       /\ IF nlocal[d] > 1
            THEN /\ nlocal' = [nlocal EXCEPT ![d] = @ \div 2]
                 /\ nproc' = [nproc EXCEPT ![d] = @ * 2]
                 /\ nleft' = nleft \div 2
                 /\ phase' = phase
            ELSE phase' = "too small" /\ UNCHANGED <<nproc, nlocal, nleft>>
  /\ UNCHANGED <<dim, psize, np, dec>>

\* Mutant: the loop stops one turn early.
SplitEndsEarly ==
  /\ phase = "split" /\ nleft <= 2
  /\ phase' = "done"
  /\ UNCHANGED <<dim, psize, np, dec, nproc, nlocal, nleft>>

SplitEnds ==
  /\ phase = "split" /\ nleft <= 1
  /\ phase' = "done"
  /\ UNCHANGED <<dim, psize, np, dec, nproc, nlocal, nleft>>

GridNext == OneProcess \/ Manual \/ Automatic \/ Split \/ SplitEnds

GridSpec == GridInit /\ [][GridNext]_gridVars
-----------------------------------------------------------------------------
(* Properties *)

GridTypeOK ==
  /\ phase \in {"check", "split", "done", "refused", "too small"}
  /\ dim \in Dims /\ psize \in PSizes /\ np \in Grids /\ Flat(np)
  /\ dec \in {f \in Decs: Flat(f)} \cup {NoDec}
  /\ {nproc, nlocal} \subseteq [Dirs -> Nat \ {0}] /\ nleft \in Nat \ {0}

\* All the processes that were started get a place, and each direction of the
\* grid is shared evenly (the assumption of DataBlock: "This assumes even
\* distribution of points between procs").
EvenShares ==
  phase = "done" => /\ Product(nproc) = psize
                    /\ \A d \in Dirs: np[d] % nproc[d] = 0

\* The subdomains tile the grid: every cell belongs to exactly one process.
Tiled ==
  phase = "done" => \A c \in Cells(np): \E x \in Coordinates(nproc):
    Holds(np, nproc, x, c) /\ \A y \in Coordinates(nproc): Holds(np, nproc, y, c) => y = x

\* The last error of makeDomainDecomposition never happens: after the checks of
\* the constructor there are always enough points left to halve.
NeverTooSmall == phase # "too small"
=============================================================================
