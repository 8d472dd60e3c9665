------------------------------ MODULE MCCycle ------------------------------
(***************************************************************************)
(* The instances of Cycle and of Gravity that TLC checks, in one run.  The *)
(* inputs of Cycle are families that combine what may interact.            *)
(***************************************************************************)
EXTENDS Cycle

VARIABLES
    what,  \* "cycle" or "gravity", the instance the behaviour is one of
    setup, rho, density, potential, phiP, res, work, iterations, convStatus, again,
    gravityCycle, gravityStep

ofGravity == <<setup, rho, density, potential, phiP, res, work, iterations, convStatus,
               again, gravityCycle, gravityStep>>

Plain == [nstages |-> 2, fargo |-> FALSE, parts |-> 1, reach |-> 1, nghost |-> 2,
          meanV |-> <<>>, rklOrder |-> 0, ratios |-> {}, coarsening |-> FALSE,
          checkNan |-> 1, rklCheckNan |-> FALSE, nans |-> FALSE]

\* Displacements of columns 0 (a ghost) and 1, in halves of a cell: all those
\* allowed with two processes and one that is not, and more than one turn with
\* one process. A ghost moves less than a cell more than its neighbour.
MeanV == {v \in [0..1 -> {-12, -8, -6, -4, -2, 0, 2, 4, 6, 8, 12}] : v[0] - v[1] \in -2..4}

Turns == {[i \in 0..1 |-> w] : w \in {-58, 46}}

Shifts ==
    {[Plain EXCEPT !.nstages = n, !.fargo = TRUE, !.parts = p, !.reach = k, !.nghost = k + 1,
                   !.meanV = v, !.coarsening = TRUE] :
        n \in {1, 3}, p \in {1, 2}, k \in {1, 2}, v \in MeanV}
    \cup {[Plain EXCEPT !.fargo = TRUE, !.meanV = v] : v \in Turns}

Ratios == {<<1, 4>>, <<1, 1>>, <<3, 2>>, <<5, 2>>, <<3, 1>>, <<4, 1>>}

Rkls ==
    {[Plain EXCEPT !.nstages = n, !.rklOrder = o, !.ratios = Ratios, !.coarsening = c] :
        n \in 1..3, o \in 1..2, c \in BOOLEAN}

Nans ==
    {[Plain EXCEPT !.nstages = n, !.rklOrder = o, !.ratios = {<<1, 1>>}, !.checkNan = k,
                   !.rklCheckNan = r, !.nans = TRUE] :
        n \in 1..3, o \in {0, 2}, k \in {1, 2, 3}, r \in BOOLEAN}

Inputs == Shifts \cup Rkls \cup Nans

\* The families of Gravity: each kind of boundary, even and uneven cells, what
\* is skipped, the preconditioner, and a Minres that starts anew or not.
Periodic == <<"periodic", "periodic">>
Same == <<1, 1, 1, 1>>

Poisson ==
    [bound |-> <<Periodic, Periodic>>, width |-> <<<<1, 1, 2, 1, 1>>, Same>>, reset |-> 20,
     solver |-> "CG", havePreconditioner |-> FALSE, skipGravity |-> 2, skipSelfGravity |-> 1]

Walls ==
    [Poisson EXCEPT !.bound = <<<<"nullpot", "nullgrad">>, <<"nullgrad", "nullpot">>>>,
                    !.width = <<Same, Same>>, !.havePreconditioner = TRUE, !.skipGravity = 1]

GravitySetups ==
    {[family EXCEPT !.solver = solver] :
        family \in
          {Poisson,
           [Poisson EXCEPT !.width = <<Same, Same>>, !.skipGravity = 1, !.skipSelfGravity = 2],
           Walls,
           [Walls EXCEPT !.bound = <<<<"axis", "nullpot">>, Periodic>>,
                         !.width = <<<<1, 1, 2, 4>>, Same>>, !.reset = 2],
           [Walls EXCEPT !.bound = <<<<"origin", "nullpot">>, <<"nullgrad", "nullgrad">>>>,
                         !.width = <<<<1, 1, 1>>, Same>>, !.havePreconditioner = FALSE,
                         !.reset = 3]},
        solver \in {"JACOBI", "BICGSTAB", "CG", "MINRES"}}

\* One density without symmetry, and one that is uniform.
GravityDensities ==
    {[c \in (1..3) \X (1..2) |-> c[1] + 3 * c[1] * c[2]], [c \in (1..3) \X (1..2) |-> 5]}

G == INSTANCE Gravity WITH
        Modulus <- 46337, Setups <- GravitySetups, Densities <- GravityDensities,
        MaxIter <- 7, MaxCycles <- 2,
        n <- iterations, ncycles <- gravityCycle, pc <- gravityStep

ASSUME MCAssumption == G!GravityAssumption

MCInit ==
    \/ /\ what = "cycle" /\ Init
       /\ setup = <<>> /\ rho = <<>> /\ density = <<>> /\ potential = <<>> /\ phiP = <<>>
       /\ res = <<>> /\ work = <<>> /\ iterations = 0 /\ convStatus = FALSE
       /\ again = FALSE /\ gravityCycle = 0 /\ gravityStep = "none"
    \/ /\ what = "gravity" /\ G!Init
       /\ Init /\ conf = CHOOSE c \in Rkls : TRUE

MCNext ==
    /\ what' = what
    /\ \/ what = "cycle" /\ Next /\ UNCHANGED ofGravity
       \/ what = "gravity" /\ G!Next /\ UNCHANGED vars

MCSpec == MCInit /\ [][MCNext]_<<what, vars, ofGravity>>

\* The properties of Gravity, in its instance: what the solvers keep is the
\* residual of the potential...
MCTrueResidual == what = "gravity" => G!TrueResidual

\* ...and the directions of two of them are conjugate.
MCFiniteTermination == what = "gravity" => G!FiniteTermination
=============================================================================
