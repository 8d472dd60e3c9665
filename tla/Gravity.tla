------------------------------ MODULE Gravity ------------------------------
(***************************************************************************)
(* The potential of self-gravity: Gravity::ComputeGravity, the calls it    *)
(* makes to SelfGravity, the operator of Laplacian with its boundaries and *)
(* its preconditioner, and the four solvers of utils/iterativesolver, for  *)
(* as many successive cycles as one likes.                                 *)
(*                                                                         *)
(* A number is a residue modulo a prime: exact, and with a division.  What *)
(* an algorithm does to all real numbers it also does to residues, and the *)
(* prime is large enough for none of the numbers that are not zero to      *)
(* become zero by accident.  Residues have no order: an error is below the *)
(* target if it is zero, and otherwise may be or not, which stands for all *)
(* targets.  0/0 is NaN; dividing anything else by zero is not defined,    *)
(* and TLC would stop there.                                               *)
(*                                                                         *)
(* All processes do the same: what they decide from is reduced over        *)
(* MPI_COMM_WORLD, and Halo models the exchange of ghosts.                 *)
(***************************************************************************)
EXTENDS Integers, Sequences, FiniteSets, FiniteSetsExt

CONSTANTS
    Modulus,     \* the prime
    Setups,      \* what the input file says (see SetupType)
    Densities,   \* what the density may be: numbers by the place of a cell
    MaxIter,     \* SelfGravity/maxIter
    MaxCycles    \* bounds the cycles of a run

Kinds == {"periodic", "nullpot", "nullgrad", "axis", "origin"}

\* bound[d] has the kinds of the two boundaries of direction d; width[d] the
\* widths of the cells of direction d, the ghosts next to them included; reset
\* is 20 in Minres::Solve, and smaller here for few cells to need it.
SetupType ==
    [bound: Seq(Seq(Kinds)), width: Seq(Seq(Nat)), reset: Nat \ {0},
     solver: {"JACOBI", "BICGSTAB", "CG", "MINRES"}, havePreconditioner: BOOLEAN,
     skipGravity: Nat \ {0}, skipSelfGravity: Nat \ {0}]

GravityAssumption ==
    /\ Modulus \in Nat /\ Modulus > 2
    /\ \A s \in Setups: s \in SetupType
    /\ MaxIter \in Nat \ {0}

VARIABLES
    setup, ncycles,
    rho,         \* Vc(RHO), gas and dust
    density,     \* the right hand side
    potential,   \* the array the solvers call solution
    phiP,        \* the potential of all the gravity
    res,         \* the residual, as the solver knows it
    work,        \* what else the solver keeps, from one Solve to the next
    n, convStatus,
    again,       \* the potential was reset, and Solve called once more
    pc

gvars == <<setup, ncycles, rho, density, potential, phiP, res, work, n, convStatus, again, pc>>

----------------------------------------------------------------------------
\* Numbers and fields.

\* Not one of the residues.
NaN == Modulus

\* The inverses modulo the prime.
Reciprocal[a \in 1..(Modulus - 1)] ==
    IF a = 1 THEN 1
    ELSE ((Modulus - Modulus \div a) * Reciprocal[Modulus % a]) % Modulus

Quotient(a, b) ==
    CASE b # 0 -> (a * Reciprocal[b]) % Modulus
      [] a = 0 /\ b = 0 -> NaN

\* The cells along direction d, and the internal ones the origin boundary adds.
loffset(d) == IF setup.bound[d][1] = "origin" THEN 1 ELSE 0
Span(d) == 1..(Len(setup.width[d]) - 2 + loffset(d))
Grid == Span(1) \X Span(2)

Field(F(_)) == [c \in Grid |-> F(c) % Modulus]
Zero == [c \in Grid |-> 0]
Plus(x, a, y) == [c \in Grid |-> (x[c] + a * y[c]) % Modulus]
Minus(x, a, y) == [c \in Grid |-> (x[c] - a * y[c]) % Modulus]
Dot(x, y) == MapThenSumSet(LAMBDA c: (x[c] * y[c]) % Modulus, Grid) % Modulus
Sum(x, S) == MapThenSumSet(LAMBDA c: x[c], S) % Modulus

----------------------------------------------------------------------------
\* Laplacian.

\* The width of cell i of direction d; those the origin boundary adds are as wide as a ghost.
dx(d, i) == setup.width[d][IF i <= loffset(d) THEN 1 ELSE i - loffset(d) + 1]

\* The coefficient of the neighbour on a side, areas and volumes Cartesian.
Coefficient(c, d, side) ==
    (2 * Reciprocal[dx(d, c[d]) + dx(d, c[d] + side)] * Reciprocal[dx(d, c[d])]) % Modulus

Sides == {-1, 1}
Stencil == {1, 2} \X Sides

\* The diagonal, by which the preconditioned operator is divided.
Diagonal(c) ==
    IF setup.havePreconditioner
    THEN (-MapThenSumSet(LAMBDA e: Coefficient(c, e[1], e[2]), Stencil)) % Modulus
    ELSE 1

\* What SetBoundaries leaves next to cell c of x, in direction d.
Neighbour(x, c, d, side) ==
    LET last == Cardinality(Span(d))
        next == [c EXCEPT ![d] = @ + side]
        kind == setup.bound[d][IF side = -1 THEN 1 ELSE 2]
        turn == Cardinality(Span(2))
    IN CASE next \in Grid -> x[next]
         [] next \notin Grid /\ kind = "periodic" ->
              x[[c EXCEPT ![d] = IF side = -1 THEN last ELSE 1]]
         [] next \notin Grid /\ kind = "nullpot" -> 0
         [] next \notin Grid /\ kind = "nullgrad" -> x[c]
         [] next \notin Grid /\ kind = "axis" ->
              x[<<c[1], 1 + ((c[2] - 1 + turn \div 2) % turn)>>]
         [] next \notin Grid /\ kind = "origin" ->
              (Sum(x, {e \in Grid: e[1] = 1}) * Reciprocal[turn]) % Modulus

Laplacian(x) ==
    Field(LAMBDA c:
        Reciprocal[Diagonal(c)]
          * (MapThenSumSet(
               LAMBDA e: (Coefficient(c, e[1], e[2])
                            * (Neighbour(x, c, e[1], e[2]) - x[c])) % Modulus,
               Stencil) % Modulus))

----------------------------------------------------------------------------
\* Iterative solvers: what they share.

Residual(x) == Minus(density, 1, Laplacian(x))

\* TestErrorL2 of a residual: below the target, above it, or Nan, which throws.
TestErrorL2(r) ==
    IF density = Zero THEN {IF r = Zero THEN "nan" ELSE "above"}
    ELSE IF r = Zero THEN {"below"} ELSE {"below", "above"}

\* A residual of which a test is the outcome ends an iteration, or the run.
Tested(verdict) ==
    /\ convStatus' = (verdict = "below")
    /\ pc' = IF verdict = "nan" THEN "threw" ELSE "iterate"

solver == setup.solver

Iterating == pc = "iterate" /\ ~convStatus /\ n < MaxIter

\* The part of Solve before its loop, which leaves a residual and what else the
\* solver needs.
Solve(name, r, w) ==
    /\ pc = "solve" /\ solver = name
    /\ pc' = "iterate"
    /\ n' = 0
    /\ convStatus' = FALSE
    /\ res' = r
    /\ work' = w
    /\ UNCHANGED <<setup, ncycles, rho, density, potential, phiP, again>>

JacobiSolve == Solve("JACOBI", Residual(potential), work)

CgSolve == Solve("CG", Residual(potential), [p1 |-> Residual(potential)])

\* InitSolver is in the loop (see Shifted).
MinresSolve == Solve("MINRES", res, work)

\* Its scalars are those the last Solve left.
BicgstabSolve ==
    LET r == Residual(potential)
    IN Solve("BICGSTAB", r, [work EXCEPT !.res0 = r, !.dir = r, !.v = Laplacian(r)])

\* An iteration leaves everything but the solver's arrays.
IterationOnly ==
    /\ n' = n + 1
    /\ UNCHANGED <<setup, ncycles, rho, density, phiP, again>>

\* What ComputeCFL returns is a number like any other.
Step == 3

\* Jacobi::PerformIter.
Jacobi(dt) ==
    /\ Iterating /\ solver = "JACOBI"
    /\ potential' = Minus(potential, dt, res)
    /\ res' = Residual(potential')
    /\ \E verdict \in TestErrorL2(res'): Tested(verdict)
    /\ work' = work
    /\ IterationOnly

----------------------------------------------------------------------------
\* Cg::PerformIter.

\* The new direction, from the new residual and the square of the old one.
CgDirection(r, rr) ==
    LET beta == Quotient(Dot(r, r), rr)
    IN IF beta = NaN THEN work.p1 ELSE Plus(r, beta, work.p1)

Cg ==
    /\ Iterating /\ solver = "CG"
    /\ LET s1 == Laplacian(work.p1)
           rr == Dot(res, res)
           alpha == Quotient(rr, Dot(work.p1, s1))
       IN IF alpha = NaN
          THEN UNCHANGED <<potential, res, work, convStatus, pc>>
          ELSE /\ potential' = Plus(potential, alpha, work.p1)
               /\ res' = Minus(res, alpha, s1)
               /\ \E verdict \in TestErrorL2(res'): Tested(verdict)
               /\ work' = [work EXCEPT !.p1 = CgDirection(res', rr)]
    /\ IterationOnly

----------------------------------------------------------------------------
\* Minres::PerformIter.

\* The arrays as an iteration finds them: InitSolver every so often, then the
\* directions and their images are shifted.
Shifted ==
    LET fresh == Residual(potential)
        start == IF n % setup.reset = 0
                 THEN [work EXCEPT !.firstStep = TRUE, !.p0 = fresh, !.s0 = Laplacian(fresh)]
                 ELSE work
    IN [start EXCEPT !.p1 = start.p0, !.p2 = start.p1, !.s1 = start.s0, !.s2 = start.s1]

MinresResidual == IF n % setup.reset = 0 THEN Residual(potential) ELSE res

\* Mutants: only the part along the last one is taken away; the image keeps it.
OneDirectionBack(w) ==
    LET image == Laplacian(w.s1)
        beta1 == Quotient(Dot(image, w.s1), Dot(w.s1, w.s1))
    IN [w EXCEPT !.p0 = Minus(w.s1, beta1, w.p1), !.s0 = Minus(image, beta1, w.s1),
                 !.firstStep = FALSE]

ImageAsComputed(w) ==
    [w EXCEPT !.p0 = Minus(w.s1, Quotient(Dot(Laplacian(w.s1), w.s1), Dot(w.s1, w.s1)), w.p1),
              !.s0 = Laplacian(w.s1), !.firstStep = FALSE]

\* The next direction and its image: those of s1, without their parts along
\* the last two.
MinresDirections(w) ==
    LET image == Laplacian(w.s1)
        beta1 == Quotient(Dot(image, w.s1), Dot(w.s1, w.s1))
        p0 == Minus(w.s1, beta1, w.p1)
        s0 == Minus(image, beta1, w.s1)
        beta2 == IF w.firstStep THEN 0 ELSE Quotient(Dot(s0, w.s2), Dot(w.s2, w.s2))
    IN [w EXCEPT !.p0 = Minus(p0, beta2, w.p2), !.s0 = Minus(s0, beta2, w.s2),
                 !.firstStep = FALSE]

Minres ==
    /\ Iterating /\ solver = "MINRES"
    /\ LET w == Shifted
           r == MinresResidual
           alpha == Quotient(Dot(r, w.s1), Dot(w.s1, w.s1))
       IN IF alpha = NaN
          THEN res' = r /\ work' = w /\ UNCHANGED <<potential, convStatus, pc>>
          ELSE /\ potential' = Plus(potential, alpha, w.p1)
               /\ res' = Minus(r, alpha, w.s1)
               /\ \E verdict \in TestErrorL2(res'): Tested(verdict)
               /\ work' = MinresDirections(w)
    /\ IterationOnly

----------------------------------------------------------------------------
\* Bicgstab::PerformIter.

BicgstabBeta ==
    LET ratio == Quotient(Dot(work.res0, res), work.rho)
    IN IF ratio = NaN THEN NaN ELSE Quotient((ratio * work.alpha) % Modulus, work.omega)

\* The new direction.
BicgstabDirection(beta) == Plus(res, beta, Minus(work.dir, work.omega, work.v))

\* Solve returns -1 when a number is NaN, with its scalars reset.
BicgstabFails(x) ==
    /\ pc' = "failed"
    /\ potential' = x
    /\ work' = [work EXCEPT !.rho = 1, !.alpha = 1, !.omega = 1]
    /\ UNCHANGED <<res, convStatus>>

\* Steps 8 to 12, from the potential and the residual halfway.
SecondHalf(half, s, w) ==
    LET t == Laplacian(s)
        omega == Quotient(Dot(t, s), Dot(t, t))
    IN IF omega = NaN THEN BicgstabFails(half)
       ELSE /\ potential' = Plus(half, omega, s)
            /\ \E verdict \in TestErrorL2(Residual(potential')):
                 /\ Tested(verdict)
                 /\ IF verdict = "above"
                    THEN /\ res' = Minus(s, omega, t)
                         /\ work' = [w EXCEPT !.rho = Dot(work.res0, res), !.omega = omega]
                    ELSE res' = Residual(potential') /\ work' = w

Bicgstab ==
    /\ Iterating /\ solver = "BICGSTAB"
    /\ IF BicgstabBeta = NaN THEN BicgstabFails(potential)
       ELSE LET dir == BicgstabDirection(BicgstabBeta)
                v == Laplacian(dir)
                alpha == Quotient(Dot(work.res0, res), Dot(work.res0, v))
                w == [work EXCEPT !.dir = dir, !.v = v, !.alpha = alpha]
            IN IF alpha = NaN THEN BicgstabFails(potential)
               ELSE LET half == Plus(potential, alpha, dir)
                    IN \E verdict \in TestErrorL2(Residual(half)):
                         IF verdict = "above" THEN SecondHalf(half, Minus(res, alpha, v), w)
                         ELSE /\ potential' = half
                              /\ res' = Residual(half)
                              /\ Tested(verdict)
                              /\ work' = w
    /\ IterationOnly

----------------------------------------------------------------------------
\* SelfGravity and Gravity.

\* The potential of the other sources: a star, planets, the user's.
Others == [c \in Grid |-> c[1]]

\* The mean, which has no solution if all boundaries are periodic.
IsPeriodic == \A d \in {1, 2}, i \in {1, 2}: setup.bound[d][i] = "periodic"

Volume(c) == dx(1, c[1]) * dx(2, c[2])

MeanDensity(x) ==
    Quotient(MapThenSumSet(LAMBDA c: (x[c] * Volume(c)) % Modulus, Grid) % Modulus,
             MapThenSumSet(Volume, Grid))

\* The right hand side InitSolver makes of the density.
RightHandSide ==
    LET full == Field(LAMBDA c: IF c[1] > loffset(1) THEN rho[<<c[1] - loffset(1), c[2]>>]
                                ELSE 0)
        mean == IF IsPeriodic THEN MeanDensity(full) ELSE 0
    IN Field(LAMBDA c: (full[c] - mean) * Reciprocal[Diagonal(c)])

\* ComputeGravity up to SolvePoisson, or to the end if nothing is due.
ComputeGravity ==
    /\ pc = "gravity"
    /\ IF ncycles % setup.skipGravity # 0
       THEN pc' = "evolve" /\ phiP' = phiP
       ELSE /\ phiP' = Others
            /\ pc' = IF ncycles % setup.skipSelfGravity = 0 THEN "poisson" ELSE "add"
    /\ UNCHANGED <<setup, ncycles, rho, density, potential, res, work, n, convStatus, again>>

InitSolver ==
    /\ pc = "poisson"
    /\ again' = FALSE
    /\ IF NaN \in {rho[c] : c \in DOMAIN rho} THEN pc' = "threw" /\ density' = density
       ELSE pc' = "solve" /\ density' = RightHandSide
    /\ UNCHANGED <<setup, ncycles, rho, potential, phiP, res, work, n, convStatus>>

\* The end of Solve. CG and MINRES stop the run at the last iteration allowed;
\* the others warn.
EndSolve ==
    /\ pc = "iterate" /\ (convStatus \/ n = MaxIter)
    /\ pc' = IF n = MaxIter /\ solver \in {"CG", "MINRES"} THEN "error" ELSE "add"
    /\ UNCHANGED <<setup, ncycles, rho, density, potential, phiP, res, work, n, convStatus,
                   again>>

\* SolvePoisson when Solve returned -1: one more try, from zero, unless Nans of
\* the fluid explain it.
Retry ==
    /\ pc = "failed"
    /\ IF again THEN pc' = "error" /\ UNCHANGED <<potential, again>>
       ELSE \/ pc' = "threw" /\ UNCHANGED <<potential, again>>
            \/ pc' = "solve" /\ potential' = Zero /\ again' = TRUE
    /\ UNCHANGED <<setup, ncycles, rho, density, phiP, res, work, n, convStatus>>

AddSelfGravityPotential ==
    /\ pc = "add"
    /\ phiP' = Plus(phiP, 1, potential)
    /\ pc' = "evolve"
    /\ UNCHANGED <<setup, ncycles, rho, density, potential, res, work, n, convStatus, again>>

\* The rest of the cycle, which changes the density.
Evolve ==
    /\ pc = "evolve" /\ ncycles + 1 < MaxCycles
    /\ ncycles' = ncycles + 1
    /\ rho' \in Densities \cup {[c \in DOMAIN rho |-> NaN]}
    /\ pc' = "gravity"
    /\ UNCHANGED <<setup, density, potential, phiP, res, work, n, convStatus, again>>

\* The bound of the cycles, an exception, or the end of the program on an error.
End ==
    /\ pc \in {"threw", "error"} \/ (pc = "evolve" /\ ncycles + 1 = MaxCycles)
    /\ UNCHANGED gvars

Init ==
    /\ setup \in Setups
    /\ ncycles = 0
    /\ rho \in Densities
    /\ density = Zero /\ potential = Zero /\ phiP = Zero /\ res = Zero
    /\ work = CASE solver = "JACOBI" -> <<>>
                [] solver = "CG" -> [p1 |-> Zero]
                [] solver = "MINRES" ->
                     [p0 |-> Zero, p1 |-> Zero, p2 |-> Zero, s0 |-> Zero, s1 |-> Zero,
                      s2 |-> Zero, firstStep |-> FALSE]
                [] solver = "BICGSTAB" ->
                     [res0 |-> Zero, dir |-> Zero, v |-> Zero, rho |-> 1, alpha |-> 1, omega |-> 1]
    /\ n = 0 /\ convStatus = FALSE /\ again = FALSE
    /\ pc = "gravity"

Next ==
    \/ ComputeGravity \/ InitSolver
    \/ JacobiSolve \/ CgSolve \/ MinresSolve \/ BicgstabSolve
    \/ Jacobi(Step) \/ Cg \/ Minres \/ Bicgstab
    \/ EndSolve \/ Retry \/ AddSelfGravityPotential \/ Evolve \/ End

Spec == Init /\ [][Next]_gvars

----------------------------------------------------------------------------
\* Properties.

\* The types: a field has a residue, or Nan, for each cell, and a run is at one of
\* the calls of a cycle, or ended.
TypeOK ==
    /\ setup \in Setups /\ ncycles \in 0..(MaxCycles - 1)
    /\ n \in 0..MaxIter /\ convStatus \in BOOLEAN /\ again \in BOOLEAN
    /\ \A x \in {density, potential, phiP, res}: x \in [Grid -> 0..NaN]
    /\ pc \in {"gravity", "poisson", "solve", "iterate", "failed", "add", "evolve",
               "threw", "error"}

\* The residual a solver keeps up to date by its recurrences is that of the
\* potential, at each iteration and when Solve returns, from any guess and with
\* whatever an earlier Solve left; and the gravity of a cycle holds the other
\* sources once and the potential of the last cycle that was due.
TrueResidual ==
    /\ pc \in {"iterate", "add", "evolve"} /\ (solver = "MINRES" => n > 0) =>
         res = Residual(potential)
    /\ pc = "evolve" => phiP = Plus(Others, 1, potential)

\* An operator with a symmetric matrix.
SymmetricMatrix ==
    LET Column(c) == Laplacian([e \in Grid |-> IF e = c THEN 1 ELSE 0])
    IN \A c, e \in Grid: Column(c)[e] = Column(e)[c]

\* The directions of the conjugate gradient and of the minimal residual are
\* conjugate, so that no more iterations than cells are needed for a symmetric
\* operator, unless Minres starts anew before.
FiniteTermination ==
    /\ pc = "iterate" /\ n >= Cardinality(Grid)
    /\ solver = "CG" \/ (solver = "MINRES" /\ setup.reset > n)
    /\ SymmetricMatrix
    => res = Zero
=============================================================================
