------------------------------- MODULE Cycle -------------------------------
(* TimeIntegrator::Cycle on a linear problem: the order of its kernels, the  *)
(* weights of its stages, the super time steps of RKLegendre::Cycle, the      *)
(* shift of Fargo, the look for Nans.                                         *)
(*                                                                            *)
(* The solution is what the integrator has made of the initial one. With H    *)
(* for the hyperbolic operator and P for the one of the RKL terms, dt for     *)
(* the unit of time, it is a polynomial in H or in P, the one of the cycle    *)
(* under way, applied to a word, the operators of which exponentials were     *)
(* applied by previous cycles. Polynomials in P are cut after degree 2.       *)
(* All processes do the same: the exchanges are those of Halo and of          *)
(* MainLoop.                                                                  *)
EXTENDS Fractions, Sequences

CONSTANTS
    Configs,        \* the input files and builds to look at
    MaxCycles,      \* bound: no run is longer
    NanCycles,      \* the cycles in which a Nan may appear
    MaxStages,      \* bound of the stages of an RKL cycle
    Cells, MaxShift, Q

ASSUME CycleAssumption ==
    /\ MaxCycles \in Nat /\ MaxStages \in Nat \ {0}
    /\ Cells \in Nat \ {0} /\ MaxShift \in Nat \ {0}
    /\ Q \in Nat \ {0} /\ Q % 2 = 0
    /\ \A c \in Configs :
          /\ c.nstages \in 1..3 /\ c.rklOrder \in 0..2 /\ c.checkNan \in Nat \ {0}
          /\ {c.fargo, c.coarsening, c.nans, c.rklCheckNan} \subseteq BOOLEAN
          /\ c.parts \in Nat \ {0} /\ Cells % c.parts = 0
          /\ c.reach \in Nat /\ c.reach <= Cells /\ c.nghost \in Nat /\ c.reach < c.nghost
          /\ c.fargo => {0, 1} \subseteq DOMAIN c.meanV /\ \A i \in DOMAIN c.meanV : c.meanV[i] \in Int

F == INSTANCE Fargo

VARIABLES
    conf,           \* the input file and the build
    pc,             \* the next kernel
    ncycles, stage,
    t,              \* data.t
    Vc, Uc, begin,  \* primitive, conservative, states["begin"]
    place,          \* where the shift brought the cells in this cycle
    rkl,            \* what RKLegendre keeps
    born            \* where the first Nan appeared

vars == <<conf, pc, ncycles, stage, t, Vc, Uc, begin, place, rkl, born>>

\* No time, no Nan yet, no shift yet, and what is outside the stages.
Never == <<0, 0>>

NoNan == [cycle |-> -1, stage |-> -1]

Home == [cells |-> <<>>, faces |-> <<>>, left |-> <<>>, right |-> <<>>]

InRkl == -1

(***************************************************************************)
(* The state of an array: the solution it holds (val), the frame of its     *)
(* velocity ("total", "residual" without the mean flow of Fargo, or "mixed"), *)
(* whether it is coarsened, whether it has a Nan.                           *)
(***************************************************************************)
Value(word, z, y) == [word |-> word, z |-> z, y |-> y]

Start == Value(<<>>, Unit, Unit)

Array(val, frame, coarse, nan) ==
    [val |-> val, frame |-> frame, coarse |-> coarse, nan |-> nan]

\* Vc also knows the time of its boundaries, Never when they are out of date.
Primitive(u, bc) ==
    [val |-> u.val, frame |-> u.frame, coarse |-> u.coarse, nan |-> u.nan, bc |-> bc]

Conservative(v) == Array(v.val, v.frame, v.coarse, v.nan)

wc == [n \in 1..3 |-> CASE n = 1 -> <<>>
                        [] n = 2 -> <<<<1, 2>>>>
                        [] n = 3 -> <<<<1, 4>>, <<2, 3>>>>]

w0 == [n \in 1..3 |-> CASE n = 1 -> <<>>
                        [] n = 2 -> <<<<1, 2>>>>
                        [] n = 3 -> <<<<3, 4>>, <<1, 3>>>>]

t0 == Whole(ncycles)

\* The name of what a whole cycle applied: of the exponential to the order of
\* the integrator, or of something else.
Name(letter, f, n) ==
    IF \A d \in 0..n : f[d] = Exponential[d] THEN letter ELSE "?"

NoRkl == [cycle |-> FALSE, stage |-> 0, stages |-> 0, ratio |-> Never, time |-> Never,
          Uc0 |-> Nil, Uc1 |-> Nil, dU0 |-> Nil]

Init ==
    /\ conf \in Configs
    /\ F!Accepted(conf.parts, conf.nghost)
    /\ pc = "Top" /\ ncycles = 0 /\ stage = 0 /\ t = Whole(0)
    /\ Vc = Primitive(Array(Start, "total", TRUE, FALSE), Never)
    /\ Uc = Array(Start, "total", FALSE, FALSE)
    /\ begin = Array(Start, "total", FALSE, FALSE)
    /\ place = Home
    /\ rkl = NoRkl
    /\ born = NoNan

haveRKL == conf.rklOrder > 0

\* Mutant: the parity is wrong.
RklFirstOnEven ==
    /\ pc = "Top" /\ ncycles < MaxCycles
    /\ pc' = IF haveRKL /\ ncycles % 2 = 0 THEN "RklStart" ELSE "SetBoundaries"
    /\ stage' = 0
    /\ UNCHANGED <<conf, ncycles, t, Vc, Uc, begin, place, rkl, born>>

\* The user's functions are given the total velocity and change nothing that
\* is followed here.
LaunchUserStepFirst ==
    /\ pc = "Top" /\ ncycles < MaxCycles
    /\ pc' = IF haveRKL /\ ncycles % 2 = 1 THEN "RklStart" ELSE "SetBoundaries"
    /\ stage' = 0
    /\ UNCHANGED <<conf, ncycles, t, Vc, Uc, begin, place, rkl, born>>

(***************************************************************************)
(* The stages.                                                              *)
(***************************************************************************)
SetBoundaries ==
    /\ pc = "SetBoundaries"
    /\ Vc' = [Vc EXCEPT !.coarse = @ \/ conf.coarsening, !.bc = t]
    /\ pc' = "PrimToCons"
    /\ UNCHANGED <<conf, ncycles, stage, t, Uc, begin, place, rkl, born>>

\* Mutant: the conversion comes first.
PrimToConsFirst ==
    /\ pc = "PrimToCons"
    /\ Vc' = [Vc EXCEPT !.frame = IF conf.fargo THEN "residual" ELSE @]
    /\ Uc' = Conservative(Vc)
    /\ begin' = IF conf.nstages > 1 /\ stage = 0 THEN Uc' ELSE begin
    /\ pc' = "EvolveStage"
    /\ UNCHANGED <<conf, ncycles, stage, t, place, rkl, born>>

\* Mutant: every stage is saved.
SaveEveryStage ==
    /\ pc = "PrimToCons"
    /\ Vc' = [Vc EXCEPT !.frame = IF conf.fargo THEN "residual" ELSE @]
    /\ Uc' = Conservative(Vc')
    /\ begin' = IF conf.nstages > 1 THEN Uc' ELSE begin
    /\ pc' = "EvolveStage"
    /\ UNCHANGED <<conf, ncycles, stage, t, place, rkl, born>>

\* Fargo::SubstractVelocity, on ghost cells too, then PrimToCons.
PrimToCons ==
    /\ pc = "PrimToCons"
    /\ Vc' = [Vc EXCEPT !.frame = IF conf.fargo THEN "residual" ELSE @]
    /\ Uc' = Conservative(Vc')
    /\ begin' = IF conf.nstages > 1 /\ stage = 0 THEN Uc' ELSE begin
    /\ pc' = "EvolveStage"
    /\ UNCHANGED <<conf, ncycles, stage, t, place, rkl, born>>

\* A Nan spreads, and may appear.
MayBreak(nan, where) ==
    /\ nan => Uc'.nan
    /\ Uc'.nan => nan \/ (conf.nans /\ ncycles \in NanCycles)
    /\ born' = IF Uc'.nan /\ born = NoNan THEN [cycle |-> ncycles, stage |-> where] ELSE born

\* Mutant: Nans are looked for in the first stage only.
CheckNanOnce ==
    /\ pc = "EvolveStage"
    /\ \E nan \in BOOLEAN :
          Uc' = [val |-> Value(Uc.val.word, Sum2(Uc.val.z, Raise(Vc.val.z, 3)), Uc.val.y),
                 frame |-> Uc.frame, coarse |-> FALSE, nan |-> nan]
    /\ MayBreak(Uc.nan \/ Vc.nan, stage)
    /\ t' = t (+) Whole(1)
    /\ pc' = IF ncycles % conf.checkNan = 0 /\ stage = 0 /\ Vc.nan THEN "Stopped"
             ELSE "AddAndStore"
    /\ UNCHANGED <<conf, ncycles, stage, Vc, begin, place, rkl>>

\* Fluxes are computed from Vc, and added to Uc; the explicit parabolic terms
\* are left out, and the RKL ones put in, in an RKL cycle. CheckNan looks at Vc.
EvolveStage ==
    /\ pc = "EvolveStage"
    /\ \E nan \in BOOLEAN :
          Uc' = [val |-> Value(IF rkl.cycle THEN Append(Uc.val.word, "?") ELSE Uc.val.word,
                               Sum2(Uc.val.z, Raise(Vc.val.z, 3)), Uc.val.y),
                 frame |-> Uc.frame, coarse |-> FALSE, nan |-> nan]
    /\ MayBreak(Uc.nan \/ Vc.nan, stage)
    /\ t' = t (+) Whole(1)
    /\ pc' = IF ncycles % conf.checkNan = 0 /\ Vc.nan THEN "Stopped"
             ELSE "AddAndStore"
    /\ UNCHANGED <<conf, ncycles, stage, Vc, begin, place, rkl>>

\* Mutant: t is not brought back.
AddWithoutTime ==
    /\ pc = "AddAndStore"
    /\ Uc' = IF stage = 0 THEN Uc
             ELSE [Uc EXCEPT !.val.z = Sum2(Scale(wc[conf.nstages][stage], @),
                                            Scale(w0[conf.nstages][stage], begin.val.z)),
                             !.nan = @ \/ begin.nan]
    /\ pc' = IF conf.fargo /\ stage = conf.nstages - 1 THEN "ShiftSolution" ELSE "Coarsen"
    /\ UNCHANGED <<conf, ncycles, stage, t, Vc, begin, place, rkl, born>>

AddAndStore ==
    /\ pc = "AddAndStore"
    /\ IF stage = 0 THEN UNCHANGED <<Uc, t>>
       ELSE LET wcs == wc[conf.nstages][stage]
                w0s == w0[conf.nstages][stage]
            IN /\ Uc' = [Uc EXCEPT !.val.z = Sum2(Scale(wcs, @), Scale(w0s, begin.val.z)),
                                   !.frame = IF @ = begin.frame THEN @ ELSE "mixed",
                                   !.nan = @ \/ begin.nan]
               /\ t' = (wcs (.) t) (+) (w0s (.) t0)
    /\ pc' = IF conf.fargo /\ stage = conf.nstages - 1 THEN "ShiftSolution" ELSE "Coarsen"
    /\ UNCHANGED <<conf, ncycles, stage, Vc, begin, place, rkl, born>>

Processes == 0..conf.parts - 1

Active == conf.nghost..conf.nghost + F!np(conf.parts) - 1

\* Each cell of the direction, as its owner has it.
Everywhere(Get(_, _)) ==
    [c \in 0..Cells - 1 |->
        LET p == c \div F!np(conf.parts)
        IN Get(p, conf.nghost + c - p * F!np(conf.parts))]

\* Conservative variables, and the component of the field normal to the plane
\* of the shift; meanV[i] is the displacement of column i in one cycle. The
\* error of a displacement too large ends the run.
ShiftSolution ==
    /\ pc = "ShiftSolution"
    /\ IF conf.parts > 1 /\ F!TooFar(conf.meanV)
       THEN pc' = "Refused" /\ UNCHANGED place
       ELSE LET Cell(p, s) == F!ShiftVc(conf.parts, conf.nghost, conf.reach, p, s, conf.meanV[1])
                Face(p, s) == F!EvolvMagField(conf.parts, conf.nghost, conf.reach, p, s,
                                              F!FaceVelocity(conf.meanV, 1))
                Edge(p, s) == F!ComputeEk(conf.parts, conf.nghost, conf.reach, p, s,
                                          F!FaceVelocity(conf.meanV, 1))
            IN /\ pc' = "Coarsen"
               /\ place' = [cells |-> Everywhere(Cell), faces |-> Everywhere(Face),
                            left |-> [p \in Processes |-> Edge(p, conf.nghost)],
                            right |-> [p \in Processes |->
                                Edge(p, conf.nghost + F!np(conf.parts))]]
    /\ UNCHANGED <<conf, ncycles, stage, t, Vc, Uc, begin, rkl, born>>

\* Mutant: nothing is coarsened at the end of a stage.
CoarsenNothing ==
    /\ pc = "Coarsen"
    /\ pc' = "ConsToPrim"
    /\ UNCHANGED <<conf, ncycles, stage, t, Vc, Uc, begin, place, rkl, born>>

\* DataBlock::Coarsen and ConsToPrim: ghosts of Vc are those of Uc, not evolved.
Coarsen ==
    /\ pc = "Coarsen"
    /\ Uc' = [Uc EXCEPT !.coarse = @ \/ conf.coarsening]
    /\ pc' = "ConsToPrim"
    /\ UNCHANGED <<conf, ncycles, stage, t, Vc, begin, place, rkl, born>>

ConsToPrim ==
    /\ pc = "ConsToPrim"
    /\ Vc' = Primitive(Uc, Never)
    /\ pc' = "AddVelocity"
    /\ UNCHANGED <<conf, ncycles, stage, t, Uc, begin, place, rkl, born>>

\* Fargo::AddVelocity, and the end of the loop on stages.
AddVelocity ==
    /\ pc = "AddVelocity"
    /\ LET last == stage = conf.nstages - 1
           word == Append(Vc.val.word, Name("H", Vc.val.z, conf.nstages))
       IN /\ Vc' = [Vc EXCEPT !.frame = IF conf.fargo THEN "total" ELSE @,
                              !.val = IF last THEN Value(word, Unit, Unit) ELSE @]
          /\ stage' = IF last THEN stage ELSE stage + 1
          /\ pc' = CASE ~last -> "SetBoundaries"
                     [] last /\ haveRKL /\ ncycles % 2 = 0 -> "RklStart"
                     [] OTHER -> "EndCycle"
    /\ UNCHANGED <<conf, ncycles, t, Uc, begin, place, rkl, born>>

(***************************************************************************)
(* RKLegendre::Cycle, of order 1 or 2; x is dt_hyp/dt, a fraction.          *)
(***************************************************************************)
\* Mutant: the ratio counts once instead of twice, at order 2.
AtMostLess(order, n, x) ==
    LET p == x[1]
        q == x[2]
    IN IF order = 1
       THEN n * q <= 4 * p /\ n * n * (q + 8 * p) * q <= (4 * p - n * q) * (4 * p - n * q)
       ELSE /\ n * q <= 4 * q + 4 * p
            /\ n * n * (9 * q + 16 * p) * q <= (4 * q + 4 * p - n * q) * (4 * q + 4 * p - n * q)

\* n <= nrkl, with the square root on one side: nrkl is 4x / (1 + sqrt(1 + 8x))
\* or 4(1 + 2x) / (1 + sqrt(9 + 16x)).
AtMostNrkl(order, n, x) ==
    LET p == x[1]
        q == x[2]
    IN IF order = 1
       THEN n * q <= 4 * p /\ n * n * (q + 8 * p) * q <= (4 * p - n * q) * (4 * p - n * q)
       ELSE /\ n * q <= 4 * q + 8 * p
            /\ n * n * (9 * q + 16 * p) * q <= (4 * q + 8 * p - n * q) * (4 * q + 8 * p - n * q)

rklstages(x) ==
    CHOOSE s \in 1..MaxStages :
        AtMostNrkl(conf.rklOrder, s - 1, x) /\ ~AtMostNrkl(conf.rklOrder, s, x)

\* dt_hyp and dt are positive, and MaxStages bounds the stages.
ASSUME RatiosAssumption ==
    \A c \in Configs : \A x \in c.ratios :
        /\ x \in (Nat \ {0}) \X (Nat \ {0})
        /\ c.rklOrder > 0 => ~AtMostNrkl(c.rklOrder, MaxStages, x)

w1(s) == IF conf.rklOrder = 1 THEN Frac(2, s * s + s) ELSE Frac(4, s * s + s - 2)

\* b_j as the loop computes it for the next stage.
b(j) == IF j < 3 THEN <<1, 3>> ELSE Frac((j - 1) * (j - 1) + 3 * (j - 1),
                                         2 * ((j - 1) * (j - 1) + 3 * (j - 1) + 2))

a(j) == Whole(1) (-) b(j)

mu(j) == IF conf.rklOrder = 1 THEN Frac(2 * j - 1, j)
         ELSE Frac(2 * j - 1, j) (.) (b(j) (/) b(j - 1))

nu(j) == IF conf.rklOrder = 1 THEN Frac(1 - j, j)
         ELSE Frac(1 - j, j) (.) (b(j) (/) b(j - 2))

\* The time after stage j.
StageTime(j, s) ==
    IF conf.rklOrder = 1 THEN t (+) (Frac(j * j + j, 2) (.) w1(s))
    ELSE t (+) (Frac(j * j + j - 2, 4) (.) w1(s))

\* What is left of one stage: Coarsen, ConvertConsToPrim, checkNan.
Finish(val, where) ==
    /\ \E nan \in BOOLEAN : Uc' = Array(val, Vc.frame, conf.coarsening, nan)
    /\ MayBreak(Vc.nan, where)
    /\ Vc' = Primitive(Uc', Never)

\* Boundaries on all variables, at data->t, conservative variables from
\* primitive ones, the first evaluation and the first stage.
RklStart ==
    /\ pc = "RklStart"
    /\ \E x \in conf.ratios : LET
           s == rklstages(x)
           mu1 == IF conf.rklOrder = 1 THEN w1(s) ELSE w1(s) (.) <<1, 3>>
           Y == Vc.val.y
           dU0 == Raise(Y, 2)
       IN /\ Finish(Value(Vc.val.word, Vc.val.z, Sum2(Y, Scale(mu1, dU0))), InRkl)
          /\ rkl' = [cycle |-> TRUE, stage |-> 2, stages |-> s, ratio |-> x, time |-> StageTime(1, s),
                     Uc0 |-> Y, Uc1 |-> Y, dU0 |-> dU0]
    /\ pc' = IF conf.rklCheckNan /\ Vc'.nan THEN "Stopped" ELSE "RklBoundaries"
    /\ UNCHANGED <<conf, ncycles, stage, t, begin, place>>

\* RKLegendre::SetBoundaries, or the end of the loop.
RklBoundaries ==
    /\ pc = "RklBoundaries"
    /\ IF rkl.stage <= rkl.stages
       THEN /\ Vc' = [Vc EXCEPT !.coarse = @ \/ conf.coarsening, !.bc = rkl.time]
            /\ pc' = "RklStage"
            /\ UNCHANGED rkl
       ELSE /\ Vc' = [Vc EXCEPT !.val = Value(
                         Append(@.word, Name("P", @.y, conf.rklOrder)), Unit, Unit)]
            /\ pc' = IF ncycles % 2 = 1 THEN "SetBoundaries" ELSE "EndCycle"
            /\ rkl' = NoRkl
    /\ UNCHANGED <<conf, ncycles, stage, t, Uc, begin, place, born>>

RklStage ==
    /\ pc = "RklStage"
    /\ LET j == rkl.stage
           dU == Raise(Vc.val.y, 2)
           Y == Sum2(Scale(mu(j), Uc.val.y), Scale(nu(j), rkl.Uc1))
           muTilde == w1(rkl.stages) (.) mu(j)
           gamma == Whole(0) (-) (a(j - 1) (.) muTilde)
           rest == Whole(1) (-) (mu(j) (+) nu(j))
           next == Sum2(Y, Scale(muTilde, dU))
       IN /\ Finish(Value(Vc.val.word, Vc.val.z,
                          IF conf.rklOrder = 1 THEN next
                          ELSE Sum2(next, Sum2(Scale(rest, rkl.Uc0), Scale(gamma, rkl.dU0)))),
                    InRkl)
          /\ rkl' = [rkl EXCEPT !.stage = j + 1, !.Uc1 = Uc.val.y,
                                !.time = StageTime(j, rkl.stages)]
    /\ pc' = IF conf.rklCheckNan /\ Vc'.nan THEN "Stopped" ELSE "RklBoundaries"
    /\ UNCHANGED <<conf, ncycles, stage, t, begin, place>>

\* Coarsen acts on the conservative variables of the last stage, the user's
\* last step on Vc; the next cycle names the cells anew.
EndCycle ==
    /\ pc = "EndCycle"
    /\ Uc' = [Uc EXCEPT !.coarse = @ \/ conf.coarsening]
    /\ t' = t0 (+) Whole(1)
    /\ ncycles' = ncycles + 1
    /\ place' = Home
    /\ pc' = "Top"
    /\ UNCHANGED <<conf, stage, Vc, begin, rkl, born>>

\* The run is over, or an exception or an error left Cycle.
End ==
    /\ pc \in {"Stopped", "Refused"} \/ (pc = "Top" /\ ncycles = MaxCycles)
    /\ UNCHANGED vars

Next ==
    \/ LaunchUserStepFirst \/ SetBoundaries \/ PrimToCons \/ EvolveStage
    \/ AddAndStore \/ ShiftSolution \/ Coarsen \/ ConsToPrim \/ AddVelocity
    \/ RklStart \/ RklBoundaries \/ RklStage \/ EndCycle \/ End

Spec == Init /\ [][Next]_vars

(***************************************************************************)
(* Properties.                                                              *)
(***************************************************************************)
TypeOK ==
    /\ conf \in Configs /\ ncycles \in 0..MaxCycles /\ stage \in 0..2
    /\ pc \in {"Top", "SetBoundaries", "PrimToCons", "EvolveStage", "AddAndStore",
               "ShiftSolution", "Coarsen", "ConsToPrim", "AddVelocity", "RklStart",
               "RklBoundaries", "RklStage", "EndCycle", "Stopped", "Refused"}
    /\ \A array \in {Vc, Uc, begin} :
          /\ array.frame \in {"total", "residual", "mixed"}
          /\ array.coarse \in BOOLEAN /\ array.nan \in BOOLEAN
    /\ rkl.stage \in 0..MaxStages + 1 /\ rkl.stages \in 0..MaxStages

\* Every cycle applies each operator once and for the whole of dt, to the order
\* of its integrator: Runge-Kutta (timeIntegrator.cpp:67-75 and 275-345), with
\* the state saved at the first stage, and Runge-Kutta-Legendre with its stages
\* and coefficients.
Accurate ==
    pc = "Top" =>
        LET word == Vc.val.word
        IN IF haveRKL
           THEN /\ Len(word) = 2 * ncycles
                /\ \A c \in 1..ncycles : {word[2 * c - 1], word[2 * c]} = {"H", "P"}
           ELSE /\ Len(word) = ncycles
                /\ \A c \in 1..ncycles : word[c] = "H"

\* Two cycles apply the operators in an order that read backwards is the same:
\* this is what makes the splitting between H and P of second order, and why
\* RKL comes before the stages of odd cycles and after those of even ones.
Symmetric ==
    pc = "Top" /\ ncycles % 2 = 0 =>
        LET word == Vc.val.word
        IN \A i \in 1..Len(word) : word[i] = word[Len(word) + 1 - i]

\* Fluxes, sources and boundaries are evaluated at the time the solution has
\* reached: in a linear problem, the coefficient of degree 1. At the end of the
\* stages data.t is t0 + dt, "(should have already been done)". The first stage
\* of RKL of order 2 is left out: there the code takes the time 0.
StageTimes ==
    /\ pc = "EvolveStage" => Vc.bc = t /\ t = t0 (+) Vc.val.z[1]
    /\ pc = "RklStage" =>
          /\ Vc.bc = rkl.time
          /\ conf.rklOrder = 1 \/ rkl.stage > 2 => rkl.time = t (+) Vc.val.y[1]
    /\ pc = "EndCycle" => t = t0 (+) Whole(1)

\* The stages work on the residual velocity, and only they: boundaries, user
\* functions, RKL and outputs have the total one; states with different frames
\* are never added.
Frames ==
    /\ pc \in {"Top", "SetBoundaries", "RklStart", "RklBoundaries", "RklStage", "EndCycle"}
          => Vc.frame = "total"
    /\ pc = "EvolveStage" /\ conf.fargo => Vc.frame = "residual" /\ Uc.frame = "residual"
    /\ Uc.frame # "mixed"

\* With grid coarsening, fluxes are never computed from a solution that is not
\* coarsened, and what outputs see is coarsened.
EvolvesCoarse ==
    pc \in {"Top", "EvolveStage", "RklStart", "RklStage"} /\ conf.coarsening => Vc.coarse

\* The number of stages of an RKL cycle makes it stable:
\* 2*dt_hyp/dt <= s^2 + s, or 4*dt_hyp/dt <= s^2 + s - 2.
RklStable ==
    pc = "RklStage" =>
        LET s == rkl.stages
            x == rkl.ratio
        IN IF conf.rklOrder = 1 THEN 2 * x[1] <= (s * s + s) * x[2]
           ELSE 4 * x[1] <= (s * s + s - 2) * x[2]

\* The shift moves the solution by the mean velocity times dt, whatever the
\* number of processes, and the field by its electric field as its cells.
ShiftExact ==
    pc = "EndCycle" /\ conf.fargo =>
        \A c \in 0..Cells - 1 :
            /\ place.cells[c] = F!Exact(conf.reach, c, conf.meanV[1])
            /\ place.faces[c] = F!Exact(conf.reach, c, F!FaceVelocity(conf.meanV, 1))

\* Two processes compute the same electric field on the edge they share:
\* otherwise the field they evolve with it has a divergence.
EdgesAgree ==
    place # Home =>
        \A p \in Processes : place.right[p] = place.left[(p + 1) % conf.parts]

\* A Nan does not survive a cycle that looks for them ("Look for Nans every now
\* and then", in Vc, before it is updated), but the one it appeared in, too late:
\* in its last stage, or in the RKL stages after it, which may look by themselves.
NanFound ==
    pc = "Top" /\ Vc.nan =>
        \A c \in born.cycle..ncycles - 1 :
            c % conf.checkNan = 0 =>
                /\ c = born.cycle
                /\ \/ born.stage = conf.nstages - 1
                   \/ born.stage = InRkl /\ c % 2 = 0 /\ ~conf.rklCheckNan
=============================================================================
