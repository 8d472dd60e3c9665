----------------------------- MODULE EvolveStage -----------------------------
(* One stage of the evolution of a fluid, kernel by kernel: Fluid::EvolveStage *)
(* with Fluid::LoopDir, or RKLegendre::EvolveStage with RKLegendre::LoopDir.    *)
(* A step is the call of one function; conf is chosen at the start and stays.  *)
EXTENDS RightHandSide, TLC

CONSTANT Configs     \* the builds and input files

Terms == {"ohmic", "ambipolar", "viscosity", "conduction", "bragViscosity", "bragConduction"}

\* What a build and an input file may ask for.
Options ==
    [dims : 1..3, comps : 1..3, order : 1..4,
     geo : {"cartesian", "cylindrical", "polar", "spherical"}, energy : BOOLEAN,
     phys : {"hd", "mhd", "dust"}, solver : {"tvdlf", "hll", "hllc", "hlld", "roe", "dust"},
     emf : {"arithmetic", "uct0", "uct_contact", "uct_hll", "uct_hlld"},
     eos : {"ideal", "userdef"}, shock : BOOLEAN, hall : {"no", "constant", "userdef"},
     terms : [Terms -> {"no", "constant", "userdef"}], rkl : SUBSET Terms,
     cycle : {"explicit", "rkl", "rklAgain"}, lim : BOOLEAN, cless : BOOLEAN,
     fargo : {"no", "userdef", "shearingbox"}, rotation : BOOLEAN, tracer : BOOLEAN,
     potential : BOOLEAN, body : BOOLEAN, vecpot : BOOLEAN, drag : BOOLEAN]

\* What a build and the constructors do not have together: more dimensions than
\* components, cylindrical coordinates in three dimensions, polar ones without an angular
\* velocity, the conduction of heat without an energy, the drag of a gas, the electric
\* field of a fluid without one, a vector potential in one dimension, a term of RKL
\* that is not asked for, an RKL cycle without a term.
Consistent(c) ==
    /\ c.dims <= c.comps
    /\ c.geo = "cylindrical" => c.dims <= 2
    /\ c.geo = "polar" => c.comps >= 2
    /\ ~c.energy => \A t \in {"conduction", "bragConduction"} : c.terms[t] = "no"
    /\ c.drag => c.phys = "dust"
    /\ c.phys # "mhd" =>
          /\ c.hall = "no" /\ ~c.vecpot
          /\ \A t \in {"ohmic", "ambipolar"} : c.terms[t] = "no"
    /\ c.vecpot => c.dims >= 2
    /\ \A t \in c.rkl : c.terms[t] # "no"
    /\ c.cycle # "explicit" => c.rkl # {}

ASSUME ConfigsAssumption == \A c \in Configs : c \in Options /\ Consistent(c) /\ c.cycle # "rklAgain"

VARIABLE pc          \* the function that is called next

vars == <<conf, dir, mem, last, pc>>

(***************************************************************************)
(* What the constructors of Fluid, ConstrainedTransport, RiemannSolver, of    *)
(* the diffusive terms and of RKLegendre allocate.                           *)
(***************************************************************************)
Mhd == conf.phys = "mhd"

UserArrays ==
    [ohmic |-> {"etaOhmic"}, ambipolar |-> {"xAmbipolar"}, viscosity |-> {"eta1", "eta2"},
     conduction |-> {"kappa"}, bragViscosity |-> {"etaBrag"},
     bragConduction |-> {"kpar", "knor", "clessAlpha", "clessBeta"}]

Names(tuple, dirs) == {tuple[d] : d \in dirs}

FluidArrays ==
    {"Vc", "Uc", "InvDt", "cMax", "dMax", "Flux"}
    \cup (IF Mhd THEN Names(BXs, Active) \cup {"UcField"} ELSE {})
    \cup (IF conf.vecpot THEN Names(Ve, Edges) ELSE {})
    \cup (IF conf.hall # "no" \/ \E t \in {"ohmic", "ambipolar"} : conf.terms[t] # "no"
          THEN {"J1", "J2", "J3"} ELSE {})
    \cup (IF conf.hall = "userdef" THEN {"xHall"} ELSE {})
    \cup (IF conf.shock THEN {"flags"} ELSE {})
    \cup (IF conf.eos = "userdef" THEN {"csIso"} ELSE {})
    \cup (IF conf.tracer THEN {"FluxTracer", "UcTracer"} ELSE {})
    \cup (IF conf.fargo = "userdef" THEN {"fargoVelocity"} ELSE {})
    \cup (IF conf.potential THEN {"phiP"} ELSE {})
    \cup (IF conf.body THEN {"bodyForce"} ELSE {})
    \cup (IF conf.drag THEN {"VcGas", "UcGas"} ELSE {})

\* What depends on the number of dimensions, and on the average at the edges.
EMFArrays ==
    {"ez", "ezi", "ezj", "Ex1", "Ex2", "Ex3"}
    \cup (IF conf.dims = 3 THEN {"ex", "ey", "eyi", "eyk", "exj", "exk"} ELSE {})
    \cup CASE conf.emf = "uct_contact" -> Names(SV, Active)
           [] conf.emf \in {"uct_hll", "uct_hlld"} -> Names(Fan, Active)
           [] OTHER -> {}

DiffusionArrays ==
    (UNION {UserArrays[t] : t \in {t \in Terms : conf.terms[t] = "userdef"}})
    \cup (IF conf.terms["viscosity"] # "no" THEN {"viscSrc"} ELSE {})
    \cup IF conf.terms["bragViscosity"] # "no" THEN {"bragViscSrc"} ELSE {}

dB == <<"dB1", "dB2", "dB3">>
dA == <<"dA1", "dA2", "dA3">>

RKLArrays ==
    {"dU"} \cup IF Mhd THEN IF conf.vecpot THEN Names(dA, Edges) ELSE Names(dB, Active) ELSE {}

Allocated ==
    FluidArrays \cup DiffusionArrays
    \cup (IF Mhd THEN EMFArrays ELSE {})
    \cup IF conf.rkl # {} THEN RKLArrays ELSE {}

\* The fields on the faces and on the edges have one more value in each direction.
OnGrid == Names(BXs, Dirs) \cup Names(Ve, Dirs) \cup Names(dB, Dirs) \cup Names(dA, Dirs)

Room(a) == IF a \in OnGrid THEN Region(nghost, nghost + 1) ELSE Region(nghost, nghost)

(***************************************************************************)
(* What the boundary conditions, the conversion to Uc and DataBlock::ResetStage *)
(* leave to a stage. The sources that no sweep sets are those of the          *)
(* allocation, zero.                                                         *)
(***************************************************************************)
Given ==
    {"Vc", "Uc", "InvDt", "phiP", "bodyForce", "UcTracer", "VcGas", "UcGas"}
    \cup IF conf.geo = "cartesian" THEN {"viscSrc", "bragViscSrc"} ELSE {}

\* BX1s is known on one face more than there are cells along its direction.
Filled(a) ==
    CASE a \in Names(BXs, Active) ->
            [d \in Dirs |-> IF BXs[d] = a THEN <<nghost, nghost + 1>> ELSE Wherever[d]]
      [] a \in Names(Ve, Edges) -> Region(nghost, nghost + 1)
      [] OTHER -> Wherever

Fresh ==
    LET given == Given \cup Names(BXs, Dirs) \cup Names(Ve, Dirs)
    IN  [a \in Allocated |->
        IF a \in given
        THEN [valid |-> Filled(a), parts |-> {}, twice |-> {}] ELSE Unset]

(***************************************************************************)
(* The order of the calls, and which of them the options ask for.             *)
(***************************************************************************)
needExplicitCurrent == \/ conf.hall # "no"
                       \/ Evolved("ohmic") \/ Evolved("ambipolar")

Rkl == conf.cycle # "explicit"

HaveRKL(t) == t \in conf.rkl /\ conf.terms[t] # "no"

haveVs == HaveRKL("ohmic") \/ HaveRKL("ambipolar")

haveVc == \/ \E t \in Terms \ {"ohmic", "ambipolar"} : HaveRKL(t)
          \/ haveVs /\ (conf.energy \/ conf.dims < conf.comps)

LoopDirs == Rkl => haveVc \/ conf.cycle = "rkl"

AddsMean == conf.fargo # "no" /\ ~Rkl /\ Evolved("viscosity")

Parabolic == Rkl \/ ParabolicTerms

Corners == Mhd /\ conf.dims >= 2

Calls ==
    <<"ResetStage", "CalcCurrent", "HallDiffusivity", "Refresh", "CalcFlux", "ResetDiffusion",
      "AddNonIdealMHDFlux", "AddVelocityFluid", "AddViscousFlux", "SubstractVelocityFluid",
      "AddDiffusiveFlux", "AddBragViscousFlux", "AddBragDiffusiveFlux", "TracerCalcFlux",
      "CorrectFlux", "CalcRightHandSide", "TracerCalcRightHandSide", "NextDir",
      "AddSourceTerms", "AddDragForce", "CalcCornerEMF", "CalcNonidealEMF", "EvolveMagField",
      "ReconstructVcField", "done">>

Sweep(call) == \E i \in 5..18 : Calls[i] = call

Wanted(call) ==
    /\ Sweep(call) => LoopDirs
    /\ CASE call = "ResetStage" -> Rkl
         [] call = "CalcCurrent" -> IF Rkl THEN haveVs ELSE needExplicitCurrent
         [] call = "HallDiffusivity" -> ~Rkl /\ conf.hall = "userdef"
         [] call = "Refresh" -> ~Rkl /\ conf.eos = "userdef"
         [] call \in {"CalcFlux", "CalcRightHandSide", "done"} -> TRUE
         [] call = "CorrectFlux" -> ~Rkl
         [] call = "NextDir" -> dir < conf.dims
         [] call = "ResetDiffusion" -> Parabolic
         [] call = "AddNonIdealMHDFlux" -> Evolved("ohmic") \/ Evolved("ambipolar")
         [] call \in {"AddVelocityFluid", "SubstractVelocityFluid"} -> AddsMean
         [] call = "AddViscousFlux" -> Evolved("viscosity")
         [] call = "AddDiffusiveFlux" -> Evolved("conduction")
         [] call = "AddBragViscousFlux" -> Evolved("bragViscosity")
         [] call = "AddBragDiffusiveFlux" -> Evolved("bragConduction")
         [] call \in {"TracerCalcFlux", "TracerCalcRightHandSide"} -> ~Rkl /\ conf.tracer
         [] call = "AddSourceTerms" -> ~Rkl /\ haveSourceTerms
         [] call = "AddDragForce" -> ~Rkl /\ conf.drag
         [] call = "CalcCornerEMF" -> ~Rkl /\ Corners
         [] call = "CalcNonidealEMF" ->
               IF Rkl THEN haveVs ELSE Corners /\ (Evolved("ohmic") \/ Evolved("ambipolar"))
         [] call = "EvolveMagField" -> IF Rkl THEN haveVs ELSE Corners
         [] call = "ReconstructVcField" -> ~Rkl /\ Corners

Following(call) ==
    LET here == CHOOSE i \in DOMAIN Calls : Calls[i] = call
    IN  Calls[Min({i \in DOMAIN Calls : i > here /\ Wanted(Calls[i])})]

Call(call, loops) ==
    /\ pc = call
    /\ Launch(loops)
    /\ pc' = Following(call)
    /\ UNCHANGED <<conf, dir>>

(***************************************************************************)
(* The functions.                                                            *)
(***************************************************************************)
Derivatives ==
    (IF LoopDirs THEN {"dU"} ELSE {})
    \cup (IF conf.cycle = "rkl" THEN {"InvDt"} ELSE {})
    \cup IF haveVs
         THEN Names(Edge, Edges) \cup IF conf.vecpot THEN Names(dA, Edges) ELSE Names(dB, Active)
         ELSE {}

ResetStage == Call("ResetStage", <<Loop(Wherever, {Set(a, {}, {}) : a \in Derivatives})>>)

Currents == Call("CalcCurrent", CalcCurrent)

HallDiffusivity ==
    Call("HallDiffusivity", <<Loop(Wherever, {Set("xHall", {<<"Vc", Here>>}, {})})>>)

Refresh == Call("Refresh", <<Loop(Wherever, {Set("csIso", {}, {})})>>)

RiemannFlux == Call("CalcFlux", IF Rkl THEN ResetFlux ELSE CalcFlux)

Diffusion == Call("ResetDiffusion", ResetDiffusion)
NonIdealFlux == Call("AddNonIdealMHDFlux", AddNonIdealMHDFlux)
ViscousFluxes == Call("AddViscousFlux", AddViscousFlux)
HeatFlux == Call("AddDiffusiveFlux", AddDiffusiveFlux)
BragViscousFlux == Call("AddBragViscousFlux", AddBragViscousFlux)
BragHeatFlux == Call("AddBragDiffusiveFlux", AddBragDiffusiveFlux)

\* Fargo::AddVelocityFluid and SubstractVelocityFluid, around the viscosity.
AddVelocityFluid ==
    Call("AddVelocityFluid",
         GetFargoVelocity \o <<Loop(Wherever, {Add("Vc", {}, Part("mean", 0))})>>)

\* A mutant: the velocity is left total.
KeepVelocityFluid == Call("SubstractVelocityFluid", GetFargoVelocity)

SubstractVelocityFluid ==
    Call("SubstractVelocityFluid",
         GetFargoVelocity
         \o <<Loop(Wherever, {Set("Vc", {<<"Vc", Here>>}, mem["Vc"].parts \ Part("mean", 0))})>>)

TracerFlux == Call("TracerCalcFlux", TracerCalcFlux)
TotalFlux == Call("CorrectFlux", CorrectFlux)
CalcRightHandSide == Call("CalcRightHandSide", IF Rkl THEN CalcParabolicRHS ELSE CalcRHS)
TracerRightHandSide == Call("TracerCalcRightHandSide", TracerCalcRightHandSide)

\* LoopDir<dir+1>: what the last direction left in its arrays is not of this one.
PerSweep ==
    {"Flux", "cMax", "dMax", "FluxTracer"}
    \cup IF conf.geo = "cartesian" THEN {} ELSE {"viscSrc", "bragViscSrc"}

NextDir ==
    /\ pc = "NextDir"
    /\ dir' = dir + 1
    /\ mem' = [a \in DOMAIN mem |-> IF a \in PerSweep THEN Unset ELSE mem[a]]
    /\ last' = <<>>
    /\ pc' = "CalcFlux"
    /\ UNCHANGED conf

SourceTerms == Call("AddSourceTerms", AddSourceTerms)
DragForce == Call("AddDragForce", AddDragForce)
CornerEMF == Call("CalcCornerEMF", CalcCornerEMF)

NonidealEMF ==
    Call("CalcNonidealEMF", CalcNonidealEMF(Evolved("ohmic"), Evolved("ambipolar")))

MagField ==
    Call("EvolveMagField",
         IF Rkl THEN IF conf.vecpot THEN EvolveVectorPotential(dA) ELSE EvolveMagField(dB)
         ELSE IF conf.vecpot THEN EvolveVectorPotential(Ve) \o ComputeMagFieldFromA
         ELSE EvolveMagField(BXs))

CentredField == Call("ReconstructVcField", ReconstructVcField)

\* The next stage of the RKL cycle, after the new boundary conditions: nothing
\* that was computed from the old values holds.
NextStage ==
    /\ pc = "done"
    /\ conf.cycle = "rkl"
    /\ conf' = [conf EXCEPT !.cycle = "rklAgain"]
    /\ dir' = IDIR
    /\ mem' = Fresh
    /\ last' = <<>>
    /\ pc' = "ResetStage"

Init ==
    /\ conf \in Configs
    /\ Solves
    /\ dir = IDIR
    /\ mem = Fresh
    /\ last = <<>>
    /\ pc = CHOOSE c \in {Calls[i] : i \in DOMAIN Calls} :
                \E i \in DOMAIN Calls :
                    /\ Calls[i] = c /\ Wanted(c)
                    /\ \A j \in 1..(i - 1) : ~Wanted(Calls[j])

Next ==
    \/ ResetStage \/ Currents \/ HallDiffusivity \/ Refresh \/ RiemannFlux \/ Diffusion
    \/ NonIdealFlux \/ AddVelocityFluid \/ ViscousFluxes \/ SubstractVelocityFluid
    \/ HeatFlux \/ BragViscousFlux \/ BragHeatFlux \/ TracerFlux \/ TotalFlux
    \/ CalcRightHandSide \/ TracerRightHandSide \/ NextDir \/ SourceTerms \/ DragForce
    \/ CornerEMF \/ NonidealEMF \/ MagField \/ CentredField \/ NextStage

Spec == Init /\ [][Next]_vars
-----------------------------------------------------------------------------
(***************************************************************************)
(* Properties.                                                               *)
(***************************************************************************)
Statements == UNION {{<<last[i], s>> : s \in last[i].does} : i \in DOMAIN last}

\* The types: the options, the direction, the arrays, the loops of the last call.
TypeOK ==
    /\ conf.cycle \in {"explicit", "rkl", "rklAgain"}
    /\ dir \in Active
    /\ DOMAIN mem = Allocated
    /\ \A a \in DOMAIN mem : mem[a].valid \in [Dirs -> (-120..20) \X (-120..20)]
    /\ \E i \in DOMAIN Calls : pc = Calls[i]

Wants(term) == conf.terms[term] # "no"

\* The averages of Riemann solvers write Eb in less than three dimensions, and read J in
\* the rows beside the faces.
EdgesOverreach ==
    /\ conf.phys = "mhd" /\ conf.emf = "uct_hll"
    /\ (conf.dims < 3 /\ conf.comps = 3) \/ conf.hall # "no"

\* A fluid without a field that is given a term of Braginskii, which the constructors
\* do not refuse: the one that tests for MHD has #ifndef MHD, which is always
\* defined, as YES or NO. A third component of the field without faces, and of the
\* velocity without cells.
BragOverreach ==
    \/ conf.phys # "mhd" /\ (Wants("bragViscosity") \/ Wants("bragConduction"))
    \/ conf.dims = 2 /\ conf.comps = 3 /\ Wants("bragConduction")
    \/ conf.geo = "cylindrical" /\ conf.comps < 3 /\ Wants("bragViscosity")

\* The energy of dust, for the conduction of heat and the work of viscosity; the second
\* velocity of a rotation with one.
ComponentOverreach ==
    \/ conf.phys = "dust" /\ (Wants("conduction") \/ (Wants("viscosity") /\ conf.energy))
    \/ conf.geo = "cartesian" /\ conf.rotation /\ conf.comps = 1

Overreach == EdgesOverreach \/ BragOverreach \/ ComponentOverreach

\* No kernel reads or writes a cell outside of an array, an array that the
\* constructors have not allocated for these options, or one of the components that
\* idefix.hpp leaves undefined: Kokkos does not check it. Of the components, those
\* are followed that a kernel names outside of EXPAND, SELECT and #if COMPONENTS.
InBounds ==
    ~Overreach =>
        \A x \in Statements :
            /\ x[2].out \in DOMAIN mem
            /\ Within(x[1].over, Room(x[2].out))
            /\ \A r \in x[2].ins :
                  r[1] \in DOMAIN mem /\ Within(Touch(x[1].over, r[2]), Room(r[1]))

\* The cells of a kernel are computed in any order, on a GPU all at once: none
\* reads the neighbour of a cell in an array that the same kernel writes, and no
\* array is written by two statements.
NoRace ==
    \A x, y \in Statements : x[1] = y[1] =>
        /\ x[2].out = y[2].out => x[2] = y[2]
        /\ \A r \in x[2].ins : r[1] = y[2].out => r[2] = Here

\* The directions in which the values of an array are between the cells.
Stagger(a) ==
    {d \in Dirs : \/ a \in {BXs[d], dB[d], Et[d], Eb[d], SV[d], Fan[d]}
                  \/ a \in {"Flux", "cMax", "dMax", "FluxTracer", "noFlux"} /\ d = dir
                  \/ a \in UNION {{Ve[e], dA[e], Edge[e], Current[e]} : e \in Dirs \ {d}}}

At(a, d) == IF d \in Stagger(a) THEN 1 ELSE 0

\* The mean flow does not depend on the angle or the direction of the flow.
Azimuth == IF conf.geo = "spherical" THEN KDIR ELSE JDIR

\* The options under which a stencil leans to one side: the collisionless flux
\* takes the slope of one cell for the states of both sides, the limited gradient of
\* the temperature along the third direction is taken along the first, and in
\* spherical coordinates the mean flow and the viscosity are taken beside where they act.
OffCentre ==
    \/ conf.terms["bragConduction"] # "no" /\ conf.lim /\ (conf.cless \/ conf.dims = 3)
    \/ conf.geo = "spherical" /\ conf.terms["viscosity"] # "no"
       /\ ((conf.fargo # "no" /\ conf.energy) \/ conf.terms["viscosity"] = "userdef")

\* Every kernel is centred on what it computes, so that the scheme keeps its order
\* and the symmetries of the problem: the values that a face, an edge or a cell
\* takes lie as far on one side of it as on the other.
Centred ==
    ~OffCentre =>
        \A x \in Statements : \A r \in x[2].ins : \A d \in Active :
            \/ r[1] = "fargoVelocity" /\ d = Azimuth
            \/ r[2][d][1] + r[2][d][2] = At(r[1], d) - At(x[2].out, d)

\* The cells of an RKL cycle have the whole velocity, and the work of the viscous
\* stress leaves the mean flow out all the same, which no one has computed yet in
\* the first cycle.
MixedFrames == Rkl /\ Evolved("viscosity") /\ OffMean

\* The options under which a stage does not have all it needs: two solvers compute
\* one row beside the faces for averages that read more, the shocks are looked for
\* one cell beside the domain, the arrays of the user are filled by the sweep
\* that the later stages of a cycle of RKL leave out, and so is the mean flow.
Starved ==
    \/ Overreach
    \/ conf.phys = "mhd" /\ conf.emf \in {"uct_hll", "uct_hlld"}
       /\ \/ conf.solver \in {"roe", "tvdlf"}
          \/ conf.shock /\ conf.order \in {2, 3}
    \/ \E t \in {"ohmic", "ambipolar"} :
          HaveRKL(t) /\ conf.terms[t] = "userdef" /\ ~haveVc
    \/ MixedFrames /\ conf.fargo = "userdef"

Complete(region, names) == \A a \in names : Within(region, mem[a].valid)

\* Two ghost cells (three at order 4) are enough: at the end of a stage the cells,
\* the faces and the edges of the domain have their new values, none of them from
\* a cell or an array that did not have its own when it was read.
StageComplete ==
    pc = "done" /\ ~Starved =>
        /\ LoopDirs => Complete(Interior, {IF Rkl THEN "dU" ELSE "Uc"})
        /\ conf.cycle # "rklAgain" => Complete(Interior, {"InvDt"})
        /\ conf.tracer /\ ~Rkl => Complete(Interior, {"UcTracer"})
        /\ Corners /\ ~Rkl =>
              /\ \A d \in Active : Complete(Faces(d), {BXs[d]})
              /\ Complete(Interior, {"UcField"})
        /\ Rkl /\ haveVs =>
              IF conf.vecpot
              THEN \A e \in Edges : Complete([AllEdges EXCEPT ![e] = Interior[e]], {dA[e]})
              ELSE \A d \in Active : Complete(Faces(d), {dB[d]})

Diffusive == {t \in Terms : Evolved(t)}

\* What a direction contributes to the cells. The source of Braginskii is not there
\* when both viscosities are explicit.
Due(d) ==
    (UNION {Part(t, d) : t \in Diffusive})
    \cup (IF Rkl THEN {} ELSE Part("hyperbolic", d))
    \cup (IF conf.potential /\ ~Rkl THEN Part("potential", d) ELSE {})
    \cup (IF conf.geo # "cartesian" /\ Evolved("viscosity") THEN Part("viscSrc", d) ELSE {})
    \cup (IF conf.geo # "cartesian" /\ Evolved("bragViscosity") /\ (Evolved("viscosity") => Rkl)
          THEN Part("bragViscSrc", d) ELSE {})

\* What limits the time step, in the direction d, unless the collisionless flux has
\* scaled what the other terms had put there.
Limit(d) ==
    (IF Rkl THEN {} ELSE Part("hyperbolic", d))
    \cup UNION {Part(t, d) : t \in IF conf.cless /\ Evolved("bragConduction")
                                   THEN {"bragConduction"} ELSE Diffusive}

Arrived ==
    /\ LoopDirs => \A d \in Active : Due(d) \subseteq mem[IF Rkl THEN "dU" ELSE "Uc"].parts
    /\ conf.cycle # "rklAgain" => \A d \in Active : Limit(d) \subseteq mem["InvDt"].parts
    /\ conf.tracer /\ ~Rkl => \A d \in Active : Part("tracer", d) \subseteq mem["UcTracer"].parts
    /\ conf.body /\ ~Rkl => \A d \in 1..conf.comps : Part("body", d) \subseteq mem["Uc"].parts
    /\ Corners /\ ~Rkl =>
          \A a \in Names(BXs, Active) \cup {"UcField"} :
              Hyperbolic \cup UNION {Part(t, 0) : t \in Diffusive \cap {"ohmic", "ambipolar"}}
                  \subseteq mem[a].parts

\* Each term that the input file asks for reaches what it evolves, in each
\* direction of the problem and in a cycle of its kind, with its time step, and none
\* is added twice.
NothingIsLost ==
    /\ \A a \in DOMAIN mem : mem[a].twice = {}
    /\ pc = "done" => Arrived

Where(part) == {d \in Dirs : <<part, d>> \in mem[IF Rkl THEN "dU" ELSE "Uc"].parts}

\* What the mean flow and the rotation add to the fluxes is taken back at the cells,
\* in the same directions, so that what is left is the work of their gradients; and
\* where the work of the stress is that of the deviations, so is the energy of the cells.
FrameTermsBalance ==
    pc = "AddSourceTerms" \/ pc = "done" =>
        /\ Where("fargo") = Where("fargoBack")
        /\ Where("rotation") = Where("rotationBack")
        /\ ~MixedFrames => Where("deviations") \cap FargoAcross \subseteq Where("fargo")

\* The viscous stress of an explicit stage is that of the whole flow, and every
\* other kernel sees the deviations.
ViscousFrame ==
    \A x \in Statements :
        x[2].out # "Vc" /\ (\E r \in x[2].ins : r[1] = "Vc") =>
            (Part("mean", 0) \subseteq mem["Vc"].parts) =
                (AddsMean /\ x[2].out \in {"Flux", "dMax", "viscSrc", "eta1", "eta2"}
                          /\ pc = "SubstractVelocityFluid")
=============================================================================
