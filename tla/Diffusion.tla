------------------------------ MODULE Diffusion ------------------------------
(* Fluid::CalcParabolicFlux: the fluxes of the diffusive terms, added to those  *)
(* of the Riemann solver or, in an RKL cycle, to nothing; the sources that      *)
(* curved coordinates need; the largest coefficient, for the time step.         *)
EXTENDS Induction

\* A term of the input file is evolved with the stage or by the RKL cycle.
Evolved(term) ==
    /\ conf.terms[term] # "no"
    /\ (term \in conf.rkl) = (conf.cycle # "explicit")

Wherever == Region(nghost, nghost)

\* idefix.hpp gives the components that a build does not have numbers beyond those of
\* the arrays, and dust has no energy. Nothing stands in the way of a kernel that
\* names them: it takes them from where no array is.
Velocity(c) == IF c <= conf.comps THEN "Vc" ELSE "noVc"

Pressure == IF conf.phys = "dust" THEN "noVc" ELSE "Vc"

EnergyFlux == IF conf.phys = "dust" /\ conf.energy THEN {<<"noFlux", Here>>} ELSE {}

\* The functions of the user are called in the first sweep, for the three of them.
UserDiffusivity(arrays, term) ==
    IF conf.terms[term] = "userdef" /\ dir = IDIR
    THEN <<Loop(Wherever, {Set(a, {<<"Vc", Here>>}, {}) : a \in arrays})>> ELSE <<>>

AtFace(arrays, term) ==
    IF conf.terms[term] = "userdef" THEN {<<a, Along(dir, -1, 0)>> : a \in arrays} ELSE {}

AtCell(arrays, term) ==
    IF conf.terms[term] = "userdef" THEN {<<a, Here>> : a \in arrays} ELSE {}

\* A term adds to the flux and bounds the largest coefficient.
Limiting(term, coefficients) ==
    Add("dMax", {<<"Vc", Along(dir, -1, 0)>>} \cup coefficients, {<<term, 0>>})

Diffuse(term, gradients, coefficients) ==
    {Add("Flux", gradients \cup coefficients, {<<term, 0>>}), Limiting(term, coefficients)}

ResetDiffusion == <<Loop(Wherever, {Set("dMax", {}, {})})>>

(***************************************************************************)
(* Fluid::AddNonIdealMHDFlux: the energy, and the components of the field     *)
(* that have no faces.                                                        *)
(***************************************************************************)
FaceField == {<<"Vc", Along(dir, -1, 0)>>, <<BXs[dir], Here>>}

AddNonIdealMHDFlux ==
    LET terms == {t \in {"ohmic", "ambipolar"} : Evolved(t)}
        array(t) == IF t = "ohmic" THEN {"etaOhmic"} ELSE {"xAmbipolar"}
        coefficients == UNION {AtFace(array(t), t) : t \in terms}
        parts == {<<t, 0>> : t \in terms}
    IN  UserDiffusivity({"etaOhmic"}, "ohmic")
        \o UserDiffusivity({"xAmbipolar"}, "ambipolar")
        \o <<Loop(Faces(dir),
                  {Add("Flux", FaceCurrent \cup FaceField \cup coefficients, parts),
                   Add("dMax", FaceField \cup coefficients, parts)})>>

(***************************************************************************)
(* The gradients at a face (the macros D_DX_I to D_DZ_K, SL_DX to SL_DZ): the  *)
(* difference across it, and along it those of both sides, centred or limited; *)
(* the gradients at a cell.                                                   *)
(***************************************************************************)
Normal == <<"Vc", Along(dir, -1, 0)>>

Transverse(e) ==
    <<"Vc", [d \in Dirs |-> CASE d = dir -> Along(dir, -1, 0)[d]
                              [] d = e -> Along(e, -1, 1)[d]
                              [] OTHER -> <<0, 0>>]>>

FaceGradients == {Normal} \cup {Transverse(e) : e \in Active \ {dir}}

CellGradients == {<<"Vc", Along(d, -1, 1)>> : d \in Active}

\* The stress at the centre, for the curvature terms: the sweeps that have none set
\* them to zero, so that each is given once.
Curvature(array, ins) ==
    IF conf.geo = "cartesian" THEN {} ELSE {Set(array, ins, {<<array, 0>>})}

(***************************************************************************)
(* Viscosity::AddViscousFlux.                                                *)
(***************************************************************************)
EtaAtFace == AtFace({"eta1", "eta2"}, "viscosity")
EtaAtCell == AtCell({"eta1", "eta2"}, "viscosity")

\* The work of the stress is that of the deviations: the mean flow is taken off
\* the velocity at the face.
HaveMean == \/ conf.geo \in {"cartesian", "polar"} /\ conf.dims >= 2
            \/ conf.geo = "spherical" /\ conf.dims = 3

OffMean == HaveMean /\ conf.energy /\ conf.fargo # "no"

ViscousWork(mean) ==
    IF OffMean /\ conf.fargo = "userdef" THEN {<<"fargoVelocity", mean>>} ELSE {}

ViscousStress(mean) ==
    {Add("Flux", FaceGradients \cup EtaAtFace \cup ViscousWork(mean) \cup EnergyFlux,
         {<<"viscosity", 0>>} \cup IF OffMean THEN {<<"deviations", 0>>} ELSE {}),
     Limiting("viscosity", EtaAtFace)}

\* The mean flow of spherical coordinates depends on the first two, that of the others
\* on the first and the third.
ViscousFluxIDIR ==
    ViscousStress(IF conf.geo = "spherical" THEN Here ELSE Along(IDIR, -1, 0))
    \cup Curvature("viscSrc", CellGradients \cup EtaAtCell)

ViscousFluxJDIR ==
    IF conf.geo = "spherical"
    THEN ViscousStress(Along(JDIR, -1, 0))
         \cup Curvature("viscSrc", CellGradients \cup EtaAtCell \cup EtaAtFace)
    ELSE ViscousStress(Here) \cup Curvature("viscSrc", {})

ViscousFluxKDIR ==
    ViscousStress(IF conf.geo = "spherical" THEN Here ELSE Along(KDIR, -1, 0))
    \cup Curvature("viscSrc", {})

AddViscousFlux ==
    UserDiffusivity({"eta1", "eta2"}, "viscosity")
    \o <<Loop(Faces(dir), <<ViscousFluxIDIR, ViscousFluxJDIR, ViscousFluxKDIR>>[dir])>>

(***************************************************************************)
(* ThermalDiffusion::AddDiffusiveFlux.                                       *)
(***************************************************************************)
AddDiffusiveFlux ==
    LET gradient == {Normal, <<Pressure, Along(dir, -1, 0)>>}
    IN  UserDiffusivity({"kappa"}, "conduction")
        \o <<Loop(Faces(dir), Diffuse("conduction", gradient, AtFace({"kappa"}, "conduction")))>>

(***************************************************************************)
(* Components of the field at a face, from Vs (BX_I to BZ_K), for both terms of *)
(* Braginskii.                                                                *)
(***************************************************************************)
BragField(components) ==
    {<<BXs[dir], Here>>}
    \cup {<<BXs[d], [e \in Dirs |-> CASE e = d -> <<0, 1>>
                                      [] e = dir -> Along(dir, -1, 0)[dir]
                                      [] OTHER -> <<0, 0>>]>> : d \in components \ {dir}}

(***************************************************************************)
(* BragViscosity::AddBragViscousFlux. What is at the centre is computed before *)
(* the sweep is looked at; the third velocity of cylindrical coordinates is     *)
(* under D_EXPAND there, with the first.                                      *)
(***************************************************************************)
CellStress ==
    CellGradients \cup {<<"Vc", Here>>} \cup AtCell({"etaBrag"}, "bragViscosity")
    \cup IF conf.geo = "cylindrical" THEN {<<Velocity(3), Here>>} ELSE {}

BragStress ==
    Diffuse("bragViscosity", FaceGradients \cup BragField(Active),
            AtFace({"etaBrag"}, "bragViscosity"))

AddBragViscousFlux ==
    UserDiffusivity({"etaBrag"}, "bragViscosity")
    \o <<Loop(Faces(dir), BragStress \cup Curvature("bragViscSrc", CellStress))>>

(***************************************************************************)
(* BragThermalDiffusion::AddBragDiffusiveFlux. The collisionless flux is mixed *)
(* in, and the coefficient of the time step is scaled with the weight of the   *)
(* other.                                                                     *)
(***************************************************************************)
BragCoefficients == {"kpar", "knor"} \cup IF conf.cless THEN {"clessAlpha", "clessBeta"} ELSE {}

\* With a limiter the slope of one cell serves both sides.
Upwind ==
    CASE ~conf.cless -> {}
      [] conf.cless /\ ~conf.lim -> {Normal}
      [] conf.cless /\ conf.lim -> {<<"Vc", Along(dir, -1, 1)>>}

HeatFluxIDIR == FaceGradients

\* The limited gradient along the third direction is made of differences along the
\* first, at this cell and the next.
HeatFluxJDIR ==
    {Normal, Transverse(IDIR)}
    \cup CASE conf.dims < 3 -> {}
           [] conf.dims = 3 /\ ~conf.lim -> {Transverse(KDIR)}
           [] conf.dims = 3 /\ conf.lim -> {<<"Vc", Box(<<-1, 0>>, <<-1, 0>>, <<0, 1>>)>>}

HeatFluxKDIR == FaceGradients

\* The second sweep takes the field with EXPAND, by components, the others with
\* D_EXPAND, by dimensions, or in three.
HeatField == BragField(IF dir = JDIR THEN 1..conf.comps ELSE Active)

\* What is in the maximum, marked when it is not what the terms put there.
Scaled(parts) == IF conf.cless THEN {<<p[1], 1>> : p \in parts} ELSE parts

AddBragDiffusiveFlux ==
    LET coefficients == AtFace(BragCoefficients, "bragConduction")
        gradients == <<HeatFluxIDIR, HeatFluxJDIR, HeatFluxKDIR>>[dir]
    IN  UserDiffusivity(BragCoefficients, "bragConduction")
        \o <<Loop(Faces(dir),
                  {Add("Flux", gradients \cup HeatField \cup Upwind \cup coefficients,
                       {<<"bragConduction", 0>>}),
                   Set("dMax", {<<"dMax", Here>>, Normal} \cup coefficients,
                       Scaled(mem["dMax"].parts) \cup {<<"bragConduction", 0>>})})>>
=============================================================================
