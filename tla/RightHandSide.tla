---------------------------- MODULE RightHandSide ----------------------------
(* What makes of the fluxes the evolution of the cells: CalcRightHandSide of    *)
(* Fluid, of Tracer and of RKLegendre, the source terms, the drag.              *)
EXTENDS Diffusion

Swept(name) == {<<p[1], dir>> : p \in mem[name].parts}

Part(name, d) == {<<name, d>>}

(***************************************************************************)
(* Tracer::CalcFlux takes the flux of mass before the area is in it.          *)
(***************************************************************************)
TracerCalcFlux ==
    <<Loop(Faces(dir),
           {Set("FluxTracer", {<<"Vc", Along(dir, -2, 1)>>, <<"Flux", Here>>}, Part("tracer", 0))})>>

TracerCalcRightHandSide ==
    <<Loop(Interior, {Add("UcTracer", {<<"FluxTracer", Along(dir, 0, 1)>>}, Swept("FluxTracer"))})>>

(***************************************************************************)
(* The mean flow of Fargo and the rotation: the fluxes are made total         *)
(* (Fluid_CorrectFluxFunctor), and what that added is taken back at the cells  *)
(* (Fluid_CalcRHSFunctor), in the directions across that of the flow.          *)
(***************************************************************************)
FargoAcross == IF conf.geo = "spherical" THEN {IDIR, JDIR} ELSE {IDIR, KDIR}

RotationAcross == CASE conf.geo = "spherical" -> {IDIR, JDIR}
                    [] conf.geo = "polar" -> {IDIR}
                    [] OTHER -> {}

MeanParts(fargo, rotation) ==
    (IF HaveMean /\ conf.fargo # "no" /\ dir \in FargoAcross THEN Part(fargo, 0) ELSE {})
    \cup IF HaveMean /\ conf.rotation /\ dir \in RotationAcross THEN Part(rotation, 0) ELSE {}

MeanVelocity(lo) ==
    IF HaveMean /\ conf.fargo = "userdef" /\ dir \in FargoAcross
    THEN {<<"fargoVelocity", Along(dir, lo, 0)>>} ELSE {}

GetFargoVelocity ==
    IF conf.fargo = "userdef" THEN <<Loop(Wherever, {Set("fargoVelocity", {}, {})})>> ELSE <<>>

\* A mutant: the fluxes without what the rotation adds.
CorrectFluxAtRest ==
    GetFargoVelocity
    \o <<Loop(Faces(dir), {Add("Flux", MeanVelocity(-1), MeanParts("fargo", "rotation") \ Part("rotation", 0))})>>

CorrectFlux ==
    GetFargoVelocity
    \o <<Loop(Faces(dir), {Add("Flux", MeanVelocity(-1), MeanParts("fargo", "rotation"))})>>

(***************************************************************************)
(* Fluid_CalcRHSFunctor.                                                     *)
(***************************************************************************)
\* The source of Braginskii is added only without that of the viscosity.
CurvatureSource ==
    CASE conf.geo = "cartesian" -> {}
      [] conf.geo # "cartesian" /\ Evolved("viscosity") -> {"viscSrc"}
      [] conf.geo # "cartesian" /\ ~Evolved("viscosity") /\ Evolved("bragViscosity") ->
            {"bragViscSrc"}
      [] OTHER -> {}

PotentialForce ==
    IF conf.potential THEN {<<"phiP", Along(dir, -2, 2)>>, <<"Vc", Here>>} ELSE {}

\* A mutant: the components that have a direction alone.
ForceAlong == {dir}

\* The components that have no direction come once.
ForceComponents ==
    CASE conf.dims = 1 -> 1..conf.comps
      [] conf.dims = 2 /\ conf.comps = 3 /\ dir = JDIR -> {JDIR, KDIR}
      [] OTHER -> {dir}

ParabolicTerms == \E t \in DOMAIN conf.terms : conf.terms[t] # "no" /\ t \notin conf.rkl

\* The number of a part tells the sweep, less than zero when the coefficient was scaled.
Limits(name) == {<<p[1], IF p[2] = 0 THEN dir ELSE -dir>> : p \in mem[name].parts}

CalcRHS ==
    <<Loop(Interior,
           {Add("Uc",
                {<<"Flux", Along(dir, 0, 1)>>} \cup MeanVelocity(0) \cup PotentialForce
                \cup {<<s, Here>> : s \in CurvatureSource}
                \cup IF conf.body THEN {<<"bodyForce", Here>>, <<"Vc", Here>>} ELSE {},
                Swept("Flux")
                \cup {<<p[1], dir>> : p \in MeanParts("fargoBack", "rotationBack")}
                \cup (UNION {Part(s, dir) : s \in CurvatureSource})
                \cup (IF conf.potential THEN Part("potential", dir) ELSE {})
                \cup IF conf.body THEN UNION {Part("body", d) : d \in ForceComponents} ELSE {}),
            Add("InvDt",
                {<<"cMax", Along(dir, 0, 1)>>}
                \cup IF ParabolicTerms THEN {<<"dMax", Along(dir, 0, 1)>>} ELSE {},
                Limits("cMax") \cup IF ParabolicTerms THEN Limits("dMax") ELSE {})})>>

(***************************************************************************)
(* RKLegendre::CalcParabolicRHS, the same for the terms of the RKL cycle. The *)
(* first stage alone looks for the time step.                                *)
(***************************************************************************)
ResetFlux == <<Loop(Wherever, {Set("Flux", {}, {})})>>

RKLSources == {s[2] : s \in {s \in {<<"viscosity", "viscSrc">>, <<"bragViscosity", "bragViscSrc">>} :
                                Evolved(s[1])}}

CalcParabolicRHS ==
    <<Loop(Faces(dir), {Add("Flux", {}, {})}),
      Loop(Interior, {Add("dU", {<<"Flux", Along(dir, 0, 1)>>} \cup {<<s, Here>> : s \in RKLSources},
                          Swept("Flux") \cup UNION {{<<p[1], dir>> : p \in mem[s].parts} : s \in RKLSources})})>>
    \o IF conf.cycle = "rkl"
       THEN <<Loop(Interior, {Add("InvDt", {<<"dMax", Along(dir, 0, 1)>>}, Limits("dMax"))})>>
       ELSE <<>>

(***************************************************************************)
(* Fluid::AddSourceTerms: the curvature, the force of Coriolis in Cartesian    *)
(* coordinates, the cooling, what the user adds.                             *)
(***************************************************************************)
SourceParts ==
    (IF conf.geo = "cartesian" THEN {} ELSE Part("curvature", 0))
    \cup (IF conf.geo = "cartesian" /\ conf.rotation THEN Part("coriolis", 0) ELSE {})

haveSourceTerms == conf.geo # "cartesian" \/ conf.rotation

AddSourceTerms ==
    <<Loop(Interior,
           {Add("Uc",
                {<<"Vc", Here>>}
                \cup (IF conf.geo = "cartesian" /\ conf.rotation THEN {<<Velocity(2), Here>>} ELSE {})
                \cup (IF conf.eos = "userdef" THEN {<<"csIso", Here>>} ELSE {})
                \cup IF conf.fargo = "userdef" /\ conf.geo \in {"polar", "spherical"}
                     THEN {<<"fargoVelocity", Here>>} ELSE {},
                SourceParts)})>>

\* Drag::AddDragForce, of one species of dust on the gas and back.
AddDragForce ==
    <<Loop(Wherever,
           {Add("Uc", {<<"Vc", Here>>, <<"VcGas", Here>>}, Part("drag", 0)),
            Add("UcGas", {<<"Vc", Here>>, <<"VcGas", Here>>}, Part("drag", 0)),
            Add("InvDt", {<<"VcGas", Here>>}, Part("drag", 0))})>>
=============================================================================
