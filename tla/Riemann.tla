------------------------------- MODULE Riemann -------------------------------
(* RiemannSolver::CalcFlux: the fluxes through the faces, the fastest wave, and *)
(* what the solvers of MHD store for the electromotive force.                  *)
EXTENDS Stencils

\* eos.GetWaveSpeed reads an array only when the user gives the sound speed.
Speeds(d, lo, hi) ==
    IF conf.eos = "userdef" THEN {<<"csIso", Along(d, lo, hi)>>} ELSE {}

\* ExtrapolateToFaces::ExtrapolatePrimVar: the cells on both sides of a face, and
\* the flags of the two that touch it.
DonorCell == Along(dir, -1, 0)
LinearSlopes == Along(dir, -2, 1)
LimO3 == Along(dir, -2, 1)
PpmStates == Along(dir, -3, 2)

ExtrapolatePrimVar ==
    {<<"Vc", <<DonorCell, LinearSlopes, LimO3, PpmStates>>[conf.order]>>}
    \cup IF conf.shock /\ conf.order \in {2, 3}
         THEN {<<"flags", Along(dir, -1, 0)>>} ELSE {}

FindShock ==
    LET ins == {<<"Vc", Along(d, -1, 1)>> : d \in Active}
               \cup UNION {Speeds(d, -1, 1) : d \in Active}
    IN  Loop(Region(1, 1), {Set("flags", ins, {})})

(***************************************************************************)
(* The hydrodynamic solvers differ by their formulas only.                   *)
(***************************************************************************)
Hyperbolic == {<<"hyperbolic", 0>>}

Face(ins) == {Set("Flux", ins, Hyperbolic), Set("cMax", ins, Hyperbolic)}

HDStates == ExtrapolatePrimVar \cup Speeds(dir, -1, 0)

HllHD == Loop(Faces(dir), Face(HDStates))
HllcHD == Loop(Faces(dir), Face(HDStates))
RoeHD == Loop(Faces(dir), Face(HDStates))
TvdlfHD == Loop(Faces(dir), Face(HDStates))
\* Without pressure there is no sound speed.
HllDust == Loop(Faces(dir), Face(ExtrapolatePrimVar))

(***************************************************************************)
(* The solvers of MHD take the field normal to the face from Vs, and keep     *)
(* for the edges the two components of the electromotive force that a face    *)
(* gives: Et and Eb, with the sign of the contact wave (SV) or the speeds of   *)
(* the fan (aL, aR, dL and dR, here in one).                                  *)
(***************************************************************************)
BXs == <<"BX1s", "BX2s", "BX3s">>
Et == <<"ezi", "ezj", "eyk">>
Eb == <<"eyi", "exj", "exk">>
SV == <<"svx", "svy", "svz">>
Fan == <<"ax", "ay", "az">>

\* A mutant: Eb stored whenever there are two components.
K_StoreEMFAlways(ins) ==
    IF conf.comps = 1 THEN {} ELSE {Set(Et[dir], ins, Hyperbolic), Set(Eb[dir], ins, Hyperbolic)}

\* Et exists in all dimensions, Eb only in three.
K_StoreEMF(ins) ==
    IF conf.comps = 1 THEN {}
    ELSE {Set(Et[dir], ins, Hyperbolic)}
         \cup IF conf.dims = 3 THEN {Set(Eb[dir], ins, Hyperbolic)} ELSE {}

K_StoreContact(ins) == K_StoreEMF(ins) \cup {Set(SV[dir], ins, {})}

\* Eb goes with the third component, whatever the number of dimensions.
K_StoreHLL(ins) ==
    {Set(Fan[dir], ins, {})}
    \cup (IF conf.comps > 1 THEN {Set(Et[dir], ins, Hyperbolic)} ELSE {})
    \cup IF conf.comps = 3 THEN {Set(Eb[dir], ins, Hyperbolic)} ELSE {}

K_StoreHLLD(ins) == K_StoreEMF(ins) \cup {Set(Fan[dir], ins, {})}

\* The faces of a sweep, and the rows beside them that the edges need.
Extended(n) == [d \in Dirs |-> IF d = dir THEN <<0, 1>> ELSE Region(n, n)[d]]

\* A mutant: one row, as for the arithmetic average.
OneRow == 1

perpExtension == IF conf.emf \in {"uct_hll", "uct_hlld"} THEN nghost ELSE 1

MHDStates == HDStates \cup {<<BXs[dir], Here>>}

\* J at the faces of the sweep, as HllMHD and AddNonIdealMHDFlux average it.
FaceCurrent ==
    CASE dir = IDIR -> {<<"J1", Box(<<-1, 0>>, <<0, 1>>, <<0, 1>>)>>,
                        <<"J2", Along(KDIR, 0, 1)>>, <<"J3", Along(JDIR, 0, 1)>>}
      [] dir = JDIR -> {<<"J1", Along(KDIR, 0, 1)>>,
                        <<"J2", Box(<<0, 1>>, <<-1, 0>>, <<0, 1>>)>>,
                        <<"J3", Along(IDIR, 0, 1)>>}
      [] dir = KDIR -> {<<"J1", Along(JDIR, 0, 1)>>, <<"J2", Along(IDIR, 0, 1)>>,
                        <<"J3", Box(<<0, 1>>, <<0, 1>>, <<-1, 0>>)>>}

HallStates ==
    IF conf.hall = "no" THEN {}
    ELSE FaceCurrent \cup IF conf.hall = "userdef" THEN {<<"xHall", Along(dir, -1, 0)>>} ELSE {}

HllMHD ==
    LET ins == MHDStates \cup HallStates
    IN  Loop(Extended(perpExtension),
             Face(ins) \cup CASE conf.emf \in {"arithmetic", "uct0"} -> K_StoreEMF(ins)
                              [] conf.emf = "uct_contact" -> K_StoreContact(ins)
                              [] conf.emf = "uct_hll" -> K_StoreHLL(MHDStates))

StoreAll ==
    CASE conf.emf \in {"arithmetic", "uct0"} -> K_StoreEMF(MHDStates)
      [] conf.emf = "uct_contact" -> K_StoreContact(MHDStates)
      [] conf.emf = "uct_hll" -> K_StoreHLL(MHDStates)
      [] conf.emf = "uct_hlld" -> K_StoreHLLD(MHDStates)

HlldMHD == Loop(Extended(perpExtension), Face(MHDStates) \cup StoreAll)

\* These two have one row beside the faces, whatever the edges need.
RoeMHD == Loop(Extended(1), Face(MHDStates) \cup StoreAll)
TvdlfMHD == Loop(Extended(1), Face(MHDStates) \cup StoreAll)

\* The solvers that RiemannSolver::RiemannSolver and ConstrainedTransport accept.
Solves ==
    /\ conf.solver \in CASE conf.phys = "mhd" -> {"tvdlf", "hll", "hlld", "roe"}
                         [] conf.phys = "hd" -> {"tvdlf", "hll", "hllc", "roe"}
                         [] conf.phys = "dust" -> {"dust"}
    /\ conf.hall # "no" => conf.solver = "hll"
    /\ conf.emf = "uct_hlld" => conf.solver \in {"hlld", "roe"}

Solver ==
    CASE conf.phys = "mhd" ->
            (CASE conf.solver = "tvdlf" -> TvdlfMHD
               [] conf.solver = "hll" -> HllMHD
               [] conf.solver = "hlld" -> HlldMHD
               [] conf.solver = "roe" -> RoeMHD)
      [] conf.phys = "hd" ->
            (CASE conf.solver = "tvdlf" -> TvdlfHD
               [] conf.solver = "hll" -> HllHD
               [] conf.solver = "hllc" -> HllcHD
               [] conf.solver = "roe" -> RoeHD)
      [] conf.phys = "dust" -> HllDust

\* The shocks are looked for once, before the first sweep.
CalcFlux == (IF dir = IDIR /\ conf.shock THEN <<FindShock>> ELSE <<>>) \o <<Solver>>
=============================================================================
