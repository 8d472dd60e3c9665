------------------------------ MODULE Induction ------------------------------
(* The induction equation: the current, the electromotive force at the edges,  *)
(* and the field on the faces (ConstrainedTransport, Fluid::CalcCurrent).      *)
EXTENDS Riemann

(***************************************************************************)
(* Fluid::CalcCurrent. A component of the field that has no faces comes from   *)
(* the cells.                                                                 *)
(***************************************************************************)
CurrentFrom ==
    LET cells(d) == <<"Vc", Along(d, -1, 0)>>
    IN  CASE conf.dims = 3 ->
                [J1 |-> {<<"BX2s", Along(KDIR, -1, 0)>>, <<"BX3s", Along(JDIR, -1, 0)>>},
                 J2 |-> {<<"BX1s", Along(KDIR, -1, 0)>>, <<"BX3s", Along(IDIR, -1, 0)>>},
                 J3 |-> {<<"BX2s", Along(IDIR, -1, 0)>>, <<"BX1s", Along(JDIR, -1, 0)>>}]
          [] conf.dims = 2 ->
                [J1 |-> IF conf.comps = 3 THEN {cells(JDIR)} ELSE {},
                 J2 |-> IF conf.comps = 3 THEN {cells(IDIR)} ELSE {},
                 J3 |-> {<<"BX2s", Along(IDIR, -1, 0)>>, <<"BX1s", Along(JDIR, -1, 0)>>}]
          [] conf.dims = 1 ->
                [J1 |-> {}, J2 |-> IF conf.comps = 3 THEN {cells(IDIR)} ELSE {},
                 J3 |-> IF conf.comps >= 2 THEN {cells(IDIR)} ELSE {}]

CalcCurrent ==
    <<Loop(Region(nghost - 1, nghost),
           {Set(c, CurrentFrom[c], {}) : c \in {"J1", "J2", "J3"}})>>

(***************************************************************************)
(* The edges: E[e] at the edge along e has two directions across.             *)
(***************************************************************************)
Edge == <<"ex", "ey", "ez">>
Cell == <<"Ex1", "Ex2", "Ex3">>

\* The component along e that the faces across d give.
OnFaces(e, d) == CASE e = KDIR -> <<"ezi", "ezj", "-">>[d]
                   [] e = JDIR -> <<"eyi", "-", "eyk">>[d]
                   [] e = IDIR -> <<"-", "exj", "exk">>[d]

Edges == IF conf.dims = 3 THEN Dirs ELSE {KDIR}

\* The two directions across an edge, in both orders.
Across(e) == {x \in (Dirs \ {e}) \X (Dirs \ {e}) : x[1] # x[2]}

AllEdges == Region(0, 1)

Corner(a, b) == [d \in Dirs |-> IF d \in {a, b} THEN Along(d, -1, 0)[d] ELSE <<0, 0>>]

\* A mutant: the faces on one side of the edge.
ArithmeticBeside(e) == {<<OnFaces(e, x[1]), Along(x[2], 0, 1)>> : x \in Across(e)}

Arithmetic(e) == {<<OnFaces(e, x[1]), Along(x[2], -1, 0)>> : x \in Across(e)}

CalcArithmeticAverage ==
    <<Loop(AllEdges, {Set(Edge[e], Arithmetic(e), Hyperbolic) : e \in Edges})>>

CalcCellCenteredEMF ==
    <<Loop(Region(nghost, nghost), {Set(Cell[e], {<<"Vc", Here>>}, {}) : e \in Edges})>>

\* The faces along p[2] of the component p[1], with the cells on both sides.
Corrected ==
    {Add(OnFaces(p[1], p[2]), {<<Cell[p[1]], Along(p[2], -1, 0)>>}, {}) :
        p \in {p \in Edges \X Dirs : p[1] # p[2]}}

\* A mutant: the faces corrected and averaged in one kernel.
CalcUCT0AtOnce ==
    <<Loop(AllEdges, {Set(Edge[e], Arithmetic(e), Hyperbolic) : e \in Edges}
                     \cup Corrected)>>

\* The faces are corrected in place, then averaged.
CalcUCT0Average ==
    <<Loop(Region(1, 1), Corrected)>> \o CalcArithmeticAverage

CalcContactAverage ==
    <<Loop(AllEdges,
           {Set(Edge[e],
                Arithmetic(e) \cup {<<SV[x[1]], Along(x[2], -1, 0)>> : x \in Across(e)}
                              \cup {<<Cell[e], Corner(x[1], x[2])>> : x \in Across(e)},
                Hyperbolic) : e \in Edges})>>

\* Extrapolation to an edge along a direction across it, by McLim or by the PPM.
ToEdge(d) == IF conf.order = 4 THEN Along(d, -3, 2) ELSE Along(d, -2, 1)

\* What the fan through the faces across a gives the edge between a and b: the field
\* and the electromotive force come from the faces across b.
FromFan(e, a, b) ==
    {<<Fan[a], Along(b, -1, 0)>>, <<BXs[b], ToEdge(a)>>, <<OnFaces(e, b), ToEdge(a)>>}

EzFromX1 == FromFan(KDIR, IDIR, JDIR)
EyFromX1 == FromFan(JDIR, IDIR, KDIR)
ExFromX2 == FromFan(IDIR, JDIR, KDIR)
EzFromX2 == FromFan(KDIR, JDIR, IDIR)
EyFromX3 == FromFan(JDIR, KDIR, IDIR)
ExFromX3 == FromFan(IDIR, KDIR, JDIR)

CalcRiemannAverage ==
    <<Loop(AllEdges,
           {Set(Edge[e],
                <<ExFromX2 \cup ExFromX3, EyFromX1 \cup EyFromX3, EzFromX1 \cup EzFromX2>>[e],
                Hyperbolic) : e \in Edges})>>

CalcCornerEMF ==
    CASE conf.emf = "arithmetic" -> CalcArithmeticAverage
      [] conf.emf = "uct0" -> CalcCellCenteredEMF \o CalcUCT0Average
      [] conf.emf = "uct_contact" -> CalcCellCenteredEMF \o CalcContactAverage
      [] conf.emf \in {"uct_hll", "uct_hlld"} -> CalcRiemannAverage

(***************************************************************************)
(* ConstrainedTransport::CalcNonidealEMF adds the terms that are explicit, or  *)
(* in an RKL cycle those that are not.                                        *)
(***************************************************************************)
EdgeDiffusivity(a, status, e) ==
    IF status = "userdef"
    THEN {<<a, [d \in Dirs |-> IF d = e THEN <<0, 0>> ELSE Along(d, -1, 0)[d]]>>} ELSE {}

EdgeField(e) ==
    CASE e = IDIR -> {<<"BX1s", Box(<<0, 1>>, <<-1, 0>>, <<-1, 0>>)>>,
                      <<"BX2s", Along(KDIR, -1, 0)>>, <<"BX3s", Along(JDIR, -1, 0)>>,
                      <<"J2", Box(<<0, 1>>, <<-1, 0>>, <<0, 0>>)>>,
                      <<"J3", Box(<<0, 1>>, <<0, 0>>, <<-1, 0>>)>>}
      [] e = JDIR -> {<<"BX1s", Along(KDIR, -1, 0)>>,
                      <<"BX2s", Box(<<-1, 0>>, <<0, 1>>, <<-1, 0>>)>>,
                      <<"BX3s", Along(IDIR, -1, 0)>>,
                      <<"J1", Box(<<-1, 0>>, <<0, 1>>, <<0, 0>>)>>,
                      <<"J3", Box(<<0, 0>>, <<0, 1>>, <<-1, 0>>)>>}
      [] e = KDIR -> {<<"BX1s", Along(JDIR, -1, 0)>>}
                     \cup (IF conf.dims >= 2 THEN {<<"BX2s", Along(IDIR, -1, 0)>>} ELSE {})
                     \cup IF conf.dims = 3
                          THEN {<<"BX3s", Box(<<-1, 0>>, <<-1, 0>>, <<0, 1>>)>>,
                                <<"J1", Box(<<-1, 0>>, <<0, 0>>, <<0, 1>>)>>,
                                <<"J2", Box(<<0, 0>>, <<-1, 0>>, <<0, 1>>)>>}
                          ELSE {<<"J1", Along(IDIR, -1, 0)>>, <<"J2", Along(JDIR, -1, 0)>>}
                               \cup IF conf.comps > conf.dims
                                    THEN {<<"Vc", Box(<<-1, 0>>, <<-1, 0>>, <<0, 0>>)>>} ELSE {}

Current == <<"J1", "J2", "J3">>

CalcNonidealEMF(ohmic, ambipolar) ==
    <<Loop(AllEdges,
           {Add(Edge[e],
                {<<Current[e], Here>>}
                \cup (IF ohmic THEN EdgeDiffusivity("etaOhmic", conf.terms["ohmic"], e) ELSE {})
                \cup IF ambipolar
                     THEN EdgeField(e) \cup EdgeDiffusivity("xAmbipolar", conf.terms["ambipolar"], e) ELSE {},
                (IF ohmic THEN {<<"ohmic", 0>>} ELSE {})
                \cup IF ambipolar THEN {<<"ambipolar", 0>>} ELSE {}) : e \in Edges})>>

(***************************************************************************)
(* The field on the faces, from the edges around them or from the potential    *)
(* on the edges.                                                              *)
(***************************************************************************)
Ve == <<"AX1e", "AX2e", "AX3e">>

Curl(d, at) == {<<at[x[1]], Along(x[2], 0, 1)>> : x \in {x \in Across(d) : x[1] \in Edges}}

EdgeParts == UNION {mem[Edge[e]].parts : e \in Edges}

\* Vsin is the field of the stage, or in an RKL cycle its derivative; so is Vein.
EvolveMagField(Vsin) ==
    <<Loop(AllEdges, {Add(Vsin[d], Curl(d, Edge), EdgeParts) : d \in Active})>>

EvolveVectorPotential(Vein) ==
    <<Loop(AllEdges, {Add(Vein[e], {<<Edge[e], Here>>}, EdgeParts) : e \in Edges})>>

ComputeMagFieldFromA ==
    <<Loop(AllEdges, {Set(BXs[d], Curl(d, Ve), EdgeParts) : d \in Active})>>

\* Boundary::ReconstructVcField: the field at the centres, here that of Uc.
ReconstructVcField ==
    <<Loop(Region(nghost, nghost),
           {Set("UcField", {<<BXs[d], Along(d, 0, 1)>> : d \in Active}, EdgeParts)})>>
=============================================================================
