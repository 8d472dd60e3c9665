---------------------------- MODULE KernelProofs ----------------------------
(* The kernels of a stage fit the arrays they go over: no kernel leaves an      *)
(* array, none races with itself, and each is centred on what it computes; and  *)
(* what a stage makes of them is what its options ask for: no term is lost, the  *)
(* frame is balanced, and viscosity sees the whole flow. All of it for every    *)
(* build and input file that ConfigsAssumption admits.                          *)
(*                                                                             *)
(* The argument goes by function. Good is what a read of a kernel has to be,    *)
(* Fine a statement, Kernel a loop, Kernels the loops of a function; for each   *)
(* function of Riemann, Induction, Diffusion and RightHandSide there is a lemma  *)
(* that its loops are Kernels, under the options with which EvolveStage calls   *)
(* it. StageInv collects them along the order of the calls. The second part     *)
(* keeps books: what the statements of each function set or add, then Ledger,   *)
(* the parts of which every array is made at each point of a stage.             *)
EXTENDS EvolveStage, WellFoundedInduction, TLAPS

\* What the stages have in common: a build, an input file and a direction of it.
Setting ==
    /\ conf \in Options /\ Consistent(conf) /\ Solves
    /\ dir \in 1..conf.dims
-----------------------------------------------------------------------------
LEMMA ConfType ==
    Setting => /\ conf.dims \in 1..3 /\ conf.comps \in 1..3 /\ conf.order \in 1..4
               /\ conf.dims <= conf.comps /\ dir \in 1..conf.dims /\ dir \in Dirs
               /\ conf.terms \in [Terms -> {"no", "constant", "userdef"}]
               /\ conf.rkl \in SUBSET Terms
BY DEF Setting, Options, Consistent, Dirs

LEMMA Ghosts == nghost \in {2, 3} /\ (conf.order = 4 => nghost = 3)
BY DEF nghost

\* A stencil that stays in the cells with their ghosts, around each cell of a loop.
Inside(over, box) == Within(Touch(over, box), Wherever)

\* One cell to each side at the most, over a loop that leaves one ghost cell: these
\* two fit together whatever the order of the reconstruction.
Small(box) ==
    \A d \in Dirs : IF d \in Active THEN -1 <= box[d][1] /\ box[d][1] <= box[d][2] /\ box[d][2] <= 1
                    ELSE box[d][1] = 0 /\ box[d][2] = 0

Near(over) ==
    /\ \A d \in Dirs : over[d][1] \in Int /\ over[d][2] \in Int
    /\ \A d \in Dirs : IF d \in Active THEN over[d][1] <= 1 /\ over[d][2] <= 1
                       ELSE over[d][1] = 0 /\ over[d][2] = 0

IsBox(box) == \A d \in Dirs : box[d][1] \in Int /\ box[d][2] \in Int

LEMMA SmallInside ==
    ASSUME NEW over, NEW box, Near(over), IsBox(box), Small(box) PROVE Inside(over, box)
<1> SUFFICES ASSUME NEW d \in Dirs
             PROVE /\ over[d][1] - box[d][1] <= Wherever[d][1]
                   /\ over[d][2] + box[d][2] <= Wherever[d][2]
    BY DEF Inside, Within, Touch
<1>1. Wherever[d] = IF d \in Active THEN <<nghost, nghost>> ELSE <<0, 0>>
    BY DEF Wherever, Region
<1> QED BY <1>1, Ghosts DEF Near, Small, IsBox

LEMMA AlongBox ==
    ASSUME NEW d \in Dirs, NEW lo \in Int, NEW hi \in Int
    PROVE /\ IsBox(Along(d, lo, hi))
          /\ -1 <= lo /\ lo <= hi /\ hi <= 1 => Small(Along(d, lo, hi)) 
BY DEF IsBox, Along, Small

LEMMA BoxBox ==
    ASSUME NEW i, NEW j, NEW k,
           i \in {<<-1, 0>>, <<0, 1>>, <<0, 0>>}, j \in {<<-1, 0>>, <<0, 1>>, <<0, 0>>},
           k \in {<<-1, 0>>, <<0, 1>>, <<0, 0>>}
    PROVE IsBox(Box(i, j, k)) /\ Small(Box(i, j, k))
<1> SUFFICES ASSUME NEW d \in Dirs
             PROVE /\ Box(i, j, k)[d] \in {<<-1, 0>>, <<0, 1>>, <<0, 0>>}
                   /\ d \notin Active => Box(i, j, k)[d] = <<0, 0>>
    BY DEF IsBox, Small
<1> QED BY DEF Box, Dirs

LEMMA HereBox == IsBox(Here) /\ Small(Here)
BY DEF IsBox, Here, Small

LEMMA Places ==
    /\ Near(Interior) /\ Near(AllEdges) /\ Near(Region(1, 1))
    /\ Setting => Near(Extended(1)) /\ Near(Faces(dir))
<1>1. Near(Interior) /\ Near(AllEdges) /\ Near(Region(1, 1))
    BY DEF Near, Interior, AllEdges, Region
<1>2. Setting => Near(Extended(1))
    BY ConfType DEF Near, Extended, Region, Active
<1>3. Setting => Near(Faces(dir))
    BY ConfType DEF Near, Faces, Interior, Region, Active
<1> QED BY <1>1, <1>2, <1>3
-----------------------------------------------------------------------------
LEMMA Tuples ==
    /\ BXs[1] = "BX1s" /\ BXs[2] = "BX2s" /\ BXs[3] = "BX3s"
    /\ dB[1] = "dB1" /\ dB[2] = "dB2" /\ dB[3] = "dB3"
    /\ Et[1] = "ezi" /\ Et[2] = "ezj" /\ Et[3] = "eyk"
    /\ Eb[1] = "eyi" /\ Eb[2] = "exj" /\ Eb[3] = "exk"
    /\ SV[1] = "svx" /\ SV[2] = "svy" /\ SV[3] = "svz"
    /\ Fan[1] = "ax" /\ Fan[2] = "ay" /\ Fan[3] = "az"
    /\ Ve[1] = "AX1e" /\ Ve[2] = "AX2e" /\ Ve[3] = "AX3e"
    /\ dA[1] = "dA1" /\ dA[2] = "dA2" /\ dA[3] = "dA3"
    /\ Edge[1] = "ex" /\ Edge[2] = "ey" /\ Edge[3] = "ez"
    /\ Cell[1] = "Ex1" /\ Cell[2] = "Ex2" /\ Cell[3] = "Ex3"
    /\ Current[1] = "J1" /\ Current[2] = "J2" /\ Current[3] = "J3"
BY DEF BXs, dB, Et, Eb, SV, Fan, Ve, dA, Edge, Cell, Current

\* Where the values of an array are: in the cells, on the faces of the sweep, on
\* the faces or the edges of one direction.
Centres ==
    {"Vc", "Uc", "InvDt", "UcField", "xHall", "flags", "csIso", "UcTracer", "fargoVelocity",
     "phiP", "bodyForce", "VcGas", "UcGas", "Ex1", "Ex2", "Ex3", "etaOhmic", "xAmbipolar",
     "eta1", "eta2", "kappa", "etaBrag", "kpar", "knor", "clessAlpha", "clessBeta",
     "viscSrc", "bragViscSrc", "dU", "noVc"}

OnSweep == {"Flux", "cMax", "dMax", "FluxTracer", "noFlux"}

LEMMA StaggerOf ==
    ASSUME NEW a, NEW d \in Dirs
    PROVE d \in Stagger(a) <=>
            \/ a \in {BXs[d], dB[d], Et[d], Eb[d], SV[d], Fan[d]}
            \/ a \in OnSweep /\ d = dir
            \/ \E e \in Dirs \ {d} : a \in {Ve[e], dA[e], Edge[e], Current[e]}
BY DEF Stagger, OnSweep

LEMMA AtCentre == ASSUME NEW a \in Centres, NEW d \in Dirs PROVE At(a, d) = 0
<1>1. d \notin Stagger(a)
    <2>1. CASE d = 1 BY <2>1, StaggerOf, Tuples DEF Dirs, Centres, OnSweep
    <2>2. CASE d = 2 BY <2>2, StaggerOf, Tuples DEF Dirs, Centres, OnSweep
    <2>3. CASE d = 3 BY <2>3, StaggerOf, Tuples DEF Dirs, Centres, OnSweep
    <2> QED BY <2>1, <2>2, <2>3 DEF Dirs
<1> QED BY <1>1 DEF At

LEMMA AtSweep ==
    ASSUME NEW a \in OnSweep, NEW d \in Dirs PROVE At(a, d) = IF d = dir THEN 1 ELSE 0
<1>1. d \in Stagger(a) <=> d = dir
    <2>1. CASE d = 1 BY <2>1, StaggerOf, Tuples DEF Dirs, OnSweep
    <2>2. CASE d = 2 BY <2>2, StaggerOf, Tuples DEF Dirs, OnSweep
    <2>3. CASE d = 3 BY <2>3, StaggerOf, Tuples DEF Dirs, OnSweep
    <2> QED BY <2>1, <2>2, <2>3 DEF Dirs
<1> QED BY <1>1 DEF At

LEMMA AtFaceOf ==
    ASSUME NEW e \in Dirs, NEW d \in Dirs,
           NEW a \in {BXs[e], dB[e], Et[e], Eb[e], SV[e], Fan[e]}
    PROVE At(a, d) = IF d = e THEN 1 ELSE 0
<1>1. d \in Stagger(a) <=> d = e
    <2>1. CASE d = 1 BY <2>1, StaggerOf, Tuples DEF Dirs, OnSweep
    <2>2. CASE d = 2 BY <2>2, StaggerOf, Tuples DEF Dirs, OnSweep
    <2>3. CASE d = 3 BY <2>3, StaggerOf, Tuples DEF Dirs, OnSweep
    <2> QED BY <2>1, <2>2, <2>3 DEF Dirs
<1> QED BY <1>1 DEF At

LEMMA AtEdgeOf ==
    ASSUME NEW e \in Dirs, NEW d \in Dirs, NEW a \in {Ve[e], dA[e], Edge[e], Current[e]}
    PROVE At(a, d) = IF d = e THEN 0 ELSE 1
<1>1. d \in Stagger(a) <=> d # e
    <2>1. CASE d = 1 BY <2>1, StaggerOf, Tuples DEF Dirs, OnSweep
    <2>2. CASE d = 2 BY <2>2, StaggerOf, Tuples DEF Dirs, OnSweep
    <2>3. CASE d = 3 BY <2>3, StaggerOf, Tuples DEF Dirs, OnSweep
    <2> QED BY <2>1, <2>2, <2>3 DEF Dirs
<1> QED BY <1>1 DEF At
-----------------------------------------------------------------------------
\* The same for all directions at once.
Shape(a) == [d \in Dirs |-> At(a, d)]

FaceShape == [d \in Dirs |-> IF d = dir THEN 1 ELSE 0]
CentreShape == [d \in Dirs |-> 0]
EdgeShape(e) == [d \in Dirs |-> IF d = e THEN 0 ELSE 1]

LEMMA Shapes ==
    /\ \A a \in Centres : Shape(a) = CentreShape
    /\ \A a \in OnSweep : Shape(a) = FaceShape
    /\ dir \in Dirs => \A a \in {BXs[dir], Et[dir], Eb[dir], SV[dir], Fan[dir]} : Shape(a) = FaceShape
    /\ \A e \in Dirs : \A a \in {Ve[e], dA[e], Edge[e], Current[e]} : Shape(a) = EdgeShape(e)
<1>1. \A a \in Centres : Shape(a) = CentreShape
    BY AtCentre DEF Shape, CentreShape
<1>2. \A a \in OnSweep : Shape(a) = FaceShape
    BY AtSweep DEF Shape, FaceShape
<1>3. dir \in Dirs => \A a \in {BXs[dir], Et[dir], Eb[dir], SV[dir], Fan[dir]} : Shape(a) = FaceShape
    BY AtFaceOf DEF Shape, FaceShape
<1>4. \A e \in Dirs : \A a \in {Ve[e], dA[e], Edge[e], Current[e]} : Shape(a) = EdgeShape(e)
    BY AtEdgeOf DEF Shape, EdgeShape
<1> QED BY <1>1, <1>2, <1>3, <1>4

\* A stencil in the array a that is centred on what has its values at shape.
Suits(a, box, shape) ==
    \A d \in Active : \/ a = "fargoVelocity" /\ d = Azimuth
                      \/ box[d][1] + box[d][2] = At(a, d) - shape[d]

\* A read of a loop that gives values at shape and writes the arrays W.
Good(over, shape, W, r) ==
    /\ ~Overreach => r[1] \in Allocated /\ Within(Touch(over, r[2]), Room(r[1]))
    /\ ~OffCentre => Suits(r[1], r[2], shape)
    /\ r[1] \in W => r[2] = Here

\* A loop over cells that all arrays have.
Fit(over) ==
    /\ \A d \in Dirs : over[d][1] \in Int /\ over[d][2] \in Int
    /\ Within(over, Wherever)

\* A statement, and what a loop needs besides: one statement for each array.
Fine(over, W, s) ==
    /\ s.out \in W
    /\ ~Overreach => s.out \in Allocated
    /\ \A r \in s.ins : Good(over, Shape(s.out), W, r)

Single(does) == \A s, t \in does : s.out = t.out => s = t

\* What InBounds, Centred and NoRace ask of one loop.
Kernel(loop) ==
    /\ ~Overreach =>
          \A s \in loop.does :
              /\ s.out \in Allocated
              /\ Within(loop.over, Room(s.out))
              /\ \A r \in s.ins : r[1] \in Allocated /\ Within(Touch(loop.over, r[2]), Room(r[1]))
    /\ ~OffCentre =>
          \A s \in loop.does : \A r \in s.ins : Suits(r[1], r[2], Shape(s.out))
    /\ \A s, t \in loop.does :
          /\ s.out = t.out => s = t
          /\ \A r \in s.ins : r[1] = t.out => r[2] = Here

LEMMA RoomOf ==
    ASSUME NEW a
    PROVE \A d \in Dirs : /\ Room(a)[d][1] \in Int /\ Room(a)[d][2] \in Int
                          /\ Wherever[d][1] \in Int /\ Wherever[d][2] \in Int
                          /\ Wherever[d][1] <= Room(a)[d][1] /\ Wherever[d][2] <= Room(a)[d][2]
BY Ghosts DEF Room, Wherever, Region

LEMMA FitRoom == ASSUME NEW a, NEW over, Fit(over) PROVE Within(over, Room(a))
BY RoomOf DEF Fit, Within

LEMMA InsideRoom ==
    ASSUME NEW a, NEW over, NEW box, Fit(over), IsBox(box), Inside(over, box)
    PROVE Within(Touch(over, box), Room(a))
<1> SUFFICES ASSUME NEW d \in Dirs
             PROVE /\ over[d][1] - box[d][1] <= Room(a)[d][1]
                   /\ over[d][2] + box[d][2] <= Room(a)[d][2]
    BY DEF Within, Touch
<1>1. /\ over[d][1] - box[d][1] <= Wherever[d][1] /\ over[d][2] + box[d][2] <= Wherever[d][2]
      /\ over[d][1] \in Int /\ over[d][2] \in Int /\ box[d][1] \in Int /\ box[d][2] \in Int
    BY DEF Inside, Within, Touch, Fit, IsBox
<1>2. /\ Room(a)[d][1] \in Int /\ Room(a)[d][2] \in Int
      /\ Wherever[d][1] \in Int /\ Wherever[d][2] \in Int
      /\ Wherever[d][1] <= Room(a)[d][1] /\ Wherever[d][2] <= Room(a)[d][2]
    BY RoomOf
<1> QED BY <1>1, <1>2

LEMMA NearFit == ASSUME NEW over, Near(over) PROVE Fit(over)
BY Ghosts DEF Near, Fit, Within, Wherever, Region

LEMMA KernelOf ==
    ASSUME NEW over, NEW does, NEW W, Fit(over), Single(does), \A s \in does : Fine(over, W, s)
    PROVE Kernel(Loop(over, does))
<1>1. ~Overreach =>
        \A s \in does : /\ s.out \in Allocated /\ Within(over, Room(s.out))
                        /\ \A r \in s.ins : r[1] \in Allocated /\ Within(Touch(over, r[2]), Room(r[1]))
    BY FitRoom DEF Fine, Good
<1>2. ~OffCentre => \A s \in does : \A r \in s.ins : Suits(r[1], r[2], Shape(s.out))
    BY DEF Fine, Good
<1>3. \A s, t \in does : /\ s.out = t.out => s = t
                         /\ \A r \in s.ins : r[1] = t.out => r[2] = Here
    BY DEF Fine, Good, Single
<1>4. Loop(over, does).over = over /\ Loop(over, does).does = does
    BY DEF Loop
<1> QED BY <1>1, <1>2, <1>3, <1>4 DEF Kernel

LEMMA GoodRead ==
    ASSUME NEW over, NEW shape, NEW W, NEW a, NEW box,
           ~Overreach => a \in Allocated /\ Fit(over) /\ IsBox(box) /\ Inside(over, box),
           ~OffCentre => Suits(a, box, shape), a \notin W \/ box = Here
    PROVE Good(over, shape, W, <<a, box>>)
BY InsideRoom DEF Good

LEMMA SmallRead ==
    ASSUME NEW over, NEW shape, NEW W, NEW a, NEW box,
           Near(over), IsBox(box), Small(box), ~Overreach => a \in Allocated,
           ~OffCentre => Suits(a, box, shape), a \notin W \/ box = Here
    PROVE Good(over, shape, W, <<a, box>>)
BY GoodRead, NearFit, SmallInside
-----------------------------------------------------------------------------
LEMMA ActiveDirs == Setting => Active \subseteq Dirs /\ dir \in Active
BY ConfType DEF Active, Dirs

LEMMA HereOf == \A d \in Dirs : Here[d] = <<0, 0>>
BY DEF Here

LEMMA HereSuits ==
    ASSUME NEW a, NEW shape, \A d \in Active : At(a, d) - shape[d] = 0, Active \subseteq Dirs
    PROVE Suits(a, Here, shape)
BY HereOf DEF Suits

LEMMA AlongSuits ==
    ASSUME NEW a, NEW shape, NEW e, NEW lo \in Int, NEW hi \in Int, Active \subseteq Dirs,
           \A d \in Active : At(a, d) - shape[d] = IF d = e THEN lo + hi ELSE 0
    PROVE Suits(a, Along(e, lo, hi), shape)
BY DEF Suits, Along

LEMMA CentreToFace ==
    ASSUME Setting, NEW a \in Centres, NEW n \in Int
    PROVE Suits(a, Along(dir, -n, n - 1), FaceShape)
<1>1. \A d \in Active : At(a, d) - FaceShape[d] = IF d = dir THEN -n + (n - 1) ELSE 0
    BY ActiveDirs, AtCentre DEF FaceShape
<1> QED BY <1>1, ActiveDirs, AlongSuits

LEMMA FaceToFace ==
    ASSUME Setting, NEW a, Shape(a) = FaceShape
    PROVE Suits(a, Here, FaceShape)
<1>1. \A d \in Dirs : At(a, d) = FaceShape[d] /\ FaceShape[d] \in Int
    BY DEF FaceShape, Shape
<1> QED BY <1>1, ActiveDirs, HereSuits

LEMMA CentreToCentre ==
    ASSUME Setting, NEW a \in Centres, NEW n \in Int, NEW e
    PROVE Suits(a, Here, CentreShape) /\ Suits(a, Along(e, -n, n), CentreShape)
<1>1. \A d \in Active : At(a, d) - CentreShape[d] = 0
    BY ActiveDirs, AtCentre DEF CentreShape
<1>2. Suits(a, Here, CentreShape)
    BY <1>1, ActiveDirs, HereSuits
<1>3. Suits(a, Along(e, -n, n), CentreShape)
    BY <1>1, ActiveDirs, AlongSuits
<1> QED BY <1>2, <1>3

LEMMA SweepToCentre ==
    ASSUME Setting, NEW a \in OnSweep PROVE Suits(a, Along(dir, 0, 1), CentreShape)
<1>1. \A d \in Active : At(a, d) - CentreShape[d] = IF d = dir THEN 0 + 1 ELSE 0
    BY ActiveDirs, AtSweep DEF CentreShape
<1> QED BY <1>1, ActiveDirs, AlongSuits

LEMMA FieldToCentre ==
    ASSUME Setting, NEW e \in Dirs PROVE Suits(BXs[e], Along(e, 0, 1), CentreShape)
<1>1. \A d \in Active : At(BXs[e], d) - CentreShape[d] = IF d = e THEN 0 + 1 ELSE 0
    BY ActiveDirs, AtFaceOf DEF CentreShape
<1> QED BY <1>1, ActiveDirs, AlongSuits

\* E(e): what the edges along e take from beside them in the direction b.
LEMMA EdgeSuits ==
    ASSUME Setting, NEW a, NEW e \in Dirs, NEW b \in Dirs, NEW lo \in Int, NEW hi \in Int,
           \A d \in Dirs : At(a, d) - EdgeShape(e)[d] = IF d = b THEN lo + hi ELSE 0
    PROVE Suits(a, Along(b, lo, hi), EdgeShape(e))
BY ActiveDirs, AlongSuits
-----------------------------------------------------------------------------
LEMMA AllocatedAlways ==
    {"Vc", "Uc", "InvDt", "cMax", "dMax", "Flux"} \subseteq Allocated
BY DEF Allocated, FluidArrays

LEMMA AllocatedFluid ==
    /\ conf.phys = "mhd" => "UcField" \in Allocated /\ \A d \in Active : BXs[d] \in Allocated
    /\ conf.vecpot => \A e \in Edges : Ve[e] \in Allocated
    /\ conf.hall # "no" \/ conf.terms["ohmic"] # "no" \/ conf.terms["ambipolar"] # "no"
          => {"J1", "J2", "J3"} \subseteq Allocated
    /\ conf.hall = "userdef" => "xHall" \in Allocated
    /\ conf.shock => "flags" \in Allocated
    /\ conf.eos = "userdef" => "csIso" \in Allocated
    /\ conf.tracer => "FluxTracer" \in Allocated /\ "UcTracer" \in Allocated
    /\ conf.fargo = "userdef" => "fargoVelocity" \in Allocated
    /\ conf.potential => "phiP" \in Allocated
    /\ conf.body => "bodyForce" \in Allocated
    /\ conf.drag => "VcGas" \in Allocated /\ "UcGas" \in Allocated
BY DEF Allocated, FluidArrays, Mhd, Names

LEMMA AllocatedEMF ==
    conf.phys = "mhd" =>
        /\ {"ez", "ezi", "ezj", "Ex1", "Ex2", "Ex3"} \subseteq Allocated
        /\ conf.dims = 3 => {"ex", "ey", "eyi", "eyk", "exj", "exk"} \subseteq Allocated
        /\ conf.emf = "uct_contact" => \A d \in Active : SV[d] \in Allocated
        /\ conf.emf \in {"uct_hll", "uct_hlld"} => \A d \in Active : Fan[d] \in Allocated
BY DEF Allocated, EMFArrays, Mhd, Names

LEMMA AllocatedDiffusion ==
    /\ \A t \in Terms : conf.terms[t] = "userdef" => UserArrays[t] \subseteq Allocated
    /\ conf.terms["viscosity"] # "no" => "viscSrc" \in Allocated
    /\ conf.terms["bragViscosity"] # "no" => "bragViscSrc" \in Allocated
<1>1. \A t \in Terms : conf.terms[t] = "userdef" => UserArrays[t] \subseteq DiffusionArrays
    BY DEF DiffusionArrays
<1>2. /\ conf.terms["viscosity"] # "no" => "viscSrc" \in DiffusionArrays
      /\ conf.terms["bragViscosity"] # "no" => "bragViscSrc" \in DiffusionArrays
    BY DEF DiffusionArrays
<1> QED BY <1>1, <1>2 DEF Allocated

LEMMA AllocatedUser ==
    /\ conf.terms["ohmic"] = "userdef" => "etaOhmic" \in Allocated
    /\ conf.terms["ambipolar"] = "userdef" => "xAmbipolar" \in Allocated
    /\ conf.terms["viscosity"] = "userdef" => "eta1" \in Allocated /\ "eta2" \in Allocated
    /\ conf.terms["conduction"] = "userdef" => "kappa" \in Allocated
    /\ conf.terms["bragViscosity"] = "userdef" => "etaBrag" \in Allocated
    /\ conf.terms["bragConduction"] = "userdef" =>
          {"kpar", "knor", "clessAlpha", "clessBeta"} \subseteq Allocated
BY AllocatedDiffusion DEF Terms, UserArrays

LEMMA AllocatedRKL ==
    conf.rkl # {} =>
        /\ "dU" \in Allocated
        /\ conf.phys = "mhd" /\ conf.vecpot => \A e \in Edges : dA[e] \in Allocated
        /\ conf.phys = "mhd" /\ ~conf.vecpot => \A d \in Active : dB[d] \in Allocated
BY DEF Allocated, RKLArrays, Mhd, Names
-----------------------------------------------------------------------------
(* The Riemann solvers *)

LEMMA ExtendedFit ==
    ASSUME Setting, NEW k \in 0..nghost
    PROVE /\ Fit(Extended(k))
          /\ \A d \in Dirs : Extended(k)[d] = IF d = dir THEN <<0, 1>>
                                              ELSE IF d \in Active THEN <<k, k>> ELSE <<0, 0>>
          /\ \A d \in Dirs : Wherever[d] = IF d \in Active THEN <<nghost, nghost>> ELSE <<0, 0>>
<1>1. \A d \in Dirs : Extended(k)[d] = IF d = dir THEN <<0, 1>>
                                       ELSE IF d \in Active THEN <<k, k>> ELSE <<0, 0>>
    BY DEF Extended, Region
<1>2. \A d \in Dirs : Wherever[d] = IF d \in Active THEN <<nghost, nghost>> ELSE <<0, 0>>
    BY DEF Wherever, Region
<1>3. Fit(Extended(k))
    BY <1>1, <1>2, Ghosts, ActiveDirs DEF Fit, Within
<1> QED BY <1>1, <1>2, <1>3

LEMMA StatesInside ==
    ASSUME Setting, NEW k \in 0..nghost, NEW n \in 0..nghost
    PROVE /\ IsBox(Along(dir, -n, n - 1)) /\ Inside(Extended(k), Along(dir, -n, n - 1))
          /\ IsBox(Here) /\ Inside(Extended(k), Here)
<1>1. IsBox(Along(dir, -n, n - 1)) /\ IsBox(Here)
    BY ConfType, AlongBox, HereBox, Ghosts
<1>2. \A d \in Dirs : Along(dir, -n, n - 1)[d] = IF d = dir THEN <<-n, n - 1>> ELSE <<0, 0>>
    BY ActiveDirs DEF Along
<1>3. Inside(Extended(k), Along(dir, -n, n - 1))
  <2> SUFFICES ASSUME NEW d \in Dirs
               PROVE /\ Extended(k)[d][1] - Along(dir, -n, n - 1)[d][1] <= Wherever[d][1]
                     /\ Extended(k)[d][2] + Along(dir, -n, n - 1)[d][2] <= Wherever[d][2]
      BY DEF Inside, Within, Touch
  <2>1. /\ Extended(k)[d] = IF d = dir THEN <<0, 1>> ELSE IF d \in Active THEN <<k, k>> ELSE <<0, 0>>
        /\ Wherever[d] = IF d \in Active THEN <<nghost, nghost>> ELSE <<0, 0>>
      BY ExtendedFit
  <2>2. n \in Int /\ k \in Int /\ nghost \in Int /\ n <= nghost /\ k <= nghost
      BY Ghosts
  <2>3. CASE d = dir
      BY <1>2, <2>1, <2>2, <2>3, ActiveDirs
  <2>4. CASE d # dir
      BY <1>2, <2>1, <2>2, <2>4
  <2> QED BY <2>3, <2>4
<1>4. Inside(Extended(k), Here)
  <2> SUFFICES ASSUME NEW d \in Dirs
               PROVE /\ Extended(k)[d][1] - Here[d][1] <= Wherever[d][1]
                     /\ Extended(k)[d][2] + Here[d][2] <= Wherever[d][2]
      BY DEF Inside, Within, Touch
  <2>1. /\ Extended(k)[d] = IF d = dir THEN <<0, 1>> ELSE IF d \in Active THEN <<k, k>> ELSE <<0, 0>>
        /\ Wherever[d] = IF d \in Active THEN <<nghost, nghost>> ELSE <<0, 0>>
      BY ExtendedFit
  <2>2. k \in Int /\ nghost \in Int /\ 2 <= nghost /\ k <= nghost
      BY Ghosts
  <2>3. CASE d = dir
      BY HereOf, <2>1, <2>2, <2>3, ActiveDirs
  <2>4. CASE d # dir
      BY HereOf, <2>1, <2>2, <2>4
  <2> QED BY <2>3, <2>4
<1> QED BY <1>1, <1>3, <1>4

LEMMA FaceRead ==
    ASSUME Setting, NEW k \in 0..nghost, NEW n \in 0..nghost, NEW W, NEW a \in Centres \ W,
           ~Overreach => a \in Allocated
    PROVE Good(Extended(k), FaceShape, W, <<a, Along(dir, -n, n - 1)>>)
<1>1. n \in Int
    BY Ghosts
<1> QED BY <1>1, CentreToFace, StatesInside, ExtendedFit, GoodRead

LEMMA FaceReadHere ==
    ASSUME Setting, NEW k \in 0..nghost, NEW W, NEW a, Shape(a) = FaceShape,
           ~Overreach => a \in Allocated
    PROVE Good(Extended(k), FaceShape, W, <<a, Here>>)
<1>1. 0 \in 0..nghost
    BY Ghosts
<1> QED BY <1>1, FaceToFace, StatesInside, ExtendedFit, GoodRead

Written == OnSweep \cup {Et[dir], Eb[dir], SV[dir], Fan[dir]}

LEMMA WrittenOf ==
    Setting => Written \cap ({"Vc", "csIso", "flags", "xHall", "J1", "J2", "J3"} \cup {BXs[d] : d \in Dirs}) = {}
<1> SUFFICES ASSUME Setting PROVE Written \cap ({"Vc", "csIso", "flags", "xHall", "J1", "J2", "J3"}
                                   \cup {BXs[d] : d \in Dirs}) = {}
    OBVIOUS
<1>1. {BXs[d] : d \in Dirs} = {"BX1s", "BX2s", "BX3s"}
    BY Tuples DEF Dirs
<1>2. CASE dir = 1 BY <1>1, <1>2, Tuples DEF Written, OnSweep
<1>3. CASE dir = 2 BY <1>1, <1>3, Tuples DEF Written, OnSweep
<1>4. CASE dir = 3 BY <1>1, <1>4, Tuples DEF Written, OnSweep
<1> QED BY <1>2, <1>3, <1>4, ConfType DEF Dirs

LEMMA PrimStates ==
    ASSUME Setting, NEW k \in 0..nghost, NEW r \in ExtrapolatePrimVar
    PROVE Good(Extended(k), FaceShape, Written, r)
<1>0. {"Vc", "flags"} \subseteq Centres \ Written
    BY WrittenOf DEF Centres
<1>1. CASE conf.shock /\ r = <<"flags", Along(dir, -1, 0)>>
  <2>1. 1 \in 0..nghost BY Ghosts
  <2>2. Good(Extended(k), FaceShape, Written, <<"flags", Along(dir, -1, 1 - 1)>>)
      BY <1>0, <1>1, <2>1, AllocatedFluid, FaceRead
  <2> QED BY <2>2, <1>1
<1>2. CASE r = <<"Vc", <<DonorCell, LinearSlopes, LimO3, PpmStates>>[conf.order]>>
  <2>1. \E n \in 0..nghost : r = <<"Vc", Along(dir, -n, n - 1)>>
    <3>1. CASE conf.order = 1
        BY <3>1, <1>2, Ghosts DEF DonorCell
    <3>2. CASE conf.order = 2
        BY <3>2, <1>2, Ghosts DEF LinearSlopes
    <3>3. CASE conf.order = 3
        BY <3>3, <1>2, Ghosts DEF LimO3
    <3>4. CASE conf.order = 4
        BY <3>4, <1>2, Ghosts DEF PpmStates
    <3> QED BY <3>1, <3>2, <3>3, <3>4, ConfType
  <2>2. PICK n \in 0..nghost : r = <<"Vc", Along(dir, -n, n - 1)>>
      BY <2>1
  <2> QED BY <1>0, <2>2, AllocatedAlways, FaceRead
<1> QED BY <1>1, <1>2 DEF ExtrapolatePrimVar

LEMMA HDStatesGood ==
    ASSUME Setting, NEW k \in 0..nghost, NEW r \in HDStates
    PROVE Good(Extended(k), FaceShape, Written, r)
<1>1. CASE conf.eos = "userdef" /\ r = <<"csIso", Along(dir, -1, 0)>>
  <2>0. "csIso" \in Centres \ Written
      BY WrittenOf DEF Centres
  <2>1. 1 \in 0..nghost BY Ghosts
  <2>2. Good(Extended(k), FaceShape, Written, <<"csIso", Along(dir, -1, 1 - 1)>>)
      BY <1>1, <2>0, <2>1, AllocatedFluid, FaceRead
  <2> QED BY <2>2, <1>1
<1> QED BY <1>1, PrimStates DEF HDStates, Speeds

LEMMA MHDStatesGood ==
    ASSUME Setting, conf.phys = "mhd", NEW k \in 0..nghost, NEW r \in MHDStates
    PROVE Good(Extended(k), FaceShape, Written, r)
<1>1. CASE r = <<BXs[dir], Here>>
    BY <1>1, Shapes, ConfType, ActiveDirs, AllocatedFluid, FaceReadHere
<1> QED BY <1>1, HDStatesGood DEF MHDStates

LEMMA CurrentShapes ==
    \A d \in Dirs : /\ At("J1", d) = IF d = 1 THEN 0 ELSE 1
                    /\ At("J2", d) = IF d = 2 THEN 0 ELSE 1
                    /\ At("J3", d) = IF d = 3 THEN 0 ELSE 1
BY AtEdgeOf, Tuples DEF Dirs

LEMMA FaceCurrentGood ==
    ASSUME Setting, NEW over, ~Overreach => Near(over), NEW W, {"J1", "J2", "J3"} \cap W = {},
           ~Overreach => {"J1", "J2", "J3"} \subseteq Allocated, NEW r \in FaceCurrent
    PROVE Good(over, FaceShape, W, r)
<1>0. /\ \A d \in Dirs : FaceShape[d] = IF d = dir THEN 1 ELSE 0
      /\ Active \subseteq Dirs
    BY ActiveDirs DEF FaceShape
<1>1. /\ r[1] \in {"J1", "J2", "J3"} /\ r = <<r[1], r[2]>>
      /\ IsBox(r[2]) /\ Small(r[2]) /\ Suits(r[1], r[2], FaceShape)
  <2>1. CASE dir = 1
    <3>1. CASE r = <<"J1", Box(<<-1, 0>>, <<0, 1>>, <<0, 1>>)>>
      <4>1. Suits("J1", Box(<<-1, 0>>, <<0, 1>>, <<0, 1>>), FaceShape)
          BY <1>0, <2>1, CurrentShapes DEF Suits, Box, Dirs
      <4> QED BY <3>1, <4>1, BoxBox
    <3>2. CASE r = <<"J2", Along(KDIR, 0, 1)>>
      <4>1. Suits("J2", Along(KDIR, 0, 1), FaceShape)
          BY <1>0, <2>1, CurrentShapes DEF Suits, Along, Dirs, KDIR
      <4> QED BY <3>2, <4>1, AlongBox DEF KDIR, Dirs
    <3>3. CASE r = <<"J3", Along(JDIR, 0, 1)>>
      <4>1. Suits("J3", Along(JDIR, 0, 1), FaceShape)
          BY <1>0, <2>1, CurrentShapes DEF Suits, Along, Dirs, JDIR
      <4> QED BY <3>3, <4>1, AlongBox DEF JDIR, Dirs
    <3> QED BY <2>1, <3>1, <3>2, <3>3 DEF FaceCurrent, IDIR, JDIR, KDIR
  <2>2. CASE dir = 2
    <3>1. CASE r = <<"J2", Box(<<0, 1>>, <<-1, 0>>, <<0, 1>>)>>
      <4>1. Suits("J2", Box(<<0, 1>>, <<-1, 0>>, <<0, 1>>), FaceShape)
          BY <1>0, <2>2, CurrentShapes DEF Suits, Box, Dirs
      <4> QED BY <3>1, <4>1, BoxBox
    <3>2. CASE r = <<"J1", Along(KDIR, 0, 1)>>
      <4>1. Suits("J1", Along(KDIR, 0, 1), FaceShape)
          BY <1>0, <2>2, CurrentShapes DEF Suits, Along, Dirs, KDIR
      <4> QED BY <3>2, <4>1, AlongBox DEF KDIR, Dirs
    <3>3. CASE r = <<"J3", Along(IDIR, 0, 1)>>
      <4>1. Suits("J3", Along(IDIR, 0, 1), FaceShape)
          BY <1>0, <2>2, CurrentShapes DEF Suits, Along, Dirs, IDIR
      <4> QED BY <3>3, <4>1, AlongBox DEF IDIR, Dirs
    <3> QED BY <2>2, <3>1, <3>2, <3>3 DEF FaceCurrent, IDIR, JDIR, KDIR
  <2>3. CASE dir = 3
    <3>1. CASE r = <<"J3", Box(<<0, 1>>, <<0, 1>>, <<-1, 0>>)>>
      <4>1. Suits("J3", Box(<<0, 1>>, <<0, 1>>, <<-1, 0>>), FaceShape)
          BY <1>0, <2>3, CurrentShapes DEF Suits, Box, Dirs
      <4> QED BY <3>1, <4>1, BoxBox
    <3>2. CASE r = <<"J1", Along(JDIR, 0, 1)>>
      <4>1. Suits("J1", Along(JDIR, 0, 1), FaceShape)
          BY <1>0, <2>3, CurrentShapes DEF Suits, Along, Dirs, JDIR
      <4> QED BY <3>2, <4>1, AlongBox DEF JDIR, Dirs
    <3>3. CASE r = <<"J2", Along(IDIR, 0, 1)>>
      <4>1. Suits("J2", Along(IDIR, 0, 1), FaceShape)
          BY <1>0, <2>3, CurrentShapes DEF Suits, Along, Dirs, IDIR
      <4> QED BY <3>3, <4>1, AlongBox DEF IDIR, Dirs
    <3> QED BY <2>3, <3>1, <3>2, <3>3 DEF FaceCurrent, IDIR, JDIR, KDIR
  <2> QED BY <2>1, <2>2, <2>3, ConfType DEF Dirs
<1>2. Good(over, FaceShape, W, <<r[1], r[2]>>)
    BY <1>1, GoodRead, NearFit, SmallInside
<1> QED BY <1>1, <1>2

LEMMA HallStatesGood ==
    ASSUME Setting, NEW r \in HallStates
    PROVE Good(Extended(perpExtension), FaceShape, Written, r)
<1>1. ~Overreach => perpExtension = 1
    BY DEF Overreach, EdgesOverreach, perpExtension, Setting, Solves, HallStates, Consistent, Options
<1>2. perpExtension \in 0..nghost
    BY Ghosts DEF perpExtension
<1>3. {"J1", "J2", "J3"} \cap Written = {} /\ "xHall" \in Centres \ Written
    BY WrittenOf DEF Centres
<1>4. CASE r \in FaceCurrent /\ conf.hall # "no"
  <2>1. ~Overreach => Near(Extended(perpExtension))
      BY <1>1, Places
  <2> QED BY <1>3, <1>4, <2>1, AllocatedFluid, FaceCurrentGood
<1>5. CASE r = <<"xHall", Along(dir, -1, 0)>> /\ conf.hall = "userdef"
  <2>1. 1 \in 0..nghost BY Ghosts
  <2>2. Good(Extended(perpExtension), FaceShape, Written, <<"xHall", Along(dir, -1, 1 - 1)>>)
      BY <1>2, <1>3, <1>5, <2>1, AllocatedFluid, FaceRead
  <2> QED BY <2>2, <1>5
<1> QED BY <1>4, <1>5 DEF HallStates

LEMMA Fields ==
    ASSUME NEW a, NEW ins, NEW parts
    PROVE /\ Set(a, ins, parts).out = a /\ Set(a, ins, parts).ins = ins
          /\ Add(a, ins, parts).out = a /\ Add(a, ins, parts).ins = ins
BY DEF Set, Add

LEMMA FineAt ==
    ASSUME NEW over, NEW shape, NEW W, NEW s, s.out \in W, Shape(s.out) = shape,
           ~Overreach => s.out \in Allocated, \A r \in s.ins : Good(over, shape, W, r)
    PROVE Fine(over, W, s)
BY DEF Fine

LEMMA FaceOf ==
    ASSUME NEW ins
    PROVE /\ \A s \in Face(ins) : s.out \in {"Flux", "cMax"} /\ s.ins = ins
          /\ Single(Face(ins))
BY Fields DEF Face, Single

LEMMA FaceFine ==
    ASSUME Setting, NEW over, NEW ins, \A r \in ins : Good(over, FaceShape, Written, r)
    PROVE \A s \in Face(ins) : Fine(over, Written, s)
<1> SUFFICES ASSUME NEW s \in Face(ins) PROVE Fine(over, Written, s)
    OBVIOUS
<1>1. Shape(s.out) = FaceShape /\ s.out \in Written
    BY Shapes, FaceOf DEF OnSweep, Written
<1>2. s.out \in Allocated /\ s.ins = ins
    BY FaceOf, AllocatedAlways
<1> QED BY <1>1, <1>2, FineAt

LEMMA SolverKernel ==
    ASSUME Setting, NEW over, Fit(over), NEW ins, NEW more,
           \A r \in ins : Good(over, FaceShape, Written, r),
           NEW stored, stored \subseteq {Et[dir], Eb[dir], SV[dir], Fan[dir]},
           ~Overreach => stored \subseteq Allocated,
           NEW ins2, \A r \in ins2 : Good(over, FaceShape, Written, r),
           \A s \in more : s.out \in stored /\ s.ins = ins2, Single(more)
    PROVE Kernel(Loop(over, Face(ins) \cup more))
<1>1. \A s \in Face(ins) : Fine(over, Written, s)
    BY FaceFine
<1>2. \A s \in more : Fine(over, Written, s)
  <2> SUFFICES ASSUME NEW s \in more PROVE Fine(over, Written, s)
      OBVIOUS
  <2>1. Shape(s.out) = FaceShape /\ s.out \in Written
      BY Shapes, ConfType DEF Written
  <2>2. ~Overreach => s.out \in Allocated
      OBVIOUS
  <2> QED BY <2>1, <2>2, FineAt
<1>3. stored \cap {"Flux", "cMax"} = {}
  <2>1. CASE dir = 1 BY <2>1, Tuples
  <2>2. CASE dir = 2 BY <2>2, Tuples
  <2>3. CASE dir = 3 BY <2>3, Tuples
  <2> QED BY <2>1, <2>2, <2>3, ConfType DEF Dirs
<1>4. Single(Face(ins) \cup more)
    BY <1>3, FaceOf DEF Single
<1> QED BY <1>1, <1>2, <1>4, KernelOf

LEMMA Distinct ==
    Setting => /\ Et[dir] # Eb[dir] /\ SV[dir] \notin {Et[dir], Eb[dir]}
               /\ Fan[dir] \notin {Et[dir], Eb[dir]}
<1> SUFFICES ASSUME Setting PROVE Et[dir] # Eb[dir] /\ SV[dir] \notin {Et[dir], Eb[dir]}
                                  /\ Fan[dir] \notin {Et[dir], Eb[dir]}
    OBVIOUS
<1>1. CASE dir = 1 BY <1>1, Tuples
<1>2. CASE dir = 2 BY <1>2, Tuples
<1>3. CASE dir = 3 BY <1>3, Tuples
<1> QED BY <1>1, <1>2, <1>3, ConfType DEF Dirs

LEMMA AllocatedStores ==
    ASSUME Setting, conf.phys = "mhd"
    PROVE /\ Et[dir] \in Allocated /\ (conf.dims = 3 => Eb[dir] \in Allocated)
          /\ conf.emf = "uct_contact" => SV[dir] \in Allocated
          /\ conf.emf \in {"uct_hll", "uct_hlld"} => Fan[dir] \in Allocated
<1>1. CASE dir = 1 BY <1>1, Tuples, AllocatedEMF, ActiveDirs
<1>2. CASE dir = 2 BY <1>2, Tuples, AllocatedEMF, ActiveDirs
<1>3. CASE dir = 3 BY <1>3, Tuples, AllocatedEMF, ActiveDirs, ConfType
<1> QED BY <1>1, <1>2, <1>3, ConfType DEF Dirs

LEMMA StoresOf ==
    ASSUME Setting, NEW ins
    PROVE /\ \A s \in K_StoreEMF(ins) :
                s.out \in ({Et[dir]} \cup IF conf.dims = 3 THEN {Eb[dir]} ELSE {}) /\ s.ins = ins
          /\ \A s \in K_StoreHLL(ins) :
                s.out \in ({Fan[dir], Et[dir]} \cup IF conf.comps = 3 THEN {Eb[dir]} ELSE {}) /\ s.ins = ins
          /\ Single(K_StoreEMF(ins)) /\ Single(K_StoreHLL(ins))
          /\ Single(K_StoreContact(ins)) /\ Single(K_StoreHLLD(ins))
<1>1. \A s \in K_StoreEMF(ins) :
         s.out \in ({Et[dir]} \cup IF conf.dims = 3 THEN {Eb[dir]} ELSE {}) /\ s.ins = ins
    BY Fields DEF K_StoreEMF
<1>2. \A s \in K_StoreHLL(ins) :
         s.out \in ({Fan[dir], Et[dir]} \cup IF conf.comps = 3 THEN {Eb[dir]} ELSE {}) /\ s.ins = ins
    BY Fields DEF K_StoreHLL
<1>3. Single(K_StoreEMF(ins))
    BY Fields, Distinct DEF K_StoreEMF, Single
<1>4. Single(K_StoreHLL(ins))
    BY Fields, Distinct DEF K_StoreHLL, Single
<1>5. \A s \in K_StoreEMF(ins) : s.out \in {Et[dir], Eb[dir]}
    BY <1>1
<1>6. Single(K_StoreContact(ins)) /\ Single(K_StoreHLLD(ins))
    BY <1>3, <1>5, Fields, Distinct DEF K_StoreContact, K_StoreHLLD, Single
<1> QED BY <1>1, <1>2, <1>3, <1>4, <1>6

LEMMA StoreKernel ==
    ASSUME Setting, conf.phys = "mhd", NEW over, Fit(over), NEW ins, NEW ins2,
           \A r \in ins : Good(over, FaceShape, Written, r),
           \A r \in ins2 : Good(over, FaceShape, Written, r)
    PROVE /\ Kernel(Loop(over, Face(ins) \cup K_StoreEMF(ins2)))
          /\ conf.emf = "uct_contact" => Kernel(Loop(over, Face(ins) \cup K_StoreContact(ins2)))
          /\ conf.emf = "uct_hll" => Kernel(Loop(over, Face(ins) \cup K_StoreHLL(ins2)))
          /\ conf.emf = "uct_hlld" => Kernel(Loop(over, Face(ins) \cup K_StoreHLLD(ins2)))
<1> DEFINE
      OnEMF == {Et[dir]} \cup IF conf.dims = 3 THEN {Eb[dir]} ELSE {}
      OnHLL == {Fan[dir], Et[dir]} \cup IF conf.comps = 3 THEN {Eb[dir]} ELSE {}
<1>1. /\ \A s \in K_StoreEMF(ins2) : s.out \in OnEMF /\ s.ins = ins2
      /\ \A s \in K_StoreHLL(ins2) : s.out \in OnHLL /\ s.ins = ins2
    BY StoresOf
<1>2. OnEMF \subseteq Allocated /\ OnEMF \subseteq {Et[dir], Eb[dir], SV[dir], Fan[dir]}
    BY AllocatedStores
<1>3. ~Overreach /\ conf.emf = "uct_hll" => OnHLL \subseteq Allocated
    BY AllocatedStores, ConfType DEF Overreach, EdgesOverreach
<1>4. OnHLL \subseteq {Et[dir], Eb[dir], SV[dir], Fan[dir]}
    OBVIOUS
<1> HIDE DEF OnEMF, OnHLL
<1>5. Kernel(Loop(over, Face(ins) \cup K_StoreEMF(ins2)))
    BY <1>1, <1>2, StoresOf, SolverKernel
<1>6. ASSUME conf.emf = "uct_contact"
      PROVE Kernel(Loop(over, Face(ins) \cup K_StoreContact(ins2)))
  <2>1. \A s \in K_StoreContact(ins2) : s.out \in OnEMF \cup {SV[dir]} /\ s.ins = ins2
      BY <1>1, Fields DEF K_StoreContact
  <2>2. OnEMF \cup {SV[dir]} \subseteq Allocated
      BY <1>2, <1>6, AllocatedStores
  <2>3. OnEMF \cup {SV[dir]} \subseteq {Et[dir], Eb[dir], SV[dir], Fan[dir]}
      BY <1>2
  <2> QED BY <2>1, <2>2, <2>3, StoresOf, SolverKernel
<1>7. ASSUME conf.emf = "uct_hlld"
      PROVE Kernel(Loop(over, Face(ins) \cup K_StoreHLLD(ins2)))
  <2>1. \A s \in K_StoreHLLD(ins2) : s.out \in OnEMF \cup {Fan[dir]} /\ s.ins = ins2
      BY <1>1, Fields DEF K_StoreHLLD
  <2>2. OnEMF \cup {Fan[dir]} \subseteq Allocated
      BY <1>2, <1>7, AllocatedStores
  <2>3. OnEMF \cup {Fan[dir]} \subseteq {Et[dir], Eb[dir], SV[dir], Fan[dir]}
      BY <1>2
  <2> QED BY <2>1, <2>2, <2>3, StoresOf, SolverKernel
<1>8. ASSUME conf.emf = "uct_hll"
      PROVE Kernel(Loop(over, Face(ins) \cup K_StoreHLL(ins2)))
  <2>1. ~Overreach => OnHLL \subseteq Allocated
      BY <1>3, <1>8
  <2>2. \A s \in K_StoreHLL(ins2) : s.out \in OnHLL /\ s.ins = ins2
      BY <1>1
  <2>3. Single(K_StoreHLL(ins2))
      BY StoresOf
  <2> QED BY <2>1, <2>2, <2>3, <1>4, SolverKernel
<1> QED BY <1>5, <1>6, <1>7, <1>8

Kernels(loops) ==
    /\ \E M : loops \in Seq(M)
    /\ \A i \in 1..Len(loops) : Kernel(loops[i])

LEMMA OneKernel == ASSUME NEW loop, Kernel(loop) PROVE Kernels(<<loop>>)
<1>1. <<loop>> \in Seq({loop}) /\ Len(<<loop>>) = 1 /\ <<loop>>[1] = loop
    OBVIOUS
<1>2. \E M : <<loop>> \in Seq(M)
    BY <1>1
<1>3. \A i \in 1..Len(<<loop>>) : <<loop>>[i] = loop
    BY <1>1
<1> QED BY <1>2, <1>3 DEF Kernels

LEMMA NoKernel == Kernels(<<>>)
<1>1. <<>> \in Seq({}) /\ Len(<<>>) = 0
    OBVIOUS
<1> QED BY <1>1 DEF Kernels

LEMMA JoinKernels ==
    ASSUME NEW f, NEW g, Kernels(f), Kernels(g) PROVE Kernels(f \o g)
<1>1. PICK M : f \in Seq(M)
    BY DEF Kernels
<1>2. PICK N : g \in Seq(N)
    BY DEF Kernels
<1>3. f \in Seq(M \cup N) /\ g \in Seq(M \cup N)
    BY <1>1, <1>2
<1>4. f \o g \in Seq(M \cup N)
    BY <1>3
<1>5. ASSUME NEW i \in 1..Len(f \o g) PROVE Kernel((f \o g)[i])
  <2>1. CASE i <= Len(f)
    <3>1. (f \o g)[i] = f[i] /\ i \in 1..Len(f)
        BY <1>3, <2>1
    <3> QED BY <3>1 DEF Kernels
  <2>2. CASE i > Len(f)
    <3>1. (f \o g)[i] = g[i - Len(f)] /\ i - Len(f) \in 1..Len(g)
        BY <1>3, <2>2
    <3> QED BY <3>1 DEF Kernels
  <2> QED BY <1>3, <2>1, <2>2
<1> QED BY <1>4, <1>5 DEF Kernels

LEMMA FacesExtended == Setting => Faces(dir) = Extended(0)
<1> SUFFICES ASSUME Setting, NEW d \in Dirs
             PROVE Faces(dir)[d] = Extended(0)[d]
    BY DEF Faces, Extended, Interior, Region
<1>1. Faces(dir)[d] = IF d = dir THEN <<0, 1>> ELSE Region(0, 0)[d]
    BY DEF Faces, Interior, Region
<1> QED BY <1>1 DEF Extended

LEMMA ShockKernel == ASSUME Setting, conf.shock PROVE Kernel(FindShock)
<1> DEFINE ins == {<<"Vc", Along(d, -1, 1)>> : d \in Active}
                  \cup UNION {Speeds(d, -1, 1) : d \in Active}
<1>1. ASSUME NEW r \in ins PROVE Good(Region(1, 1), CentreShape, {"flags"}, r)
  <2>1. PICK d \in Active, a \in {"Vc", "csIso"} :
           r = <<a, Along(d, -1, 1)>> /\ (a = "csIso" => conf.eos = "userdef")
      BY DEF Speeds
  <2>2. a \in Allocated /\ a \in Centres /\ d \in Dirs
      BY <2>1, AllocatedAlways, AllocatedFluid, ActiveDirs DEF Centres
  <2>3. IsBox(Along(d, -1, 1)) /\ Small(Along(d, -1, 1)) /\ Suits(a, Along(d, -1, 1), CentreShape)
      BY <2>2, AlongBox, CentreToCentre
  <2> QED BY <2>1, <2>2, <2>3, Places, SmallRead
<1>2. Fine(Region(1, 1), {"flags"}, Set("flags", ins, {}))
  <2>1. Shape("flags") = CentreShape
      BY Shapes DEF Centres
  <2>2. "flags" \in Allocated
      BY AllocatedFluid
  <2> HIDE DEF ins
  <2> QED BY <1>1, <2>1, <2>2, Fields, FineAt
<1>3. Single({Set("flags", ins, {})})
    BY DEF Single
<1>4. FindShock = Loop(Region(1, 1), {Set("flags", ins, {})})
    BY DEF FindShock
<1> HIDE DEF ins
<1> QED BY <1>2, <1>3, <1>4, Places, NearFit, KernelOf

LEMMA SolverKernels == ASSUME Setting PROVE Kernel(Solver)
<1>0. 0 \in 0..nghost /\ 1 \in 0..nghost /\ perpExtension \in 0..nghost
    BY Ghosts DEF perpExtension
<1>1. /\ \A r \in HDStates : Good(Faces(dir), FaceShape, Written, r)
      /\ \A r \in ExtrapolatePrimVar : Good(Faces(dir), FaceShape, Written, r)
    BY <1>0, FacesExtended, HDStatesGood, PrimStates
<1>2. Fit(Faces(dir)) /\ Fit(Extended(1)) /\ Fit(Extended(perpExtension))
    BY <1>0, FacesExtended, ExtendedFit
<1>3. \A ins : (\A r \in ins : Good(Faces(dir), FaceShape, Written, r)) =>
                  Kernel(Loop(Faces(dir), Face(ins)))
  <2> SUFFICES ASSUME NEW ins, \A r \in ins : Good(Faces(dir), FaceShape, Written, r)
               PROVE Kernel(Loop(Faces(dir), Face(ins)))
      OBVIOUS
  <2> QED BY <1>2, FaceFine, FaceOf, KernelOf
<1>4. /\ Kernel(Loop(Faces(dir), Face(HDStates)))
      /\ Kernel(Loop(Faces(dir), Face(ExtrapolatePrimVar)))
    BY <1>1, <1>3
<1>5. CASE conf.phys # "mhd"
    BY <1>4, <1>5 DEF Solver, HllHD, HllcHD, RoeHD, TvdlfHD, HllDust, Setting, Solves, Options
<1>6. CASE conf.phys = "mhd"
  <2>1. \A k \in 0..nghost : \A r \in MHDStates : Good(Extended(k), FaceShape, Written, r)
      BY <1>6, MHDStatesGood
  <2>2. \A r \in MHDStates \cup HallStates : Good(Extended(perpExtension), FaceShape, Written, r)
      BY <1>0, <2>1, HallStatesGood
  <2>3. conf.emf \in {"arithmetic", "uct0", "uct_contact", "uct_hll", "uct_hlld"}
      BY DEF Setting, Options
  <2>4. Kernel(RoeMHD) /\ Kernel(TvdlfMHD)
      BY <1>0, <1>2, <1>6, <2>1, <2>3, StoreKernel DEF RoeMHD, TvdlfMHD, StoreAll
  <2>5. Kernel(HlldMHD)
      BY <1>0, <1>2, <1>6, <2>1, <2>3, StoreKernel DEF HlldMHD, StoreAll
  <2>6. conf.solver = "hll" => Kernel(HllMHD)
    <3> SUFFICES ASSUME conf.solver = "hll" PROVE Kernel(HllMHD)
        OBVIOUS
    <3>1. conf.emf # "uct_hlld"
        BY DEF Setting, Solves
    <3>2. \A r \in MHDStates : Good(Extended(perpExtension), FaceShape, Written, r)
        BY <1>0, <2>1
    <3> DEFINE ins == MHDStates \cup HallStates
    <3>3. HllMHD = Loop(Extended(perpExtension),
             Face(ins) \cup CASE conf.emf \in {"arithmetic", "uct0"} -> K_StoreEMF(ins)
                              [] conf.emf = "uct_contact" -> K_StoreContact(ins)
                              [] conf.emf = "uct_hll" -> K_StoreHLL(MHDStates))
        BY DEF HllMHD
    <3>4. \A r \in ins : Good(Extended(perpExtension), FaceShape, Written, r)
        BY <2>2
    <3> HIDE DEF ins
    <3>5. CASE conf.emf \in {"arithmetic", "uct0"}
        BY <1>2, <1>6, <3>3, <3>4, <3>5, StoreKernel
    <3>6. CASE conf.emf = "uct_contact"
        BY <1>2, <1>6, <3>3, <3>4, <3>6, StoreKernel
    <3>7. CASE conf.emf = "uct_hll"
        BY <1>2, <1>6, <3>2, <3>3, <3>4, <3>7, StoreKernel
    <3> QED BY <2>3, <3>1, <3>5, <3>6, <3>7
  <2> QED BY <1>6, <2>4, <2>5, <2>6 DEF Solver, Setting, Solves
<1> QED BY <1>5, <1>6

LEMMA CalcFluxKernels == ASSUME Setting PROVE Kernels(CalcFlux)
<1>1. Kernels(<<Solver>>)
    BY SolverKernels, OneKernel
<1>2. Kernels(IF dir = IDIR /\ conf.shock THEN <<FindShock>> ELSE <<>>)
    BY ShockKernel, OneKernel, NoKernel
<1> QED BY <1>1, <1>2, JoinKernels DEF CalcFlux
-----------------------------------------------------------------------------
(* The electromotive force and the field *)

LEMMA FieldToEdge ==
    ASSUME Setting, NEW c \in Dirs, NEW e \in Dirs, NEW b \in Dirs, c # e, c # b, e # b,
           NEW a \in {BXs[c], Et[c], Eb[c], SV[c], Fan[c]}, NEW lo \in Int, NEW hi \in Int, lo + hi = -1
    PROVE Suits(a, Along(b, lo, hi), EdgeShape(e))
<1>1. \A d \in Dirs : At(a, d) - EdgeShape(e)[d] = IF d = b THEN lo + hi ELSE 0
    BY AtFaceOf DEF EdgeShape, Dirs
<1> QED BY <1>1, EdgeSuits

LEMMA JsAllocated ==
    Setting /\ (needExplicitCurrent \/ haveVs) =>
        conf.phys = "mhd" /\ {"J1", "J2", "J3"} \subseteq Allocated
BY AllocatedFluid
   DEF needExplicitCurrent, haveVs, HaveRKL, Evolved, Setting, Consistent, Terms

LEMMA CellToEdge ==
    ASSUME Setting, NEW e \in Dirs, NEW b \in Dirs, b # e, \A d \in Active : d = e \/ d = b
    PROVE Suits("Vc", Along(b, -1, 0), EdgeShape(e))
<1>1. \A d \in Active : At("Vc", d) - EdgeShape(e)[d] = IF d = b THEN -1 + 0 ELSE 0
    BY AtCentre, ActiveDirs DEF EdgeShape, Centres
<1> QED BY <1>1, ActiveDirs, AlongSuits

LEMMA CurrentReads ==
    ASSUME Setting, NEW e \in Dirs, NEW r \in CurrentFrom[Current[e]]
    PROVE \E b \in Dirs :
              /\ r[2] = Along(b, -1, 0) /\ r = <<r[1], r[2]>>
              /\ r[1] = "Vc" \/ \E c \in Active : r[1] = BXs[c]
              /\ Suits(r[1], Along(b, -1, 0), EdgeShape(e))
<1>1. conf.dims \in {1, 2, 3} /\ -1 \in Int /\ 0 \in Int /\ -1 + 0 = -1
    BY ConfType
<1>2. CASE e = 1
  <2>1. CurrentFrom["J1"] =
          CASE conf.dims = 3 -> {<<BXs[2], Along(3, -1, 0)>>, <<BXs[3], Along(2, -1, 0)>>}
            [] conf.dims = 2 -> IF conf.comps = 3 THEN {<<"Vc", Along(2, -1, 0)>>} ELSE {}
            [] conf.dims = 1 -> {}
      BY <1>1, Tuples DEF CurrentFrom, IDIR, JDIR, KDIR
  <2>2. CASE conf.dims = 3
    <3>1. Suits(BXs[2], Along(3, -1, 0), EdgeShape(1)) /\ Suits(BXs[3], Along(2, -1, 0), EdgeShape(1))
        BY FieldToEdge DEF Dirs
    <3> QED BY <1>2, <2>1, <2>2, <3>1, Tuples DEF Active, Dirs
  <2>3. CASE conf.dims = 2
    <3>1. Suits("Vc", Along(2, -1, 0), EdgeShape(1))
        BY <2>3, CellToEdge DEF Active, Dirs
    <3> QED BY <1>2, <2>1, <2>3, <3>1, Tuples DEF Active, Dirs
  <2>4. CASE conf.dims = 1
    BY <1>2, <2>1, <2>4, Tuples
  <2> QED BY <1>1, <2>2, <2>3, <2>4
<1>3. CASE e = 2
  <2>1. CurrentFrom["J2"] =
          CASE conf.dims = 3 -> {<<BXs[1], Along(3, -1, 0)>>, <<BXs[3], Along(1, -1, 0)>>}
            [] conf.dims = 2 -> IF conf.comps = 3 THEN {<<"Vc", Along(1, -1, 0)>>} ELSE {}
            [] conf.dims = 1 -> IF conf.comps = 3 THEN {<<"Vc", Along(1, -1, 0)>>} ELSE {}
      BY <1>1, Tuples DEF CurrentFrom, IDIR, JDIR, KDIR
  <2>2. CASE conf.dims = 3
    <3>1. Suits(BXs[1], Along(3, -1, 0), EdgeShape(2)) /\ Suits(BXs[3], Along(1, -1, 0), EdgeShape(2))
        BY FieldToEdge DEF Dirs
    <3> QED BY <1>3, <2>1, <2>2, <3>1, Tuples DEF Active, Dirs
  <2>3. CASE conf.dims \in {1, 2}
    <3>1. Suits("Vc", Along(1, -1, 0), EdgeShape(2))
        BY <2>3, CellToEdge DEF Active, Dirs
    <3> QED BY <1>3, <2>1, <2>3, <3>1, Tuples DEF Active, Dirs
  <2> QED BY <1>1, <2>2, <2>3
<1>4. CASE e = 3
  <2>1. CurrentFrom["J3"] =
          CASE conf.dims = 3 -> {<<BXs[2], Along(1, -1, 0)>>, <<BXs[1], Along(2, -1, 0)>>}
            [] conf.dims = 2 -> {<<BXs[2], Along(1, -1, 0)>>, <<BXs[1], Along(2, -1, 0)>>}
            [] conf.dims = 1 -> IF conf.comps >= 2 THEN {<<"Vc", Along(1, -1, 0)>>} ELSE {}
      BY <1>1, Tuples DEF CurrentFrom, IDIR, JDIR, KDIR
  <2>2. CASE conf.dims \in {2, 3}
    <3>1. Suits(BXs[2], Along(1, -1, 0), EdgeShape(3)) /\ Suits(BXs[1], Along(2, -1, 0), EdgeShape(3))
        BY FieldToEdge DEF Dirs
    <3> QED BY <1>4, <2>1, <2>2, <3>1, Tuples DEF Active, Dirs
  <2>3. CASE conf.dims = 1
    <3>1. Suits("Vc", Along(1, -1, 0), EdgeShape(3))
        BY <2>3, CellToEdge DEF Active, Dirs
    <3> QED BY <1>4, <2>1, <2>3, <3>1, Tuples DEF Active, Dirs
  <2> QED BY <1>1, <2>2, <2>3
<1> QED BY <1>2, <1>3, <1>4 DEF Dirs

LEMMA CurrentKernels ==
    ASSUME Setting, needExplicitCurrent \/ haveVs PROVE Kernels(CalcCurrent)
<1> DEFINE over == Region(nghost - 1, nghost)
           W == {"J1", "J2", "J3"}
           does == {Set(c, CurrentFrom[c], {}) : c \in W}
<1>1. \A d \in Dirs : /\ over[d] = IF d \in Active THEN <<nghost - 1, nghost>> ELSE <<0, 0>>
                      /\ Wherever[d] = IF d \in Active THEN <<nghost, nghost>> ELSE <<0, 0>>
    BY DEF Region, Wherever
<1>2. Fit(over)
    BY <1>1, Ghosts DEF Fit, Within
<1>3. \A b \in Dirs : IsBox(Along(b, -1, 0)) /\ Inside(over, Along(b, -1, 0))
  <2> SUFFICES ASSUME NEW b \in Dirs PROVE IsBox(Along(b, -1, 0)) /\ Inside(over, Along(b, -1, 0))
      OBVIOUS
  <2>1. \A d \in Dirs : Along(b, -1, 0)[d] = IF d = b /\ d \in Active THEN <<-1, 0>> ELSE <<0, 0>>
      BY DEF Along
  <2> HIDE DEF over
  <2> QED BY <1>1, <2>1, Ghosts DEF IsBox, Inside, Within, Touch
<1>4. \A e \in Dirs : \A r \in CurrentFrom[Current[e]] : Good(over, EdgeShape(e), W, r)
  <2> SUFFICES ASSUME NEW e \in Dirs, NEW r \in CurrentFrom[Current[e]]
               PROVE Good(over, EdgeShape(e), W, r)
      OBVIOUS
  <2>1. PICK b \in Dirs :
              /\ r[2] = Along(b, -1, 0) /\ r = <<r[1], r[2]>>
              /\ r[1] = "Vc" \/ \E c \in Active : r[1] = BXs[c]
              /\ Suits(r[1], Along(b, -1, 0), EdgeShape(e))
      BY CurrentReads
  <2>2. r[1] \in Allocated
      BY <2>1, JsAllocated, AllocatedFluid, AllocatedAlways
  <2>3. r[1] \notin W
      BY <2>1, Tuples, ActiveDirs DEF Dirs
  <2> HIDE DEF over, W
  <2>4. Good(over, EdgeShape(e), W, <<r[1], Along(b, -1, 0)>>)
      BY <1>2, <1>3, <2>1, <2>2, <2>3, GoodRead
  <2> QED BY <2>1, <2>4
<1>5. W = {Current[e] : e \in Dirs}
    BY Tuples DEF Dirs
<1>6. \A s \in does : Fine(over, W, s)
  <2> SUFFICES ASSUME NEW s \in does PROVE Fine(over, W, s)
      OBVIOUS
  <2>1. PICK e \in Dirs : s = Set(Current[e], CurrentFrom[Current[e]], {})
      BY <1>5
  <2>2. s.out = Current[e] /\ s.ins = CurrentFrom[Current[e]] /\ s.out \in W /\ s.out \in Allocated
      BY <1>5, <2>1, Fields, JsAllocated
  <2>3. Shape(s.out) = EdgeShape(e)
      BY <2>2, Shapes
  <2> HIDE DEF over, W
  <2> QED BY <1>4, <2>2, <2>3, FineAt
<1>7. Single(does)
    BY Fields DEF Single
<1>8. CalcCurrent = <<Loop(over, does)>>
    BY DEF CalcCurrent
<1> HIDE DEF over, W, does
<1> QED BY <1>2, <1>6, <1>7, <1>8, KernelOf, OneKernel

\* An edge along e and the two directions across it, a and b.
Crossing(e, a, b) == e \in Edges /\ e \in Dirs /\ a \in Active /\ b \in Active
                     /\ a \in Dirs /\ b \in Dirs /\ a # e /\ b # e /\ a # b

LEMMA AcrossOf ==
    ASSUME Setting, conf.dims >= 2, NEW e \in Edges, NEW x \in Across(e)
    PROVE Crossing(e, x[1], x[2])
<1>1. Edges \subseteq Dirs /\ (conf.dims < 3 => e = 3)
    BY ConfType DEF Edges, Dirs, KDIR
<1>2. x[1] \in Dirs /\ x[2] \in Dirs /\ x[1] # e /\ x[2] # e /\ x[1] # x[2]
    BY DEF Across
<1>3. \A d \in Dirs : d # e => d \in Active
    BY <1>1, ConfType DEF Active, Dirs
<1> QED BY <1>1, <1>2, <1>3 DEF Crossing

LEMMA OnFacesOf ==
    ASSUME Setting, NEW e, NEW a, NEW b, Crossing(e, a, b)
    PROVE /\ OnFaces(e, a) \in {Et[a], Eb[a]} /\ OnFaces(e, a) \in {"ezi", "ezj", "eyi", "eyk", "exj", "exk"}
          /\ conf.phys = "mhd" => OnFaces(e, a) \in Allocated
<1>0. e # 3 => conf.dims = 3
    BY DEF Crossing, Edges, KDIR
<1>1. CASE e = 1
    BY <1>0, <1>1, Tuples, AllocatedEMF DEF Crossing, OnFaces, Dirs, IDIR, JDIR, KDIR
<1>2. CASE e = 2
    BY <1>0, <1>2, Tuples, AllocatedEMF DEF Crossing, OnFaces, Dirs, IDIR, JDIR, KDIR
<1>3. CASE e = 3
    BY <1>3, Tuples, AllocatedEMF DEF Crossing, OnFaces, Dirs, IDIR, JDIR, KDIR
<1> QED BY <1>1, <1>2, <1>3 DEF Crossing, Dirs

OnEdges == {Edge[1], Edge[2], Edge[3]}

LEMMA OnEdgesOf ==
    \A e \in Edges : e \in Dirs /\ Edge[e] \in OnEdges /\ Shape(Edge[e]) = EdgeShape(e)
                     /\ (conf.phys = "mhd" => Edge[e] \in Allocated)
<1> SUFFICES ASSUME NEW e \in Edges
             PROVE e \in Dirs /\ Edge[e] \in OnEdges /\ Shape(Edge[e]) = EdgeShape(e)
                   /\ (conf.phys = "mhd" => Edge[e] \in Allocated)
    OBVIOUS
<1>1. e \in Dirs /\ (e = 3 \/ conf.dims = 3)
    BY DEF Edges, Dirs, KDIR
<1>2. Edge[e] \in OnEdges
    BY <1>1 DEF OnEdges, Dirs
<1>3. conf.phys = "mhd" => Edge[e] \in Allocated
    BY <1>1, Tuples, AllocatedEMF DEF Dirs
<1> QED BY <1>1, <1>2, <1>3, Shapes

LEMMA EdgeRead ==
    ASSUME Setting, NEW e, NEW a, NEW b, Crossing(e, a, b), NEW n \in 1..nghost, NEW W,
           NEW name \in {BXs[a], Et[a], Eb[a], SV[a], Fan[a]}, name \notin W,
           ~Overreach => name \in Allocated
    PROVE Good(AllEdges, EdgeShape(e), W, <<name, Along(b, -n, n - 1)>>)
<1>0. n \in Int /\ -n \in Int /\ n - 1 \in Int /\ -n + (n - 1) = -1 /\ n <= nghost /\ nghost \in Int
    BY Ghosts
<1>1. Suits(name, Along(b, -n, n - 1), EdgeShape(e))
    BY <1>0, FieldToEdge DEF Crossing
<1>2. IsBox(Along(b, -n, n - 1))
    BY <1>0, AlongBox DEF Crossing
<1>3. Inside(AllEdges, Along(b, -n, n - 1))
  <2>1. \A d \in Dirs : /\ AllEdges[d] = IF d \in Active THEN <<0, 1>> ELSE <<0, 0>>
                        /\ Wherever[d] = IF d \in Active THEN <<nghost, nghost>> ELSE <<0, 0>>
                        /\ Along(b, -n, n - 1)[d] = IF d = b /\ d \in Active THEN <<-n, n - 1>> ELSE <<0, 0>>
      BY DEF AllEdges, Wherever, Region, Along
  <2> SUFFICES ASSUME NEW d \in Dirs
               PROVE /\ AllEdges[d][1] - Along(b, -n, n - 1)[d][1] <= Wherever[d][1]
                     /\ AllEdges[d][2] + Along(b, -n, n - 1)[d][2] <= Wherever[d][2]
      BY DEF Inside, Within, Touch
  <2>2. CASE d \in Active /\ d = b
      BY <1>0, <2>1, <2>2
  <2>3. CASE d \in Active /\ d # b
      BY <1>0, <2>1, <2>3, Ghosts
  <2>4. CASE d \notin Active
      BY <2>1, <2>4
  <2> QED BY <2>2, <2>3, <2>4
<1>4. Fit(AllEdges)
    BY Places, NearFit
<1> QED BY <1>1, <1>2, <1>3, <1>4, GoodRead

LEMMA EdgeKernel ==
    ASSUME Setting, conf.phys = "mhd", NEW does,
           \A s \in does : \E e \in Edges :
              s.out = Edge[e] /\ \A r \in s.ins : Good(AllEdges, EdgeShape(e), OnEdges, r),
           Single(does)
    PROVE Kernel(Loop(AllEdges, does))
<1>1. \A s \in does : Fine(AllEdges, OnEdges, s)
    BY OnEdgesOf, FineAt
<1> QED BY <1>1, Places, NearFit, KernelOf

LEMMA EdgeNames == \A e, f \in Edges : Edge[e] = Edge[f] => e = f
BY OnEdgesOf, Tuples DEF Dirs

LEMMA ArithmeticGood ==
    ASSUME Setting, conf.phys = "mhd", conf.dims >= 2, NEW e \in Edges, NEW r \in Arithmetic(e)
    PROVE Good(AllEdges, EdgeShape(e), OnEdges, r)
<1>1. PICK x \in Across(e) : r = <<OnFaces(e, x[1]), Along(x[2], -1, 0)>>
    BY DEF Arithmetic
<1>2. Crossing(e, x[1], x[2])
    BY AcrossOf
<1>3. /\ OnFaces(e, x[1]) \in {BXs[x[1]], Et[x[1]], Eb[x[1]], SV[x[1]], Fan[x[1]]}
      /\ OnFaces(e, x[1]) \notin OnEdges /\ OnFaces(e, x[1]) \in Allocated
    BY <1>2, OnFacesOf, Tuples DEF OnEdges
<1>4. 1 \in 1..nghost /\ 1 - 1 = 0
    BY Ghosts
<1>5. Good(AllEdges, EdgeShape(e), OnEdges, <<OnFaces(e, x[1]), Along(x[2], -1, 1 - 1)>>)
    BY <1>2, <1>3, <1>4, EdgeRead
<1> QED BY <1>1, <1>4, <1>5

LEMMA ArithmeticKernels ==
    ASSUME Setting, conf.phys = "mhd", conf.dims >= 2 PROVE Kernels(CalcArithmeticAverage)
<1> DEFINE does == {Set(Edge[e], Arithmetic(e), Hyperbolic) : e \in Edges}
<1>1. \A s \in does : \E e \in Edges :
         s.out = Edge[e] /\ \A r \in s.ins : Good(AllEdges, EdgeShape(e), OnEdges, r)
    BY ArithmeticGood, Fields
<1>2. Single(does)
    BY EdgeNames, Fields DEF Single
<1>3. CalcArithmeticAverage = <<Loop(AllEdges, does)>>
    BY DEF CalcArithmeticAverage
<1> HIDE DEF does
<1> QED BY <1>1, <1>2, <1>3, EdgeKernel, OneKernel

LEMMA CellsKernels ==
    ASSUME Setting, conf.phys = "mhd" PROVE Kernels(CalcCellCenteredEMF)
<1> DEFINE does == {Set(Cell[e], {<<"Vc", Here>>}, {}) : e \in Edges}
           W == {"Ex1", "Ex2", "Ex3"}
<1>0. Edges \subseteq Dirs
    BY DEF Edges, Dirs, KDIR
<1>1. Fit(Wherever)
    BY Ghosts DEF Fit, Within, Wherever, Region
<1>2. Good(Wherever, CentreShape, W, <<"Vc", Here>>)
  <2>1. Inside(Wherever, Here) /\ IsBox(Here)
    <3>1. \A d \in Dirs : Wherever[d][1] \in Int /\ Wherever[d][2] \in Int
        BY <1>1 DEF Fit
    <3> QED BY <3>1, HereOf DEF Inside, Within, Touch, IsBox
  <2>2. Suits("Vc", Here, CentreShape)
      BY CentreToCentre DEF Centres
  <2> HIDE DEF W
  <2> QED BY <1>1, <2>1, <2>2, AllocatedAlways, GoodRead
<1>3. \A e \in Edges : Cell[e] \in W /\ Cell[e] \in Allocated /\ Shape(Cell[e]) = CentreShape
    BY <1>0, Tuples, AllocatedEMF, Shapes DEF Dirs, Centres
<1>4. \A s \in does : Fine(Wherever, W, s)
  <2> SUFFICES ASSUME NEW s \in does PROVE Fine(Wherever, W, s)
      OBVIOUS
  <2>1. s.out \in W /\ s.out \in Allocated /\ Shape(s.out) = CentreShape /\ s.ins = {<<"Vc", Here>>}
      BY <1>3, Fields
  <2> HIDE DEF W, does
  <2> QED BY <1>2, <2>1, FineAt
<1>5. Single(does)
  <2>1. \A e, f \in Edges : Cell[e] = Cell[f] => e = f
      BY <1>0, Tuples DEF Dirs
  <2>2. \A s \in does : \E e \in Edges : s = Set(Cell[e], {<<"Vc", Here>>}, {}) /\ s.out = Cell[e]
    <3>1. \A e \in Edges : Set(Cell[e], {<<"Vc", Here>>}, {}).out = Cell[e]
        BY Fields
    <3> QED BY <3>1
  <2> SUFFICES ASSUME NEW s \in does, NEW t \in does, s.out = t.out PROVE s = t
      BY DEF Single
  <2>3. PICK e \in Edges : s = Set(Cell[e], {<<"Vc", Here>>}, {}) /\ s.out = Cell[e]
      BY <2>2
  <2>4. PICK f \in Edges : t = Set(Cell[f], {<<"Vc", Here>>}, {}) /\ t.out = Cell[f]
      BY <2>2
  <2> QED BY <2>1, <2>3, <2>4
<1>6. CalcCellCenteredEMF = <<Loop(Wherever, does)>>
    BY DEF CalcCellCenteredEMF, Wherever
<1> HIDE DEF does, W
<1> QED BY <1>1, <1>4, <1>5, <1>6, KernelOf, OneKernel

LEMMA CornerGood ==
    ASSUME Setting, conf.phys = "mhd", NEW e, NEW a, NEW b, Crossing(e, a, b)
    PROVE Good(AllEdges, EdgeShape(e), OnEdges, <<Cell[e], Corner(a, b)>>)
<1>1. \A d \in Dirs : Corner(a, b)[d] = IF d \in {a, b} /\ d \in Active THEN <<-1, 0>> ELSE <<0, 0>>
    BY DEF Corner, Along
<1>2. IsBox(Corner(a, b)) /\ Small(Corner(a, b))
    BY <1>1 DEF IsBox, Small
<1>3. Cell[e] \in {"Ex1", "Ex2", "Ex3"} /\ Cell[e] \in Allocated /\ Cell[e] \in Centres /\ Cell[e] \notin OnEdges
    BY Tuples, AllocatedEMF DEF Crossing, Dirs, Centres, OnEdges
<1>4. Suits(Cell[e], Corner(a, b), EdgeShape(e))
  <2>1. \A d \in Active : Corner(a, b)[d] = IF d = e THEN <<0, 0>> ELSE <<-1, 0>>
      BY <1>1, ActiveDirs DEF Crossing, Dirs
  <2>2. \A d \in Active : At(Cell[e], d) - EdgeShape(e)[d] = IF d = e THEN 0 ELSE -1
      BY <1>3, AtCentre, ActiveDirs DEF EdgeShape
  <2> QED BY <2>1, <2>2 DEF Suits
<1> QED BY <1>2, <1>3, <1>4, Places, SmallRead

LEMMA ContactKernels ==
    ASSUME Setting, conf.phys = "mhd", conf.dims >= 2, conf.emf = "uct_contact"
    PROVE Kernels(CalcContactAverage)
<1> DEFINE ins(e) == Arithmetic(e) \cup {<<SV[x[1]], Along(x[2], -1, 0)>> : x \in Across(e)}
                              \cup {<<Cell[e], Corner(x[1], x[2])>> : x \in Across(e)}
           does == {Set(Edge[e], ins(e), Hyperbolic) : e \in Edges}
<1>1. \A e \in Edges : \A r \in ins(e) : Good(AllEdges, EdgeShape(e), OnEdges, r)
  <2> SUFFICES ASSUME NEW e \in Edges, NEW r \in ins(e)
               PROVE Good(AllEdges, EdgeShape(e), OnEdges, r)
      OBVIOUS
  <2>1. CASE r \in Arithmetic(e)
      BY <2>1, ArithmeticGood
  <2>2. ASSUME NEW x \in Across(e), r = <<SV[x[1]], Along(x[2], -1, 0)>>
        PROVE Good(AllEdges, EdgeShape(e), OnEdges, r)
    <3>1. Crossing(e, x[1], x[2])
        BY AcrossOf
    <3>2. SV[x[1]] \notin OnEdges /\ SV[x[1]] \in Allocated
        BY <3>1, Tuples, AllocatedEMF DEF OnEdges, Crossing, Dirs
    <3>3. 1 \in 1..nghost /\ 1 - 1 = 0
        BY Ghosts
    <3>4. Good(AllEdges, EdgeShape(e), OnEdges, <<SV[x[1]], Along(x[2], -1, 1 - 1)>>)
        BY <3>1, <3>2, <3>3, EdgeRead
    <3> QED BY <2>2, <3>3, <3>4
  <2>3. ASSUME NEW x \in Across(e), r = <<Cell[e], Corner(x[1], x[2])>>
        PROVE Good(AllEdges, EdgeShape(e), OnEdges, r)
    <3>1. Crossing(e, x[1], x[2])
        BY AcrossOf
    <3> QED BY <2>3, <3>1, CornerGood
  <2> QED BY <2>1, <2>2, <2>3
<1>2. \A s \in does : \E e \in Edges :
         s.out = Edge[e] /\ \A r \in s.ins : Good(AllEdges, EdgeShape(e), OnEdges, r)
  <2> HIDE DEF ins
  <2> QED BY <1>1, Fields
<1>3. Single(does)
  <2> HIDE DEF ins
  <2> QED BY EdgeNames, Fields DEF Single
<1>4. CalcContactAverage = <<Loop(AllEdges, does)>>
    BY DEF CalcContactAverage
<1> HIDE DEF does
<1> QED BY <1>2, <1>3, <1>4, EdgeKernel, OneKernel

LEMMA FanGood ==
    ASSUME Setting, conf.phys = "mhd", conf.emf \in {"uct_hll", "uct_hlld"},
           NEW e, NEW a, NEW b, Crossing(e, a, b), NEW r \in FromFan(e, a, b)
    PROVE Good(AllEdges, EdgeShape(e), OnEdges, r)
<1>1. PICK n \in 1..nghost : ToEdge(a) = Along(a, -n, n - 1)
    BY Ghosts DEF ToEdge
<1>2. Crossing(e, b, a) /\ 1 \in 1..nghost /\ 1 - 1 = 0
    BY Ghosts DEF Crossing
<1>3. CASE r = <<Fan[a], Along(b, -1, 0)>>
  <2>1. Fan[a] \notin OnEdges /\ Fan[a] \in Allocated
      BY Tuples, AllocatedEMF DEF OnEdges, Crossing, Dirs
  <2>2. Good(AllEdges, EdgeShape(e), OnEdges, <<Fan[a], Along(b, -1, 1 - 1)>>)
      BY <1>2, <2>1, EdgeRead
  <2> QED BY <1>2, <1>3, <2>2
<1>4. CASE r = <<BXs[b], ToEdge(a)>>
  <2>1. BXs[b] \notin OnEdges /\ BXs[b] \in Allocated
      BY Tuples, AllocatedFluid DEF OnEdges, Crossing, Dirs
  <2>2. Good(AllEdges, EdgeShape(e), OnEdges, <<BXs[b], Along(a, -n, n - 1)>>)
      BY <1>2, <2>1, EdgeRead
  <2> QED BY <1>1, <1>4, <2>2
<1>5. CASE r = <<OnFaces(e, b), ToEdge(a)>>
  <2>1. /\ OnFaces(e, b) \in {BXs[b], Et[b], Eb[b], SV[b], Fan[b]}
        /\ OnFaces(e, b) \notin OnEdges /\ OnFaces(e, b) \in Allocated
      BY <1>2, OnFacesOf, Tuples DEF OnEdges
  <2>2. Good(AllEdges, EdgeShape(e), OnEdges, <<OnFaces(e, b), Along(a, -n, n - 1)>>)
      BY <1>2, <2>1, EdgeRead
  <2> QED BY <1>1, <1>5, <2>2
<1> QED BY <1>3, <1>4, <1>5 DEF FromFan

LEMMA RiemannAverageKernels ==
    ASSUME Setting, conf.phys = "mhd", conf.dims >= 2, conf.emf \in {"uct_hll", "uct_hlld"}
    PROVE Kernels(CalcRiemannAverage)
<1> DEFINE ins(e) == <<ExFromX2 \cup ExFromX3, EyFromX1 \cup EyFromX3, EzFromX1 \cup EzFromX2>>[e]
           does == {Set(Edge[e], ins(e), Hyperbolic) : e \in Edges}
<1>0. /\ conf.dims = 3 => Crossing(1, 2, 3) /\ Crossing(1, 3, 2) /\ Crossing(2, 1, 3) /\ Crossing(2, 3, 1)
      /\ Crossing(3, 1, 2) /\ Crossing(3, 2, 1)
    BY ConfType DEF Crossing, Edges, Active, Dirs, KDIR
<1>1. \A e \in Edges : \A r \in ins(e) : Good(AllEdges, EdgeShape(e), OnEdges, r)
  <2> SUFFICES ASSUME NEW e \in Edges, NEW r \in ins(e)
               PROVE Good(AllEdges, EdgeShape(e), OnEdges, r)
      OBVIOUS
  <2>0. e \in Dirs /\ (e # 3 => conf.dims = 3)
      BY DEF Edges, KDIR, Dirs
  <2>1. CASE e = 1
    <3>1. r \in FromFan(1, 2, 3) \/ r \in FromFan(1, 3, 2)
        BY <2>1 DEF ExFromX2, ExFromX3, IDIR, JDIR, KDIR
    <3> QED BY <1>0, <2>0, <2>1, <3>1, FanGood
  <2>2. CASE e = 2
    <3>1. r \in FromFan(2, 1, 3) \/ r \in FromFan(2, 3, 1)
        BY <2>2 DEF EyFromX1, EyFromX3, IDIR, JDIR, KDIR
    <3> QED BY <1>0, <2>0, <2>2, <3>1, FanGood
  <2>3. CASE e = 3
    <3>1. r \in FromFan(3, 1, 2) \/ r \in FromFan(3, 2, 1)
        BY <2>3 DEF EzFromX1, EzFromX2, IDIR, JDIR, KDIR
    <3> QED BY <1>0, <2>3, <3>1, FanGood
  <2> QED BY <2>0, <2>1, <2>2, <2>3 DEF Dirs
<1>2. \A s \in does : \E e \in Edges :
         s.out = Edge[e] /\ \A r \in s.ins : Good(AllEdges, EdgeShape(e), OnEdges, r)
  <2> HIDE DEF ins
  <2> QED BY <1>1, Fields
<1>3. Single(does)
  <2> HIDE DEF ins
  <2> QED BY EdgeNames, Fields DEF Single
<1>4. CalcRiemannAverage = <<Loop(AllEdges, does)>>
    BY DEF CalcRiemannAverage
<1> HIDE DEF does
<1> QED BY <1>2, <1>3, <1>4, EdgeKernel, OneKernel

LEMMA CorrectedKernel ==
    ASSUME Setting, conf.phys = "mhd", conf.dims >= 2
    PROVE Kernel(Loop(Region(1, 1), Corrected))
<1> DEFINE W == {"ezi", "ezj", "eyi", "eyk", "exj", "exk"}
           Pairs == {p \in Edges \X Dirs : p[1] # p[2]}
           Out(p) == OnFaces(p[1], p[2])
<1>1. \A p \in Pairs : /\ Out(p) \in W /\ Out(p) \in Allocated
                       /\ Out(p) \in {Et[p[2]], Eb[p[2]]}
                       /\ p[1] \in Dirs /\ p[2] \in Dirs
  <2> SUFFICES ASSUME NEW p \in Pairs
               PROVE /\ Out(p) \in W /\ Out(p) \in Allocated
                     /\ Out(p) \in {Et[p[2]], Eb[p[2]]} /\ p[1] \in Dirs /\ p[2] \in Dirs
      OBVIOUS
  <2>1. p[1] \in Edges /\ p[2] \in Dirs /\ p[1] # p[2] /\ p[1] \in Dirs
      BY OnEdgesOf
  <2>2. \E b \in Dirs : Crossing(p[1], p[2], b)
    <3>1. PICK b \in Dirs : b # p[1] /\ b # p[2]
        BY <2>1 DEF Dirs
    <3>2. <<p[2], b>> \in Across(p[1])
        BY <2>1, <3>1 DEF Across
    <3> QED BY <2>1, <3>1, <3>2, AcrossOf
  <2> QED BY <2>1, <2>2, OnFacesOf
<1>2. \A p, q \in Pairs : Out(p) = Out(q) => p = q
  <2> SUFFICES ASSUME NEW p \in Pairs, NEW q \in Pairs, Out(p) = Out(q) PROVE p = q
      OBVIOUS
  <2>1. p = <<p[1], p[2]>> /\ q = <<q[1], q[2]>> /\ p[1] # p[2] /\ q[1] # q[2]
      OBVIOUS
  <2>2. p[1] \in Dirs /\ p[2] \in Dirs /\ q[1] \in Dirs /\ q[2] \in Dirs
      BY <1>1
  <2>3. p[1] = q[1] /\ p[2] = q[2]
    <3>1. CASE p[1] = 1
        BY <2>1, <2>2, <3>1 DEF OnFaces, Dirs, IDIR, JDIR, KDIR
    <3>2. CASE p[1] = 2
        BY <2>1, <2>2, <3>2 DEF OnFaces, Dirs, IDIR, JDIR, KDIR
    <3>3. CASE p[1] = 3
        BY <2>1, <2>2, <3>3 DEF OnFaces, Dirs, IDIR, JDIR, KDIR
    <3> QED BY <2>2, <3>1, <3>2, <3>3 DEF Dirs
  <2> QED BY <2>1, <2>3
<1>3. \A s \in Corrected : \E p \in Pairs :
         /\ s = Add(Out(p), {<<Cell[p[1]], Along(p[2], -1, 0)>>}, {})
         /\ s.out = Out(p) /\ s.ins = {<<Cell[p[1]], Along(p[2], -1, 0)>>}
  <2> SUFFICES ASSUME NEW s \in Corrected
               PROVE \E p \in Pairs :
                       /\ s = Add(Out(p), {<<Cell[p[1]], Along(p[2], -1, 0)>>}, {})
                       /\ s.out = Out(p) /\ s.ins = {<<Cell[p[1]], Along(p[2], -1, 0)>>}
      OBVIOUS
  <2>1. PICK p \in Pairs : s = Add(Out(p), {<<Cell[p[1]], Along(p[2], -1, 0)>>}, {})
      BY DEF Corrected
  <2>2. s.out = Out(p) /\ s.ins = {<<Cell[p[1]], Along(p[2], -1, 0)>>}
      BY <2>1, Fields
  <2> HIDE DEF Pairs, Out
  <2> QED BY <2>1, <2>2
<1> HIDE DEF Out, Pairs
<1>4. Single(Corrected)
  <2> SUFFICES ASSUME NEW s \in Corrected, NEW t \in Corrected, s.out = t.out PROVE s = t
      BY DEF Single
  <2>1. PICK p \in Pairs : /\ s = Add(Out(p), {<<Cell[p[1]], Along(p[2], -1, 0)>>}, {})
                           /\ s.out = Out(p)
      BY <1>3
  <2>2. PICK q \in Pairs : /\ t = Add(Out(q), {<<Cell[q[1]], Along(q[2], -1, 0)>>}, {})
                           /\ t.out = Out(q)
      BY <1>3
  <2>3. p = q
      BY <1>2, <2>1, <2>2
  <2> QED BY <2>1, <2>2, <2>3
<1>5. \A s \in Corrected : Fine(Region(1, 1), W, s)
  <2> SUFFICES ASSUME NEW s \in Corrected PROVE Fine(Region(1, 1), W, s)
      OBVIOUS
  <2>1. PICK p \in Pairs : s.out = Out(p) /\ s.ins = {<<Cell[p[1]], Along(p[2], -1, 0)>>}
      BY <1>3
  <2>2. PICK d \in Dirs, e \in Dirs : d = p[2] /\ e = p[1]
      BY <1>1
  <2> DEFINE shape == [i \in Dirs |-> IF i = d THEN 1 ELSE 0]
  <2>3. Shape(s.out) = shape
      BY <1>1, <2>1, <2>2, AtFaceOf DEF Shape
  <2>4. Cell[e] \in {"Ex1", "Ex2", "Ex3"} /\ Cell[e] \in Allocated /\ Cell[e] \in Centres /\ Cell[e] \notin W
      BY <2>2, Tuples, AllocatedEMF DEF Dirs, Centres
  <2>5. Suits(Cell[e], Along(d, -1, 0), shape)
    <3>1. \A i \in Active : At(Cell[e], i) - shape[i] = IF i = d THEN -1 + 0 ELSE 0
        BY <2>4, AtCentre, ActiveDirs
    <3> QED BY <3>1, ActiveDirs, AlongSuits
  <2> HIDE DEF shape, W
  <2>6. Good(Region(1, 1), shape, W, <<Cell[e], Along(d, -1, 0)>>)
      BY <2>4, <2>5, Places, AlongBox, SmallRead
  <2>7. s.out \in W /\ s.out \in Allocated
      BY <1>1, <2>1 DEF W
  <2> QED BY <2>1, <2>2, <2>3, <2>6, <2>7, FineAt
<1> HIDE DEF W
<1> QED BY <1>4, <1>5, Places, NearFit, KernelOf

LEMMA CornerKernels ==
    ASSUME Setting, Corners PROVE Kernels(CalcCornerEMF)
<1>0. conf.phys = "mhd" /\ conf.dims >= 2
    BY DEF Corners, Mhd
<1>1. Kernels(CalcUCT0Average)
    BY <1>0, CorrectedKernel, OneKernel, ArithmeticKernels, JoinKernels DEF CalcUCT0Average
<1>2. conf.emf \in {"arithmetic", "uct0", "uct_contact", "uct_hll", "uct_hlld"}
    BY DEF Setting, Options
<1>3. CASE conf.emf = "arithmetic"
    BY <1>0, <1>3, ArithmeticKernels DEF CalcCornerEMF
<1>4. CASE conf.emf = "uct0"
    BY <1>0, <1>1, <1>4, CellsKernels, JoinKernels DEF CalcCornerEMF
<1>5. CASE conf.emf = "uct_contact"
    BY <1>0, <1>5, CellsKernels, ContactKernels, JoinKernels DEF CalcCornerEMF
<1>6. CASE conf.emf \in {"uct_hll", "uct_hlld"}
    BY <1>0, <1>6, RiemannAverageKernels DEF CalcCornerEMF
<1> QED BY <1>2, <1>3, <1>4, <1>5, <1>6

LEMMA DiffusivityGood ==
    ASSUME Setting, NEW e \in Edges, NEW a \in Centres, a \notin OnEdges, NEW status,
           status = "userdef" => a \in Allocated, NEW r \in EdgeDiffusivity(a, status, e)
    PROVE Good(AllEdges, EdgeShape(e), OnEdges, r)
<1> DEFINE box == [d \in Dirs |-> IF d = e THEN <<0, 0>> ELSE Along(d, -1, 0)[d]]
<1>1. r = <<a, box>> /\ a \in Allocated
    BY DEF EdgeDiffusivity
<1>2. \A d \in Dirs : box[d] = IF d # e /\ d \in Active THEN <<-1, 0>> ELSE <<0, 0>>
    BY DEF Along
<1> HIDE DEF box
<1>3. IsBox(box) /\ Small(box)
    BY <1>2 DEF IsBox, Small
<1>4. \A d \in Active : At(a, d) - EdgeShape(e)[d] = IF d = e THEN 0 ELSE -1
    BY AtCentre, ActiveDirs DEF EdgeShape
<1>5. Suits(a, box, EdgeShape(e))
    BY <1>2, <1>4, ActiveDirs DEF Suits
<1> QED BY <1>1, <1>3, <1>5, Places, SmallRead

LEMMA AtField ==
    \A d \in Dirs : /\ At("BX1s", d) = IF d = 1 THEN 1 ELSE 0
                    /\ At("BX2s", d) = IF d = 2 THEN 1 ELSE 0
                    /\ At("BX3s", d) = IF d = 3 THEN 1 ELSE 0
BY AtFaceOf, Tuples DEF Dirs

LEMMA EdgeFieldGood ==
    ASSUME Setting, conf.phys = "mhd", {"J1", "J2", "J3"} \subseteq Allocated,
           NEW e \in Edges, NEW r \in EdgeField(e)
    PROVE Good(AllEdges, EdgeShape(e), OnEdges, r)
<1>0. /\ e \in Dirs /\ (e # 3 => conf.dims = 3) /\ conf.dims \in 1..3
      /\ \A d \in Active : d \in Dirs /\ d <= conf.dims
      /\ \A d \in Dirs : EdgeShape(e)[d] = IF d = e THEN 0 ELSE 1
      /\ -1 \in Int /\ 0 \in Int
    BY ConfType DEF Edges, Dirs, KDIR, Active, EdgeShape
<1>1. /\ "BX1s" \in Allocated /\ (conf.dims >= 2 => "BX2s" \in Allocated)
      /\ (conf.dims = 3 => "BX3s" \in Allocated)
    BY <1>0, AllocatedFluid, Tuples DEF Active
<1>2. {"BX1s", "BX2s", "BX3s", "J1", "J2", "J3", "Vc"} \cap OnEdges = {}
    BY Tuples DEF OnEdges
<1>3. \A a \in {"BX1s", "BX2s", "BX3s", "J1", "J2", "J3", "Vc"} : \A box :
         a \in Allocated /\ IsBox(box) /\ Small(box) /\ Suits(a, box, EdgeShape(e))
            => Good(AllEdges, EdgeShape(e), OnEdges, <<a, box>>)
    BY <1>2, Places, SmallRead
<1>4. \A d \in Dirs : IsBox(Along(d, -1, 0)) /\ Small(Along(d, -1, 0))
    BY <1>0, AlongBox
<1>5. CASE e = 1
  <2>1. /\ Suits("BX1s", Box(<<0, 1>>, <<-1, 0>>, <<-1, 0>>), EdgeShape(e))
        /\ Suits("J2", Box(<<0, 1>>, <<-1, 0>>, <<0, 0>>), EdgeShape(e))
        /\ Suits("J3", Box(<<0, 1>>, <<0, 0>>, <<-1, 0>>), EdgeShape(e))
      BY <1>0, <1>5, AtField, CurrentShapes DEF Suits, Box, Dirs
  <2>2. /\ Suits("BX2s", Along(3, -1, 0), EdgeShape(e))
        /\ Suits("BX3s", Along(2, -1, 0), EdgeShape(e))
      BY <1>0, <1>5, AtField DEF Suits, Along, Dirs
  <2>3. /\ IsBox(Box(<<0, 1>>, <<-1, 0>>, <<-1, 0>>)) /\ Small(Box(<<0, 1>>, <<-1, 0>>, <<-1, 0>>))
        /\ IsBox(Box(<<0, 1>>, <<-1, 0>>, <<0, 0>>)) /\ Small(Box(<<0, 1>>, <<-1, 0>>, <<0, 0>>))
        /\ IsBox(Box(<<0, 1>>, <<0, 0>>, <<-1, 0>>)) /\ Small(Box(<<0, 1>>, <<0, 0>>, <<-1, 0>>))
      BY BoxBox
  <2>4. r \in {<<"BX1s", Box(<<0, 1>>, <<-1, 0>>, <<-1, 0>>)>>,
               <<"BX2s", Along(3, -1, 0)>>, <<"BX3s", Along(2, -1, 0)>>,
               <<"J2", Box(<<0, 1>>, <<-1, 0>>, <<0, 0>>)>>,
               <<"J3", Box(<<0, 1>>, <<0, 0>>, <<-1, 0>>)>>}
      BY <1>5 DEF EdgeField, IDIR, JDIR, KDIR
  <2> QED BY <1>0, <1>1, <1>3, <1>4, <1>5, <2>1, <2>2, <2>3, <2>4 DEF Dirs
<1>6. CASE e = 2
  <2>1. /\ Suits("BX2s", Box(<<-1, 0>>, <<0, 1>>, <<-1, 0>>), EdgeShape(e))
        /\ Suits("J1", Box(<<-1, 0>>, <<0, 1>>, <<0, 0>>), EdgeShape(e))
        /\ Suits("J3", Box(<<0, 0>>, <<0, 1>>, <<-1, 0>>), EdgeShape(e))
      BY <1>0, <1>6, AtField, CurrentShapes DEF Suits, Box, Dirs
  <2>2. /\ Suits("BX1s", Along(3, -1, 0), EdgeShape(e))
        /\ Suits("BX3s", Along(1, -1, 0), EdgeShape(e))
      BY <1>0, <1>6, AtField DEF Suits, Along, Dirs
  <2>3. /\ IsBox(Box(<<-1, 0>>, <<0, 1>>, <<-1, 0>>)) /\ Small(Box(<<-1, 0>>, <<0, 1>>, <<-1, 0>>))
        /\ IsBox(Box(<<-1, 0>>, <<0, 1>>, <<0, 0>>)) /\ Small(Box(<<-1, 0>>, <<0, 1>>, <<0, 0>>))
        /\ IsBox(Box(<<0, 0>>, <<0, 1>>, <<-1, 0>>)) /\ Small(Box(<<0, 0>>, <<0, 1>>, <<-1, 0>>))
      BY BoxBox
  <2>4. r \in {<<"BX1s", Along(3, -1, 0)>>,
               <<"BX2s", Box(<<-1, 0>>, <<0, 1>>, <<-1, 0>>)>>,
               <<"BX3s", Along(1, -1, 0)>>,
               <<"J1", Box(<<-1, 0>>, <<0, 1>>, <<0, 0>>)>>,
               <<"J3", Box(<<0, 0>>, <<0, 1>>, <<-1, 0>>)>>}
      BY <1>6 DEF EdgeField, IDIR, JDIR, KDIR
  <2> QED BY <1>0, <1>1, <1>3, <1>4, <1>6, <2>1, <2>2, <2>3, <2>4 DEF Dirs
<1>7. CASE e = 3
  <2>1. /\ conf.dims = 3 => /\ Suits("BX3s", Box(<<-1, 0>>, <<-1, 0>>, <<0, 1>>), EdgeShape(e))
                            /\ Suits("J1", Box(<<-1, 0>>, <<0, 0>>, <<0, 1>>), EdgeShape(e))
                            /\ Suits("J2", Box(<<0, 0>>, <<-1, 0>>, <<0, 1>>), EdgeShape(e))
        /\ conf.dims < 3 => Suits("Vc", Box(<<-1, 0>>, <<-1, 0>>, <<0, 0>>), EdgeShape(e))
    <3>1. \A d \in Dirs : At("Vc", d) = 0
        BY AtCentre DEF Centres
    <3> QED BY <1>0, <1>7, <3>1, AtField, CurrentShapes DEF Suits, Box, Dirs
  <2>2. /\ Suits("BX1s", Along(2, -1, 0), EdgeShape(e))
        /\ Suits("BX2s", Along(1, -1, 0), EdgeShape(e))
        /\ conf.dims < 3 => /\ Suits("J1", Along(1, -1, 0), EdgeShape(e))
                            /\ Suits("J2", Along(2, -1, 0), EdgeShape(e))
      BY <1>0, <1>7, AtField, CurrentShapes DEF Suits, Along, Dirs
  <2>3. /\ IsBox(Box(<<-1, 0>>, <<-1, 0>>, <<0, 1>>)) /\ Small(Box(<<-1, 0>>, <<-1, 0>>, <<0, 1>>))
        /\ IsBox(Box(<<-1, 0>>, <<0, 0>>, <<0, 1>>)) /\ Small(Box(<<-1, 0>>, <<0, 0>>, <<0, 1>>))
        /\ IsBox(Box(<<0, 0>>, <<-1, 0>>, <<0, 1>>)) /\ Small(Box(<<0, 0>>, <<-1, 0>>, <<0, 1>>))
        /\ IsBox(Box(<<-1, 0>>, <<-1, 0>>, <<0, 0>>)) /\ Small(Box(<<-1, 0>>, <<-1, 0>>, <<0, 0>>))
      BY BoxBox
  <2>4. \/ r = <<"BX1s", Along(2, -1, 0)>>
        \/ conf.dims >= 2 /\ r = <<"BX2s", Along(1, -1, 0)>>
        \/ /\ conf.dims = 3
           /\ r \in {<<"BX3s", Box(<<-1, 0>>, <<-1, 0>>, <<0, 1>>)>>,
                     <<"J1", Box(<<-1, 0>>, <<0, 0>>, <<0, 1>>)>>,
                     <<"J2", Box(<<0, 0>>, <<-1, 0>>, <<0, 1>>)>>}
        \/ /\ conf.dims < 3
           /\ r \in {<<"J1", Along(1, -1, 0)>>, <<"J2", Along(2, -1, 0)>>,
                     <<"Vc", Box(<<-1, 0>>, <<-1, 0>>, <<0, 0>>)>>}
      BY <1>0, <1>7 DEF EdgeField, IDIR, JDIR, KDIR
  <2>5. "Vc" \in Allocated /\ 1 \in Dirs /\ 2 \in Dirs
      BY AllocatedAlways DEF Dirs
  <2> QED BY <1>1, <1>3, <1>4, <2>1, <2>2, <2>3, <2>4, <2>5
<1> QED BY <1>0, <1>5, <1>6, <1>7 DEF Dirs

LEMMA NonidealKernels ==
    ASSUME Setting, needExplicitCurrent \/ haveVs, NEW ohmic, NEW ambipolar
    PROVE Kernels(CalcNonidealEMF(ohmic, ambipolar))
<1> DEFINE
      ins(e) == {<<Current[e], Here>>}
                \cup (IF ohmic THEN EdgeDiffusivity("etaOhmic", conf.terms["ohmic"], e) ELSE {})
                \cup IF ambipolar
                     THEN EdgeField(e) \cup EdgeDiffusivity("xAmbipolar", conf.terms["ambipolar"], e) ELSE {}
      parts == (IF ohmic THEN {<<"ohmic", 0>>} ELSE {})
               \cup IF ambipolar THEN {<<"ambipolar", 0>>} ELSE {}
      does == {Add(Edge[e], ins(e), parts) : e \in Edges}
<1>0. conf.phys = "mhd" /\ {"J1", "J2", "J3"} \subseteq Allocated
    BY JsAllocated
<1>1. \A e \in Edges : \A r \in ins(e) : Good(AllEdges, EdgeShape(e), OnEdges, r)
  <2> SUFFICES ASSUME NEW e \in Edges, NEW r \in ins(e)
               PROVE Good(AllEdges, EdgeShape(e), OnEdges, r)
      OBVIOUS
  <2>1. CASE r = <<Current[e], Here>>
    <3>1. Current[e] \in {"J1", "J2", "J3"} /\ Current[e] \notin OnEdges /\ Shape(Current[e]) = EdgeShape(e)
        BY OnEdgesOf, Tuples, Shapes DEF Dirs, OnEdges
    <3>2. Suits(Current[e], Here, EdgeShape(e))
      <4>1. \A d \in Dirs : At(Current[e], d) = EdgeShape(e)[d] /\ EdgeShape(e)[d] \in Int
          BY <3>1 DEF EdgeShape, Shape
      <4> QED BY <4>1, ActiveDirs, HereSuits
    <3> QED BY <1>0, <2>1, <3>1, <3>2, Places, HereBox, SmallRead
  <2>2. CASE r \in EdgeDiffusivity("etaOhmic", conf.terms["ohmic"], e)
    <3>1. "etaOhmic" \in Centres /\ "etaOhmic" \notin OnEdges
        BY Tuples DEF Centres, OnEdges
    <3> QED BY <2>2, <3>1, AllocatedUser, DiffusivityGood
  <2>3. CASE r \in EdgeDiffusivity("xAmbipolar", conf.terms["ambipolar"], e)
    <3>1. "xAmbipolar" \in Centres /\ "xAmbipolar" \notin OnEdges
        BY Tuples DEF Centres, OnEdges
    <3> QED BY <2>3, <3>1, AllocatedUser, DiffusivityGood
  <2>4. CASE r \in EdgeField(e)
      BY <1>0, <2>4, EdgeFieldGood
  <2> QED BY <2>1, <2>2, <2>3, <2>4
<1> HIDE DEF ins, parts
<1>2. \A s \in does : \E e \in Edges :
         s.out = Edge[e] /\ \A r \in s.ins : Good(AllEdges, EdgeShape(e), OnEdges, r)
    BY <1>1, Fields
<1>3. Single(does)
    BY EdgeNames, Fields DEF Single
<1>4. CalcNonidealEMF(ohmic, ambipolar) = <<Loop(AllEdges, does)>>
    BY DEF CalcNonidealEMF, ins, parts
<1> HIDE DEF does
<1> QED BY <1>0, <1>2, <1>3, <1>4, EdgeKernel, OneKernel

\* The curl at the faces of what the edges around them have.
LEMMA CurlGood ==
    ASSUME Setting, NEW d \in Active, NEW at, at = Edge \/ at = Ve, NEW W,
           \A e \in Edges : at[e] \in Allocated /\ at[e] \notin W,
           NEW r \in Curl(d, at)
    PROVE Good(AllEdges, [i \in Dirs |-> IF i = d THEN 1 ELSE 0], W, r)
<1>1. PICK x \in Across(d) : x[1] \in Edges /\ r = <<at[x[1]], Along(x[2], 0, 1)>>
    BY DEF Curl
<1>2. PICK e \in Dirs, b \in Dirs : e = x[1] /\ b = x[2] /\ e # d /\ b # d /\ e # b
    BY DEF Across
<1>3. d \in Dirs
    BY ActiveDirs
<1> DEFINE shape == [i \in Dirs |-> IF i = d THEN 1 ELSE 0]
<1>4. \A i \in Active : At(at[e], i) - shape[i] = IF i = b THEN 0 + 1 ELSE 0
  <2>1. \A i \in Dirs : At(at[e], i) = IF i = e THEN 0 ELSE 1
      BY AtEdgeOf
  <2>2. \A i \in Dirs : shape[i] = IF i = d THEN 1 ELSE 0
      OBVIOUS
  <2> HIDE DEF shape
  <2> QED BY <1>2, <1>3, <2>1, <2>2, ActiveDirs DEF Dirs
<1> HIDE DEF shape
<1>5. Suits(at[e], Along(b, 0, 1), shape)
    BY <1>4, ActiveDirs, AlongSuits
<1>6. Good(AllEdges, shape, W, <<at[e], Along(b, 0, 1)>>)
    BY <1>1, <1>2, <1>5, AlongBox, Places, SmallRead
<1> QED BY <1>1, <1>2, <1>6 DEF shape

LEMMA FieldShapes ==
    ASSUME NEW f, f = BXs \/ f = dB, NEW d \in Dirs
    PROVE Shape(f[d]) = [i \in Dirs |-> IF i = d THEN 1 ELSE 0]
BY AtFaceOf DEF Shape

LEMMA CurlKernel ==
    ASSUME Setting, NEW f, f = BXs \/ f = dB, NEW at, at = Edge \/ at = Ve,
           \A e \in Edges : at[e] \in Allocated, \A d \in Active : f[d] \in Allocated,
           NEW does,
           \A s \in does : \E d \in Active : s.out = f[d] /\ s.ins = Curl(d, at),
           Single(does)
    PROVE Kernel(Loop(AllEdges, does))
<1> DEFINE W == {f[1], f[2], f[3]}
<1>1. \A e \in Edges : at[e] \notin W
    BY OnEdgesOf, Tuples DEF Dirs
<1>2. \A s \in does : Fine(AllEdges, W, s)
  <2> SUFFICES ASSUME NEW s \in does PROVE Fine(AllEdges, W, s)
      OBVIOUS
  <2>1. PICK d \in Active : s.out = f[d] /\ s.ins = Curl(d, at)
      OBVIOUS
  <2>2. d \in Dirs /\ f[d] \in W
      BY ActiveDirs DEF Dirs
  <2> DEFINE shape == [i \in Dirs |-> IF i = d THEN 1 ELSE 0]
  <2>3. \A r \in s.ins : Good(AllEdges, shape, W, r)
    <3> HIDE DEF W
    <3> QED BY <1>1, <2>1, CurlGood
  <2>4. Shape(s.out) = shape
      BY <2>1, <2>2, FieldShapes
  <2>5. s.out \in W /\ s.out \in Allocated
      BY <2>1, <2>2
  <2> HIDE DEF W, shape
  <2> QED BY <2>3, <2>4, <2>5, FineAt
<1> HIDE DEF W
<1> QED BY <1>2, Places, NearFit, KernelOf

LEMMA FieldNames ==
    ASSUME Setting
    PROVE /\ \A d, c \in Active : BXs[d] = BXs[c] => d = c
          /\ \A d, c \in Active : dB[d] = dB[c] => d = c
BY ActiveDirs, Tuples DEF Dirs

LEMMA MagFieldKernels ==
    ASSUME Setting, conf.phys = "mhd", NEW f, f = BXs \/ (f = dB /\ conf.rkl # {} /\ ~conf.vecpot)
    PROVE Kernels(EvolveMagField(f))
<1> DEFINE does == {Add(f[d], Curl(d, Edge), EdgeParts) : d \in Active}
<1>1. \A e \in Edges : Edge[e] \in Allocated
    BY OnEdgesOf
<1>2. \A d \in Active : f[d] \in Allocated
    BY AllocatedFluid, AllocatedRKL
<1>3. \A s \in does : \E d \in Active : s.out = f[d] /\ s.ins = Curl(d, Edge)
    BY Fields
<1>4. Single(does)
    BY FieldNames, Fields DEF Single
<1>5. EvolveMagField(f) = <<Loop(AllEdges, does)>>
    BY DEF EvolveMagField
<1> HIDE DEF does
<1> QED BY <1>1, <1>2, <1>3, <1>4, <1>5, CurlKernel, OneKernel

LEMMA FromPotentialKernels ==
    ASSUME Setting, conf.vecpot PROVE Kernels(ComputeMagFieldFromA)
<1> DEFINE does == {Set(BXs[d], Curl(d, Ve), EdgeParts) : d \in Active}
<1>0. conf.phys = "mhd"
    BY DEF Setting, Consistent
<1>1. \A e \in Edges : Ve[e] \in Allocated
    BY AllocatedFluid
<1>2. \A d \in Active : BXs[d] \in Allocated
    BY <1>0, AllocatedFluid
<1>3. \A s \in does : \E d \in Active : s.out = BXs[d] /\ s.ins = Curl(d, Ve)
    BY Fields
<1>4. Single(does)
    BY FieldNames, Fields DEF Single
<1>5. ComputeMagFieldFromA = <<Loop(AllEdges, does)>>
    BY DEF ComputeMagFieldFromA
<1> HIDE DEF does
<1> QED BY <1>1, <1>2, <1>3, <1>4, <1>5, CurlKernel, OneKernel

LEMMA PotentialKernels ==
    ASSUME Setting, conf.vecpot, NEW f, f = Ve \/ (f = dA /\ conf.rkl # {})
    PROVE Kernels(EvolveVectorPotential(f))
<1> DEFINE does == {Add(f[e], {<<Edge[e], Here>>}, EdgeParts) : e \in Edges}
           W == {f[1], f[2], f[3]}
<1>0. conf.phys = "mhd"
    BY DEF Setting, Consistent
<1>1. \A e \in Edges : /\ e \in Dirs /\ Edge[e] \in Allocated /\ Edge[e] \notin W
                       /\ f[e] \in Allocated /\ f[e] \in W /\ Shape(f[e]) = EdgeShape(e)
                       /\ Shape(Edge[e]) = EdgeShape(e)
    BY <1>0, OnEdgesOf, AllocatedFluid, AllocatedRKL, Tuples, Shapes DEF Dirs
<1> HIDE DEF W
<1>2. \A s \in does : Fine(AllEdges, W, s)
  <2> SUFFICES ASSUME NEW s \in does PROVE Fine(AllEdges, W, s)
      OBVIOUS
  <2>1. PICK e \in Edges : s = Add(f[e], {<<Edge[e], Here>>}, EdgeParts)
      OBVIOUS
  <2>2. s.out = f[e] /\ s.ins = {<<Edge[e], Here>>}
      BY <2>1, Fields
  <2>3. Suits(Edge[e], Here, EdgeShape(e))
    <3>1. \A d \in Dirs : At(Edge[e], d) = EdgeShape(e)[d] /\ EdgeShape(e)[d] \in Int
        BY <1>1 DEF EdgeShape, Shape
    <3> QED BY <3>1, ActiveDirs, HereSuits
  <2>4. Good(AllEdges, EdgeShape(e), W, <<Edge[e], Here>>)
      BY <1>1, <2>3, Places, HereBox, SmallRead
  <2> QED BY <1>1, <2>2, <2>4, FineAt
<1>3. Single(does)
  <2>1. \A d, e \in Edges : f[d] = f[e] => d = e
      BY OnEdgesOf, Tuples DEF Dirs
  <2> SUFFICES ASSUME NEW s \in does, NEW t \in does, s.out = t.out PROVE s = t
      BY DEF Single
  <2>2. PICK d \in Edges : s = Add(f[d], {<<Edge[d], Here>>}, EdgeParts)
      OBVIOUS
  <2>3. PICK e \in Edges : t = Add(f[e], {<<Edge[e], Here>>}, EdgeParts)
      OBVIOUS
  <2>4. s.out = f[d] /\ t.out = f[e]
      BY <2>2, <2>3, Fields
  <2> QED BY <2>1, <2>2, <2>3, <2>4
<1>4. EvolveVectorPotential(f) = <<Loop(AllEdges, does)>>
    BY DEF EvolveVectorPotential
<1> HIDE DEF does
<1> QED BY <1>2, <1>3, <1>4, Places, NearFit, KernelOf, OneKernel

LEMMA ReconstructKernels ==
    ASSUME Setting, conf.phys = "mhd" PROVE Kernels(ReconstructVcField)
<1> DEFINE ins == {<<BXs[d], Along(d, 0, 1)>> : d \in Active}
           does == {Set("UcField", ins, EdgeParts)}
<1>1. Fit(Wherever)
    BY Ghosts DEF Fit, Within, Wherever, Region
<1>2. \A r \in ins : Good(Wherever, CentreShape, {"UcField"}, r)
  <2> SUFFICES ASSUME NEW d \in Active
               PROVE Good(Wherever, CentreShape, {"UcField"}, <<BXs[d], Along(d, 0, 1)>>)
      OBVIOUS
  <2>1. d \in Dirs /\ BXs[d] \in Allocated /\ BXs[d] # "UcField" /\ BXs[d] \in OnGrid
      BY ActiveDirs, AllocatedFluid, Tuples DEF Dirs, OnGrid, Names
  <2>2. Within(Touch(Wherever, Along(d, 0, 1)), Room(BXs[d]))
    <3>1. Room(BXs[d]) = Region(nghost, nghost + 1)
        BY <2>1 DEF Room
    <3> QED BY <3>1, Ghosts DEF Within, Touch, Wherever, Along, Region
  <2>3. Suits(BXs[d], Along(d, 0, 1), CentreShape)
      BY <2>1, FieldToCentre
  <2> QED BY <2>1, <2>2, <2>3 DEF Good
<1>3. Shape("UcField") = CentreShape /\ "UcField" \in Allocated
    BY Shapes, AllocatedFluid DEF Centres
<1> HIDE DEF ins
<1>4. \A s \in does : Fine(Wherever, {"UcField"}, s)
  <2> SUFFICES ASSUME NEW s \in does PROVE Fine(Wherever, {"UcField"}, s)
      OBVIOUS
  <2>1. s.out = "UcField" /\ s.ins = ins
      BY Fields
  <2> QED BY <1>2, <1>3, <2>1, FineAt
<1>5. Single(does)
    BY DEF Single
<1>6. ReconstructVcField = <<Loop(Wherever, does)>>
    BY DEF ReconstructVcField, Wherever, ins
<1> HIDE DEF does
<1> QED BY <1>1, <1>4, <1>5, <1>6, KernelOf, OneKernel
-----------------------------------------------------------------------------
(* The diffusive terms *)

WherePlaces ==
    /\ Fit(Wherever) /\ IsBox(Here) /\ Inside(Wherever, Here)

LEMMA WhereverFit == WherePlaces
<1>1. \A d \in Dirs : Wherever[d][1] \in Int /\ Wherever[d][2] \in Int
    BY Ghosts DEF Wherever, Region
<1> QED BY <1>1, HereOf DEF WherePlaces, Fit, Inside, Within, Touch, IsBox

\* Cell by cell, over the ghosts as well.
LEMMA LocalKernel ==
    ASSUME Setting, NEW does, NEW W,
           \A s \in does :
              /\ s.out \in W /\ s.out \in Allocated
              /\ \A r \in s.ins : \E a \in Centres : r = <<a, Here>> /\ a \in Allocated /\ s.out \in Centres,
           Single(does)
    PROVE Kernel(Loop(Wherever, does))
<1>1. \A s \in does : Fine(Wherever, W, s)
  <2> SUFFICES ASSUME NEW s \in does PROVE Fine(Wherever, W, s)
      OBVIOUS
  <2>1. ASSUME NEW r \in s.ins PROVE Good(Wherever, Shape(s.out), W, r)
    <3>1. PICK a \in Centres : r = <<a, Here>> /\ a \in Allocated /\ s.out \in Centres
        OBVIOUS
    <3>2. Shape(s.out) = CentreShape
        BY <3>1, Shapes
    <3>3. Suits(a, Here, CentreShape)
      <4>1. 0 \in Int
          OBVIOUS
      <4> QED BY <4>1, CentreToCentre
    <3> QED BY <3>1, <3>2, <3>3, WhereverFit, GoodRead DEF WherePlaces
  <2> QED BY <2>1 DEF Fine
<1> QED BY <1>1, WhereverFit, KernelOf DEF WherePlaces

LEMMA UserKernels ==
    ASSUME Setting, NEW term, NEW arrays, arrays \subseteq Centres \ {"Vc"},
           conf.terms[term] = "userdef" => arrays \subseteq Allocated
    PROVE Kernels(UserDiffusivity(arrays, term))
<1> DEFINE does == {Set(a, {<<"Vc", Here>>}, {}) : a \in arrays}
<1>1. CASE conf.terms[term] = "userdef" /\ dir = IDIR
  <2>1. ASSUME NEW s \in does
        PROVE \E a \in arrays : s = Set(a, {<<"Vc", Here>>}, {}) /\ s.out = a /\ s.ins = {<<"Vc", Here>>}
    <3>1. PICK a \in arrays : s = Set(a, {<<"Vc", Here>>}, {})
        OBVIOUS
    <3>2. s.out = a /\ s.ins = {<<"Vc", Here>>}
        BY <3>1, Fields
    <3> QED BY <3>1, <3>2
  <2>2. Single(does)
      BY <2>1 DEF Single
  <2>3. "Vc" \in Centres /\ "Vc" \in Allocated
      BY AllocatedAlways DEF Centres
  <2>4. UserDiffusivity(arrays, term) = <<Loop(Wherever, does)>>
      BY <1>1 DEF UserDiffusivity
  <2> HIDE DEF does
  <2>5. Kernel(Loop(Wherever, does))
      BY <1>1, <2>1, <2>2, <2>3, LocalKernel
  <2> QED BY <2>4, <2>5, OneKernel
<1>2. CASE ~(conf.terms[term] = "userdef" /\ dir = IDIR)
    BY <1>2, NoKernel DEF UserDiffusivity
<1> QED BY <1>1, <1>2

Fluxes == {"Flux", "dMax", "viscSrc", "bragViscSrc"}

\* What is added to the cells of the domain.
Cells == {"Uc", "UcTracer", "InvDt", "dU"}

LEMMA FacesPlaces ==
    ASSUME Setting PROVE Fit(Faces(dir)) /\ Near(Faces(dir)) /\ Faces(dir) = Extended(0)
BY Places, NearFit, FacesExtended

LEMMA BesideFace ==
    ASSUME Setting, NEW a \in Centres \ Fluxes, a \in Allocated
    PROVE Good(Faces(dir), FaceShape, Fluxes, <<a, Along(dir, -1, 0)>>)
<1>1. 0 \in 0..nghost /\ 1 \in 0..nghost /\ 1 - 1 = 0
    BY Ghosts
<1>2. Good(Extended(0), FaceShape, Fluxes, <<a, Along(dir, -1, 1 - 1)>>)
    BY <1>1, FaceRead
<1> QED BY <1>1, <1>2, FacesPlaces

LEMMA AtFaceGood ==
    ASSUME Setting, NEW arrays, NEW term, arrays \subseteq Centres \ Fluxes,
           conf.terms[term] = "userdef" => arrays \subseteq Allocated,
           NEW r \in AtFace(arrays, term)
    PROVE Good(Faces(dir), FaceShape, Fluxes, r)
<1>1. PICK a \in arrays : r = <<a, Along(dir, -1, 0)>> /\ a \in Allocated
    BY DEF AtFace
<1> QED BY <1>1, BesideFace

LEMMA AtCellGood ==
    ASSUME Setting, NEW arrays, NEW term, arrays \subseteq Centres \ Fluxes,
           conf.terms[term] = "userdef" => arrays \subseteq Allocated,
           NEW r \in AtCell(arrays, term)
    PROVE Good(Faces(dir), CentreShape, Fluxes, r)
<1>1. PICK a \in arrays : r = <<a, Here>> /\ a \in Allocated
    BY DEF AtCell
<1>2. Suits(a, Here, CentreShape)
  <2>1. 0 \in Int
      OBVIOUS
  <2> QED BY <2>1, CentreToCentre
<1> QED BY <1>1, <1>2, FacesPlaces, HereBox, SmallRead

LEMMA FluxKernel ==
    ASSUME Setting, NEW does, Single(does),
           \A s \in does :
              \/ /\ s.out \in {"Flux", "dMax"}
                 /\ \A r \in s.ins : Good(Faces(dir), FaceShape, Fluxes, r)
              \/ /\ s.out \in {"viscSrc", "bragViscSrc"} /\ s.out \in Allocated
                 /\ \A r \in s.ins : Good(Faces(dir), CentreShape, Fluxes, r)
    PROVE Kernel(Loop(Faces(dir), does))
<1>1. /\ \A a \in {"Flux", "dMax"} : Shape(a) = FaceShape /\ a \in Fluxes /\ a \in Allocated
      /\ \A a \in {"viscSrc", "bragViscSrc"} : Shape(a) = CentreShape /\ a \in Fluxes
    BY Shapes, AllocatedAlways DEF OnSweep, Centres, Fluxes
<1>2. \A s \in does : Fine(Faces(dir), Fluxes, s)
    BY <1>1, FineAt
<1> QED BY <1>2, FacesPlaces, KernelOf

LEMMA VcOf == "Vc" \in Centres \ Fluxes /\ "Vc" \in Allocated
BY AllocatedAlways DEF Centres, Fluxes

LEMMA NormalGood == Setting => Good(Faces(dir), FaceShape, Fluxes, Normal)
BY VcOf, BesideFace DEF Normal

LEMMA TransverseGood ==
    ASSUME Setting, NEW e \in Active, e # dir
    PROVE Good(Faces(dir), FaceShape, Fluxes, Transverse(e))
<1> DEFINE box == [d \in Dirs |-> CASE d = dir -> Along(dir, -1, 0)[d]
                                    [] d = e -> Along(e, -1, 1)[d]
                                    [] OTHER -> <<0, 0>>]
<1>1. \A d \in Dirs : box[d] = IF d = dir THEN <<-1, 0>> ELSE IF d = e THEN <<-1, 1>> ELSE <<0, 0>>
    BY ActiveDirs DEF Along
<1>2. Transverse(e) = <<"Vc", box>>
    BY DEF Transverse
<1> HIDE DEF box
<1>3. IsBox(box) /\ Small(box)
    BY <1>1, ActiveDirs DEF IsBox, Small
<1>4. Suits("Vc", box, FaceShape)
    BY <1>1, VcOf, AtCentre, ActiveDirs DEF Suits, FaceShape
<1> QED BY <1>2, <1>3, <1>4, VcOf, FacesPlaces, SmallRead

LEMMA FaceGradientsGood ==
    ASSUME Setting, NEW r \in FaceGradients PROVE Good(Faces(dir), FaceShape, Fluxes, r)
BY NormalGood, TransverseGood DEF FaceGradients

LEMMA CellGradientsGood ==
    ASSUME Setting, NEW r \in CellGradients PROVE Good(Faces(dir), CentreShape, Fluxes, r)
<1>1. PICK d \in Active : r = <<"Vc", Along(d, -1, 1)>>
    BY DEF CellGradients
<1>2. d \in Dirs /\ -1 \in Int /\ 1 \in Int
    BY ActiveDirs
<1>3. Suits("Vc", Along(d, -1, 1), CentreShape)
    BY <1>2, VcOf, CentreToCentre
<1> QED BY <1>1, <1>2, <1>3, AlongBox, VcOf, FacesPlaces, SmallRead

LEMMA CellHereGood == Setting => Good(Faces(dir), CentreShape, Fluxes, <<"Vc", Here>>)
<1> SUFFICES ASSUME Setting PROVE Good(Faces(dir), CentreShape, Fluxes, <<"Vc", Here>>)
    OBVIOUS
<1>1. Suits("Vc", Here, CentreShape)
  <2>1. 0 \in Int
      OBVIOUS
  <2> QED BY <2>1, VcOf, CentreToCentre
<1> QED BY <1>1, VcOf, FacesPlaces, HereBox, SmallRead

LEMMA BragFieldGood ==
    ASSUME Setting, NEW components \in SUBSET Dirs,
           ~Overreach => conf.phys = "mhd" /\ components \subseteq Active,
           NEW r \in BragField(components)
    PROVE Good(Faces(dir), FaceShape, Fluxes, r)
<1>0. \A d \in components \cup {dir} :
        (~Overreach => BXs[d] \in Allocated) /\ BXs[d] \notin Fluxes /\ d \in Dirs
    BY AllocatedFluid, Tuples, ActiveDirs DEF Dirs, Fluxes
<1>1. CASE r = <<BXs[dir], Here>>
  <2>1. Suits(BXs[dir], Here, FaceShape)
      BY ConfType, Shapes, FaceToFace
  <2> QED BY <1>0, <1>1, <2>1, ActiveDirs, FacesPlaces, HereBox, SmallRead
<1>2. ASSUME NEW d \in components \ {dir},
             r = <<BXs[d], [e \in Dirs |-> CASE e = d -> <<0, 1>>
                                      [] e = dir -> Along(dir, -1, 0)[dir]
                                      [] OTHER -> <<0, 0>>]>>
      PROVE Good(Faces(dir), FaceShape, Fluxes, r)
  <2> DEFINE box == [e \in Dirs |-> CASE e = d -> <<0, 1>>
                                      [] e = dir -> Along(dir, -1, 0)[dir]
                                      [] OTHER -> <<0, 0>>]
  <2>1. \A e \in Dirs : box[e] = IF e = d THEN <<0, 1>> ELSE IF e = dir THEN <<-1, 0>> ELSE <<0, 0>>
      BY ActiveDirs DEF Along
  <2>2. r = <<BXs[d], box>>
      BY <1>2
  <2> HIDE DEF box
  <2>3. ~Overreach => IsBox(box) /\ Small(box)
    <3>1. ~Overreach => d \in Active
        OBVIOUS
    <3> QED BY <2>1, <3>1, ActiveDirs DEF IsBox, Small
  <2>4. \A e \in Dirs : At(BXs[d], e) = IF e = d THEN 1 ELSE 0
      BY <1>0, AtFaceOf
  <2>5. Suits(BXs[d], box, FaceShape)
      BY <2>1, <2>4, ActiveDirs DEF Suits, FaceShape
  <2>6. ~Overreach => Fit(Faces(dir)) /\ Inside(Faces(dir), box)
      BY <2>3, FacesPlaces, SmallInside
  <2> QED BY <1>0, <2>2, <2>3, <2>5, <2>6, GoodRead
<1> QED BY <1>1, <1>2 DEF BragField

LEMMA ResetDiffusionKernels == Setting => Kernels(ResetDiffusion)
<1> SUFFICES ASSUME Setting PROVE Kernels(ResetDiffusion)
    OBVIOUS
<1> DEFINE does == {Set("dMax", {}, {})}
<1>1. \A s \in does : s.out = "dMax" /\ s.ins = {}
    BY Fields
<1>2. Single(does)
    BY DEF Single
<1>3. {"dMax"} \subseteq Centres \cup OnSweep /\ "dMax" \in Allocated
    BY AllocatedAlways DEF OnSweep
<1>4. ResetDiffusion = <<Loop(Wherever, does)>>
    BY DEF ResetDiffusion
<1> HIDE DEF does
<1>5. Kernel(Loop(Wherever, does))
    BY <1>1, <1>2, <1>3, LocalKernel
<1> QED BY <1>4, <1>5, OneKernel

LEMMA Coefficients ==
    /\ "etaOhmic" \in Centres \ (Fluxes \cup {"Vc"}) /\ "xAmbipolar" \in Centres \ (Fluxes \cup {"Vc"})
    /\ {"eta1", "eta2"} \subseteq Centres \ (Fluxes \cup {"Vc"})
    /\ {"kappa"} \subseteq Centres \ (Fluxes \cup {"Vc"}) /\ {"etaBrag"} \subseteq Centres \ (Fluxes \cup {"Vc"})
    /\ BragCoefficients \subseteq {"kpar", "knor", "clessAlpha", "clessBeta"}
    /\ {"kpar", "knor", "clessAlpha", "clessBeta"} \subseteq Centres \ (Fluxes \cup {"Vc"})
BY DEF Centres, Fluxes, BragCoefficients

\* A flux and the largest coefficient, from what is at the faces.
LEMMA TwoKernel ==
    ASSUME Setting, NEW s, NEW t, s.out = "Flux", t.out = "dMax",
           \A r \in s.ins : Good(Faces(dir), FaceShape, Fluxes, r),
           \A r \in t.ins : Good(Faces(dir), FaceShape, Fluxes, r)
    PROVE Kernel(Loop(Faces(dir), {s, t}))
<1>1. Single({s, t})
    BY DEF Single
<1> QED BY <1>1, FluxKernel

LEMMA NonIdealFluxKernels ==
    ASSUME Setting, conf.phys = "mhd", {"J1", "J2", "J3"} \subseteq Allocated
    PROVE Kernels(AddNonIdealMHDFlux)
<1> DEFINE
      terms == {t \in {"ohmic", "ambipolar"} : Evolved(t)}
      array(t) == IF t = "ohmic" THEN {"etaOhmic"} ELSE {"xAmbipolar"}
      coefficients == UNION {AtFace(array(t), t) : t \in terms}
      parts == {<<t, 0>> : t \in terms}
      s == Add("Flux", FaceCurrent \cup FaceField \cup coefficients, parts)
      t == Add("dMax", FaceField \cup coefficients, parts)
<1>1. \A r \in coefficients : Good(Faces(dir), FaceShape, Fluxes, r)
  <2> SUFFICES ASSUME NEW x \in terms, NEW r \in AtFace(array(x), x)
               PROVE Good(Faces(dir), FaceShape, Fluxes, r)
      OBVIOUS
  <2>1. CASE x = "ohmic"
    <3>1. r \in AtFace({"etaOhmic"}, "ohmic")
        BY <2>1
    <3> QED BY <3>1, Coefficients, AllocatedUser, AtFaceGood
  <2>2. CASE x = "ambipolar"
    <3>1. r \in AtFace({"xAmbipolar"}, "ambipolar")
        BY <2>2
    <3> QED BY <3>1, Coefficients, AllocatedUser, AtFaceGood
  <2> QED BY <2>1, <2>2
<1>2. \A r \in FaceField : Good(Faces(dir), FaceShape, Fluxes, r)
  <2>1. Good(Faces(dir), FaceShape, Fluxes, <<"Vc", Along(dir, -1, 0)>>)
      BY NormalGood DEF Normal
  <2>2. Good(Faces(dir), FaceShape, Fluxes, <<BXs[dir], Here>>)
      BY ActiveDirs, BragFieldGood DEF BragField
  <2> QED BY <2>1, <2>2 DEF FaceField
<1>3. \A r \in FaceCurrent : Good(Faces(dir), FaceShape, Fluxes, r)
  <2>1. {"J1", "J2", "J3"} \cap Fluxes = {}
      BY DEF Fluxes
  <2> QED BY <2>1, FacesPlaces, FaceCurrentGood
<1>4. s.out = "Flux" /\ s.ins = FaceCurrent \cup FaceField \cup coefficients
    BY Fields
<1>5. t.out = "dMax" /\ t.ins = FaceField \cup coefficients
    BY Fields
<1>6. AddNonIdealMHDFlux = UserDiffusivity({"etaOhmic"}, "ohmic")
        \o UserDiffusivity({"xAmbipolar"}, "ambipolar") \o <<Loop(Faces(dir), {s, t})>>
    BY DEF AddNonIdealMHDFlux
<1>7. Kernels(UserDiffusivity({"etaOhmic"}, "ohmic")) /\ Kernels(UserDiffusivity({"xAmbipolar"}, "ambipolar"))
    BY Coefficients, AllocatedUser, UserKernels
<1> HIDE DEF s, t, coefficients
<1>8. Kernel(Loop(Faces(dir), {s, t}))
    BY <1>1, <1>2, <1>3, <1>4, <1>5, TwoKernel
<1> QED BY <1>6, <1>7, <1>8, OneKernel, JoinKernels

LEMMA DiffuseOf ==
    ASSUME Setting, NEW term, NEW gradients, NEW coefficients,
           \A r \in gradients \cup coefficients : Good(Faces(dir), FaceShape, Fluxes, r)
    PROVE /\ \A s \in Diffuse(term, gradients, coefficients) :
                s.out \in {"Flux", "dMax"} /\ \A r \in s.ins : Good(Faces(dir), FaceShape, Fluxes, r)
          /\ Single(Diffuse(term, gradients, coefficients))
<1> DEFINE s == Add("Flux", gradients \cup coefficients, {<<term, 0>>})
           t == Limiting(term, coefficients)
<1>1. s.out = "Flux" /\ s.ins = gradients \cup coefficients
    BY Fields
<1>2. t.out = "dMax" /\ t.ins = {Normal} \cup coefficients
    BY Fields DEF Limiting, Normal
<1>3. Diffuse(term, gradients, coefficients) = {s, t}
    BY DEF Diffuse
<1> HIDE DEF s, t
<1> QED BY <1>1, <1>2, <1>3, NormalGood DEF Single

\* What a build does not have: nothing is read there but under Overreach.
LEMMA MissingGood ==
    ASSUME Setting, Overreach
    PROVE /\ Good(Faces(dir), FaceShape, Fluxes, <<"noVc", Along(dir, -1, 0)>>)
          /\ Good(Faces(dir), FaceShape, Fluxes, <<"noFlux", Here>>)
          /\ Good(Faces(dir), CentreShape, Fluxes, <<"noVc", Here>>)
          /\ Good(Interior, CentreShape, Cells, <<"noVc", Here>>)
<1>1. "noVc" \in Centres /\ {"noVc", "noFlux"} \cap (Fluxes \cup Cells) = {}
    BY DEF Centres, Fluxes, Cells
<1>2. Suits("noVc", Along(dir, -1, 0), FaceShape)
  <2>1. 1 \in Int /\ 1 - 1 = 0
      OBVIOUS
  <2>2. Suits("noVc", Along(dir, -1, 1 - 1), FaceShape)
      BY <1>1, <2>1, CentreToFace
  <2> QED BY <2>1, <2>2
<1>3. Suits("noFlux", Here, FaceShape)
  <2>1. Shape("noFlux") = FaceShape
      BY Shapes DEF OnSweep
  <2> QED BY <2>1, FaceToFace
<1>4. Suits("noVc", Here, CentreShape)
  <2>1. 0 \in Int
      OBVIOUS
  <2> QED BY <1>1, <2>1, CentreToCentre
<1> QED BY <1>1, <1>2, <1>3, <1>4 DEF Good

LEMMA PressureGood ==
    ASSUME Setting, conf.terms["conduction"] # "no"
    PROVE Good(Faces(dir), FaceShape, Fluxes, <<Pressure, Along(dir, -1, 0)>>)
<1>1. CASE conf.phys = "dust"
  <2>1. Overreach
      BY <1>1 DEF Overreach, ComponentOverreach, Wants
  <2> QED BY <1>1, <2>1, MissingGood DEF Pressure
<1>2. CASE conf.phys # "dust"
    BY <1>2, NormalGood DEF Pressure, Normal
<1> QED BY <1>1, <1>2

LEMMA HeatKernels ==
    ASSUME Setting, conf.terms["conduction"] # "no" PROVE Kernels(AddDiffusiveFlux)
<1> DEFINE gradient == {Normal, <<Pressure, Along(dir, -1, 0)>>}
           does == Diffuse("conduction", gradient, AtFace({"kappa"}, "conduction"))
<1>1. \A r \in gradient \cup AtFace({"kappa"}, "conduction") : Good(Faces(dir), FaceShape, Fluxes, r)
    BY NormalGood, PressureGood, Coefficients, AllocatedUser, AtFaceGood
<1> HIDE DEF gradient
<1>2. Kernel(Loop(Faces(dir), does))
    BY <1>1, DiffuseOf, FluxKernel
<1>3. Kernels(UserDiffusivity({"kappa"}, "conduction"))
    BY Coefficients, AllocatedUser, UserKernels
<1>4. AddDiffusiveFlux = UserDiffusivity({"kappa"}, "conduction") \o <<Loop(Faces(dir), does)>>
    BY DEF AddDiffusiveFlux, gradient
<1> QED BY <1>2, <1>3, <1>4, OneKernel, JoinKernels

LEMMA CurvatureOf ==
    ASSUME Setting, NEW array \in {"viscSrc", "bragViscSrc"}, array \in Allocated, NEW ins,
           conf.geo # "cartesian" => \A r \in ins : Good(Faces(dir), CentreShape, Fluxes, r)
    PROVE /\ \A s \in Curvature(array, ins) :
                s.out = array /\ \A r \in s.ins : Good(Faces(dir), CentreShape, Fluxes, r)
          /\ Single(Curvature(array, ins))
<1>1. CASE conf.geo = "cartesian"
    BY <1>1 DEF Curvature, Single
<1>2. CASE conf.geo # "cartesian"
  <2> DEFINE s == Set(array, ins, {<<array, 0>>})
  <2>1. s.out = array /\ s.ins = ins
      BY Fields
  <2>2. Curvature(array, ins) = {s}
      BY <1>2 DEF Curvature
  <2> HIDE DEF s
  <2> QED BY <1>2, <2>1, <2>2 DEF Single
<1> QED BY <1>1, <1>2

\* The sweep of a stress: what is at the faces, and at the cells for the curvature.
LEMMA StressKernel ==
    ASSUME Setting, NEW fluxes, NEW sources, Single(fluxes), Single(sources),
           \A s \in fluxes :
              s.out \in {"Flux", "dMax"} /\ \A r \in s.ins : Good(Faces(dir), FaceShape, Fluxes, r),
           NEW array \in {"viscSrc", "bragViscSrc"}, array \in Allocated,
           \A s \in sources :
              s.out = array /\ \A r \in s.ins : Good(Faces(dir), CentreShape, Fluxes, r)
    PROVE Kernel(Loop(Faces(dir), fluxes \cup sources))
<1>1. Single(fluxes \cup sources)
    BY DEF Single
<1> QED BY <1>1, FluxKernel

LEMMA EtaGood ==
    ASSUME Setting
    PROVE /\ \A r \in EtaAtFace : Good(Faces(dir), FaceShape, Fluxes, r)
          /\ \A r \in EtaAtCell : Good(Faces(dir), CentreShape, Fluxes, r)
<1>1. conf.terms["viscosity"] = "userdef" => {"eta1", "eta2"} \subseteq Allocated
    BY AllocatedUser
<1> QED BY <1>1, Coefficients, AtFaceGood, AtCellGood DEF EtaAtFace, EtaAtCell

\* Beside a cell, where the coefficients of the user are those of a face.
LEMMA EtaOffGood ==
    ASSUME Setting, conf.geo = "spherical", conf.terms["viscosity"] # "no", NEW r \in EtaAtFace
    PROVE Good(Faces(dir), CentreShape, Fluxes, r)
<1>1. PICK a \in {"eta1", "eta2"} : r = <<a, Along(dir, -1, 0)>> /\ conf.terms["viscosity"] = "userdef"
    BY DEF EtaAtFace, AtFace
<1>2. OffCentre
    BY <1>1 DEF OffCentre
<1>3. IsBox(Along(dir, -1, 0)) /\ Small(Along(dir, -1, 0))
    BY AlongBox, ConfType
<1> QED BY <1>1, <1>2, <1>3, AllocatedUser, Coefficients, FacesPlaces, SmallRead

\* The mean flow at a face.
LEMMA WorkGood ==
    ASSUME Setting, conf.terms["viscosity"] # "no", NEW mean,
           \/ mean = Along(dir, -1, 0)
           \/ mean = Here /\ (conf.geo = "spherical" \/ dir = 2),
           NEW r \in ViscousWork(mean)
    PROVE Good(Faces(dir), FaceShape, Fluxes, r)
<1>1. r = <<"fargoVelocity", mean>> /\ OffMean /\ conf.fargo = "userdef"
    BY DEF ViscousWork
<1>2. "fargoVelocity" \in Centres \ Fluxes /\ "fargoVelocity" \in Allocated
    BY <1>1, AllocatedFluid DEF Centres, Fluxes
<1>3. CASE mean = Along(dir, -1, 0)
    BY <1>1, <1>2, <1>3, BesideFace
<1>4. CASE mean = Here /\ conf.geo = "spherical"
  <2>1. OffCentre
      BY <1>1, <1>4 DEF OffCentre, OffMean
  <2> QED BY <1>1, <1>2, <1>4, <2>1, FacesPlaces, HereBox, SmallRead
<1>5. CASE mean = Here /\ dir = 2 /\ conf.geo # "spherical"
  <2>1. Suits("fargoVelocity", Here, FaceShape)
    <3>1. Azimuth = 2
        BY <1>5 DEF Azimuth, JDIR
    <3>2. \A d \in Active : d # 2 => At("fargoVelocity", d) - FaceShape[d] = 0
        BY <1>2, <1>5, AtCentre, ActiveDirs DEF FaceShape
    <3> QED BY <3>1, <3>2, HereOf, ActiveDirs DEF Suits
  <2> QED BY <1>1, <1>2, <1>5, <2>1, FacesPlaces, HereBox, SmallRead
<1> QED BY <1>3, <1>4, <1>5

LEMMA EnergyFluxGood ==
    ASSUME Setting, conf.terms["viscosity"] # "no", NEW r \in EnergyFlux
    PROVE Good(Faces(dir), FaceShape, Fluxes, r)
<1>1. r = <<"noFlux", Here>> /\ conf.phys = "dust" /\ conf.energy
    BY DEF EnergyFlux
<1>2. Overreach
    BY <1>1 DEF Overreach, ComponentOverreach, Wants
<1> QED BY <1>1, <1>2, MissingGood

LEMMA ViscousStressOf ==
    ASSUME Setting, conf.terms["viscosity"] # "no", NEW mean,
           \/ mean = Along(dir, -1, 0)
           \/ mean = Here /\ (conf.geo = "spherical" \/ dir = 2)
    PROVE /\ \A s \in ViscousStress(mean) :
                s.out \in {"Flux", "dMax"} /\ \A r \in s.ins : Good(Faces(dir), FaceShape, Fluxes, r)
          /\ Single(ViscousStress(mean))
<1> DEFINE parts == {<<"viscosity", 0>>} \cup IF OffMean THEN {<<"deviations", 0>>} ELSE {}
           s == Add("Flux", FaceGradients \cup EtaAtFace \cup ViscousWork(mean) \cup EnergyFlux, parts)
           t == Limiting("viscosity", EtaAtFace)
<1>1. s.out = "Flux" /\ s.ins = FaceGradients \cup EtaAtFace \cup ViscousWork(mean) \cup EnergyFlux
    BY Fields
<1>2. t.out = "dMax" /\ t.ins = {Normal} \cup EtaAtFace
    BY Fields DEF Limiting, Normal
<1>3. ViscousStress(mean) = {s, t}
    BY DEF ViscousStress
<1> HIDE DEF s, t
<1>4. \A r \in s.ins : Good(Faces(dir), FaceShape, Fluxes, r)
    BY <1>1, FaceGradientsGood, EtaGood, WorkGood, EnergyFluxGood
<1>5. \A r \in t.ins : Good(Faces(dir), FaceShape, Fluxes, r)
    BY <1>2, NormalGood, EtaGood
<1>6. Single({s, t})
    BY <1>1, <1>2 DEF Single
<1> QED BY <1>1, <1>2, <1>3, <1>4, <1>5, <1>6

LEMMA ViscousKernels ==
    ASSUME Setting, conf.terms["viscosity"] # "no" PROVE Kernels(AddViscousFlux)
<1> DEFINE does == <<ViscousFluxIDIR, ViscousFluxJDIR, ViscousFluxKDIR>>[dir]
<1>0. "viscSrc" \in Allocated /\ "viscSrc" \in {"viscSrc", "bragViscSrc"}
    BY AllocatedDiffusion
<1>1. /\ \A r \in CellGradients \cup EtaAtCell : Good(Faces(dir), CentreShape, Fluxes, r)
      /\ conf.geo = "spherical" => \A r \in EtaAtFace : Good(Faces(dir), CentreShape, Fluxes, r)
    BY CellGradientsGood, EtaGood, EtaOffGood
<1>2. PICK mean, ins :
        /\ does = ViscousStress(mean) \cup Curvature("viscSrc", ins)
        /\ mean = Along(dir, -1, 0) \/ (mean = Here /\ (conf.geo = "spherical" \/ dir = 2))
        /\ \/ ins = {} \/ ins = CellGradients \cup EtaAtCell
           \/ conf.geo = "spherical" /\ ins = CellGradients \cup EtaAtCell \cup EtaAtFace
  <2>1. CASE dir = 1
    <3>1. CASE conf.geo = "spherical" BY <2>1, <3>1 DEF ViscousFluxIDIR
    <3>2. CASE conf.geo # "spherical"
      <4>1. does = ViscousStress(Along(dir, -1, 0)) \cup Curvature("viscSrc", CellGradients \cup EtaAtCell)
          BY <2>1, <3>2 DEF ViscousFluxIDIR, IDIR
      <4> HIDE DEF does
      <4> QED BY <4>1
    <3> QED BY <3>1, <3>2
  <2>2. CASE dir = 2
    <3>1. CASE conf.geo = "spherical" BY <2>2, <3>1 DEF ViscousFluxJDIR, JDIR
    <3>2. CASE conf.geo # "spherical" BY <2>2, <3>2 DEF ViscousFluxJDIR
    <3> QED BY <3>1, <3>2
  <2>3. CASE dir = 3
    <3>1. CASE conf.geo = "spherical" BY <2>3, <3>1 DEF ViscousFluxKDIR
    <3>2. CASE conf.geo # "spherical"
      <4>1. does = ViscousStress(Along(dir, -1, 0)) \cup Curvature("viscSrc", {})
          BY <2>3, <3>2 DEF ViscousFluxKDIR, KDIR
      <4> HIDE DEF does
      <4> QED BY <4>1
    <3> QED BY <3>1, <3>2
  <2> HIDE DEF does
  <2> QED BY <2>1, <2>2, <2>3, ConfType DEF Dirs
<1>3. \A r \in ins : Good(Faces(dir), CentreShape, Fluxes, r)
    BY <1>1, <1>2
<1> HIDE DEF does
<1>4. /\ \A s \in ViscousStress(mean) :
            s.out \in {"Flux", "dMax"} /\ \A r \in s.ins : Good(Faces(dir), FaceShape, Fluxes, r)
      /\ Single(ViscousStress(mean))
    BY <1>2, ViscousStressOf
<1>5. /\ \A s \in Curvature("viscSrc", ins) :
            s.out = "viscSrc" /\ \A r \in s.ins : Good(Faces(dir), CentreShape, Fluxes, r)
      /\ Single(Curvature("viscSrc", ins))
    BY <1>0, <1>3, CurvatureOf
<1>6. Kernel(Loop(Faces(dir), ViscousStress(mean) \cup Curvature("viscSrc", ins)))
    BY <1>0, <1>4, <1>5, StressKernel
<1>7. Kernels(UserDiffusivity({"eta1", "eta2"}, "viscosity"))
  <2>1. conf.terms["viscosity"] = "userdef" => {"eta1", "eta2"} \subseteq Allocated
      BY AllocatedUser
  <2> QED BY <2>1, Coefficients, UserKernels
<1>8. AddViscousFlux = UserDiffusivity({"eta1", "eta2"}, "viscosity") \o <<Loop(Faces(dir), does)>>
    BY DEF AddViscousFlux, does
<1> QED BY <1>2, <1>6, <1>7, <1>8, OneKernel, JoinKernels

LEMMA BragViscousKernels ==
    ASSUME Setting, conf.phys = "mhd" \/ Overreach, conf.terms["bragViscosity"] # "no"
    PROVE Kernels(AddBragViscousFlux)
<1> DEFINE does == BragStress \cup Curvature("bragViscSrc", CellStress)
<1>0. "bragViscSrc" \in Allocated
    BY AllocatedDiffusion
<1>1. \A r \in CellStress : Good(Faces(dir), CentreShape, Fluxes, r)
  <2>1. conf.geo = "cylindrical" => Good(Faces(dir), CentreShape, Fluxes, <<Velocity(3), Here>>)
    <3>1. CASE conf.comps = 3
        BY <3>1, CellHereGood DEF Velocity
    <3>2. CASE conf.geo = "cylindrical" /\ conf.comps < 3
      <4>1. Overreach
          BY <3>2 DEF Overreach, BragOverreach, Wants
      <4>2. Velocity(3) = "noVc"
          BY <3>2, ConfType DEF Velocity
      <4> QED BY <4>1, <4>2, MissingGood
    <3> QED BY <3>1, <3>2, ConfType
  <2> QED BY <2>1, CellGradientsGood, CellHereGood, AtCellGood, Coefficients, AllocatedUser DEF CellStress
<1>2. /\ \A s \in BragStress :
            s.out \in {"Flux", "dMax"} /\ \A r \in s.ins : Good(Faces(dir), FaceShape, Fluxes, r)
      /\ Single(BragStress)
  <2>1. \A r \in AtFace({"etaBrag"}, "bragViscosity") : Good(Faces(dir), FaceShape, Fluxes, r)
      BY AtFaceGood, Coefficients, AllocatedUser
  <2>2. \A r \in BragField(Active) : Good(Faces(dir), FaceShape, Fluxes, r)
      BY ActiveDirs, BragFieldGood
  <2>3. \A r \in (FaceGradients \cup BragField(Active)) \cup AtFace({"etaBrag"}, "bragViscosity") :
            Good(Faces(dir), FaceShape, Fluxes, r)
      BY <2>1, <2>2, FaceGradientsGood
  <2> QED BY <2>3, DiffuseOf DEF BragStress
<1>3. Kernel(Loop(Faces(dir), does))
    BY <1>0, <1>1, <1>2, CurvatureOf, StressKernel
<1>4. Kernels(UserDiffusivity({"etaBrag"}, "bragViscosity"))
    BY Coefficients, AllocatedUser, UserKernels
<1>5. AddBragViscousFlux = UserDiffusivity({"etaBrag"}, "bragViscosity") \o <<Loop(Faces(dir), does)>>
    BY DEF AddBragViscousFlux
<1> QED BY <1>3, <1>4, <1>5, OneKernel, JoinKernels

\* What leans to one side is Vc near the face.
LEMMA LeaningGood ==
    ASSUME Setting, OffCentre, NEW box, IsBox(box), Small(box)
    PROVE Good(Faces(dir), FaceShape, Fluxes, <<"Vc", box>>)
BY VcOf, FacesPlaces, SmallRead

LEMMA HeatGradientsGood ==
    ASSUME Setting, conf.terms["bragConduction"] # "no",
           NEW r \in <<HeatFluxIDIR, HeatFluxJDIR, HeatFluxKDIR>>[dir]
    PROVE Good(Faces(dir), FaceShape, Fluxes, r)
<1>1. CASE dir \in {1, 3}
    BY <1>1, FaceGradientsGood DEF HeatFluxIDIR, HeatFluxKDIR
<1>2. CASE dir = 2
  <2>1. r \in HeatFluxJDIR
      BY <1>2
  <2>2. 1 \in Active /\ 1 # dir /\ (conf.dims = 3 => 3 \in Active /\ 3 # dir)
      BY <1>2, ConfType DEF Active
  <2>3. \/ r \in {Normal, Transverse(1)}
        \/ conf.dims = 3 /\ ~conf.lim /\ r = Transverse(3)
        \/ conf.dims = 3 /\ conf.lim /\ r = <<"Vc", Box(<<-1, 0>>, <<-1, 0>>, <<0, 1>>)>>
    <3>1. CASE conf.dims < 3
        BY <2>1, <3>1 DEF HeatFluxJDIR, IDIR
    <3>2. CASE conf.dims = 3 /\ ~conf.lim
        BY <2>1, <3>2 DEF HeatFluxJDIR, IDIR, KDIR
    <3>3. CASE conf.dims = 3 /\ conf.lim
        BY <2>1, <3>3 DEF HeatFluxJDIR, IDIR
    <3>4. conf.lim \in BOOLEAN
        BY DEF Setting, Options
    <3> QED BY <3>1, <3>2, <3>3, <3>4, ConfType
  <2>4. CASE r \in {Normal, Transverse(1)}
      BY <2>2, <2>4, NormalGood, TransverseGood
  <2>5. CASE conf.dims = 3 /\ ~conf.lim /\ r = Transverse(3)
      BY <2>2, <2>5, TransverseGood
  <2>6. CASE conf.dims = 3 /\ conf.lim /\ r = <<"Vc", Box(<<-1, 0>>, <<-1, 0>>, <<0, 1>>)>>
    <3>1. OffCentre
        BY <2>6 DEF OffCentre
    <3>2. /\ IsBox(Box(<<-1, 0>>, <<-1, 0>>, <<0, 1>>))
          /\ Small(Box(<<-1, 0>>, <<-1, 0>>, <<0, 1>>))
        BY BoxBox
    <3> QED BY <2>6, <3>1, <3>2, LeaningGood
  <2> QED BY <2>3, <2>4, <2>5, <2>6
<1> QED BY <1>1, <1>2, ConfType DEF Dirs

LEMMA UpwindGood ==
    ASSUME Setting, conf.terms["bragConduction"] # "no", NEW r \in Upwind
    PROVE Good(Faces(dir), FaceShape, Fluxes, r)
<1>1. conf.cless \in BOOLEAN /\ conf.lim \in BOOLEAN
    BY DEF Setting, Options
<1>2. CASE conf.cless /\ ~conf.lim
    BY <1>2, NormalGood DEF Upwind
<1>3. CASE conf.cless /\ conf.lim
  <2>1. OffCentre
      BY <1>3 DEF OffCentre
  <2>2. r = <<"Vc", Along(dir, -1, 1)>>
      BY <1>3 DEF Upwind
  <2>3. IsBox(Along(dir, -1, 1)) /\ Small(Along(dir, -1, 1))
      BY ConfType, AlongBox
  <2> QED BY <2>1, <2>2, <2>3, LeaningGood
<1>4. conf.cless
    BY DEF Upwind
<1> QED BY <1>1, <1>2, <1>3, <1>4

LEMMA HeatFieldGood ==
    ASSUME Setting, conf.phys = "mhd" \/ Overreach, conf.terms["bragConduction"] # "no",
           NEW r \in HeatField
    PROVE Good(Faces(dir), FaceShape, Fluxes, r)
<1> DEFINE components == IF dir = JDIR THEN 1..conf.comps ELSE Active
<1>1. components \in SUBSET Dirs
    BY ConfType, ActiveDirs DEF Dirs
<1>2. ~Overreach => components \subseteq Active
    BY ConfType DEF Overreach, BragOverreach, Wants, Active, JDIR
<1>3. r \in BragField(components)
    BY DEF HeatField
<1> HIDE DEF components
<1> QED BY <1>1, <1>2, <1>3, BragFieldGood

LEMMA BragHeatKernels ==
    ASSUME Setting, conf.phys = "mhd" \/ Overreach, conf.terms["bragConduction"] # "no"
    PROVE Kernels(AddBragDiffusiveFlux)
<1> DEFINE coefficients == AtFace(BragCoefficients, "bragConduction")
           gradients == <<HeatFluxIDIR, HeatFluxJDIR, HeatFluxKDIR>>[dir]
           s == Add("Flux", gradients \cup HeatField \cup Upwind \cup coefficients,
                    {<<"bragConduction", 0>>})
           t == Set("dMax", {<<"dMax", Here>>, Normal} \cup coefficients,
                    Scaled(mem["dMax"].parts) \cup {<<"bragConduction", 0>>})
<1>1. s.out = "Flux" /\ s.ins = gradients \cup HeatField \cup Upwind \cup coefficients
    BY Fields
<1>2. t.out = "dMax" /\ t.ins = {<<"dMax", Here>>, Normal} \cup coefficients
    BY Fields
<1>3. AddBragDiffusiveFlux =
        UserDiffusivity(BragCoefficients, "bragConduction") \o <<Loop(Faces(dir), {s, t})>>
    BY DEF AddBragDiffusiveFlux
<1>4. \A r \in coefficients : Good(Faces(dir), FaceShape, Fluxes, r)
  <2>1. /\ BragCoefficients \subseteq Centres \ Fluxes
        /\ conf.terms["bragConduction"] = "userdef" => BragCoefficients \subseteq Allocated
      BY Coefficients, AllocatedUser
  <2> QED BY <2>1, AtFaceGood
<1>5. \A r \in gradients : Good(Faces(dir), FaceShape, Fluxes, r)
    BY HeatGradientsGood
<1>6. Good(Faces(dir), FaceShape, Fluxes, <<"dMax", Here>>)
  <2>1. Shape("dMax") = FaceShape /\ "dMax" \in Allocated
      BY Shapes, AllocatedAlways DEF OnSweep
  <2> QED BY <2>1, FaceToFace, FacesPlaces, HereBox, SmallRead
<1> HIDE DEF s, t, gradients, coefficients
<1>7. Kernel(Loop(Faces(dir), {s, t}))
  <2>1. \A r \in s.ins : Good(Faces(dir), FaceShape, Fluxes, r)
      BY <1>1, <1>4, <1>5, HeatFieldGood, UpwindGood
  <2>2. \A r \in t.ins : Good(Faces(dir), FaceShape, Fluxes, r)
      BY <1>2, <1>4, <1>6, NormalGood
  <2> QED BY <1>1, <1>2, <2>1, <2>2, TwoKernel
<1>8. Kernels(UserDiffusivity(BragCoefficients, "bragConduction"))
  <2>1. /\ BragCoefficients \subseteq Centres \ {"Vc"}
        /\ conf.terms["bragConduction"] = "userdef" => BragCoefficients \subseteq Allocated
      BY Coefficients, AllocatedUser
  <2> QED BY <2>1, UserKernels
<1> QED BY <1>3, <1>7, <1>8, OneKernel, JoinKernels
-----------------------------------------------------------------------------
(* The right hand side *)

\* One statement.
LEMMA OneStatement ==
    ASSUME NEW over, Fit(over), NEW s, s.out \in Allocated,
           NEW W, s.out \in W, \A r \in s.ins : Good(over, Shape(s.out), W, r)
    PROVE Kernel(Loop(over, {s}))
<1>1. \A t \in {s} : Fine(over, W, t)
    BY DEF Fine
<1>2. Single({s})
    BY DEF Single
<1> QED BY <1>1, <1>2, KernelOf

LEMMA CellsAre == \A a \in Cells : Shape(a) = CentreShape
BY Shapes DEF Cells, Centres

LEMMA InteriorFit == Near(Interior) /\ Fit(Interior)
BY Places, NearFit

\* A cell takes from an array of the cells what is there.
LEMMA CellRead ==
    ASSUME Setting, NEW a \in Centres \ Cells, a \in Allocated
    PROVE Good(Interior, CentreShape, Cells, <<a, Here>>)
<1>1. Suits(a, Here, CentreShape)
  <2>1. 0 \in Int
      OBVIOUS
  <2> QED BY <2>1, CentreToCentre
<1> QED BY <1>1, InteriorFit, HereBox, SmallRead

\* And from its two faces what the sweep has put there.
LEMMA SweepRead ==
    ASSUME Setting, NEW a \in OnSweep, a \in Allocated
    PROVE Good(Interior, CentreShape, Cells, <<a, Along(dir, 0, 1)>>)
<1>1. a \notin Cells
    BY DEF OnSweep, Cells
<1>2. IsBox(Along(dir, 0, 1)) /\ Small(Along(dir, 0, 1))
    BY ConfType, AlongBox
<1> QED BY <1>1, <1>2, SweepToCentre, InteriorFit, SmallRead

LEMMA MeanAtCell ==
    ASSUME Setting, NEW r \in MeanVelocity(0)
    PROVE Good(Interior, CentreShape, Cells, r)
<1>1. r = <<"fargoVelocity", Along(dir, 0, 0)>> /\ conf.fargo = "userdef"
    BY DEF MeanVelocity
<1>2. "fargoVelocity" \in Centres \ Cells /\ "fargoVelocity" \in Allocated
    BY <1>1, AllocatedFluid DEF Centres, Cells
<1>3. Along(dir, 0, 0) = Here
    BY DEF Along, Here
<1> QED BY <1>1, <1>2, <1>3, CellRead

\* The gradient of the potential is of order four: both ghost cells are there.
LEMMA PotentialAtCell ==
    ASSUME Setting, NEW r \in PotentialForce
    PROVE Good(Interior, CentreShape, Cells, r)
<1>1. CASE r = <<"Vc", Here>>
  <2>1. "Vc" \in Centres \ Cells
      BY DEF Centres, Cells
  <2> QED BY <1>1, <2>1, AllocatedAlways, CellRead
<1>2. CASE conf.potential /\ r = <<"phiP", Along(dir, -2, 2)>>
  <2>1. "phiP" \in Centres \ Cells /\ "phiP" \in Allocated
      BY <1>2, AllocatedFluid DEF Centres, Cells
  <2>2. IsBox(Along(dir, -2, 2))
      BY ConfType, AlongBox
  <2>3. Inside(Interior, Along(dir, -2, 2))
      BY Ghosts DEF Inside, Within, Touch, Interior, Wherever, Region, Along
  <2>4. Suits("phiP", Along(dir, -2, 2), CentreShape)
    <3>1. 2 \in Int
        OBVIOUS
    <3> QED BY <2>1, <3>1, CentreToCentre
  <2> QED BY <1>2, <2>1, <2>2, <2>3, <2>4, InteriorFit, GoodRead
<1> QED BY <1>1, <1>2 DEF PotentialForce

LEMMA SourcesAllocated ==
    /\ CurvatureSource \subseteq {"viscSrc", "bragViscSrc"} /\ CurvatureSource \subseteq Allocated
    /\ RKLSources \subseteq {"viscSrc", "bragViscSrc"} /\ RKLSources \subseteq Allocated
<1>1. /\ Evolved("viscosity") => "viscSrc" \in Allocated
      /\ Evolved("bragViscosity") => "bragViscSrc" \in Allocated
    BY AllocatedDiffusion DEF Evolved
<1>2. CurvatureSource \subseteq {"viscSrc", "bragViscSrc"} /\ CurvatureSource \subseteq Allocated
  <2>1. CASE conf.geo = "cartesian"
      BY <2>1 DEF CurvatureSource
  <2>2. CASE conf.geo # "cartesian" /\ Evolved("viscosity")
      BY <1>1, <2>2 DEF CurvatureSource
  <2>3. CASE conf.geo # "cartesian" /\ ~Evolved("viscosity") /\ Evolved("bragViscosity")
      BY <1>1, <2>3 DEF CurvatureSource
  <2>4. CASE conf.geo # "cartesian" /\ ~Evolved("viscosity") /\ ~Evolved("bragViscosity")
      BY <2>4 DEF CurvatureSource
  <2> QED BY <2>1, <2>2, <2>3, <2>4
<1>3. RKLSources \subseteq {"viscSrc", "bragViscSrc"} /\ RKLSources \subseteq Allocated
  <2> SUFFICES ASSUME NEW a \in RKLSources PROVE a \in {"viscSrc", "bragViscSrc"} /\ a \in Allocated
      OBVIOUS
  <2>1. PICK s \in {<<"viscosity", "viscSrc">>, <<"bragViscosity", "bragViscSrc">>} :
            a = s[2] /\ Evolved(s[1])
      BY DEF RKLSources
  <2> QED BY <1>1, <2>1
<1> QED BY <1>2, <1>3

\* The sources are where they act.
LEMMA SourceRead ==
    ASSUME Setting, NEW a \in {"viscSrc", "bragViscSrc"}, a \in Allocated
    PROVE Good(Interior, CentreShape, Cells, <<a, Here>>)
<1>1. a \in Centres \ Cells
    BY DEF Centres, Cells
<1> QED BY <1>1, CellRead

LEMMA RHSKernels == ASSUME Setting PROVE Kernels(CalcRHS)
<1> DEFINE ins == {<<"Flux", Along(dir, 0, 1)>>} \cup MeanVelocity(0) \cup PotentialForce
                  \cup {<<s, Here>> : s \in CurvatureSource}
                  \cup IF conf.body THEN {<<"bodyForce", Here>>, <<"Vc", Here>>} ELSE {}
           parts == Swept("Flux")
                    \cup {<<p[1], dir>> : p \in MeanParts("fargoBack", "rotationBack")}
                    \cup (UNION {Part(s, dir) : s \in CurvatureSource})
                    \cup (IF conf.potential THEN Part("potential", dir) ELSE {})
                    \cup IF conf.body THEN UNION {Part("body", d) : d \in ForceComponents} ELSE {}
           speeds == {<<"cMax", Along(dir, 0, 1)>>}
                     \cup IF ParabolicTerms THEN {<<"dMax", Along(dir, 0, 1)>>} ELSE {}
           limits == Limits("cMax") \cup IF ParabolicTerms THEN Limits("dMax") ELSE {}
           s == Add("Uc", ins, parts)
           t == Add("InvDt", speeds, limits)
<1>1. CalcRHS = <<Loop(Interior, {s, t})>>
    BY DEF CalcRHS
<1>2. \A r \in ins : Good(Interior, CentreShape, Cells, r)
  <2>1. Good(Interior, CentreShape, Cells, <<"Flux", Along(dir, 0, 1)>>)
      BY SweepRead, AllocatedAlways DEF OnSweep
  <2>2. \A a \in CurvatureSource : Good(Interior, CentreShape, Cells, <<a, Here>>)
      BY SourcesAllocated, SourceRead
  <2>3. conf.body => /\ Good(Interior, CentreShape, Cells, <<"bodyForce", Here>>)
                     /\ Good(Interior, CentreShape, Cells, <<"Vc", Here>>)
    <3>1. {"bodyForce", "Vc"} \subseteq Centres \ Cells
        BY DEF Centres, Cells
    <3> QED BY <3>1, AllocatedFluid, AllocatedAlways, CellRead
  <2> QED BY <2>1, <2>2, <2>3, MeanAtCell, PotentialAtCell
<1>3. \A r \in speeds : Good(Interior, CentreShape, Cells, r)
  <2>1. {"cMax", "dMax"} \subseteq OnSweep
      BY DEF OnSweep
  <2> QED BY <2>1, AllocatedAlways, SweepRead
<1>4. s.out = "Uc" /\ s.ins = ins /\ t.out = "InvDt" /\ t.ins = speeds
    BY Fields
<1> HIDE DEF ins, parts, speeds, limits, s, t
<1>5. \A x \in {s, t} : Fine(Interior, Cells, x)
  <2>1. {"Uc", "InvDt"} \subseteq Cells /\ {"Uc", "InvDt"} \subseteq Allocated
      BY AllocatedAlways DEF Cells
  <2> QED BY <1>2, <1>3, <1>4, <2>1, CellsAre DEF Fine
<1>6. Single({s, t})
    BY <1>4 DEF Single
<1> QED BY <1>1, <1>5, <1>6, InteriorFit, KernelOf, OneKernel

\* RKLegendre::CalcParabolicRHS.
LEMMA ParabolicKernels ==
    ASSUME Setting, conf.rkl # {} PROVE Kernels(CalcParabolicRHS)
<1> DEFINE ins == {<<"Flux", Along(dir, 0, 1)>>} \cup {<<s, Here>> : s \in RKLSources}
           r1 == Add("Flux", {}, {})
           r2 == Add("dU", ins,
                     Swept("Flux") \cup UNION {{<<p[1], dir>> : p \in mem[s].parts} : s \in RKLSources})
           r3 == Add("InvDt", {<<"dMax", Along(dir, 0, 1)>>}, Limits("dMax"))
           third == IF conf.cycle = "rkl" THEN <<Loop(Interior, {r3})>> ELSE <<>>
<1>0. CalcParabolicRHS = (<<Loop(Faces(dir), {r1})>> \o <<Loop(Interior, {r2})>>) \o third
  <2>1. CalcParabolicRHS = <<Loop(Faces(dir), {r1}), Loop(Interior, {r2})>> \o third
      BY DEF CalcParabolicRHS
  <2> HIDE DEF r1, r2, third
  <2>2. <<Loop(Faces(dir), {r1}), Loop(Interior, {r2})>>
            = <<Loop(Faces(dir), {r1})>> \o <<Loop(Interior, {r2})>>
      OBVIOUS
  <2> QED BY <2>1, <2>2
<1>1. /\ r1.out = "Flux" /\ r1.ins = {} /\ r2.out = "dU" /\ r2.ins = ins
      /\ r3.out = "InvDt" /\ r3.ins = {<<"dMax", Along(dir, 0, 1)>>}
    BY Fields
<1>2. \A r \in ins : Good(Interior, CentreShape, Cells, r)
  <2>1. Good(Interior, CentreShape, Cells, <<"Flux", Along(dir, 0, 1)>>)
      BY SweepRead, AllocatedAlways DEF OnSweep
  <2>2. \A a \in RKLSources : Good(Interior, CentreShape, Cells, <<a, Here>>)
      BY SourcesAllocated, SourceRead
  <2> QED BY <2>1, <2>2
<1>3. Good(Interior, CentreShape, Cells, <<"dMax", Along(dir, 0, 1)>>)
    BY SweepRead, AllocatedAlways DEF OnSweep
<1>4. /\ {"Flux", "dU", "InvDt"} \subseteq Allocated
      /\ {"dU", "InvDt"} \subseteq Cells
    BY AllocatedAlways, AllocatedRKL DEF Cells
<1> HIDE DEF ins, r1, r2, r3
<1>5. Kernel(Loop(Faces(dir), {r1}))
    BY <1>1, <1>4, FacesPlaces, OneStatement
<1>6. Kernel(Loop(Interior, {r2}))
    BY <1>1, <1>2, <1>4, CellsAre, InteriorFit, OneStatement
<1>7. Kernel(Loop(Interior, {r3}))
    BY <1>1, <1>3, <1>4, CellsAre, InteriorFit, OneStatement
<1>8. Kernels(third)
    BY <1>7, OneKernel, NoKernel
<1> HIDE DEF third
<1> QED BY <1>0, <1>5, <1>6, <1>8, OneKernel, JoinKernels

\* A function that fills one array from nothing, wherever it is.
LEMMA FilledKernel ==
    ASSUME Setting, NEW a \in Allocated, NEW s, s.out = a, s.ins = {}
    PROVE Kernels(<<Loop(Wherever, {s})>>)
<1>1. Kernel(Loop(Wherever, {s}))
    BY WhereverFit, OneStatement DEF WherePlaces
<1> QED BY <1>1, OneKernel

LEMMA ResetFluxKernels == ASSUME Setting PROVE Kernels(ResetFlux)
BY AllocatedAlways, Fields, FilledKernel DEF ResetFlux

LEMMA FargoVelocityKernels == ASSUME Setting PROVE Kernels(GetFargoVelocity)
<1>1. CASE conf.fargo = "userdef"
    BY <1>1, AllocatedFluid, Fields, FilledKernel DEF GetFargoVelocity
<1>2. CASE conf.fargo # "userdef"
    BY <1>2, NoKernel DEF GetFargoVelocity
<1> QED BY <1>1, <1>2

LEMMA CorrectKernels == ASSUME Setting PROVE Kernels(CorrectFlux)
<1> DEFINE s == Add("Flux", MeanVelocity(-1), MeanParts("fargo", "rotation"))
<1>1. s.out = "Flux" /\ s.ins = MeanVelocity(-1)
    BY Fields
<1>2. \A r \in MeanVelocity(-1) : Good(Faces(dir), FaceShape, Fluxes, r)
  <2> SUFFICES ASSUME NEW r \in MeanVelocity(-1) PROVE Good(Faces(dir), FaceShape, Fluxes, r)
      OBVIOUS
  <2>1. r = <<"fargoVelocity", Along(dir, -1, 0)>> /\ conf.fargo = "userdef"
      BY DEF MeanVelocity
  <2>2. "fargoVelocity" \in Centres \ Fluxes /\ "fargoVelocity" \in Allocated
      BY <2>1, AllocatedFluid DEF Centres, Fluxes
  <2> QED BY <2>1, <2>2, BesideFace
<1>3. "Flux" \in Allocated /\ "Flux" \in Fluxes /\ Shape("Flux") = FaceShape
    BY AllocatedAlways, Shapes DEF Fluxes, OnSweep
<1>4. CorrectFlux = GetFargoVelocity \o <<Loop(Faces(dir), {s})>>
    BY DEF CorrectFlux
<1> HIDE DEF s
<1>5. Kernel(Loop(Faces(dir), {s}))
    BY <1>1, <1>2, <1>3, FacesPlaces, OneStatement
<1> QED BY <1>4, <1>5, FargoVelocityKernels, OneKernel, JoinKernels

LEMMA TracerFluxKernels == ASSUME Setting, conf.tracer PROVE Kernels(TracerCalcFlux)
<1> DEFINE ins == {<<"Vc", Along(dir, -2, 1)>>, <<"Flux", Here>>}
           s == Set("FluxTracer", ins, Part("tracer", 0))
           W == {"FluxTracer"}
<1>1. s.out = "FluxTracer" /\ s.ins = ins
    BY Fields
<1>2. Good(Faces(dir), FaceShape, W, <<"Vc", Along(dir, -2, 1)>>)
  <2>1. 0 \in 0..nghost /\ 2 \in 0..nghost /\ 2 - 1 = 1 /\ "Vc" \in Centres \ W
      BY Ghosts DEF Centres
  <2>2. Good(Extended(0), FaceShape, W, <<"Vc", Along(dir, -2, 2 - 1)>>)
      BY <2>1, AllocatedAlways, FaceRead
  <2> QED BY <2>1, <2>2, FacesPlaces
<1>3. Good(Faces(dir), FaceShape, W, <<"Flux", Here>>)
  <2>1. 0 \in 0..nghost /\ Shape("Flux") = FaceShape
      BY Ghosts, Shapes DEF OnSweep
  <2> QED BY <2>1, AllocatedAlways, FacesPlaces, FaceReadHere
<1>4. "FluxTracer" \in Allocated /\ "FluxTracer" \in W /\ Shape("FluxTracer") = FaceShape
    BY AllocatedFluid, Shapes DEF OnSweep
<1>5. TracerCalcFlux = <<Loop(Faces(dir), {s})>>
    BY DEF TracerCalcFlux
<1>6. \A r \in ins : Good(Faces(dir), FaceShape, W, r)
    BY <1>2, <1>3
<1> HIDE DEF s, ins, W
<1>7. Kernel(Loop(Faces(dir), {s}))
    BY <1>1, <1>4, <1>6, FacesPlaces, OneStatement
<1> QED BY <1>5, <1>7, OneKernel

LEMMA TracerKernels == ASSUME Setting, conf.tracer PROVE Kernels(TracerCalcRightHandSide)
<1> DEFINE s == Add("UcTracer", {<<"FluxTracer", Along(dir, 0, 1)>>}, Swept("FluxTracer"))
<1>1. s.out = "UcTracer" /\ s.ins = {<<"FluxTracer", Along(dir, 0, 1)>>}
    BY Fields
<1>2. Good(Interior, CentreShape, Cells, <<"FluxTracer", Along(dir, 0, 1)>>)
    BY AllocatedFluid, SweepRead DEF OnSweep
<1>3. "UcTracer" \in Cells /\ "UcTracer" \in Allocated
    BY AllocatedFluid DEF Cells
<1>4. TracerCalcRightHandSide = <<Loop(Interior, {s})>>
    BY DEF TracerCalcRightHandSide
<1> HIDE DEF s
<1>5. Kernel(Loop(Interior, {s}))
    BY <1>1, <1>2, <1>3, CellsAre, InteriorFit, OneStatement
<1> QED BY <1>4, <1>5, OneKernel

LEMMA SourceKernels == ASSUME Setting PROVE Kernels(AddSourceTerms)
<1> DEFINE ins == {<<"Vc", Here>>}
                  \cup (IF conf.geo = "cartesian" /\ conf.rotation THEN {<<Velocity(2), Here>>} ELSE {})
                  \cup (IF conf.eos = "userdef" THEN {<<"csIso", Here>>} ELSE {})
                  \cup IF conf.fargo = "userdef" /\ conf.geo \in {"polar", "spherical"}
                       THEN {<<"fargoVelocity", Here>>} ELSE {}
           s == Add("Uc", ins, SourceParts)
<1>1. s.out = "Uc" /\ s.ins = ins
    BY Fields
<1>2. \A r \in ins : Good(Interior, CentreShape, Cells, r)
  <2>1. {"Vc", "csIso", "fargoVelocity"} \subseteq Centres \ Cells
      BY DEF Centres, Cells
  <2>2. conf.geo = "cartesian" /\ conf.rotation => Good(Interior, CentreShape, Cells, <<Velocity(2), Here>>)
    <3>1. CASE conf.comps >= 2
        BY <2>1, <3>1, AllocatedAlways, CellRead DEF Velocity
    <3>2. CASE conf.geo = "cartesian" /\ conf.rotation /\ conf.comps = 1
      <4>1. Overreach
          BY <3>2 DEF Overreach, ComponentOverreach
      <4> QED BY <3>2, <4>1, MissingGood DEF Velocity
    <3> QED BY <3>1, <3>2, ConfType
  <2> QED BY <2>1, <2>2, AllocatedAlways, AllocatedFluid, CellRead
<1>3. "Uc" \in Cells /\ "Uc" \in Allocated
    BY AllocatedAlways DEF Cells
<1>4. AddSourceTerms = <<Loop(Interior, {s})>>
    BY DEF AddSourceTerms
<1> HIDE DEF s, ins
<1>5. Kernel(Loop(Interior, {s}))
    BY <1>1, <1>2, <1>3, CellsAre, InteriorFit, OneStatement
<1> QED BY <1>4, <1>5, OneKernel

\* The drag is local: the gas and the dust of a cell exchange momentum there.
LEMMA DragKernels == ASSUME Setting, conf.drag PROVE Kernels(AddDragForce)
<1> DEFINE both == {<<"Vc", Here>>, <<"VcGas", Here>>}
           s == Add("Uc", both, Part("drag", 0))
           t == Add("UcGas", both, Part("drag", 0))
           u == Add("InvDt", {<<"VcGas", Here>>}, Part("drag", 0))
           W == {"Uc", "UcGas", "InvDt"}
<1>1. /\ s.out = "Uc" /\ s.ins = both /\ t.out = "UcGas" /\ t.ins = both
      /\ u.out = "InvDt" /\ u.ins = {<<"VcGas", Here>>}
    BY Fields
<1>2. AddDragForce = <<Loop(Wherever, {s, t, u})>>
    BY DEF AddDragForce
<1> HIDE DEF s, t, u
<1>3. {"Vc", "VcGas", "Uc", "UcGas", "InvDt"} \subseteq Centres \cap Allocated
    BY AllocatedAlways, AllocatedFluid DEF Centres
<1>4. \A x \in {s, t, u} :
        /\ x.out \in W /\ x.out \in Allocated
        /\ \A r \in x.ins : \E a \in Centres : r = <<a, Here>> /\ a \in Allocated /\ x.out \in Centres
    BY <1>1, <1>3
<1>5. Single({s, t, u})
    BY <1>1 DEF Single
<1>6. Kernel(Loop(Wherever, {s, t, u}))
    BY <1>4, <1>5, LocalKernel
<1> QED BY <1>2, <1>6, OneKernel
-----------------------------------------------------------------------------
(* The calls of the stage itself *)

LEMMA DerivativesAllocated ==
    ASSUME Setting, Rkl PROVE Derivatives \subseteq Allocated
<1>1. conf.rkl # {}
    BY DEF Setting, Consistent, Rkl
<1>2. {"dU", "InvDt"} \subseteq Allocated
    BY <1>1, AllocatedAlways, AllocatedRKL
<1>3. CASE haveVs
  <2>1. conf.phys = "mhd"
      BY <1>3, JsAllocated
  <2>2. Names(Edge, Edges) \subseteq Allocated
      BY <2>1, OnEdgesOf DEF Names
  <2>3. conf.vecpot => Names(dA, Edges) \subseteq Allocated
      BY <1>1, <2>1, AllocatedRKL DEF Names
  <2>4. ~conf.vecpot => Names(dB, Active) \subseteq Allocated
      BY <1>1, <2>1, AllocatedRKL DEF Names
  <2> QED BY <1>2, <1>3, <2>2, <2>3, <2>4 DEF Derivatives
<1>4. CASE ~haveVs
    BY <1>2, <1>4 DEF Derivatives
<1> QED BY <1>3, <1>4

LEMMA ResetStageKernels ==
    ASSUME Setting, Rkl
    PROVE Kernels(<<Loop(Wherever, {Set(a, {}, {}) : a \in Derivatives})>>)
<1> DEFINE does == {Set(a, {}, {}) : a \in Derivatives}
<1>1. ASSUME NEW s \in does PROVE \E a \in Derivatives : s = Set(a, {}, {}) /\ s.out = a /\ s.ins = {}
  <2>1. PICK a \in Derivatives : s = Set(a, {}, {})
      OBVIOUS
  <2>2. s.out = a /\ s.ins = {}
      BY <2>1, Fields
  <2> QED BY <2>1, <2>2
<1> HIDE DEF does
<1>2. Single(does)
    BY <1>1 DEF Single
<1>3. \A s \in does : Fine(Wherever, Derivatives, s)
    BY <1>1, DerivativesAllocated DEF Fine
<1>4. Kernel(Loop(Wherever, does))
    BY <1>2, <1>3, WhereverFit, KernelOf DEF WherePlaces
<1> QED BY <1>4, OneKernel DEF does

\* A function of the user, or of the fluid, that changes one array cell by cell.
LEMMA PointwiseKernel ==
    ASSUME Setting, NEW s, s.out \in Centres \cap Allocated, s.ins \subseteq {<<"Vc", Here>>}
    PROVE Kernels(<<Loop(Wherever, {s})>>)
<1>1. "Vc" \in Centres /\ "Vc" \in Allocated
    BY AllocatedAlways DEF Centres
<1>2. Single({s})
    BY DEF Single
<1>3. Kernel(Loop(Wherever, {s}))
    BY <1>1, <1>2, LocalKernel
<1> QED BY <1>3, OneKernel
-----------------------------------------------------------------------------
(* The order of the calls *)

LEMMA LeastOne ==
    ASSUME NEW S \in SUBSET Nat, S # {}
    PROVE \E x \in S : \A y \in S : x <= y
<1> DEFINE R == OpToRel(<, Nat)
<1>1. IsWellFoundedOn(R, Nat)
    BY NatLessThanWellFounded
<1>2. \A x, y \in Nat : x < y => <<x, y>> \in R
    BY DEF OpToRel
<1> HIDE DEF R
<1>3. PICK x \in S : \A y \in S : <<y, x>> \notin R
    BY <1>1, WFMin, Zenon
<1>4. ASSUME NEW y \in S PROVE x <= y
  <2>1. y \in Nat /\ x \in Nat
      OBVIOUS
  <2>2. ~(y < x)
      BY <1>2, <1>3, <2>1, Zenon
  <2> QED BY <2>1, <2>2
<1> QED BY <1>4

Named == {Calls[i] : i \in DOMAIN Calls}

LEMMA CallsOf ==
    /\ DOMAIN Calls = 1..25 /\ Calls[25] = "done"
    /\ \A i \in 1..24 : Calls[i] # "done"
    /\ "done" \in Named /\ "CalcFlux" \in Named /\ "ResetStage" \in Named
BY DEF Calls, Named

LEMMA SweepOf == ~Sweep("done") /\ ~Sweep("ResetStage") /\ Sweep("NextDir") /\ Sweep("CalcFlux")
<1>1. ~Sweep("done") /\ ~Sweep("ResetStage")
    BY DEF Sweep, Calls
<1>2. Calls[18] = "NextDir" /\ Calls[5] = "CalcFlux" /\ 18 \in 5..18 /\ 5 \in 5..18
    BY DEF Calls
<1> QED BY <1>1, <1>2 DEF Sweep

LEMMA DoneWanted == Wanted("done")
BY SweepOf DEF Wanted

\* The call that follows is one that the options ask for.
LEMMA FollowingWanted ==
    ASSUME NEW call \in Named, call # "done"
    PROVE Following(call) \in Named /\ Wanted(Following(call))
<1> DEFINE here == CHOOSE i \in DOMAIN Calls : Calls[i] = call
           after == {i \in DOMAIN Calls : i > here /\ Wanted(Calls[i])}
<1>1. here \in 1..25 /\ Calls[here] = call
  <2>1. \E i \in DOMAIN Calls : Calls[i] = call
      BY DEF Named
  <2> QED BY <2>1, CallsOf
<1>2. Following(call) = Calls[Min(after)]
    BY DEF Following
<1> HIDE DEF here
<1>3. 25 \in after
    BY <1>1, CallsOf, DoneWanted
<1>4. after \in SUBSET Nat
    BY CallsOf
<1>5. \A i \in after : Calls[i] \in Named /\ Wanted(Calls[i])
    BY DEF Named
<1> HIDE DEF after
<1>6. \E x \in after : \A y \in after : x <= y
    BY <1>3, <1>4, LeastOne
<1>7. Min(after) \in after
    BY <1>6 DEF Min
<1> QED BY <1>2, <1>5, <1>7

\* And so is the first.
LEMMA FirstWanted ==
    ASSUME Init
    PROVE /\ pc \in Named /\ Wanted(pc)
          /\ \E i \in DOMAIN Calls : Calls[i] = pc /\ \A j \in 1..(i - 1) : ~Wanted(Calls[j])
<1> DEFINE wanted == {i \in DOMAIN Calls : Wanted(Calls[i])}
           First(c) == \E i \in DOMAIN Calls :
                           /\ Calls[i] = c /\ Wanted(c)
                           /\ \A j \in 1..(i - 1) : ~Wanted(Calls[j])
<1>1. 25 \in wanted /\ wanted \in SUBSET Nat
    BY CallsOf, DoneWanted
<1> HIDE DEF wanted
<1>2. PICK i \in wanted : \A y \in wanted : i <= y
    BY <1>1, LeastOne
<1>3. i \in 1..25 /\ Wanted(Calls[i]) /\ \A j \in 1..(i - 1) : ~Wanted(Calls[j])
    BY <1>2, CallsOf DEF wanted
<1>4. \E c \in Named : First(c)
    BY <1>3, CallsOf DEF Named
<1>5. pc = CHOOSE c \in Named : First(c)
    BY DEF Init, Named
<1>6. pc \in Named /\ First(pc)
    BY <1>4, <1>5
<1> QED BY <1>6
-----------------------------------------------------------------------------
(* A call changes neither the options nor the direction: what fits before it    *)
(* fits after.                                                               *)

LEMMA ActiveSteady == ASSUME conf' = conf, dir' = dir PROVE Active' = Active /\ Edges' = Edges
BY DEF Active, Edges

LEMMA AllocatedSteady == ASSUME conf' = conf PROVE Allocated' = Allocated
<1>1. FluidArrays' = FluidArrays
    BY DEF FluidArrays, Mhd, Active, Edges
<1>2. EMFArrays' = EMFArrays
    BY DEF EMFArrays, Active
<1>3. DiffusionArrays' = DiffusionArrays
    BY DEF DiffusionArrays
<1>4. RKLArrays' = RKLArrays
    BY DEF RKLArrays, Mhd, Active, Edges
<1> QED BY <1>1, <1>2, <1>3, <1>4 DEF Allocated, Mhd

LEMMA PlacesSteady ==
    ASSUME conf' = conf, dir' = dir
    PROVE /\ Azimuth' = Azimuth /\ (Overreach' <=> Overreach) /\ (OffCentre' <=> OffCentre)
          /\ \A a : (Room(a))' = Room(a)
          /\ \A a, d : (At(a, d))' = At(a, d)
<1>1. Azimuth' = Azimuth
    BY DEF Azimuth
<1>2. (Overreach' <=> Overreach) /\ (OffCentre' <=> OffCentre)
    BY DEF Overreach, EdgesOverreach, BragOverreach, ComponentOverreach, Wants, OffCentre
<1>3. \A a : (Room(a))' = Room(a)
    BY DEF Room, Region, Active, nghost
<1>4. \A a, d : (At(a, d))' = At(a, d)
    BY DEF At, Stagger
<1> QED BY <1>1, <1>2, <1>3, <1>4

LEMMA SuitsSteady ==
    ASSUME conf' = conf, dir' = dir, NEW a, NEW box, NEW out
    PROVE (Suits(a, box, Shape(out)))' <=> Suits(a, box, Shape(out))
BY ActiveSteady, PlacesSteady DEF Suits, Shape

LEMMA KernelSteady ==
    ASSUME conf' = conf, dir' = dir, NEW loop, Kernel(loop) PROVE (Kernel(loop))'
<1>1. ~Overreach' =>
        \A s \in loop.does :
            /\ s.out \in Allocated' /\ Within(loop.over, (Room(s.out))')
            /\ \A r \in s.ins : r[1] \in Allocated' /\ Within(Touch(loop.over, r[2]), (Room(r[1]))')
    BY AllocatedSteady, PlacesSteady DEF Kernel
<1>2. ~OffCentre' =>
        \A s \in loop.does : \A r \in s.ins : (Suits(r[1], r[2], Shape(s.out)))'
    BY SuitsSteady, PlacesSteady DEF Kernel
<1>3. \A s, t \in loop.does :
        /\ s.out = t.out => s = t
        /\ \A r \in s.ins : r[1] = t.out => r[2] = Here
    BY DEF Kernel
<1>4. Here' = Here
    BY DEF Here
<1> QED BY <1>1, <1>2, <1>3, <1>4 DEF Kernel

LEMMA KernelsSteady ==
    ASSUME conf' = conf, dir' = dir, NEW loops, Kernels(loops) PROVE (Kernels(loops))'
BY KernelSteady DEF Kernels

LEMMA SettingSteady ==
    ASSUME conf' = conf, dir' = dir, Setting PROVE Setting'
BY DEF Setting, Consistent, Options, Solves

LEMMA WantedSteady ==
    ASSUME conf' = conf, dir' = dir, NEW call, Wanted(call) PROVE (Wanted(call))'
BY DEF Wanted, Sweep, LoopDirs, Rkl, haveVc, haveVs, HaveRKL, needExplicitCurrent, Evolved, Parabolic,
       ParabolicTerms, AddsMean, Corners, Mhd, haveSourceTerms
-----------------------------------------------------------------------------
(* The invariant: the options and the direction are ones that a build can have,  *)
(* what is allocated is what they ask for, the next call is one of theirs, and   *)
(* every kernel of the last one fitted in.                                    *)

StageInv ==
    /\ Setting
    /\ DOMAIN mem = Allocated
    /\ pc \in Named /\ Wanted(pc)
    /\ Kernels(last)

LEMMA InitInv == Init => StageInv
<1> SUFFICES ASSUME Init PROVE StageInv
    OBVIOUS
<1>1. Setting
    BY ConfigsAssumption DEF Init, Setting, Options, IDIR
<1>2. DOMAIN mem = Allocated
    BY DEF Init, Fresh
<1>3. Kernels(last)
    BY NoKernel DEF Init
<1> QED BY <1>1, <1>2, <1>3, FirstWanted DEF StageInv

LEMMA CallStep ==
    ASSUME StageInv, NEW call, NEW loops, call \in Named, call # "done", Kernels(loops), Call(call, loops)
    PROVE StageInv'
<1>1. /\ conf' = conf /\ dir' = dir /\ last' = loops /\ DOMAIN mem' = DOMAIN mem
      /\ pc' = Following(call)
    BY DEF Call, Launch
<1>2. Setting' /\ DOMAIN mem' = Allocated'
    BY <1>1, SettingSteady, AllocatedSteady DEF StageInv
<1>3. (Kernels(last))'
  <2>1. (Kernels(loops))'
      BY <1>1, KernelsSteady
  <2> QED BY <1>1, <2>1 DEF Kernels
<1>4. pc' \in Named' /\ (Wanted(pc))'
  <2>1. PICK next : next = Following(call)
      OBVIOUS
  <2>2. next \in Named /\ Wanted(next)
      BY <2>1, FollowingWanted
  <2>3. (Wanted(next))'
      BY <1>1, <2>2, WantedSteady
  <2>4. Named' = Named
      BY DEF Named, Calls
  <2>5. pc' = next
      BY <1>1, <2>1
  <2> QED BY <2>2, <2>3, <2>4, <2>5 DEF Wanted
<1> QED BY <1>2, <1>3, <1>4 DEF StageInv

LEMMA CallsFit ==
    ASSUME StageInv, Next, ~NextDir, ~NextStage
    PROVE \E call \in Named \ {"done"} : \E loops : Kernels(loops) /\ Call(call, loops)
<1>1. CASE ResetStage
  <2>1. Setting /\ Wanted("ResetStage") /\ "ResetStage" \in Named
      BY <1>1 DEF ResetStage, Call, StageInv
  <2>2. PICK loops : loops = <<Loop(Wherever, {Set(a, {}, {}) : a \in Derivatives})>>
      OBVIOUS
  <2>3. Kernels(<<Loop(Wherever, {Set(a, {}, {}) : a \in Derivatives})>>)
      BY <2>1, ResetStageKernels DEF Wanted
  <2>4. Kernels(loops) /\ Call("ResetStage", loops)
      BY <1>1, <2>2, <2>3 DEF ResetStage
  <2> QED BY <2>1, <2>4
<1>2. CASE Currents
  <2>1. Setting /\ Wanted("CalcCurrent") /\ "CalcCurrent" \in Named
      BY <1>2 DEF Currents, Call, StageInv
  <2>2. PICK loops : loops = CalcCurrent
      OBVIOUS
  <2>3. Kernels(CalcCurrent)
      BY <2>1, CurrentKernels DEF Wanted
  <2>4. Kernels(loops) /\ Call("CalcCurrent", loops)
      BY <1>2, <2>2, <2>3 DEF Currents
  <2> QED BY <2>1, <2>4
<1>3. CASE HallDiffusivity
  <2>1. Setting /\ Wanted("HallDiffusivity") /\ "HallDiffusivity" \in Named
      BY <1>3 DEF HallDiffusivity, Call, StageInv
  <2>2. PICK loops : loops = <<Loop(Wherever, {Set("xHall", {<<"Vc", Here>>}, {})})>>
      OBVIOUS
  <2>3. Kernels(<<Loop(Wherever, {Set("xHall", {<<"Vc", Here>>}, {})})>>)
    <3>1. "xHall" \in Centres \cap Allocated
        BY <2>1, AllocatedFluid DEF Wanted, Centres
    <3> QED BY <2>1, <3>1, Fields, PointwiseKernel
  <2>4. Kernels(loops) /\ Call("HallDiffusivity", loops)
      BY <1>3, <2>2, <2>3 DEF HallDiffusivity
  <2> QED BY <2>1, <2>4
<1>4. CASE Refresh
  <2>1. Setting /\ Wanted("Refresh") /\ "Refresh" \in Named
      BY <1>4 DEF Refresh, Call, StageInv
  <2>2. PICK loops : loops = <<Loop(Wherever, {Set("csIso", {}, {})})>>
      OBVIOUS
  <2>3. Kernels(<<Loop(Wherever, {Set("csIso", {}, {})})>>)
    <3>1. "csIso" \in Allocated
        BY <2>1, AllocatedFluid DEF Wanted
    <3> QED BY <2>1, <3>1, Fields, FilledKernel
  <2>4. Kernels(loops) /\ Call("Refresh", loops)
      BY <1>4, <2>2, <2>3 DEF Refresh
  <2> QED BY <2>1, <2>4
<1>5. CASE RiemannFlux
  <2>1. Setting /\ Wanted("CalcFlux") /\ "CalcFlux" \in Named
      BY <1>5 DEF RiemannFlux, Call, StageInv
  <2>2. PICK loops : loops = IF Rkl THEN ResetFlux ELSE CalcFlux
      OBVIOUS
  <2>3. Kernels(IF Rkl THEN ResetFlux ELSE CalcFlux)
      BY <2>1, ResetFluxKernels, CalcFluxKernels
  <2>4. Kernels(loops) /\ Call("CalcFlux", loops)
      BY <1>5, <2>2, <2>3 DEF RiemannFlux
  <2> QED BY <2>1, <2>4
<1>6. CASE Diffusion
  <2>1. Setting /\ Wanted("ResetDiffusion") /\ "ResetDiffusion" \in Named
      BY <1>6 DEF Diffusion, Call, StageInv
  <2>2. PICK loops : loops = ResetDiffusion
      OBVIOUS
  <2>3. Kernels(ResetDiffusion)
      BY <2>1, ResetDiffusionKernels
  <2>4. Kernels(loops) /\ Call("ResetDiffusion", loops)
      BY <1>6, <2>2, <2>3 DEF Diffusion
  <2> QED BY <2>1, <2>4
<1>7. CASE NonIdealFlux
  <2>1. Setting /\ Wanted("AddNonIdealMHDFlux") /\ "AddNonIdealMHDFlux" \in Named
      BY <1>7 DEF NonIdealFlux, Call, StageInv
  <2>2. PICK loops : loops = AddNonIdealMHDFlux
      OBVIOUS
  <2>3. Kernels(AddNonIdealMHDFlux)
    <3>1. conf.terms["ohmic"] # "no" \/ conf.terms["ambipolar"] # "no"
        BY <2>1 DEF Wanted, Evolved
    <3>2. conf.phys = "mhd"
        BY <2>1, <3>1 DEF Setting, Consistent, Terms
    <3> QED BY <2>1, <3>1, <3>2, AllocatedFluid, NonIdealFluxKernels
  <2>4. Kernels(loops) /\ Call("AddNonIdealMHDFlux", loops)
      BY <1>7, <2>2, <2>3 DEF NonIdealFlux
  <2> QED BY <2>1, <2>4
<1>8. CASE AddVelocityFluid
  <2>1. Setting /\ Wanted("AddVelocityFluid") /\ "AddVelocityFluid" \in Named
      BY <1>8 DEF AddVelocityFluid, Call, StageInv
  <2>2. PICK loops : loops = GetFargoVelocity \o
               <<Loop(Wherever, {Add("Vc", {}, Part("mean", 0))})>>
      OBVIOUS
  <2>3. Kernels(GetFargoVelocity \o
               <<Loop(Wherever, {Add("Vc", {}, Part("mean", 0))})>>)
    <3>1. "Vc" \in Allocated
        BY AllocatedAlways
    <3>2. Kernels(<<Loop(Wherever, {Add("Vc", {}, Part("mean", 0))})>>)
        BY <2>1, <3>1, Fields, FilledKernel
    <3> QED BY <2>1, <3>2, FargoVelocityKernels, JoinKernels
  <2>4. Kernels(loops) /\ Call("AddVelocityFluid", loops)
      BY <1>8, <2>2, <2>3 DEF AddVelocityFluid
  <2> QED BY <2>1, <2>4
<1>9. CASE ViscousFluxes
  <2>1. Setting /\ Wanted("AddViscousFlux") /\ "AddViscousFlux" \in Named
      BY <1>9 DEF ViscousFluxes, Call, StageInv
  <2>2. PICK loops : loops = AddViscousFlux
      OBVIOUS
  <2>3. Kernels(AddViscousFlux)
      BY <2>1, ViscousKernels DEF Wanted, Evolved
  <2>4. Kernels(loops) /\ Call("AddViscousFlux", loops)
      BY <1>9, <2>2, <2>3 DEF ViscousFluxes
  <2> QED BY <2>1, <2>4
<1>10. CASE SubstractVelocityFluid
  <2>1. Setting /\ Wanted("SubstractVelocityFluid") /\ "SubstractVelocityFluid" \in Named
      BY <1>10 DEF SubstractVelocityFluid, Call, StageInv
  <2>2. PICK loops : loops = GetFargoVelocity \o
               <<Loop(Wherever, {Set("Vc", {<<"Vc", Here>>}, mem["Vc"].parts \ Part("mean", 0))})>>
      OBVIOUS
  <2>3. Kernels(GetFargoVelocity \o
               <<Loop(Wherever, {Set("Vc", {<<"Vc", Here>>}, mem["Vc"].parts \ Part("mean", 0))})>>)
    <3>1. "Vc" \in Centres \cap Allocated
        BY AllocatedAlways DEF Centres
    <3>2. Kernels(<<Loop(Wherever, {Set("Vc", {<<"Vc", Here>>}, mem["Vc"].parts \ Part("mean", 0))})>>)
        BY <2>1, <3>1, Fields, PointwiseKernel
    <3> QED BY <2>1, <3>2, FargoVelocityKernels, JoinKernels
  <2>4. Kernels(loops) /\ Call("SubstractVelocityFluid", loops)
      BY <1>10, <2>2, <2>3 DEF SubstractVelocityFluid
  <2> QED BY <2>1, <2>4
<1>11. CASE HeatFlux
  <2>1. Setting /\ Wanted("AddDiffusiveFlux") /\ "AddDiffusiveFlux" \in Named
      BY <1>11 DEF HeatFlux, Call, StageInv
  <2>2. PICK loops : loops = AddDiffusiveFlux
      OBVIOUS
  <2>3. Kernels(AddDiffusiveFlux)
    <3>1. conf.terms["conduction"] # "no"
        BY <2>1 DEF Wanted, Evolved
    <3> QED BY <2>1, <3>1, HeatKernels
  <2>4. Kernels(loops) /\ Call("AddDiffusiveFlux", loops)
      BY <1>11, <2>2, <2>3 DEF HeatFlux
  <2> QED BY <2>1, <2>4
<1>12. CASE BragViscousFlux
  <2>1. Setting /\ Wanted("AddBragViscousFlux") /\ "AddBragViscousFlux" \in Named
      BY <1>12 DEF BragViscousFlux, Call, StageInv
  <2>2. PICK loops : loops = AddBragViscousFlux
      OBVIOUS
  <2>3. Kernels(AddBragViscousFlux)
    <3>1. conf.terms["bragViscosity"] # "no"
        BY <2>1 DEF Wanted, Evolved
    <3>2. conf.phys = "mhd" \/ Overreach
        BY <3>1 DEF Overreach, BragOverreach, Wants
    <3> QED BY <2>1, <3>1, <3>2, BragViscousKernels
  <2>4. Kernels(loops) /\ Call("AddBragViscousFlux", loops)
      BY <1>12, <2>2, <2>3 DEF BragViscousFlux
  <2> QED BY <2>1, <2>4
<1>13. CASE BragHeatFlux
  <2>1. Setting /\ Wanted("AddBragDiffusiveFlux") /\ "AddBragDiffusiveFlux" \in Named
      BY <1>13 DEF BragHeatFlux, Call, StageInv
  <2>2. PICK loops : loops = AddBragDiffusiveFlux
      OBVIOUS
  <2>3. Kernels(AddBragDiffusiveFlux)
    <3>1. conf.terms["bragConduction"] # "no"
        BY <2>1 DEF Wanted, Evolved
    <3>2. conf.phys = "mhd" \/ Overreach
        BY <3>1 DEF Overreach, BragOverreach, Wants
    <3> QED BY <2>1, <3>1, <3>2, BragHeatKernels
  <2>4. Kernels(loops) /\ Call("AddBragDiffusiveFlux", loops)
      BY <1>13, <2>2, <2>3 DEF BragHeatFlux
  <2> QED BY <2>1, <2>4
<1>14. CASE TracerFlux
  <2>1. Setting /\ Wanted("TracerCalcFlux") /\ "TracerCalcFlux" \in Named
      BY <1>14 DEF TracerFlux, Call, StageInv
  <2>2. PICK loops : loops = TracerCalcFlux
      OBVIOUS
  <2>3. Kernels(TracerCalcFlux)
      BY <2>1, TracerFluxKernels DEF Wanted
  <2>4. Kernels(loops) /\ Call("TracerCalcFlux", loops)
      BY <1>14, <2>2, <2>3 DEF TracerFlux
  <2> QED BY <2>1, <2>4
<1>15. CASE TotalFlux
  <2>1. Setting /\ Wanted("CorrectFlux") /\ "CorrectFlux" \in Named
      BY <1>15 DEF TotalFlux, Call, StageInv
  <2>2. PICK loops : loops = CorrectFlux
      OBVIOUS
  <2>3. Kernels(CorrectFlux)
      BY <2>1, CorrectKernels
  <2>4. Kernels(loops) /\ Call("CorrectFlux", loops)
      BY <1>15, <2>2, <2>3 DEF TotalFlux
  <2> QED BY <2>1, <2>4
<1>16. CASE CalcRightHandSide
  <2>1. Setting /\ Wanted("CalcRightHandSide") /\ "CalcRightHandSide" \in Named
      BY <1>16 DEF CalcRightHandSide, Call, StageInv
  <2>2. PICK loops : loops = IF Rkl THEN CalcParabolicRHS ELSE CalcRHS
      OBVIOUS
  <2>3. Kernels(IF Rkl THEN CalcParabolicRHS ELSE CalcRHS)
    <3>1. Rkl => conf.rkl # {}
        BY <2>1 DEF Setting, Consistent, Rkl
    <3> QED BY <2>1, <3>1, ParabolicKernels, RHSKernels
  <2>4. Kernels(loops) /\ Call("CalcRightHandSide", loops)
      BY <1>16, <2>2, <2>3 DEF CalcRightHandSide
  <2> QED BY <2>1, <2>4
<1>17. CASE TracerRightHandSide
  <2>1. Setting /\ Wanted("TracerCalcRightHandSide") /\ "TracerCalcRightHandSide" \in Named
      BY <1>17 DEF TracerRightHandSide, Call, StageInv
  <2>2. PICK loops : loops = TracerCalcRightHandSide
      OBVIOUS
  <2>3. Kernels(TracerCalcRightHandSide)
      BY <2>1, TracerKernels DEF Wanted
  <2>4. Kernels(loops) /\ Call("TracerCalcRightHandSide", loops)
      BY <1>17, <2>2, <2>3 DEF TracerRightHandSide
  <2> QED BY <2>1, <2>4
<1>18. CASE SourceTerms
  <2>1. Setting /\ Wanted("AddSourceTerms") /\ "AddSourceTerms" \in Named
      BY <1>18 DEF SourceTerms, Call, StageInv
  <2>2. PICK loops : loops = AddSourceTerms
      OBVIOUS
  <2>3. Kernels(AddSourceTerms)
      BY <2>1, SourceKernels
  <2>4. Kernels(loops) /\ Call("AddSourceTerms", loops)
      BY <1>18, <2>2, <2>3 DEF SourceTerms
  <2> QED BY <2>1, <2>4
<1>19. CASE DragForce
  <2>1. Setting /\ Wanted("AddDragForce") /\ "AddDragForce" \in Named
      BY <1>19 DEF DragForce, Call, StageInv
  <2>2. PICK loops : loops = AddDragForce
      OBVIOUS
  <2>3. Kernels(AddDragForce)
      BY <2>1, DragKernels DEF Wanted
  <2>4. Kernels(loops) /\ Call("AddDragForce", loops)
      BY <1>19, <2>2, <2>3 DEF DragForce
  <2> QED BY <2>1, <2>4
<1>20. CASE CornerEMF
  <2>1. Setting /\ Wanted("CalcCornerEMF") /\ "CalcCornerEMF" \in Named
      BY <1>20 DEF CornerEMF, Call, StageInv
  <2>2. PICK loops : loops = CalcCornerEMF
      OBVIOUS
  <2>3. Kernels(CalcCornerEMF)
      BY <2>1, CornerKernels DEF Wanted
  <2>4. Kernels(loops) /\ Call("CalcCornerEMF", loops)
      BY <1>20, <2>2, <2>3 DEF CornerEMF
  <2> QED BY <2>1, <2>4
<1>21. CASE NonidealEMF
  <2>1. Setting /\ Wanted("CalcNonidealEMF") /\ "CalcNonidealEMF" \in Named
      BY <1>21 DEF NonidealEMF, Call, StageInv
  <2>2. PICK loops : loops = CalcNonidealEMF(Evolved("ohmic"), Evolved("ambipolar"))
      OBVIOUS
  <2>3. Kernels(CalcNonidealEMF(Evolved("ohmic"), Evolved("ambipolar")))
    <3>1. needExplicitCurrent \/ haveVs
        BY <2>1 DEF Wanted, needExplicitCurrent
    <3>2. PICK ohmic, ambipolar : ohmic = Evolved("ohmic") /\ ambipolar = Evolved("ambipolar")
        OBVIOUS
    <3> QED BY <2>1, <3>1, <3>2, NonidealKernels
  <2>4. Kernels(loops) /\ Call("CalcNonidealEMF", loops)
      BY <1>21, <2>2, <2>3 DEF NonidealEMF
  <2> QED BY <2>1, <2>4
<1>22. CASE MagField
  <2>1. Setting /\ Wanted("EvolveMagField") /\ "EvolveMagField" \in Named
      BY <1>22 DEF MagField, Call, StageInv
  <2>2. PICK loops : loops = IF Rkl THEN IF conf.vecpot THEN EvolveVectorPotential(dA) ELSE EvolveMagField(dB)
             ELSE IF conf.vecpot THEN EvolveVectorPotential(Ve) \o ComputeMagFieldFromA
                  ELSE EvolveMagField(BXs)
      OBVIOUS
  <2>3. Kernels(IF Rkl THEN IF conf.vecpot THEN EvolveVectorPotential(dA) ELSE EvolveMagField(dB)
             ELSE IF conf.vecpot THEN EvolveVectorPotential(Ve) \o ComputeMagFieldFromA
                  ELSE EvolveMagField(BXs))
    <3>1. CASE Rkl
      <4>1. conf.rkl # {} /\ haveVs
          BY <2>1, <3>1 DEF Wanted, Setting, Consistent, Rkl
      <4>2. conf.phys = "mhd"
          BY <2>1, <4>1, JsAllocated
      <4> QED BY <2>1, <3>1, <4>1, <4>2, PotentialKernels, MagFieldKernels
    <3>2. CASE ~Rkl
      <4>1. conf.phys = "mhd"
          BY <2>1, <3>2 DEF Wanted, Corners, Mhd
      <4> QED BY <2>1, <3>2, <4>1, PotentialKernels, FromPotentialKernels, MagFieldKernels, JoinKernels
    <3> QED BY <3>1, <3>2
  <2>4. Kernels(loops) /\ Call("EvolveMagField", loops)
      BY <1>22, <2>2, <2>3 DEF MagField
  <2> QED BY <2>1, <2>4
<1>23. CASE CentredField
  <2>1. Setting /\ Wanted("ReconstructVcField") /\ "ReconstructVcField" \in Named
      BY <1>23 DEF CentredField, Call, StageInv
  <2>2. PICK loops : loops = ReconstructVcField
      OBVIOUS
  <2>3. Kernels(ReconstructVcField)
      BY <2>1, ReconstructKernels DEF Wanted, Corners, Mhd
  <2>4. Kernels(loops) /\ Call("ReconstructVcField", loops)
      BY <1>23, <2>2, <2>3 DEF CentredField
  <2> QED BY <2>1, <2>4
<1> QED BY <1>1, <1>2, <1>3, <1>4, <1>5, <1>6, <1>7, <1>8, <1>9, <1>10, <1>11, <1>12,
<1>13, <1>14, <1>15, <1>16, <1>17, <1>18, <1>19, <1>20, <1>21, <1>22, <1>23 DEF Next

LEMMA NextDirInv == ASSUME StageInv, NextDir PROVE StageInv'
<1>1. /\ conf' = conf /\ dir' = dir + 1 /\ dir < conf.dims /\ LoopDirs
      /\ DOMAIN mem' = DOMAIN mem /\ last' = <<>> /\ pc' = "CalcFlux"
    BY SweepOf DEF NextDir, StageInv, Wanted
<1>2. Setting'
  <2>1. (conf \in Options /\ Consistent(conf) /\ Solves)'
      BY <1>1 DEF StageInv, Setting, Consistent, Options, Solves
  <2>2. dir' \in 1..conf.dims
      BY <1>1, ConfType DEF StageInv
  <2> QED BY <1>1, <2>1, <2>2 DEF Setting
<1>3. DOMAIN mem' = Allocated'
    BY <1>1, AllocatedSteady DEF StageInv
<1>4. pc' \in Named' /\ (Wanted(pc))'
  <2>1. LoopDirs'
      BY <1>1 DEF LoopDirs, Rkl, haveVc, haveVs, HaveRKL
  <2> QED BY <1>1, <2>1, CallsOf DEF Wanted, Named, Calls
<1>5. (Kernels(last))'
    BY <1>1 DEF Kernels
<1> QED BY <1>2, <1>3, <1>4, <1>5 DEF StageInv

\* What RKLegendre allocates is kept for all of its stages.
LEMMA NextStageInv == ASSUME StageInv, NextStage PROVE StageInv'
<1>1. /\ conf' = [conf EXCEPT !.cycle = "rklAgain"] /\ conf.cycle = "rkl" /\ dir' = 1
      /\ DOMAIN mem' = Allocated /\ last' = <<>> /\ pc' = "ResetStage"
    BY DEF NextStage, Fresh, IDIR
<1>2. conf \in Options /\ Consistent(conf) /\ Solves
    BY DEF StageInv, Setting
<1>3. /\ conf' \in Options /\ conf'.cycle = "rklAgain"
      /\ conf'.dims = conf.dims /\ conf'.comps = conf.comps /\ conf'.phys = conf.phys
      /\ conf'.hall = conf.hall /\ conf'.vecpot = conf.vecpot /\ conf'.terms = conf.terms
      /\ conf'.rkl = conf.rkl /\ conf'.solver = conf.solver /\ conf'.emf = conf.emf
      /\ conf'.shock = conf.shock /\ conf'.eos = conf.eos /\ conf'.tracer = conf.tracer
      /\ conf'.fargo = conf.fargo /\ conf'.potential = conf.potential
      /\ conf'.body = conf.body /\ conf'.drag = conf.drag
    BY <1>1, <1>2 DEF Options
<1>4. Setting'
  <2>1. (Consistent(conf))'
      BY <1>1, <1>2, <1>3 DEF Consistent
  <2>2. Solves'
      BY <1>2, <1>3 DEF Solves
  <2>3. dir' \in 1..conf'.dims
      BY <1>1, <1>2, <1>3 DEF Options
  <2> QED BY <1>3, <2>1, <2>2, <2>3 DEF Setting, Options
<1>5. Allocated' = Allocated
  <2>1. Active' = Active /\ Edges' = Edges /\ (Mhd' <=> Mhd)
      BY <1>3 DEF Active, Edges, Mhd
  <2>2. FluidArrays' = FluidArrays
      BY <1>3, <2>1 DEF FluidArrays
  <2>3. EMFArrays' = EMFArrays
      BY <1>3, <2>1 DEF EMFArrays
  <2>4. DiffusionArrays' = DiffusionArrays
      BY <1>3 DEF DiffusionArrays
  <2>5. RKLArrays' = RKLArrays
      BY <1>3, <2>1 DEF RKLArrays
  <2> QED BY <1>3, <2>1, <2>2, <2>3, <2>4, <2>5 DEF Allocated
<1>6. pc' \in Named' /\ (Wanted(pc))'
  <2>1. Rkl' /\ ~Sweep("ResetStage")'
      BY <1>3 DEF Rkl, Sweep, Calls
  <2> QED BY <1>1, <2>1, CallsOf DEF Wanted, Named, Calls
<1>7. (Kernels(last))'
    BY <1>1 DEF Kernels
<1> QED BY <1>1, <1>4, <1>5, <1>6, <1>7 DEF StageInv

LEMMA StepInv == StageInv /\ [Next]_vars => StageInv'
<1> SUFFICES ASSUME StageInv, [Next]_vars PROVE StageInv'
    OBVIOUS
<1>1. CASE NextDir
    BY <1>1, NextDirInv
<1>2. CASE NextStage
    BY <1>2, NextStageInv
<1>3. CASE Next /\ ~NextDir /\ ~NextStage
  <2>1. PICK call \in Named \ {"done"} : \E loops : Kernels(loops) /\ Call(call, loops)
      BY <1>3, CallsFit
  <2>2. PICK loops : Kernels(loops) /\ Call(call, loops)
      BY <2>1
  <2> QED BY <2>1, <2>2, CallStep
<1>4. CASE UNCHANGED vars
  <2>1. conf' = conf /\ dir' = dir /\ mem' = mem /\ last' = last /\ pc' = pc
      BY <1>4 DEF vars
  <2>2. PICK loops, call : loops = last /\ call = pc
      OBVIOUS
  <2>3. (Kernels(loops))' /\ (Wanted(call))'
      BY <2>1, <2>2, KernelsSteady, WantedSteady DEF StageInv
  <2>4. (Kernels(last))' /\ (Wanted(pc))'
      BY <2>1, <2>2, <2>3 DEF Kernels, Wanted
  <2>5. Named' = Named
      BY DEF Named, Calls
  <2> QED BY <2>1, <2>4, <2>5, SettingSteady, AllocatedSteady DEF StageInv
<1> QED BY <1>1, <1>2, <1>3, <1>4

LEMMA StageInvariant == Spec => []StageInv
BY InitInv, StepInv, PTL DEF Spec
-----------------------------------------------------------------------------
\* What Statements says is in the kernels of the last call.
LEMMA StatementOf ==
    ASSUME Kernels(last), NEW x \in Statements
    PROVE \E i \in 1..Len(last) : x[1] = last[i] /\ x[2] \in last[i].does /\ Kernel(last[i])
<1>1. PICK i \in DOMAIN last : x \in {<<last[i], s>> : s \in last[i].does}
    BY DEF Statements
<1>2. DOMAIN last = 1..Len(last) /\ \A j \in 1..Len(last) : Kernel(last[j])
    BY DEF Kernels
<1> QED BY <1>1, <1>2

\* No kernel of a stage reads or writes outside of an array of its options, or one
\* that was not allocated, whatever the build and the input file ask for.
THEOREM KernelsInBounds == Spec => []InBounds
<1>1. StageInv => InBounds
  <2> SUFFICES ASSUME StageInv, ~Overreach, NEW x \in Statements
               PROVE /\ x[2].out \in DOMAIN mem
                     /\ Within(x[1].over, Room(x[2].out))
                     /\ \A r \in x[2].ins :
                           r[1] \in DOMAIN mem /\ Within(Touch(x[1].over, r[2]), Room(r[1]))
      BY DEF InBounds
  <2>1. PICK i \in 1..Len(last) : x[1] = last[i] /\ x[2] \in last[i].does /\ Kernel(last[i])
      BY StatementOf DEF StageInv
  <2> QED BY <2>1 DEF Kernel, StageInv
<1> QED BY <1>1, StageInvariant, PTL

\* The cells of a kernel can be computed in any order, in each of them.
THEOREM KernelsDoNotRace == Spec => []NoRace
<1>1. StageInv => NoRace
  <2> SUFFICES ASSUME StageInv, NEW x \in Statements, NEW y \in Statements, x[1] = y[1]
               PROVE /\ x[2].out = y[2].out => x[2] = y[2]
                     /\ \A r \in x[2].ins : r[1] = y[2].out => r[2] = Here
      BY DEF NoRace
  <2>1. PICK i \in 1..Len(last) : x[1] = last[i] /\ x[2] \in last[i].does /\ Kernel(last[i])
      BY StatementOf DEF StageInv
  <2>2. PICK j \in 1..Len(last) : y[1] = last[j] /\ y[2] \in last[j].does
      BY StatementOf DEF StageInv
  <2>3. y[2] \in last[i].does
      BY <2>1, <2>2
  <2> QED BY <2>1, <2>3 DEF Kernel
<1> QED BY <1>1, StageInvariant, PTL

\* And what a face, an edge or a cell reads lies as far on one side of it as on the
\* other, but for the options that OffCentre names.
THEOREM KernelsCentred == Spec => []Centred
<1>1. StageInv => Centred
  <2> SUFFICES ASSUME StageInv, ~OffCentre, NEW x \in Statements, NEW r \in x[2].ins, NEW d \in Active
               PROVE \/ r[1] = "fargoVelocity" /\ d = Azimuth
                     \/ r[2][d][1] + r[2][d][2] = At(r[1], d) - At(x[2].out, d)
      BY DEF Centred
  <2>1. PICK i \in 1..Len(last) : x[1] = last[i] /\ x[2] \in last[i].does /\ Kernel(last[i])
      BY StatementOf DEF StageInv
  <2>2. Suits(r[1], r[2], Shape(x[2].out))
      BY <2>1 DEF Kernel
  <2>3. d \in Dirs
      BY ActiveDirs DEF StageInv
  <2> QED BY <2>2, <2>3 DEF Suits, Shape
<1> QED BY <1>1, StageInvariant, PTL
-----------------------------------------------------------------------------
(* What the loops of a function leave in an array. *)

\* A set of numbers that is closed under the successor, up to k.
LEMMA StepByStep ==
    ASSUME NEW T, NEW k \in Nat, 0 \in T, \A n \in 0..(k - 1) : n \in T => n + 1 \in T
    PROVE \A n \in 0..k : n \in T
<1> DEFINE rest == {n \in 0..k : n \notin T}
<1>1. SUFFICES ASSUME rest # {} PROVE FALSE
    OBVIOUS
<1>2. rest \in SUBSET Nat
    OBVIOUS
<1>3. PICK x \in rest : \A y \in rest : x <= y
    BY <1>1, <1>2, LeastOne
<1>4. x \in 0..k /\ x \notin T /\ x # 0
    BY <1>3
<1>5. x - 1 \in 0..(k - 1) /\ x - 1 \in 0..k
    BY <1>4
<1>6. x - 1 \notin rest
    BY <1>3, <1>4, <1>5
<1>7. x - 1 \in T
    BY <1>5, <1>6
<1>8. (x - 1) + 1 \in T
    BY <1>5, <1>7
<1> QED BY <1>4, <1>8

\* The memory after each loop, and that the definition of After by recursion has a
\* meaning.
Trace(m, loops, k, f) == f = [n \in 0..k |-> IF n = 0 THEN m ELSE Execute(f[n - 1], loops[n])]

LEMMA TraceExists ==
    ASSUME NEW m, NEW loops, NEW k \in Nat PROVE \E f : Trace(m, loops, k, f)
<1> DEFINE Step(f, n) == IF n = 0 THEN m ELSE Execute(f[n - 1], loops[n])
           T == {j \in Nat : \E f : f = [n \in 0..j |-> Step(f, n)]}
<1>1. 0 \in T
  <2> DEFINE f == [n \in 0..0 |-> m]
  <2>1. \A n \in 0..0 : Step(f, n) = m
      OBVIOUS
  <2>2. f = [n \in 0..0 |-> Step(f, n)]
      BY <2>1
  <2> QED BY <2>2
<1>2. ASSUME NEW j \in 0..(k - 1), j \in T PROVE j + 1 \in T
  <2>1. PICK f : f = [n \in 0..j |-> Step(f, n)]
      BY <1>2
  <2> DEFINE g == [n \in 0..(j + 1) |-> IF n = j + 1 THEN Step(f, n) ELSE f[n]]
  <2>2. ASSUME NEW n \in 0..(j + 1) PROVE g[n] = Step(g, n)
    <3>1. CASE n = 0
        BY <2>1, <3>1
    <3>2. CASE n # 0
      <4>1. n - 1 \in 0..j /\ n - 1 \in 0..(j + 1) /\ n - 1 # j + 1
          BY <3>2
      <4>2. g[n - 1] = f[n - 1]
          BY <4>1
      <4>3. g[n] = Step(f, n)
        <5>1. CASE n = j + 1
            BY <5>1
        <5>2. CASE n # j + 1
          <6>1. n \in 0..j
              BY <5>2
          <6> QED BY <2>1, <5>2, <6>1
        <5> QED BY <5>1, <5>2
      <4> QED BY <3>2, <4>2, <4>3
    <3> QED BY <3>1, <3>2
  <2>3. g = [n \in 0..(j + 1) |-> g[n]]
      OBVIOUS
  <2>4. g = [n \in 0..(j + 1) |-> Step(g, n)]
      BY <2>2, <2>3
  <2> HIDE DEF g
  <2>5. j + 1 \in Nat
      OBVIOUS
  <2> QED BY <2>4, <2>5
<1> HIDE DEF T
<1>3. \A j \in 0..k : j \in T
    BY <1>1, <1>2, StepByStep
<1>4. k \in T
    BY <1>3
<1>5. \E f : f = [n \in 0..k |-> Step(f, n)]
    BY <1>4 DEF T
<1> QED BY <1>5 DEF Trace

\* One loop after the other.
Run(f, loops) == \A n \in 1..Len(loops) : f[n] = Execute(f[n - 1], loops[n])

LEMMA AfterSteps ==
    ASSUME NEW m, NEW loops, Len(loops) \in Nat
    PROVE \E f : f[0] = m /\ Run(f, loops) /\ After(m, loops) = f[Len(loops)]
<1>1. PICK f : f = CHOOSE x : Trace(m, loops, Len(loops), x)
    OBVIOUS
<1>2. Trace(m, loops, Len(loops), f)
  <2>1. \E x : Trace(m, loops, Len(loops), x)
      BY TraceExists
  <2> QED BY <1>1, <2>1
<1>3. After(m, loops) = f[Len(loops)]
    BY <1>1 DEF After, Trace
<1>4. f[0] = m
    BY <1>2 DEF Trace
<1>5. Run(f, loops)
    BY <1>2 DEF Trace, Run
<1> QED BY <1>3, <1>4, <1>5

Wrote(loop, a) == \E s \in loop.does : s.out = a

\* What the statement s leaves in an array that held was.
Booked(was, s, is) ==
    /\ is.parts = s.parts \cup (IF s.add THEN was.parts ELSE {})
    /\ is.twice = IF s.add THEN was.twice \cup (was.parts \cap s.parts) ELSE {}

Has(m, a) == a \in DOMAIN m

LEMMA ExecuteDomain == 
    ASSUME NEW m, NEW loop, NEW a PROVE Has(Execute(m, loop), a) <=> Has(m, a)
BY DEF Execute, Has

LEMMA ExecuteSame ==
    ASSUME NEW m, NEW loop, NEW a, Has(m, a), ~Wrote(loop, a)
    PROVE Execute(m, loop)[a] = m[a]
BY DEF Execute, Wrote, Has

LEMMA ExecuteOne ==
    ASSUME NEW m, NEW loop, NEW a, NEW s, Has(m, a), s \in loop.does, s.out = a,
           \A t \in loop.does : t.out = a => t = s
    PROVE Booked(m[a], s, Execute(m, loop)[a])
<1>1. s = CHOOSE t \in loop.does : t.out = a
    OBVIOUS
<1>2. Execute(m, loop)[a] = Apply(m, loop.over, s)
    BY <1>1 DEF Execute, Has
<1> QED BY <1>2 DEF Apply, Booked

Span(loops, lo, hi) ==
    /\ Len(loops) \in Nat /\ lo \in Nat /\ hi \in Nat
    /\ lo <= hi /\ hi <= Len(loops)

Off(loops, a, lo, hi) == \A i \in (lo + 1)..hi : ~Wrote(loops[i], a)

\* An array that the loops do not write stays as it is.
LEMMA RunKeeps ==
    ASSUME NEW loops, NEW f, NEW a, NEW lo, NEW hi, Span(loops, lo, hi), Run(f, loops),
           Has(f[lo], a), Off(loops, a, lo, hi)
    PROVE Has(f[hi], a) /\ f[hi][a] = f[lo][a]
<1> USE DEF Span
<1> DEFINE T == {n \in Nat : lo + n <= hi => Has(f[lo + n], a) /\ f[lo + n][a] = f[lo][a]}
<1>1. 0 \in T
    OBVIOUS
<1>2. ASSUME NEW n \in 0..(hi - lo - 1), n \in T PROVE n + 1 \in T
  <2>1. /\ lo + n \in 0..hi /\ lo + n + 1 \in 1..Len(loops) /\ lo + n + 1 \in (lo + 1)..hi
        /\ (lo + n + 1) - 1 = lo + n /\ lo + (n + 1) = lo + n + 1 /\ lo + n <= hi
      OBVIOUS
  <2>2. Has(f[lo + n], a) /\ f[lo + n][a] = f[lo][a]
      BY <1>2, <2>1
  <2>3. f[lo + n + 1] = Execute(f[lo + n], loops[lo + n + 1])
      BY <2>1 DEF Run
  <2>4. ~Wrote(loops[lo + n + 1], a)
      BY <2>1 DEF Off
  <2>5. Has(Execute(f[lo + n], loops[lo + n + 1]), a)
      BY <2>2, ExecuteDomain
  <2>6. Execute(f[lo + n], loops[lo + n + 1])[a] = f[lo + n][a]
      BY <2>2, <2>4, ExecuteSame
  <2> QED BY <2>1, <2>2, <2>3, <2>5, <2>6
<1> HIDE DEF T
<1>3. hi - lo \in Nat
    OBVIOUS
<1>4. \A n \in 0..(hi - lo) : n \in T
    BY <1>1, <1>2, <1>3, StepByStep
<1>5. hi - lo \in T
    BY <1>3, <1>4
<1>6. lo + (hi - lo) = hi
    OBVIOUS
<1> QED BY <1>5, <1>6 DEF T

LEMMA AfterSame ==
    ASSUME NEW m, NEW loops, NEW a, Len(loops) \in Nat, Has(m, a), Off(loops, a, 0, Len(loops))
    PROVE After(m, loops)[a] = m[a]
<1>1. PICK f : f[0] = m /\ Run(f, loops) /\ After(m, loops) = f[Len(loops)]
    BY AfterSteps
<1>2. Span(loops, 0, Len(loops)) /\ Has(f[0], a)
    BY <1>1 DEF Span
<1>3. f[Len(loops)][a] = f[0][a]
    BY <1>1, <1>2, RunKeeps
<1> QED BY <1>1, <1>3

\* One that a single statement of them writes holds what it gives.
LEMMA AfterOnce ==
    ASSUME NEW m, NEW loops, NEW a, Len(loops) \in Nat, Has(m, a),
           NEW i \in 1..Len(loops), NEW s \in loops[i].does, s.out = a,
           \A t \in loops[i].does : t.out = a => t = s,
           \A j \in 1..Len(loops) : Wrote(loops[j], a) => j = i
    PROVE Booked(m[a], s, After(m, loops)[a])
<1>1. PICK f : f[0] = m /\ Run(f, loops) /\ After(m, loops) = f[Len(loops)]
    BY AfterSteps
<1>2. Span(loops, 0, i - 1) /\ Span(loops, i, Len(loops)) /\ Has(f[0], a)
    BY <1>1 DEF Span
<1>3. Off(loops, a, 0, i - 1) /\ Off(loops, a, i, Len(loops))
    BY DEF Off
<1>4. Has(f[i - 1], a) /\ f[i - 1][a] = m[a]
  <2>1. PICK h : h = i - 1
      OBVIOUS
  <2>2. Has(f[h], a) /\ f[h][a] = f[0][a]
    <3>1. Span(loops, 0, h) /\ Off(loops, a, 0, h) /\ Run(f, loops) /\ Has(f[0], a)
        BY <1>1, <1>2, <1>3, <2>1
    <3> QED BY ONLY <3>1, RunKeeps
  <2> QED BY <1>1, <2>1, <2>2
<1>5. f[i] = Execute(f[i - 1], loops[i])
    BY <1>1 DEF Run
<1>6. Has(f[i], a)
    BY <1>4, <1>5, ExecuteDomain
<1>7. Booked(f[i - 1][a], s, f[i][a])
    BY <1>4, <1>5, ExecuteOne
<1>8. f[Len(loops)][a] = f[i][a]
  <2>1. PICK h, k : h = i /\ k = Len(loops)
      OBVIOUS
  <2>2. Span(loops, h, k) /\ Off(loops, a, h, k) /\ Run(f, loops) /\ Has(f[h], a)
      BY <1>1, <1>2, <1>3, <1>6, <2>1
  <2>3. f[k][a] = f[h][a]
      BY ONLY <2>2, RunKeeps
  <2> QED BY <2>1, <2>3
<1> QED BY <1>1, <1>4, <1>7, <1>8
-----------------------------------------------------------------------------
(* What the statements of a function give: which array, whether they add to it,  *)
(* and which parts. No two loops of a function write the same array.           *)

Entry(s) == <<s.out, IF s.add THEN "add" ELSE "set", s.parts>>

Entries(loops) == UNION {{Entry(s) : s \in loops[i].does} : i \in 1..Len(loops)}

Writes(loops) == {e[1] : e \in Entries(loops)}

Sole(loops) ==
    /\ \E M : loops \in Seq(M)
    /\ \A i, j \in 1..Len(loops) : \A s \in loops[i].does : \A t \in loops[j].does :
          s.out = t.out => i = j

LEMMA EntryOf ==
    ASSUME NEW loops, NEW e
    PROVE e \in Entries(loops) <=> \E i \in 1..Len(loops) : \E s \in loops[i].does : e = Entry(s)
BY DEF Entries

LEMMA WritesOf ==
    ASSUME NEW loops, NEW a
    PROVE a \in Writes(loops) <=> \E i \in 1..Len(loops) : Wrote(loops[i], a)
<1>1. ASSUME a \in Writes(loops) PROVE \E i \in 1..Len(loops) : Wrote(loops[i], a)
  <2>1. PICK e \in Entries(loops) : a = e[1]
      BY <1>1 DEF Writes
  <2>2. PICK i \in 1..Len(loops) : \E s \in loops[i].does : e = Entry(s)
      BY <2>1, EntryOf
  <2> QED BY <2>1, <2>2 DEF Entry, Wrote
<1>2. ASSUME NEW i \in 1..Len(loops), Wrote(loops[i], a) PROVE a \in Writes(loops)
  <2>1. PICK s \in loops[i].does : s.out = a
      BY <1>2 DEF Wrote
  <2>2. Entry(s) \in Entries(loops) /\ Entry(s)[1] = a
      BY <2>1, EntryOf DEF Entry
  <2> QED BY <2>2 DEF Writes
<1> QED BY <1>1, <1>2

LEMMA OneLoop ==
    ASSUME NEW over, NEW does
    PROVE /\ Sole(<<Loop(over, does)>>)
          /\ Entries(<<Loop(over, does)>>) = {Entry(s) : s \in does}
<1> DEFINE loops == <<Loop(over, does)>>
<1>1. loops \in Seq({Loop(over, does)}) /\ Len(loops) = 1 /\ loops[1] = Loop(over, does)
    OBVIOUS
<1>2. loops[1].does = does
    BY <1>1 DEF Loop
<1>3. \E M : loops \in Seq(M)
    BY <1>1
<1> HIDE DEF loops
<1>4. 1..Len(loops) = {1}
    BY <1>1
<1>5. Sole(loops)
    BY <1>3, <1>4 DEF Sole
<1>6. Entries(loops) = {Entry(s) : s \in does}
    BY <1>2, <1>4 DEF Entries
<1> QED BY <1>5, <1>6 DEF loops

LEMMA NoLoop == Sole(<<>>) /\ Entries(<<>>) = {}
<1>1. <<>> \in Seq({}) /\ Len(<<>>) = 0
    OBVIOUS
<1>2. 1..Len(<<>>) = {}
    BY <1>1
<1> QED BY <1>1, <1>2 DEF Sole, Entries

LEMMA JoinLoops ==
    ASSUME NEW f, NEW g, Sole(f), Sole(g), Writes(f) \cap Writes(g) = {}
    PROVE Sole(f \o g) /\ Entries(f \o g) = Entries(f) \cup Entries(g)
<1>1. PICK M : f \in Seq(M)
    BY DEF Sole
<1>2. PICK N : g \in Seq(N)
    BY DEF Sole
<1>3. f \in Seq(M \cup N) /\ g \in Seq(M \cup N)
    BY <1>1, <1>2
<1>4. PICK h : h = f \o g
    OBVIOUS
<1>5. /\ h \in Seq(M \cup N) /\ Len(h) = Len(f) + Len(g) /\ Len(f) \in Nat /\ Len(g) \in Nat
      /\ \A i \in 1..Len(f) : h[i] = f[i]
      /\ \A i \in 1..Len(h) : i > Len(f) => h[i] = g[i - Len(f)]
    BY <1>3, <1>4
<1>6. \A i \in 1..Len(h) : i \in 1..Len(f) \/ (i > Len(f) /\ i - Len(f) \in 1..Len(g))
    BY <1>5
<1>7. ASSUME NEW e PROVE e \in Entries(h) <=> e \in Entries(f) \/ e \in Entries(g)
  <2>1. ASSUME e \in Entries(h) PROVE e \in Entries(f) \/ e \in Entries(g)
    <3>1. PICK i \in 1..Len(h) : \E s \in h[i].does : e = Entry(s)
        BY <2>1, EntryOf
    <3>2. CASE i \in 1..Len(f)
        BY <1>5, <3>1, <3>2, EntryOf
    <3>3. CASE i > Len(f)
      <4>1. h[i] = g[i - Len(f)] /\ i - Len(f) \in 1..Len(g)
          BY <1>5, <1>6, <3>3
      <4> QED BY <3>1, <4>1, EntryOf
    <3> QED BY <1>6, <3>2, <3>3
  <2>2. ASSUME e \in Entries(f) PROVE e \in Entries(h)
    <3>1. PICK i \in 1..Len(f) : \E s \in f[i].does : e = Entry(s)
        BY <2>2, EntryOf
    <3>2. i \in 1..Len(h) /\ h[i] = f[i]
        BY <1>5
    <3> QED BY <3>1, <3>2, EntryOf
  <2>3. ASSUME e \in Entries(g) PROVE e \in Entries(h)
    <3>1. PICK i \in 1..Len(g) : \E s \in g[i].does : e = Entry(s)
        BY <2>3, EntryOf
    <3>2. i + Len(f) \in 1..Len(h) /\ i + Len(f) > Len(f) /\ (i + Len(f)) - Len(f) = i
        BY <1>5
    <3>3. h[i + Len(f)] = g[i]
        BY <1>5, <3>2
    <3> QED BY <3>1, <3>2, <3>3, EntryOf
  <2> QED BY <2>1, <2>2, <2>3
<1>8. ASSUME NEW i \in 1..Len(h), NEW j \in 1..Len(h), NEW s \in h[i].does, NEW t \in h[j].does,
             s.out = t.out
      PROVE i = j
  <2>1. CASE i \in 1..Len(f) /\ j \in 1..Len(f)
    <3>1. h[i] = f[i] /\ h[j] = f[j]
        BY <1>5, <2>1
    <3> QED BY <1>8, <2>1, <3>1 DEF Sole
  <2>2. CASE i > Len(f) /\ j > Len(f)
    <3>1. /\ h[i] = g[i - Len(f)] /\ i - Len(f) \in 1..Len(g)
          /\ h[j] = g[j - Len(f)] /\ j - Len(f) \in 1..Len(g)
        BY <1>5, <1>6, <2>2
    <3>2. i - Len(f) = j - Len(f)
        BY <1>8, <3>1 DEF Sole
    <3> QED BY <1>5, <3>2
  <2>3. CASE i \in 1..Len(f) /\ j > Len(f)
    <3>1. h[i] = f[i] /\ h[j] = g[j - Len(f)] /\ j - Len(f) \in 1..Len(g)
        BY <1>5, <1>6, <2>3
    <3>2. s.out \in Writes(f) /\ s.out \in Writes(g)
        BY <1>8, <2>3, <3>1, WritesOf DEF Wrote
    <3> QED BY <3>2
  <2>4. CASE i > Len(f) /\ j \in 1..Len(f)
    <3>1. h[j] = f[j] /\ h[i] = g[i - Len(f)] /\ i - Len(f) \in 1..Len(g)
        BY <1>5, <1>6, <2>4
    <3>2. s.out \in Writes(f) /\ s.out \in Writes(g)
        BY <1>8, <2>4, <3>1, WritesOf DEF Wrote
    <3> QED BY <3>2
  <2> QED BY <1>6, <2>1, <2>2, <2>3, <2>4
<1>9. Sole(h)
    BY <1>5, <1>8 DEF Sole
<1> QED BY <1>4, <1>7, <1>9

\* What Launch leaves in an array.
LEMMA LaunchSame ==
    ASSUME NEW loops, Launch(loops), Sole(loops), NEW a, a \in DOMAIN mem, a \notin Writes(loops)
    PROVE mem'[a] = mem[a]
<1>1. Len(loops) \in Nat
    BY DEF Sole
<1>2. Off(loops, a, 0, Len(loops))
    BY <1>1, WritesOf DEF Off
<1>3. After(mem, loops)[a] = mem[a]
    BY <1>1, <1>2, AfterSame DEF Has
<1> QED BY <1>3 DEF Launch

LEMMA LaunchOnce ==
    ASSUME NEW loops, Launch(loops), Sole(loops), Kernels(loops), NEW a, NEW kind, NEW parts,
           a \in DOMAIN mem, <<a, kind, parts>> \in Entries(loops)
    PROVE /\ kind = "set" => mem'[a].parts = parts /\ mem'[a].twice = {}
          /\ kind = "add" => /\ mem'[a].parts = mem[a].parts \cup parts
                             /\ mem'[a].twice = mem[a].twice \cup (mem[a].parts \cap parts)
          /\ kind \in {"set", "add"}
<1>1. Len(loops) \in Nat
    BY DEF Sole
<1>2. PICK i \in 1..Len(loops) : \E s \in loops[i].does : <<a, kind, parts>> = Entry(s)
    BY EntryOf
<1>3. PICK s \in loops[i].does : <<a, kind, parts>> = Entry(s)
    BY <1>2
<1>4. s.out = a /\ s.parts = parts /\ kind = IF s.add THEN "add" ELSE "set"
    BY <1>3 DEF Entry
<1>5. \A t \in loops[i].does : t.out = a => t = s
    BY <1>4 DEF Kernels, Kernel
<1>6. \A j \in 1..Len(loops) : Wrote(loops[j], a) => j = i
    BY <1>4 DEF Sole, Wrote
<1>7. Booked(mem[a], s, After(mem, loops)[a])
    BY <1>1, <1>4, <1>5, <1>6, AfterOnce DEF Has
<1>8. mem'[a] = After(mem, loops)[a]
    BY DEF Launch
<1>9. CASE s.add
    BY <1>4, <1>7, <1>8, <1>9 DEF Booked
<1>10. CASE ~s.add
    BY <1>4, <1>7, <1>8, <1>10 DEF Booked
<1> QED BY <1>9, <1>10

\* The books of a function: it writes each of the arrays E names as E says, and of the
\* others those in U, to which it adds nothing.
Heads(E) == {e[1] : e \in E}

Books(loops, U, E) ==
    /\ Sole(loops)
    /\ E \subseteq Entries(loops)
    /\ \A e \in Entries(loops) : e \in E \/ (e[1] \in U /\ (e[2] = "add" => e[3] = {}))

LEMMA BooksWrite ==
    ASSUME NEW loops, NEW U, NEW E, Books(loops, U, E) PROVE Writes(loops) \subseteq U \cup Heads(E)
BY DEF Books, Writes, Heads

LEMMA JoinBooks ==
    ASSUME NEW f, NEW g, NEW U, NEW V, NEW E, NEW F, Books(f, U, E), Books(g, V, F),
           (U \cup Heads(E)) \cap (V \cup Heads(F)) = {}
    PROVE Books(f \o g, U \cup V, E \cup F)
<1>1. Writes(f) \cap Writes(g) = {}
    BY BooksWrite
<1>2. Sole(f \o g) /\ Entries(f \o g) = Entries(f) \cup Entries(g)
    BY <1>1, JoinLoops DEF Books
<1> QED BY <1>2 DEF Books

LEMMA OneBook ==
    ASSUME NEW over, NEW does, NEW U, NEW E,
           \A s \in does : Entry(s) \in E \/ (s.out \in U /\ (s.add => s.parts = {})),
           \A e \in E : \E s \in does : Entry(s) = e
    PROVE Books(<<Loop(over, does)>>, U, E)
<1>1. PICK loops : loops = <<Loop(over, does)>>
    OBVIOUS
<1>2. Sole(loops) /\ Entries(loops) = {Entry(s) : s \in does}
    BY <1>1, OneLoop
<1>3. \A s \in does : Entry(s)[1] = s.out /\ (Entry(s)[2] = "add" => s.add) /\ Entry(s)[3] = s.parts
    BY DEF Entry
<1>4. Books(loops, U, E)
    BY <1>2, <1>3 DEF Books
<1> QED BY <1>1, <1>4

LEMMA NoBook == Books(<<>>, {}, {})
BY NoLoop DEF Books

LEMMA WiderBooks ==
    ASSUME NEW loops, NEW U, NEW V, NEW E, Books(loops, U, E), U \subseteq V PROVE Books(loops, V, E)
BY DEF Books

LEMMA Entered ==
    ASSUME NEW a, NEW ins, NEW parts
    PROVE /\ Entry(Set(a, ins, parts)) = <<a, "set", parts>>
          /\ Entry(Add(a, ins, parts)) = <<a, "add", parts>>
          /\ Set(a, ins, parts).out = a /\ ~Set(a, ins, parts).add
          /\ Add(a, ins, parts).out = a /\ Add(a, ins, parts).parts = parts
BY DEF Entry, Set, Add

\* What a function leaves in the arrays.
LEMMA BooksKept ==
    ASSUME NEW loops, NEW U, NEW E, Launch(loops), Kernels(loops), Books(loops, U, E)
    PROVE /\ \A a \in DOMAIN mem : a \notin U /\ a \notin Heads(E) => mem'[a] = mem[a]
          /\ \A a \in DOMAIN mem : \A parts :
                /\ <<a, "set", parts>> \in E => mem'[a].parts = parts
                /\ <<a, "add", parts>> \in E => mem'[a].parts = mem[a].parts \cup parts
<1>1. ASSUME NEW a \in DOMAIN mem, a \notin U, a \notin Heads(E) PROVE mem'[a] = mem[a]
  <2>1. a \notin Writes(loops)
      BY <1>1, BooksWrite
  <2> QED BY <2>1, LaunchSame DEF Books
<1>2. ASSUME NEW a \in DOMAIN mem, NEW parts
      PROVE /\ <<a, "set", parts>> \in E => mem'[a].parts = parts
            /\ <<a, "add", parts>> \in E => mem'[a].parts = mem[a].parts \cup parts
  <2>1. E \subseteq Entries(loops) /\ Sole(loops)
      BY DEF Books
  <2>2. <<a, "set", parts>> \in E => mem'[a].parts = parts
      BY <2>1, LaunchOnce
  <2>3. <<a, "add", parts>> \in E => mem'[a].parts = mem[a].parts \cup parts
      BY <2>1, LaunchOnce
  <2> QED BY <2>2, <2>3
<1> QED BY <1>1, <1>2

Clean == \A a \in DOMAIN mem : mem[a].twice = {}

\* Nothing is added twice by a function that adds nothing that is there.
LEMMA BooksClean ==
    ASSUME NEW loops, NEW U, NEW E, Launch(loops), Kernels(loops), Books(loops, U, E), Clean,
           \A e \in E : e[2] = "add" /\ e[1] \in DOMAIN mem => mem[e[1]].parts \cap e[3] = {}
    PROVE Clean'
<1>0. DOMAIN mem' = DOMAIN mem /\ Sole(loops)
    BY DEF Launch, Books
<1> SUFFICES ASSUME NEW a \in DOMAIN mem PROVE mem'[a].twice = {}
    BY <1>0 DEF Clean
<1>1. CASE a \notin Writes(loops)
    BY <1>0, <1>1, LaunchSame DEF Clean
<1>2. CASE a \in Writes(loops)
  <2>1. PICK e \in Entries(loops) : e[1] = a
      BY <1>2 DEF Writes
  <2>2. PICK i \in 1..Len(loops) : \E s \in loops[i].does : e = Entry(s)
      BY <2>1, EntryOf
  <2>3. PICK kind, parts : e = <<a, kind, parts>>
      BY <2>1, <2>2 DEF Entry
  <2>4. /\ kind = "set" => mem'[a].twice = {}
        /\ kind = "add" => mem'[a].twice = mem[a].twice \cup (mem[a].parts \cap parts)
        /\ kind \in {"set", "add"}
      BY <1>0, <2>1, <2>3, LaunchOnce
  <2>5. kind = "add" => mem[a].parts \cap parts = {}
    <3>1. e[1] = a /\ e[2] = kind /\ e[3] = parts
        BY <2>3
    <3> QED BY <2>1, <3>1 DEF Books
  <2> QED BY <2>4, <2>5 DEF Clean
<1> QED BY <1>1, <1>2
-----------------------------------------------------------------------------
(* Which calls have been made. *)

Place(call) == CHOOSE i \in DOMAIN Calls : Calls[i] = call

LEMMA CallsDiffer == \A i, j \in 1..25 : Calls[i] = Calls[j] => i = j
BY DEF Calls

LEMMA PlaceCalls == \A i \in 1..25 : Place(Calls[i]) = i /\ Calls[i] \in Named
BY CallsOf, CallsDiffer DEF Place, Named

LEMMA PlaceNamed == \A call \in Named : Place(call) \in 1..25 /\ Calls[Place(call)] = call
BY CallsOf, PlaceCalls DEF Named

LEMMA PlaceOf ==
    /\ Place("ResetStage") = 1 /\ Place("CalcCurrent") = 2 /\ Place("HallDiffusivity") = 3
    /\ Place("Refresh") = 4 /\ Place("CalcFlux") = 5 /\ Place("ResetDiffusion") = 6
    /\ Place("AddNonIdealMHDFlux") = 7 /\ Place("AddVelocityFluid") = 8
    /\ Place("AddViscousFlux") = 9 /\ Place("SubstractVelocityFluid") = 10
    /\ Place("AddDiffusiveFlux") = 11 /\ Place("AddBragViscousFlux") = 12
    /\ Place("AddBragDiffusiveFlux") = 13 /\ Place("TracerCalcFlux") = 14
    /\ Place("CorrectFlux") = 15 /\ Place("CalcRightHandSide") = 16
    /\ Place("TracerCalcRightHandSide") = 17 /\ Place("NextDir") = 18
    /\ Place("AddSourceTerms") = 19 /\ Place("AddDragForce") = 20
    /\ Place("CalcCornerEMF") = 21 /\ Place("CalcNonidealEMF") = 22
    /\ Place("EvolveMagField") = 23 /\ Place("ReconstructVcField") = 24 /\ Place("done") = 25
BY PlaceCalls DEF Calls

LEMMA AllNamed ==
    {"ResetStage", "CalcCurrent", "HallDiffusivity", "Refresh", "CalcFlux", "ResetDiffusion",
      "AddNonIdealMHDFlux", "AddVelocityFluid", "AddViscousFlux", "SubstractVelocityFluid",
      "AddDiffusiveFlux", "AddBragViscousFlux", "AddBragDiffusiveFlux", "TracerCalcFlux",
      "CorrectFlux", "CalcRightHandSide", "TracerCalcRightHandSide", "NextDir",
      "AddSourceTerms", "AddDragForce", "CalcCornerEMF", "CalcNonidealEMF", "EvolveMagField",
      "ReconstructVcField", "done"} = Named
<1>1. Named = {Calls[i] : i \in 1..25}
    BY CallsOf DEF Named
<1> QED BY <1>1 DEF Calls

LEMMA FollowingPlace ==
    ASSUME NEW call \in Named, call # "done"
    PROVE /\ Place(call) < Place(Following(call))
          /\ \A other \in Named :
                Place(call) < Place(other) /\ Place(other) < Place(Following(call)) => ~Wanted(other)
<1> DEFINE after == {i \in DOMAIN Calls : i > Place(call) /\ Wanted(Calls[i])}
<1>1. Place(call) \in 1..25 /\ Calls[Place(call)] = call /\ Place(call) # 25
    BY PlaceNamed, CallsOf
<1>2. Following(call) = Calls[Min(after)]
    BY DEF Following, Place
<1>3. 25 \in after
    BY <1>1, CallsOf, DoneWanted
<1>4. after \in SUBSET Nat /\ after \subseteq 1..25
    BY CallsOf
<1>5. \A i \in after : i > Place(call)
    OBVIOUS
<1>6. \A other \in Named : Place(call) < Place(other) /\ Wanted(other) => Place(other) \in after
    BY PlaceNamed, CallsOf
<1> HIDE DEF after
<1>7. \E x \in after : \A y \in after : x <= y
    BY <1>3, <1>4, LeastOne
<1>8. Min(after) \in after /\ \A y \in after : Min(after) <= y
    BY <1>7 DEF Min
<1>9. Place(Following(call)) = Min(after)
    BY <1>2, <1>4, <1>8, PlaceCalls
<1>10. Min(after) \in 1..25 /\ Min(after) > Place(call)
    BY <1>4, <1>5, <1>8
<1>11. ASSUME NEW other \in Named, Place(call) < Place(other), Place(other) < Min(after), Wanted(other)
       PROVE FALSE
  <2>1. Min(after) <= Place(other) /\ Place(other) \in 1..25
      BY <1>6, <1>8, <1>11, PlaceNamed
  <2> QED BY <1>10, <1>11, <2>1
<1> QED BY <1>1, <1>9, <1>10, <1>11

\* A call of this sweep, or of this stage outside of the sweeps, that has been made.
Been(call) == Place(call) < Place(pc) /\ Wanted(call)

LEMMA WantedSame ==
    ASSUME conf' = conf, dir' = dir, NEW call PROVE (Wanted(call))' <=> Wanted(call)
BY DEF Wanted, Sweep, LoopDirs, Rkl, haveVc, haveVs, HaveRKL, needExplicitCurrent, Evolved, Parabolic,
       ParabolicTerms, AddsMean, Corners, Mhd, haveSourceTerms

LEMMA BeenStep ==
    ASSUME StageInv, NEW call, NEW loops, Call(call, loops), call # "done", NEW other \in Named
    PROVE (Been(other))' <=> Been(other) \/ other = call
<1>1. conf' = conf /\ dir' = dir /\ pc = call /\ pc' = Following(call) /\ call \in Named /\ Wanted(call)
    BY DEF Call, StageInv
<1>2. PICK next : next = Following(call)
    OBVIOUS
<1>3. next \in Named
    BY <1>1, <1>2, FollowingWanted
<1>4. /\ Place(call) < Place(next)
      /\ Place(call) < Place(other) /\ Place(other) < Place(next) => ~Wanted(other)
    BY <1>1, <1>2, FollowingPlace
<1>5. Place(call) \in 1..25 /\ Place(next) \in 1..25 /\ Place(other) \in 1..25
    BY <1>1, <1>3, PlaceNamed
<1>6. Place(call) = Place(other) => other = call
    BY <1>1, PlaceNamed
<1>7. (Wanted(other))' <=> Wanted(other)
    BY <1>1, WantedSame
<1>8. (Been(other))' <=> Place(other) < Place(next) /\ (Wanted(other))'
    BY <1>1, <1>2 DEF Been, Place, Calls
<1>9. Been(other) <=> Place(other) < Place(call) /\ Wanted(other)
    BY <1>1 DEF Been
<1> QED BY <1>1, <1>4, <1>5, <1>6, <1>7, <1>8, <1>9

OrderInv ==
    /\ Place(pc) < 5 => dir = 1
    /\ Place(pc) > 18 /\ LoopDirs => dir = conf.dims

LEMMA LoopDirsSame == ASSUME conf' = conf PROVE (LoopDirs' <=> LoopDirs) /\ (Rkl' <=> Rkl)
BY DEF LoopDirs, Rkl, haveVc, haveVs, HaveRKL

LEMMA OrderCall ==
    ASSUME StageInv, OrderInv, NEW call, NEW loops, Call(call, loops), call # "done", call # "NextDir"
    PROVE OrderInv'
<1>1. conf' = conf /\ dir' = dir /\ pc = call /\ pc' = Following(call) /\ call \in Named /\ Wanted(call)
    BY DEF Call, StageInv
<1>2. PICK next : next = Following(call)
    OBVIOUS
<1>3. next \in Named
    BY <1>1, <1>2, FollowingWanted
<1>4. /\ Place(call) < Place(next)
      /\ Place(call) < 18 /\ 18 < Place(next) => ~Wanted("NextDir")
    BY <1>1, <1>2, FollowingPlace, PlaceOf, AllNamed
<1>5. Place(call) \in 1..25 /\ Place(next) \in 1..25 /\ Place(call) # 18
    BY <1>1, <1>3, PlaceNamed, PlaceOf, AllNamed
<1>6. LoopDirs /\ ~Wanted("NextDir") => dir = conf.dims
    BY SweepOf, ConfType DEF Wanted, StageInv
<1>7. Place(pc') = Place(next) /\ (Place(pc))' = Place(pc')
    BY <1>1, <1>2 DEF Place, Calls
<1> QED BY <1>1, <1>4, <1>5, <1>6, <1>7, LoopDirsSame DEF OrderInv

LEMMA OrderOthers ==
    ASSUME StageInv, OrderInv, NextDir \/ NextStage PROVE OrderInv'
<1>1. pc' \in {"CalcFlux", "ResetStage"} /\ (pc' = "ResetStage" => dir' = 1)
    BY DEF NextDir, NextStage, IDIR
<1>2. (Place(pc))' \in {1, 5} /\ ((Place(pc))' = 1 => dir' = 1)
    BY <1>1, PlaceOf DEF Place, Calls
<1> QED BY <1>2 DEF OrderInv
-----------------------------------------------------------------------------
(* The books of each function. *)

\* The arrays whose parts no property follows.
Scratch ==
    {"flags", "xHall", "csIso", "fargoVelocity", "etaOhmic", "xAmbipolar", "eta1", "eta2", "kappa",
     "etaBrag", "kpar", "knor", "clessAlpha", "clessBeta", "J1", "J2", "J3", "Ex1", "Ex2", "Ex3",
     "ezi", "ezj", "eyi", "eyk", "exj", "exk", "svx", "svy", "svz", "ax", "ay", "az"}

LEMMA HeadsOf ==
    /\ Heads({}) = {}
    /\ \A a, k, p : Heads({<<a, k, p>>}) = {a}
    /\ \A a, k, p, b, l, q : Heads({<<a, k, p>>, <<b, l, q>>}) = {a, b}
BY DEF Heads

\* A kernel of one, two or three statements.
LEMMA OneSetBook ==
    ASSUME NEW over, NEW a, NEW ins, NEW parts
    PROVE /\ Books(<<Loop(over, {Set(a, ins, parts)})>>, {}, {<<a, "set", parts>>})
          /\ Books(<<Loop(over, {Add(a, ins, parts)})>>, {}, {<<a, "add", parts>>})
<1>1. ASSUME NEW s PROVE Books(<<Loop(over, {s})>>, {}, {Entry(s)})
    BY OneBook
<1> QED BY <1>1, Entered

LEMMA TwoBook ==
    ASSUME NEW over, NEW s, NEW t PROVE Books(<<Loop(over, {s, t})>>, {}, {Entry(s), Entry(t)})
BY OneBook

LEMMA ThreeBook ==
    ASSUME NEW over, NEW s, NEW t, NEW u
    PROVE Books(<<Loop(over, {s, t, u})>>, {}, {Entry(s), Entry(t), Entry(u)})
BY OneBook

LEMMA UserBooks ==
    ASSUME NEW arrays, NEW term PROVE Books(UserDiffusivity(arrays, term), arrays, {})
<1>1. CASE conf.terms[term] = "userdef" /\ dir = IDIR
  <2> DEFINE does == {Set(a, {<<"Vc", Here>>}, {}) : a \in arrays}
  <2>1. UserDiffusivity(arrays, term) = <<Loop(Wherever, does)>>
      BY <1>1 DEF UserDiffusivity
  <2>2. \A s \in does : s.out \in arrays /\ ~s.add
      BY Entered
  <2> HIDE DEF does
  <2>3. Books(<<Loop(Wherever, does)>>, arrays, {})
      BY <2>2, OneBook
  <2> QED BY <2>1, <2>3
<1>2. CASE ~(conf.terms[term] = "userdef" /\ dir = IDIR)
  <2>1. UserDiffusivity(arrays, term) = <<>>
      BY <1>2 DEF UserDiffusivity
  <2> QED BY <2>1, NoBook, WiderBooks
<1> QED BY <1>1, <1>2

\* One array of the functions of the user, set cell by cell.
LEMMA ScratchBooks ==
    ASSUME NEW over, NEW a \in Scratch, NEW ins
    PROVE Books(<<Loop(over, {Set(a, ins, {})})>>, {a}, {})
BY Entered, OneBook

LEMMA CurrentBooks == Books(CalcCurrent, Scratch, {})
<1> DEFINE does == {Set(c, CurrentFrom[c], {}) : c \in {"J1", "J2", "J3"}}
<1>1. \A s \in does : s.out \in Scratch /\ ~s.add
    BY Entered DEF Scratch
<1>2. CalcCurrent = <<Loop(Region(nghost - 1, nghost), does)>>
    BY DEF CalcCurrent
<1> HIDE DEF does
<1> QED BY <1>1, <1>2, OneBook

LEMMA ResetStageBooks ==
    Books(<<Loop(Wherever, {Set(a, {}, {}) : a \in Derivatives})>>, {},
          {<<a, "set", {}>> : a \in Derivatives})
<1> DEFINE does == {Set(a, {}, {}) : a \in Derivatives}
           E == {<<a, "set", {}>> : a \in Derivatives}
<1>1. \A s \in does : Entry(s) \in E
    BY Entered
<1>2. \A e \in E : \E s \in does : Entry(s) = e
  <2> SUFFICES ASSUME NEW a \in Derivatives PROVE \E s \in does : Entry(s) = <<a, "set", {}>>
      OBVIOUS
  <2>1. Set(a, {}, {}) \in does /\ Entry(Set(a, {}, {})) = <<a, "set", {}>>
      BY Entered
  <2> HIDE DEF does
  <2> QED BY <2>1
<1> HIDE DEF does, E
<1>3. Books(<<Loop(Wherever, does)>>, {}, E)
    BY <1>1, <1>2, OneBook
<1> QED BY <1>3 DEF does, E

\* The Riemann solvers.
FluxEntries == {<<"Flux", "set", Hyperbolic>>, <<"cMax", "set", Hyperbolic>>}

Stores == {"ezi", "ezj", "eyi", "eyk", "exj", "exk", "svx", "svy", "svz", "ax", "ay", "az"}

LEMMA FaceBooks ==
    ASSUME NEW over, NEW ins, NEW more, \A s \in more : s.out \in Stores /\ ~s.add
    PROVE Books(<<Loop(over, Face(ins) \cup more)>>, Stores, FluxEntries)
<1> DEFINE does == Face(ins) \cup more
<1>1. Face(ins) = {Set("Flux", ins, Hyperbolic), Set("cMax", ins, Hyperbolic)}
    BY DEF Face
<1>2. \A s \in Face(ins) : Entry(s) \in FluxEntries
    BY <1>1, Entered DEF FluxEntries
<1>3. \A e \in FluxEntries : \E s \in does : Entry(s) = e
    BY <1>1, Entered DEF FluxEntries
<1>4. \A s \in does : Entry(s) \in FluxEntries \/ (s.out \in Stores /\ (s.add => s.parts = {}))
    BY <1>2
<1> HIDE DEF does
<1>5. Books(<<Loop(over, does)>>, Stores, FluxEntries)
    BY <1>3, <1>4, OneBook
<1> QED BY <1>5 DEF does

LEMMA StoresSet ==
    ASSUME Setting, NEW ins
    PROVE /\ \A s \in K_StoreEMF(ins) : s.out \in Stores /\ ~s.add
          /\ \A s \in K_StoreHLL(ins) : s.out \in Stores /\ ~s.add
          /\ \A s \in K_StoreContact(ins) : s.out \in Stores /\ ~s.add
          /\ \A s \in K_StoreHLLD(ins) : s.out \in Stores /\ ~s.add
<1>1. {Et[dir], Eb[dir], SV[dir], Fan[dir]} \subseteq Stores
  <2>1. CASE dir = 1 BY <2>1, Tuples DEF Stores
  <2>2. CASE dir = 2 BY <2>2, Tuples DEF Stores
  <2>3. CASE dir = 3 BY <2>3, Tuples DEF Stores
  <2> QED BY <2>1, <2>2, <2>3, ConfType DEF Dirs
<1>2. \A s \in K_StoreEMF(ins) : s.out \in Stores /\ ~s.add
    BY <1>1, Entered DEF K_StoreEMF
<1>3. \A s \in K_StoreHLL(ins) : s.out \in Stores /\ ~s.add
    BY <1>1, Entered DEF K_StoreHLL
<1>4. \A s \in K_StoreContact(ins) : s.out \in Stores /\ ~s.add
    BY <1>1, <1>2, Entered DEF K_StoreContact
<1>5. \A s \in K_StoreHLLD(ins) : s.out \in Stores /\ ~s.add
    BY <1>1, <1>2, Entered DEF K_StoreHLLD
<1> QED BY <1>2, <1>3, <1>4, <1>5

LEMMA SolverBooks == ASSUME Setting PROVE Books(<<Solver>>, Stores, FluxEntries)
<1>1. \A over, ins : Books(<<Loop(over, Face(ins))>>, Stores, FluxEntries)
  <2> SUFFICES ASSUME NEW over, NEW ins PROVE Books(<<Loop(over, Face(ins))>>, Stores, FluxEntries)
      OBVIOUS
  <2>1. Face(ins) \cup {} = Face(ins)
      OBVIOUS
  <2>2. Books(<<Loop(over, Face(ins) \cup {})>>, Stores, FluxEntries)
      BY FaceBooks
  <2> QED BY <2>1, <2>2
<1>2. \A over, ins, ins2 :
         /\ Books(<<Loop(over, Face(ins) \cup K_StoreEMF(ins2))>>, Stores, FluxEntries)
         /\ Books(<<Loop(over, Face(ins) \cup K_StoreHLL(ins2))>>, Stores, FluxEntries)
         /\ Books(<<Loop(over, Face(ins) \cup K_StoreContact(ins2))>>, Stores, FluxEntries)
         /\ Books(<<Loop(over, Face(ins) \cup K_StoreHLLD(ins2))>>, Stores, FluxEntries)
    BY FaceBooks, StoresSet
<1>3. CASE conf.phys # "mhd"
    BY <1>1, <1>3 DEF Solver, HllHD, HllcHD, RoeHD, TvdlfHD, HllDust, Setting, Solves, Options
<1>4. CASE conf.phys = "mhd"
  <2>1. conf.emf \in {"arithmetic", "uct0", "uct_contact", "uct_hll", "uct_hlld"}
      BY DEF Setting, Options
  <2>2. \A over : Books(<<Loop(over, Face(MHDStates) \cup StoreAll)>>, Stores, FluxEntries)
      BY <1>2, <2>1 DEF StoreAll
  <2>3. conf.solver = "hll" => Books(<<HllMHD>>, Stores, FluxEntries)
    <3> SUFFICES ASSUME conf.solver = "hll" PROVE Books(<<HllMHD>>, Stores, FluxEntries)
        OBVIOUS
    <3>1. conf.emf # "uct_hlld"
        BY DEF Setting, Solves
    <3> DEFINE ins == MHDStates \cup HallStates
    <3>2. HllMHD = Loop(Extended(perpExtension),
             Face(ins) \cup CASE conf.emf \in {"arithmetic", "uct0"} -> K_StoreEMF(ins)
                              [] conf.emf = "uct_contact" -> K_StoreContact(ins)
                              [] conf.emf = "uct_hll" -> K_StoreHLL(MHDStates))
        BY DEF HllMHD
    <3> HIDE DEF ins
    <3> QED BY <1>2, <2>1, <3>1, <3>2
  <2> QED BY <1>4, <2>2, <2>3 DEF Solver, HlldMHD, RoeMHD, TvdlfMHD, Setting, Solves
<1> QED BY <1>3, <1>4

LEMMA CalcFluxBooks == ASSUME Setting PROVE Books(CalcFlux, Scratch, FluxEntries)
<1> DEFINE first == IF dir = IDIR /\ conf.shock THEN <<FindShock>> ELSE <<>>
<1>1. Books(<<FindShock>>, {"flags"}, {})
  <2>1. PICK over, ins : FindShock = Loop(over, {Set("flags", ins, {})})
      BY DEF FindShock
  <2>2. "flags" \in Scratch
      BY DEF Scratch
  <2> QED BY <2>1, <2>2, ScratchBooks
<1>2. Books(first, {"flags"}, {})
    BY <1>1, NoBook, WiderBooks
<1>0. Heads(FluxEntries) = {"Flux", "cMax"} /\ Heads({}) = {}
    BY DEF FluxEntries, Heads
<1>3. ({"flags"} \cup Heads({})) \cap (Stores \cup Heads(FluxEntries)) = {}
    BY <1>0 DEF Stores
<1>4. Books(first \o <<Solver>>, {"flags"} \cup Stores, {} \cup FluxEntries)
    BY <1>2, <1>3, SolverBooks, JoinBooks
<1>5. {} \cup FluxEntries = FluxEntries /\ {"flags"} \cup Stores \subseteq Scratch
    BY DEF Scratch, Stores
<1>6. CalcFlux = first \o <<Solver>>
    BY DEF CalcFlux
<1> QED BY <1>4, <1>5, <1>6, WiderBooks

LEMMA ResetFluxBooks == Books(ResetFlux, {}, {<<"Flux", "set", {}>>})
BY OneSetBook DEF ResetFlux

LEMMA ResetDiffusionBooks == Books(ResetDiffusion, {}, {<<"dMax", "set", {}>>})
BY OneSetBook DEF ResetDiffusion

If(condition, parts) == IF condition THEN parts ELSE {}

One(name) == {<<name, 0>>}

NonIdeal == If(Evolved("ohmic"), One("ohmic")) \cup If(Evolved("ambipolar"), One("ambipolar"))

Stress == One("viscosity") \cup If(OffMean, One("deviations"))

LEMMA UserThen ==
    ASSUME NEW arrays, NEW term, NEW g, NEW E, Books(g, {}, E), arrays \subseteq Scratch,
           Heads(E) \cap Scratch = {}
    PROVE Books(UserDiffusivity(arrays, term) \o g, Scratch, E)
<1>1. PICK f : f = UserDiffusivity(arrays, term)
    OBVIOUS
<1>2. Books(f, arrays, {})
    BY <1>1, UserBooks
<1>3. (arrays \cup Heads({})) \cap ({} \cup Heads(E)) = {}
    BY HeadsOf
<1>4. Books(f \o g, arrays \cup {}, {} \cup E)
    BY <1>2, <1>3, JoinBooks
<1>5. arrays \cup {} = arrays /\ {} \cup E = E
    OBVIOUS
<1>6. Books(f \o g, arrays, E)
    BY <1>4, <1>5
<1> QED BY <1>1, <1>6, WiderBooks

NonIdealEntries == {<<"Flux", "add", NonIdeal>>, <<"dMax", "add", NonIdeal>>}

LEMMA NonIdealBooks == Books(AddNonIdealMHDFlux, Scratch, NonIdealEntries)
<1> DEFINE terms == {t \in {"ohmic", "ambipolar"} : Evolved(t)}
           array(t) == IF t = "ohmic" THEN {"etaOhmic"} ELSE {"xAmbipolar"}
           coefficients == UNION {AtFace(array(t), t) : t \in terms}
           parts == {<<t, 0>> : t \in terms}
           s == Add("Flux", FaceCurrent \cup FaceField \cup coefficients, parts)
           t == Add("dMax", FaceField \cup coefficients, parts)
           u == UserDiffusivity({"etaOhmic"}, "ohmic")
           v == UserDiffusivity({"xAmbipolar"}, "ambipolar")
           loop == <<Loop(Faces(dir), {s, t})>>
<1>1. parts = NonIdeal
    BY DEF NonIdeal, If, One
<1>2. Entry(s) = <<"Flux", "add", NonIdeal>> /\ Entry(t) = <<"dMax", "add", NonIdeal>>
  <2>1. PICK ins, jns : s = Add("Flux", ins, NonIdeal) /\ t = Add("dMax", jns, NonIdeal)
      BY <1>1
  <2> QED BY <2>1, Entered
<1>3. AddNonIdealMHDFlux = (u \o v) \o loop
    BY DEF AddNonIdealMHDFlux
<1>4. Books(u, {"etaOhmic"}, {}) /\ Books(v, {"xAmbipolar"}, {})
    BY UserBooks
<1> HIDE DEF s, t, u, v
<1>5. Books(loop, {}, NonIdealEntries)
    BY <1>2, TwoBook DEF NonIdealEntries
<1> HIDE DEF loop
<1>6. Heads({}) = {} /\ Heads(NonIdealEntries) = {"Flux", "dMax"}
    BY DEF Heads, NonIdealEntries
<1>7. Books(u \o v, {"etaOhmic"} \cup {"xAmbipolar"}, {} \cup {})
  <2>1. ({"etaOhmic"} \cup Heads({})) \cap ({"xAmbipolar"} \cup Heads({})) = {}
      BY <1>6
  <2> QED BY <1>4, <2>1, JoinBooks
<1>8. Books(u \o v, {"etaOhmic", "xAmbipolar"}, {})
  <2>1. {"etaOhmic"} \cup {"xAmbipolar"} = {"etaOhmic", "xAmbipolar"} /\ {} \cup {} = {}
      OBVIOUS
  <2> QED BY <1>7, <2>1
<1>9. Books((u \o v) \o loop, {"etaOhmic", "xAmbipolar"} \cup {}, {} \cup NonIdealEntries)
  <2>1. ({"etaOhmic", "xAmbipolar"} \cup Heads({})) \cap ({} \cup Heads(NonIdealEntries)) = {}
      BY <1>6
  <2>2. PICK f : f = u \o v
      OBVIOUS
  <2> QED BY <1>5, <1>8, <2>1, <2>2, JoinBooks
<1>10. {} \cup NonIdealEntries = NonIdealEntries /\ {"etaOhmic", "xAmbipolar"} \cup {} \subseteq Scratch
    BY DEF Scratch
<1> QED BY <1>3, <1>9, <1>10, WiderBooks

DiffuseEntries(term) == {<<"Flux", "add", One(term)>>, <<"dMax", "add", One(term)>>}

LEMMA DiffuseEntered ==
    ASSUME NEW term, NEW gradients, NEW coefficients
    PROVE {Entry(s) : s \in Diffuse(term, gradients, coefficients)} = DiffuseEntries(term)
<1> DEFINE s == Add("Flux", gradients \cup coefficients, {<<term, 0>>})
           t == Limiting(term, coefficients)
<1>1. Entry(s) = <<"Flux", "add", One(term)>> /\ Entry(t) = <<"dMax", "add", One(term)>>
    BY Entered DEF Limiting, One
<1>2. Diffuse(term, gradients, coefficients) = {s, t}
    BY DEF Diffuse
<1> HIDE DEF s, t
<1> QED BY <1>1, <1>2 DEF DiffuseEntries

LEMMA BookOf ==
    ASSUME NEW over, NEW does PROVE Books(<<Loop(over, does)>>, {}, {Entry(s) : s \in does})
<1> DEFINE E == {Entry(s) : s \in does}
<1>1. \A s \in does : Entry(s) \in E
    OBVIOUS
<1>2. \A e \in E : \E s \in does : Entry(s) = e
    OBVIOUS
<1> HIDE DEF E
<1>3. Books(<<Loop(over, does)>>, {}, E)
    BY <1>1, <1>2, OneBook
<1> QED BY <1>3 DEF E

LEMMA NotScratch ==
    /\ {"Flux", "dMax", "viscSrc", "bragViscSrc", "Vc", "cMax", "Uc", "InvDt"} \cap Scratch = {}
    /\ {"kappa"} \subseteq Scratch /\ {"eta1", "eta2"} \subseteq Scratch
    /\ {"etaBrag"} \subseteq Scratch /\ BragCoefficients \subseteq Scratch
BY DEF Scratch, BragCoefficients

LEMMA HeatBooks == Books(AddDiffusiveFlux, Scratch, DiffuseEntries("conduction"))
<1> DEFINE gradient == {Normal, <<Pressure, Along(dir, -1, 0)>>}
           does == Diffuse("conduction", gradient, AtFace({"kappa"}, "conduction"))
<1>1. {Entry(s) : s \in does} = DiffuseEntries("conduction")
    BY DiffuseEntered
<1>2. AddDiffusiveFlux = UserDiffusivity({"kappa"}, "conduction") \o <<Loop(Faces(dir), does)>>
    BY DEF AddDiffusiveFlux
<1> HIDE DEF does
<1>3. Books(<<Loop(Faces(dir), does)>>, {}, DiffuseEntries("conduction"))
    BY <1>1, BookOf
<1>4. Heads(DiffuseEntries("conduction")) = {"Flux", "dMax"}
    BY DEF Heads, DiffuseEntries
<1>5. Heads(DiffuseEntries("conduction")) \cap Scratch = {}
    BY <1>4, NotScratch
<1> QED BY <1>2, <1>3, <1>5, NotScratch, UserThen

SourceEntries(array) == If(conf.geo # "cartesian", {<<array, "set", One(array)>>})

LEMMA CurvatureEntered ==
    ASSUME NEW array, NEW ins
    PROVE {Entry(s) : s \in Curvature(array, ins)} = SourceEntries(array)
<1>1. CASE conf.geo = "cartesian"
    BY <1>1 DEF Curvature, SourceEntries, If
<1>2. CASE conf.geo # "cartesian"
  <2> DEFINE s == Set(array, ins, {<<array, 0>>})
  <2>1. Entry(s) = <<array, "set", One(array)>>
      BY Entered DEF One
  <2>2. Curvature(array, ins) = {s}
      BY <1>2 DEF Curvature
  <2> HIDE DEF s
  <2> QED BY <1>2, <2>1, <2>2 DEF SourceEntries, If
<1> QED BY <1>1, <1>2

ViscousEntries == {<<"Flux", "add", Stress>>, <<"dMax", "add", One("viscosity")>>}

LEMMA StressEntered ==
    ASSUME NEW mean PROVE {Entry(s) : s \in ViscousStress(mean)} = ViscousEntries
<1> DEFINE s == Add("Flux", FaceGradients \cup EtaAtFace \cup ViscousWork(mean) \cup EnergyFlux,
                    {<<"viscosity", 0>>} \cup IF OffMean THEN {<<"deviations", 0>>} ELSE {})
           t == Limiting("viscosity", EtaAtFace)
<1>1. {<<"viscosity", 0>>} \cup (IF OffMean THEN {<<"deviations", 0>>} ELSE {}) = Stress
    BY DEF Stress, If, One
<1>2. Entry(s) = <<"Flux", "add", Stress>>
  <2>1. PICK ins : s = Add("Flux", ins, Stress)
      BY <1>1
  <2> QED BY <2>1, Entered
<1>3. Entry(t) = <<"dMax", "add", One("viscosity")>>
    BY Entered DEF Limiting, One
<1>4. ViscousStress(mean) = {s, t}
    BY DEF ViscousStress
<1> HIDE DEF s, t
<1> QED BY <1>2, <1>3, <1>4 DEF ViscousEntries

LEMMA JoinEntered ==
    ASSUME NEW f, NEW g
    PROVE {Entry(s) : s \in f \cup g} = {Entry(s) : s \in f} \cup {Entry(s) : s \in g}
OBVIOUS

LEMMA StressHeads ==
    ASSUME NEW P, NEW Q, NEW array \in {"viscSrc", "bragViscSrc"}
    PROVE Heads({<<"Flux", "add", P>>, <<"dMax", "add", Q>>} \cup SourceEntries(array)) \cap Scratch = {}
<1>1. Heads({<<"Flux", "add", P>>, <<"dMax", "add", Q>>} \cup SourceEntries(array))
        \subseteq {"Flux", "dMax", array}
    BY DEF Heads, SourceEntries, If
<1> QED BY <1>1, NotScratch

LEMMA ViscousBooks ==
    ASSUME Setting PROVE Books(AddViscousFlux, Scratch, ViscousEntries \cup SourceEntries("viscSrc"))
<1> DEFINE does == <<ViscousFluxIDIR, ViscousFluxJDIR, ViscousFluxKDIR>>[dir]
           E == ViscousEntries \cup SourceEntries("viscSrc")
<1>1. \E mean, ins : does = ViscousStress(mean) \cup Curvature("viscSrc", ins)
  <2>1. CASE dir = 1 BY <2>1 DEF ViscousFluxIDIR
  <2>2. CASE dir = 2 BY <2>2 DEF ViscousFluxJDIR
  <2>3. CASE dir = 3 BY <2>3 DEF ViscousFluxKDIR
  <2> QED BY <2>1, <2>2, <2>3, ConfType DEF Dirs
<1>2. AddViscousFlux = UserDiffusivity({"eta1", "eta2"}, "viscosity") \o <<Loop(Faces(dir), does)>>
    BY DEF AddViscousFlux
<1> HIDE DEF does
<1>3. PICK mean, ins : does = ViscousStress(mean) \cup Curvature("viscSrc", ins)
    BY <1>1
<1>4. {Entry(s) : s \in does} = E
    BY <1>3, JoinEntered, StressEntered, CurvatureEntered
<1>5. Heads(E) \cap Scratch = {}
    BY StressHeads DEF ViscousEntries
<1> HIDE DEF E
<1>6. Books(<<Loop(Faces(dir), does)>>, {}, E)
    BY <1>4, BookOf
<1>7. Books(AddViscousFlux, Scratch, E)
    BY <1>2, <1>5, <1>6, NotScratch, UserThen
<1> QED BY <1>7 DEF E

LEMMA BragViscousBooks ==
    ASSUME Setting
    PROVE Books(AddBragViscousFlux, Scratch, DiffuseEntries("bragViscosity") \cup SourceEntries("bragViscSrc"))
<1> DEFINE does == BragStress \cup Curvature("bragViscSrc", CellStress)
           E == DiffuseEntries("bragViscosity") \cup SourceEntries("bragViscSrc")
<1>1. {Entry(s) : s \in does} = E
    BY JoinEntered, DiffuseEntered, CurvatureEntered DEF BragStress
<1>2. AddBragViscousFlux = UserDiffusivity({"etaBrag"}, "bragViscosity") \o <<Loop(Faces(dir), does)>>
    BY DEF AddBragViscousFlux
<1> HIDE DEF does
<1>3. Heads(E) \cap Scratch = {}
    BY StressHeads DEF DiffuseEntries
<1> HIDE DEF E
<1>4. Books(<<Loop(Faces(dir), does)>>, {}, E)
    BY <1>1, BookOf
<1>5. Books(AddBragViscousFlux, Scratch, E)
    BY <1>2, <1>3, <1>4, NotScratch, UserThen
<1> QED BY <1>5 DEF E

BragHeatEntries ==
    {<<"Flux", "add", One("bragConduction")>>,
     <<"dMax", "set", Scaled(mem["dMax"].parts) \cup One("bragConduction")>>}

LEMMA BragHeatBooks == Books(AddBragDiffusiveFlux, Scratch, BragHeatEntries)
<1> DEFINE coefficients == AtFace(BragCoefficients, "bragConduction")
           gradients == <<HeatFluxIDIR, HeatFluxJDIR, HeatFluxKDIR>>[dir]
           s == Add("Flux", gradients \cup HeatField \cup Upwind \cup coefficients,
                    {<<"bragConduction", 0>>})
           t == Set("dMax", {<<"dMax", Here>>, Normal} \cup coefficients,
                    Scaled(mem["dMax"].parts) \cup {<<"bragConduction", 0>>})
<1>1. Entry(s) = <<"Flux", "add", One("bragConduction")>>
    BY Entered DEF One
<1>2. Entry(t) = <<"dMax", "set", Scaled(mem["dMax"].parts) \cup One("bragConduction")>>
    BY Entered DEF One
<1>3. AddBragDiffusiveFlux = UserDiffusivity(BragCoefficients, "bragConduction") \o <<Loop(Faces(dir), {s, t})>>
    BY DEF AddBragDiffusiveFlux
<1> HIDE DEF s, t
<1>4. Books(<<Loop(Faces(dir), {s, t})>>, {}, BragHeatEntries)
    BY <1>1, <1>2, TwoBook DEF BragHeatEntries
<1>5. Heads(BragHeatEntries) = {"Flux", "dMax"}
    BY DEF Heads, BragHeatEntries
<1>6. Heads(BragHeatEntries) \cap Scratch = {}
    BY <1>5, NotScratch
<1> QED BY <1>3, <1>4, <1>6, NotScratch, UserThen

LEMMA OneHead == ASSUME NEW a, NEW k, NEW P PROVE Heads({<<a, k, P>>}) = {a}
BY DEF Heads

LEMMA FargoBooks ==
    ASSUME NEW g, NEW E, Books(g, {}, E), Heads(E) \cap Scratch = {}
    PROVE Books(GetFargoVelocity \o g, Scratch, E)
<1>1. "fargoVelocity" \in Scratch
    BY DEF Scratch
<1>2. Books(GetFargoVelocity, {"fargoVelocity"}, {})
    BY <1>1, ScratchBooks, NoBook, WiderBooks DEF GetFargoVelocity
<1>3. ({"fargoVelocity"} \cup Heads({})) \cap ({} \cup Heads(E)) = {}
    BY <1>1, HeadsOf
<1>4. Books(GetFargoVelocity \o g, {"fargoVelocity"} \cup {}, {} \cup E)
    BY <1>2, <1>3, JoinBooks
<1>5. {"fargoVelocity"} \cup {} \subseteq Scratch /\ {} \cup E = E
    BY <1>1
<1> QED BY <1>4, <1>5, WiderBooks

LEMMA CorrectBooks ==
    Books(CorrectFlux, Scratch, {<<"Flux", "add", MeanParts("fargo", "rotation")>>})
<1> DEFINE E == {<<"Flux", "add", MeanParts("fargo", "rotation")>>}
<1>1. Books(<<Loop(Faces(dir), {Add("Flux", MeanVelocity(-1), MeanParts("fargo", "rotation"))})>>, {}, E)
    BY OneSetBook
<1>2. Heads(E) \cap Scratch = {}
    BY NotScratch DEF Heads
<1> HIDE DEF E
<1>3. Books(CorrectFlux, Scratch, E)
    BY <1>1, <1>2, FargoBooks DEF CorrectFlux
<1> QED BY <1>3 DEF E

AddVelocityLoops == GetFargoVelocity \o <<Loop(Wherever, {Add("Vc", {}, Part("mean", 0))})>>

SubstractVelocityLoops ==
    GetFargoVelocity
    \o <<Loop(Wherever, {Set("Vc", {<<"Vc", Here>>}, mem["Vc"].parts \ Part("mean", 0))})>>

LEMMA AddVelocityBooks == Books(AddVelocityLoops, Scratch, {<<"Vc", "add", Part("mean", 0)>>})
<1> DEFINE E == {<<"Vc", "add", Part("mean", 0)>>}
<1>1. Books(<<Loop(Wherever, {Add("Vc", {}, Part("mean", 0))})>>, {}, E)
    BY OneSetBook
<1>2. Heads(E) \cap Scratch = {}
    BY NotScratch DEF Heads
<1> HIDE DEF E
<1>3. Books(AddVelocityLoops, Scratch, E)
    BY <1>1, <1>2, FargoBooks DEF AddVelocityLoops
<1> QED BY <1>3 DEF E

LEMMA SubstractVelocityBooks ==
    Books(SubstractVelocityLoops, Scratch, {<<"Vc", "set", mem["Vc"].parts \ Part("mean", 0)>>})
<1> DEFINE E == {<<"Vc", "set", mem["Vc"].parts \ Part("mean", 0)>>}
<1>1. Books(<<Loop(Wherever, {Set("Vc", {<<"Vc", Here>>}, mem["Vc"].parts \ Part("mean", 0))})>>, {}, E)
    BY OneSetBook
<1>2. Heads(E) \cap Scratch = {}
    BY NotScratch DEF Heads
<1> HIDE DEF E
<1>3. Books(SubstractVelocityLoops, Scratch, E)
    BY <1>1, <1>2, FargoBooks DEF SubstractVelocityLoops
<1> QED BY <1>3 DEF E

LEMMA TracerFluxBooks ==
    Books(TracerCalcFlux, {}, {<<"FluxTracer", "set", Part("tracer", 0)>>})
BY OneSetBook DEF TracerCalcFlux

LEMMA TracerBooks ==
    Books(TracerCalcRightHandSide, {}, {<<"UcTracer", "add", Swept("FluxTracer")>>})
BY OneSetBook DEF TracerCalcRightHandSide

\* What a sweep adds to the cells, and to the time step.
CellGain ==
    Swept("Flux")
    \cup {<<p[1], dir>> : p \in MeanParts("fargoBack", "rotationBack")}
    \cup (UNION {Part(s, dir) : s \in CurvatureSource})
    \cup (IF conf.potential THEN Part("potential", dir) ELSE {})
    \cup IF conf.body THEN UNION {Part("body", d) : d \in ForceComponents} ELSE {}

StepGain == Limits("cMax") \cup IF ParabolicTerms THEN Limits("dMax") ELSE {}

LEMMA RHSBooks == Books(CalcRHS, {}, {<<"Uc", "add", CellGain>>, <<"InvDt", "add", StepGain>>})
<1>1. PICK ins, jns : CalcRHS = <<Loop(Interior, {Add("Uc", ins, CellGain), Add("InvDt", jns, StepGain)})>>
    BY DEF CalcRHS, CellGain, StepGain
<1>2. PICK s : s = Add("Uc", ins, CellGain)
    OBVIOUS
<1>6. PICK t : t = Add("InvDt", jns, StepGain)
    OBVIOUS
<1>3. Entry(s) = <<"Uc", "add", CellGain>> /\ Entry(t) = <<"InvDt", "add", StepGain>>
    BY <1>2, <1>6, Entered
<1>4. Books(<<Loop(Interior, {s, t})>>, {}, {Entry(s), Entry(t)})
    BY TwoBook
<1>5. CalcRHS = <<Loop(Interior, {s, t})>>
    BY <1>1, <1>2, <1>6
<1> QED BY <1>3, <1>4, <1>5

RKLGain == Swept("Flux") \cup UNION {{<<p[1], dir>> : p \in mem[s].parts} : s \in RKLSources}

RKLEntries ==
    {<<"Flux", "add", {}>>, <<"dU", "add", RKLGain>>}
    \cup If(conf.cycle = "rkl", {<<"InvDt", "add", Limits("dMax")>>})

LEMMA JoinOf ==
    ASSUME NEW M, NEW x \in Seq(M), NEW y \in Seq(M), NEW h, h = x \o y
    PROVE /\ h \in Seq(M) /\ Len(h) = Len(x) + Len(y)
          /\ \A i \in 1..Len(x) : h[i] = x[i]
          /\ \A i \in 1..Len(h) : i > Len(x) => h[i] = y[i - Len(x)]
OBVIOUS

LEMMA PairJoins == ASSUME NEW f, NEW g PROVE <<f, g>> = <<f>> \o <<g>>
<1>1. PICK M : M = {f, g}
    OBVIOUS
<1>2. PICK h : h = <<f>> \o <<g>>
    OBVIOUS
<1>3. PICK x : x = <<f>>
    OBVIOUS
<1>4. PICK y : y = <<g>>
    OBVIOUS
<1>5. x \in Seq(M) /\ y \in Seq(M) /\ Len(x) = 1 /\ Len(y) = 1 /\ x[1] = f /\ y[1] = g
    BY <1>1, <1>3, <1>4
<1>6. h \in Seq(M) /\ Len(h) = 2 /\ h[1] = f /\ h[2] = g
  <2>1. h = x \o y
      BY <1>2, <1>3, <1>4
  <2>2. /\ h \in Seq(M) /\ Len(h) = Len(x) + Len(y)
        /\ \A i \in 1..Len(x) : h[i] = x[i]
        /\ \A i \in 1..Len(h) : i > Len(x) => h[i] = y[i - Len(x)]
    <3>1. x \in Seq(M) /\ y \in Seq(M)
        BY <1>5
    <3> QED BY ONLY <3>1, <2>1, JoinOf
  <2> QED BY ONLY <1>5, <2>2
<1>7. h = [i \in 1..2 |-> IF i = 1 THEN f ELSE g]
    BY <1>6
<1>8. <<f, g>> = [i \in 1..2 |-> IF i = 1 THEN f ELSE g]
    OBVIOUS
<1> QED BY <1>2, <1>7, <1>8

LEMMA ParabolicBooks == Books(CalcParabolicRHS, {}, RKLEntries)
<1> DEFINE third == IF conf.cycle = "rkl"
                    THEN <<Loop(Interior, {Add("InvDt", {<<"dMax", Along(dir, 0, 1)>>}, Limits("dMax"))})>>
                    ELSE <<>>
           E == {<<"Flux", "add", {}>>}
           F == {<<"dU", "add", RKLGain>>}
           G == If(conf.cycle = "rkl", {<<"InvDt", "add", Limits("dMax")>>})
<1>1. PICK f, g, ins :
        /\ f = Loop(Faces(dir), {Add("Flux", {}, {})}) /\ g = Loop(Interior, {Add("dU", ins, RKLGain)})
        /\ CalcParabolicRHS = <<f, g>> \o third
    BY DEF CalcParabolicRHS, RKLGain
<1>2. Books(<<f>>, {}, E) /\ Books(<<g>>, {}, F)
    BY <1>1, OneSetBook
<1>3. Books(third, {}, G)
    BY OneSetBook, NoBook DEF If
<1>4. Heads(E) = {"Flux"} /\ Heads(F) = {"dU"} /\ Heads(G) \subseteq {"InvDt"} /\ Heads(E \cup F) = {"Flux", "dU"}
    BY DEF Heads, If
<1>5. <<f, g>> = <<f>> \o <<g>>
    BY ONLY PairJoins
<1> HIDE DEF E, F, G, third
<1>6. Books(<<f>> \o <<g>>, {} \cup {}, E \cup F)
  <2>1. ({} \cup Heads(E)) \cap ({} \cup Heads(F)) = {}
      BY <1>4
  <2> QED BY <1>2, <2>1, JoinBooks
<1>7. Books(<<f, g>>, {}, E \cup F)
    BY <1>5, <1>6
<1>8. Books(<<f, g>> \o third, {} \cup {}, (E \cup F) \cup G)
  <2>1. ({} \cup Heads(E \cup F)) \cap ({} \cup Heads(G)) = {}
      BY <1>4
  <2> QED BY <1>3, <1>7, <2>1, JoinBooks
<1>9. (E \cup F) \cup G = RKLEntries
    BY DEF E, F, G, RKLEntries
<1> QED BY <1>1, <1>8, <1>9

LEMMA SourceBooks == Books(AddSourceTerms, {}, {<<"Uc", "add", SourceParts>>})
BY OneSetBook DEF AddSourceTerms

DragEntries ==
    {<<"Uc", "add", Part("drag", 0)>>, <<"UcGas", "add", Part("drag", 0)>>,
     <<"InvDt", "add", Part("drag", 0)>>}

LEMMA DragBooks == Books(AddDragForce, {}, DragEntries)
<1>0. PICK ins : ins = {<<"Vc", Here>>, <<"VcGas", Here>>}
    OBVIOUS
<1>6. PICK jns : jns = {<<"VcGas", Here>>}
    OBVIOUS
<1>7. PICK parts : parts = Part("drag", 0)
    OBVIOUS
<1>1. PICK s : s = Add("Uc", ins, parts)
    OBVIOUS
<1>2. PICK t : t = Add("UcGas", ins, parts)
    OBVIOUS
<1>3. PICK u : u = Add("InvDt", jns, parts)
    OBVIOUS
<1>4. {Entry(s), Entry(t), Entry(u)} = DragEntries
    BY <1>0, <1>1, <1>2, <1>3, <1>7, Entered DEF DragEntries
<1>5. AddDragForce = <<Loop(Wherever, {s, t, u})>>
    BY <1>0, <1>1, <1>2, <1>3, <1>6, <1>7 DEF AddDragForce
<1> QED BY <1>4, <1>5, ThreeBook

EdgeEntries(kind, parts) == {<<Edge[e], kind, parts>> : e \in Edges}

LEMMA NonidealBooks ==
    Books(CalcNonidealEMF(Evolved("ohmic"), Evolved("ambipolar")), {}, EdgeEntries("add", NonIdeal))
<1> DEFINE ins(e) ==
                {<<Current[e], Here>>}
                \cup (IF Evolved("ohmic") THEN EdgeDiffusivity("etaOhmic", conf.terms["ohmic"], e) ELSE {})
                \cup IF Evolved("ambipolar")
                     THEN EdgeField(e) \cup EdgeDiffusivity("xAmbipolar", conf.terms["ambipolar"], e) ELSE {}
           does == {Add(Edge[e], ins(e), NonIdeal) : e \in Edges}
<1>1. (IF Evolved("ohmic") THEN {<<"ohmic", 0>>} ELSE {})
                \cup (IF Evolved("ambipolar") THEN {<<"ambipolar", 0>>} ELSE {}) = NonIdeal
    BY DEF NonIdeal, If, One
<1>2. CalcNonidealEMF(Evolved("ohmic"), Evolved("ambipolar")) = <<Loop(AllEdges, does)>>
    BY <1>1 DEF CalcNonidealEMF
<1> HIDE DEF ins
<1> DEFINE E == EdgeEntries("add", NonIdeal)
<1>3. \A s \in does : Entry(s) \in E
    BY Entered DEF EdgeEntries
<1>4. \A x \in E : \E s \in does : Entry(s) = x
  <2> SUFFICES ASSUME NEW e \in Edges PROVE \E s \in does : Entry(s) = <<Edge[e], "add", NonIdeal>>
      BY DEF EdgeEntries
  <2>1. Add(Edge[e], ins(e), NonIdeal) \in does /\ Entry(Add(Edge[e], ins(e), NonIdeal)) = <<Edge[e], "add", NonIdeal>>
      BY Entered
  <2> HIDE DEF does
  <2> QED BY <2>1
<1> HIDE DEF does, E
<1>5. Books(<<Loop(AllEdges, does)>>, {}, E)
    BY <1>3, <1>4, OneBook
<1> QED BY <1>2, <1>5 DEF E

FieldEntries(f, dirs, kind) == {<<f[d], kind, EdgeParts>> : d \in dirs}

LEMMA MagBooks ==
    ASSUME NEW f PROVE Books(EvolveMagField(f), {}, FieldEntries(f, Active, "add"))
<1> DEFINE ins(d) == Curl(d, Edge)
           does == {Add(f[d], ins(d), EdgeParts) : d \in Active}
<1>1. EvolveMagField(f) = <<Loop(AllEdges, does)>>
    BY DEF EvolveMagField
<1> HIDE DEF ins
<1> DEFINE E == FieldEntries(f, Active, "add")
<1>3. \A s \in does : Entry(s) \in E
    BY Entered DEF FieldEntries
<1>4. \A x \in E : \E s \in does : Entry(s) = x
  <2> SUFFICES ASSUME NEW d \in Active PROVE \E s \in does : Entry(s) = <<f[d], "add", EdgeParts>>
      BY DEF FieldEntries
  <2>1. Add(f[d], ins(d), EdgeParts) \in does /\ Entry(Add(f[d], ins(d), EdgeParts)) = <<f[d], "add", EdgeParts>>
      BY Entered
  <2> HIDE DEF does
  <2> QED BY <2>1
<1> HIDE DEF does, E
<1>5. Books(<<Loop(AllEdges, does)>>, {}, E)
    BY <1>3, <1>4, OneBook
<1> QED BY <1>1, <1>5 DEF E

LEMMA PotentialBooks ==
    ASSUME NEW f PROVE Books(EvolveVectorPotential(f), {}, FieldEntries(f, Edges, "add"))
<1> DEFINE ins(e) == {<<Edge[e], Here>>}
           does == {Add(f[e], ins(e), EdgeParts) : e \in Edges}
<1>1. EvolveVectorPotential(f) = <<Loop(AllEdges, does)>>
    BY DEF EvolveVectorPotential
<1> HIDE DEF ins
<1> DEFINE E == FieldEntries(f, Edges, "add")
<1>3. \A s \in does : Entry(s) \in E
    BY Entered DEF FieldEntries
<1>4. \A x \in E : \E s \in does : Entry(s) = x
  <2> SUFFICES ASSUME NEW e \in Edges PROVE \E s \in does : Entry(s) = <<f[e], "add", EdgeParts>>
      BY DEF FieldEntries
  <2>1. Add(f[e], ins(e), EdgeParts) \in does /\ Entry(Add(f[e], ins(e), EdgeParts)) = <<f[e], "add", EdgeParts>>
      BY Entered
  <2> HIDE DEF does
  <2> QED BY <2>1
<1> HIDE DEF does, E
<1>5. Books(<<Loop(AllEdges, does)>>, {}, E)
    BY <1>3, <1>4, OneBook
<1> QED BY <1>1, <1>5 DEF E

LEMMA FromPotentialBooks == Books(ComputeMagFieldFromA, {}, FieldEntries(BXs, Active, "set"))
<1> DEFINE ins(d) == Curl(d, Ve)
           does == {Set(BXs[d], ins(d), EdgeParts) : d \in Active}
<1>1. ComputeMagFieldFromA = <<Loop(AllEdges, does)>>
    BY DEF ComputeMagFieldFromA
<1> HIDE DEF ins
<1> DEFINE E == FieldEntries(BXs, Active, "set")
<1>3. \A s \in does : Entry(s) \in E
    BY Entered DEF FieldEntries
<1>4. \A x \in E : \E s \in does : Entry(s) = x
  <2> SUFFICES ASSUME NEW d \in Active PROVE \E s \in does : Entry(s) = <<BXs[d], "set", EdgeParts>>
      BY DEF FieldEntries
  <2>1. Set(BXs[d], ins(d), EdgeParts) \in does /\ Entry(Set(BXs[d], ins(d), EdgeParts)) = <<BXs[d], "set", EdgeParts>>
      BY Entered
  <2> HIDE DEF does
  <2> QED BY <2>1
<1> HIDE DEF does, E
<1>5. Books(<<Loop(AllEdges, does)>>, {}, E)
    BY <1>3, <1>4, OneBook
<1> QED BY <1>1, <1>5 DEF E

LEMMA ReconstructBooks == Books(ReconstructVcField, {}, {<<"UcField", "set", EdgeParts>>})
BY OneSetBook DEF ReconstructVcField
-----------------------------------------------------------------------------
LEMMA AtEdgeNames ==
    ASSUME Setting
    PROVE /\ Edges \subseteq Dirs /\ KDIR \in Edges /\ Active \subseteq Dirs
          /\ \A e \in Edges : Edge[e] \in {"ex", "ey", "ez"}
          /\ \A e \in Edges : Cell[e] \in {"Ex1", "Ex2", "Ex3"}
          /\ \A e \in Edges : Ve[e] \in {"AX1e", "AX2e", "AX3e"}
          /\ \A d \in Active : BXs[d] \in {"BX1s", "BX2s", "BX3s"}
<1>1. Edges \subseteq Dirs /\ KDIR \in Edges
    BY DEF Edges, Dirs, KDIR
<1>2. \A e \in Dirs : e = 1 \/ e = 2 \/ e = 3
    BY DEF Dirs
<1>3. Active \subseteq Dirs
    BY ActiveDirs
<1>4. \A e \in Dirs : /\ Edge[e] \in {"ex", "ey", "ez"} /\ Cell[e] \in {"Ex1", "Ex2", "Ex3"}
                      /\ Ve[e] \in {"AX1e", "AX2e", "AX3e"} /\ BXs[e] \in {"BX1s", "BX2s", "BX3s"}
  <2> SUFFICES ASSUME NEW e \in Dirs
               PROVE /\ Edge[e] \in {"ex", "ey", "ez"} /\ Cell[e] \in {"Ex1", "Ex2", "Ex3"}
                     /\ Ve[e] \in {"AX1e", "AX2e", "AX3e"} /\ BXs[e] \in {"BX1s", "BX2s", "BX3s"}
      OBVIOUS
  <2>1. CASE e = 1
      BY <2>1, Tuples
  <2>2. CASE e = 2
      BY <2>2, Tuples
  <2>3. CASE e = 3
      BY <2>3, Tuples
  <2> QED BY <1>2, <2>1, <2>2, <2>3
<1> QED BY <1>1, <1>3, <1>4

LEMMA EdgeHeads ==
    ASSUME Setting, NEW kind, NEW parts
    PROVE Heads(EdgeEntries(kind, parts)) \subseteq {"ex", "ey", "ez"}
<1>1. Heads(EdgeEntries(kind, parts)) \subseteq {Edge[e] : e \in Edges}
    BY DEF Heads, EdgeEntries
<1> QED BY <1>1, AtEdgeNames

LEMMA EdgeBooks ==
    ASSUME NEW g
    PROVE Books(<<Loop(AllEdges, {Set(Edge[e], g[e], Hyperbolic) : e \in Edges})>>, {},
                EdgeEntries("set", Hyperbolic))
<1> DEFINE does == {Set(Edge[e], g[e], Hyperbolic) : e \in Edges}
           E == EdgeEntries("set", Hyperbolic)
<1>1. \A s \in does : Entry(s) \in E
    BY Entered DEF EdgeEntries
<1>2. \A x \in E : \E s \in does : Entry(s) = x
  <2> SUFFICES ASSUME NEW e \in Edges PROVE \E s \in does : Entry(s) = <<Edge[e], "set", Hyperbolic>>
      BY DEF EdgeEntries
  <2>1. Set(Edge[e], g[e], Hyperbolic) \in does
        /\ Entry(Set(Edge[e], g[e], Hyperbolic)) = <<Edge[e], "set", Hyperbolic>>
      BY Entered
  <2> HIDE DEF does
  <2> QED BY <2>1
<1> HIDE DEF does, E
<1>3. Books(<<Loop(AllEdges, does)>>, {}, E)
    BY <1>1, <1>2, OneBook
<1> QED BY <1>3 DEF does, E

LEMMA ArithmeticBooks == Books(CalcArithmeticAverage, {}, EdgeEntries("set", Hyperbolic))
<1>1. PICK g : g = [e \in Edges |-> Arithmetic(e)]
    OBVIOUS
<1>2. \A e \in Edges : g[e] = Arithmetic(e)
    BY <1>1
<1>3. {Set(Edge[e], Arithmetic(e), Hyperbolic) : e \in Edges}
        = {Set(Edge[e], g[e], Hyperbolic) : e \in Edges}
    BY <1>2
<1> QED BY <1>3, EdgeBooks DEF CalcArithmeticAverage

LEMMA CellBooks ==
    ASSUME Setting PROVE Books(CalcCellCenteredEMF, {"Ex1", "Ex2", "Ex3"}, {})
<1> DEFINE does == {Set(Cell[e], {<<"Vc", Here>>}, {}) : e \in Edges}
<1>1. \A s \in does : s.out \in {"Ex1", "Ex2", "Ex3"} /\ ~s.add
  <2> SUFFICES ASSUME NEW e \in Edges
               PROVE LET s == Set(Cell[e], {<<"Vc", Here>>}, {}) IN s.out \in {"Ex1", "Ex2", "Ex3"} /\ ~s.add
      OBVIOUS
  <2>1. Cell[e] \in {"Ex1", "Ex2", "Ex3"}
      BY AtEdgeNames
  <2> QED BY <2>1, Entered
<1>2. CalcCellCenteredEMF = <<Loop(Region(nghost, nghost), does)>>
    BY DEF CalcCellCenteredEMF
<1> HIDE DEF does
<1> QED BY <1>1, <1>2, OneBook

FaceStores == {"ezi", "ezj", "eyi", "eyk", "exj", "exk"}

LEMMA CorrectedBooks ==
    ASSUME Setting PROVE Books(<<Loop(Region(1, 1), Corrected)>>, FaceStores, {})
<1>1. \A e, d \in Dirs : e # d => OnFaces(e, d) \in FaceStores
    BY DEF Dirs, OnFaces, FaceStores, IDIR, JDIR, KDIR
<1>2. ASSUME NEW s \in Corrected PROVE s.out \in FaceStores /\ s.parts = {}
  <2>1. PICK p \in Edges \X Dirs : p[1] # p[2]
            /\ s = Add(OnFaces(p[1], p[2]), {<<Cell[p[1]], Along(p[2], -1, 0)>>}, {})
      BY DEF Corrected
  <2>2. p[1] \in Dirs /\ p[2] \in Dirs
    <3>1. Edges \subseteq Dirs
        BY AtEdgeNames
    <3> QED BY <3>1
  <2> QED BY <1>1, <2>1, <2>2, Entered
<1> QED BY <1>2, OneBook

LEMMA CornerBooks ==
    ASSUME Setting PROVE Books(CalcCornerEMF, Scratch, EdgeEntries("set", Hyperbolic))
<1> DEFINE E == EdgeEntries("set", Hyperbolic)
<1>1. Heads(E) \subseteq {"ex", "ey", "ez"} /\ Heads({}) = {}
    BY EdgeHeads, HeadsOf
<1>2. {"Ex1", "Ex2", "Ex3"} \subseteq Scratch /\ FaceStores \subseteq Scratch
    BY DEF Scratch, FaceStores
<1> HIDE DEF E
<1>3. CASE conf.emf = "arithmetic"
    BY <1>3, ArithmeticBooks, WiderBooks DEF CalcCornerEMF, E
<1>4. CASE conf.emf = "uct0"
  <2>1. Books(<<Loop(Region(1, 1), Corrected)>> \o CalcArithmeticAverage, FaceStores \cup {}, {} \cup E)
    <3>1. (FaceStores \cup Heads({})) \cap ({} \cup Heads(E)) = {}
        BY <1>1 DEF FaceStores
    <3> QED BY <3>1, CorrectedBooks, ArithmeticBooks, JoinBooks DEF E
  <2>2. FaceStores \cup {} = FaceStores /\ {} \cup E = E
      OBVIOUS
  <2>3. Books(CalcUCT0Average, FaceStores, E)
      BY <2>1, <2>2 DEF CalcUCT0Average
  <2>4. ({"Ex1", "Ex2", "Ex3"} \cup Heads({})) \cap (FaceStores \cup Heads(E)) = {}
      BY <1>1 DEF FaceStores
  <2>5. Books(CalcCellCenteredEMF \o CalcUCT0Average, {"Ex1", "Ex2", "Ex3"} \cup FaceStores, {} \cup E)
      BY <2>3, <2>4, CellBooks, JoinBooks
  <2>6. CalcCornerEMF = CalcCellCenteredEMF \o CalcUCT0Average
      BY <1>4 DEF CalcCornerEMF
  <2>7. {"Ex1", "Ex2", "Ex3"} \cup FaceStores \subseteq Scratch
      BY <1>2
  <2> QED BY <2>2, <2>5, <2>6, <2>7, WiderBooks DEF E
<1>5. CASE conf.emf = "uct_contact"
  <2> DEFINE ins(e) == Arithmetic(e) \cup {<<SV[x[1]], Along(x[2], -1, 0)>> : x \in Across(e)}
                              \cup {<<Cell[e], Corner(x[1], x[2])>> : x \in Across(e)}
  <2>1. CalcContactAverage = <<Loop(AllEdges, {Set(Edge[e], ins(e), Hyperbolic) : e \in Edges})>>
      BY DEF CalcContactAverage
  <2> HIDE DEF ins
  <2>2. PICK g : g = [e \in Edges |-> ins(e)]
      OBVIOUS
  <2>3. \A e \in Edges : g[e] = ins(e)
      BY <2>2
  <2>4. {Set(Edge[e], ins(e), Hyperbolic) : e \in Edges} = {Set(Edge[e], g[e], Hyperbolic) : e \in Edges}
      BY <2>3
  <2>5. Books(CalcContactAverage, {}, E)
      BY <2>1, <2>4, EdgeBooks DEF E
  <2>6. ({"Ex1", "Ex2", "Ex3"} \cup Heads({})) \cap ({} \cup Heads(E)) = {}
      BY <1>1
  <2>7. Books(CalcCellCenteredEMF \o CalcContactAverage, {"Ex1", "Ex2", "Ex3"} \cup {}, {} \cup E)
      BY <2>5, <2>6, CellBooks, JoinBooks
  <2>8. {"Ex1", "Ex2", "Ex3"} \cup {} \subseteq Scratch /\ {} \cup E = E
      BY <1>2
  <2>9. CalcCornerEMF = CalcCellCenteredEMF \o CalcContactAverage
      BY <1>5 DEF CalcCornerEMF
  <2> QED BY <2>7, <2>8, <2>9, WiderBooks DEF E
<1>6. CASE conf.emf \in {"uct_hll", "uct_hlld"}
  <2>1. Books(CalcRiemannAverage, {}, E)
      BY EdgeBooks DEF CalcRiemannAverage, E
  <2>2. CalcCornerEMF = CalcRiemannAverage
      BY <1>6 DEF CalcCornerEMF
  <2> QED BY <2>1, <2>2, WiderBooks DEF E
<1> QED BY <1>3, <1>4, <1>5, <1>6 DEF Setting, Options

\* The field of the faces, from the edges or from the potential.
FaceEntries ==
    IF Rkl
    THEN IF conf.vecpot THEN FieldEntries(dA, Edges, "add") ELSE FieldEntries(dB, Active, "add")
    ELSE IF conf.vecpot THEN FieldEntries(Ve, Edges, "add") \cup FieldEntries(BXs, Active, "set")
         ELSE FieldEntries(BXs, Active, "add")

FaceLoops ==
    IF Rkl THEN IF conf.vecpot THEN EvolveVectorPotential(dA) ELSE EvolveMagField(dB)
    ELSE IF conf.vecpot THEN EvolveVectorPotential(Ve) \o ComputeMagFieldFromA
         ELSE EvolveMagField(BXs)

LEMMA FaceFieldBooks == ASSUME Setting PROVE Books(FaceLoops, {}, FaceEntries)
<1>1. CASE Rkl
    BY <1>1, MagBooks, PotentialBooks DEF FaceLoops, FaceEntries
<1>2. CASE ~Rkl /\ ~conf.vecpot
    BY <1>2, MagBooks DEF FaceLoops, FaceEntries
<1>3. CASE ~Rkl /\ conf.vecpot
  <2>1. Heads(FieldEntries(Ve, Edges, "add")) \subseteq {Ve[e] : e \in Edges}
        /\ Heads(FieldEntries(BXs, Active, "set")) \subseteq {BXs[d] : d \in Active}
      BY DEF Heads, FieldEntries
  <2>4. {Ve[e] : e \in Edges} \subseteq {"AX1e", "AX2e", "AX3e"}
      BY AtEdgeNames
  <2>5. {BXs[d] : d \in Active} \subseteq {"BX1s", "BX2s", "BX3s"}
      BY AtEdgeNames
  <2>2. ({} \cup Heads(FieldEntries(Ve, Edges, "add"))) \cap ({} \cup Heads(FieldEntries(BXs, Active, "set"))) = {}
      BY <2>1, <2>4, <2>5
  <2>3. Books(EvolveVectorPotential(Ve) \o ComputeMagFieldFromA, {} \cup {},
              FieldEntries(Ve, Edges, "add") \cup FieldEntries(BXs, Active, "set"))
      BY <2>2, PotentialBooks, FromPotentialBooks, JoinBooks
  <2> QED BY <1>3, <2>3 DEF FaceLoops, FaceEntries
<1> QED BY <1>1, <1>2, <1>3
-----------------------------------------------------------------------------
(* The books of each call. *)

BookFor(call) ==
    CASE call = "ResetStage" -> {<<a, "set", {}>> : a \in Derivatives}
      [] call \in {"CalcCurrent", "HallDiffusivity", "Refresh"} -> {}
      [] call = "CalcFlux" -> IF Rkl THEN {<<"Flux", "set", {}>>} ELSE FluxEntries
      [] call = "ResetDiffusion" -> {<<"dMax", "set", {}>>}
      [] call = "AddNonIdealMHDFlux" -> NonIdealEntries
      [] call = "AddVelocityFluid" -> {<<"Vc", "add", Part("mean", 0)>>}
      [] call = "AddViscousFlux" -> ViscousEntries \cup SourceEntries("viscSrc")
      [] call = "SubstractVelocityFluid" -> {<<"Vc", "set", mem["Vc"].parts \ Part("mean", 0)>>}
      [] call = "AddDiffusiveFlux" -> DiffuseEntries("conduction")
      [] call = "AddBragViscousFlux" -> DiffuseEntries("bragViscosity") \cup SourceEntries("bragViscSrc")
      [] call = "AddBragDiffusiveFlux" -> BragHeatEntries
      [] call = "TracerCalcFlux" -> {<<"FluxTracer", "set", Part("tracer", 0)>>}
      [] call = "CorrectFlux" -> {<<"Flux", "add", MeanParts("fargo", "rotation")>>}
      [] call = "CalcRightHandSide" ->
            IF Rkl THEN RKLEntries ELSE {<<"Uc", "add", CellGain>>, <<"InvDt", "add", StepGain>>}
      [] call = "TracerCalcRightHandSide" -> {<<"UcTracer", "add", Swept("FluxTracer")>>}
      [] call = "AddSourceTerms" -> {<<"Uc", "add", SourceParts>>}
      [] call = "AddDragForce" -> DragEntries
      [] call = "CalcCornerEMF" -> EdgeEntries("set", Hyperbolic)
      [] call = "CalcNonidealEMF" -> EdgeEntries("add", NonIdeal)
      [] call = "EvolveMagField" -> FaceEntries
      [] call = "ReconstructVcField" -> {<<"UcField", "set", EdgeParts>>}

\* A call, with the kernels and the books that it has.
Posted(call, loops) ==
    /\ call \in Named \ {"done", "NextDir"}
    /\ Wanted(call)
    /\ Call(call, loops)
    /\ Kernels(loops)
    /\ Books(loops, Scratch, BookFor(call))

LEMMA PostedOf ==
    ASSUME StageInv, Next, ~NextDir, ~NextStage,
           NEW call, NEW loops, Call(call, loops), call # "done", call # "NextDir",
           Books(loops, Scratch, BookFor(call))
    PROVE Posted(call, loops)
<1>1. PICK c \in Named \ {"done"} : \E l : Kernels(l) /\ Call(c, l)
    BY CallsFit
<1>2. PICK l : Kernels(l) /\ Call(c, l)
    BY <1>1
<1>3. c = call /\ l = loops
    BY <1>2 DEF Call, Launch
<1>4. Wanted(call)
    BY DEF StageInv, Call
<1> QED BY <1>1, <1>2, <1>3, <1>4 DEF Posted

LEMMA WiderAll ==
    ASSUME NEW loops, NEW E, Books(loops, {}, E) PROVE Books(loops, Scratch, E)
BY WiderBooks

LEMMA ScratchWide ==
    ASSUME NEW over, NEW a \in Scratch, NEW ins
    PROVE Books(<<Loop(over, {Set(a, ins, {})})>>, Scratch, {})
<1>1. {a} \subseteq Scratch
    OBVIOUS
<1>2. PICK loops : loops = <<Loop(over, {Set(a, ins, {})})>>
    OBVIOUS
<1>3. Books(loops, {a}, {})
    BY <1>2, ScratchBooks
<1>4. Books(loops, Scratch, {})
    BY ONLY <1>1, <1>3, WiderBooks
<1> QED BY <1>2, <1>4

LEMMA CallsArePosted ==
    ASSUME StageInv, Next, ~NextDir, ~NextStage
    PROVE \E call : \E loops : Posted(call, loops)
<1>0. Setting
    BY DEF StageInv
<1>1. CASE ResetStage
  <2>1. PICK loops : loops = <<Loop(Wherever, {Set(a, {}, {}) : a \in Derivatives})>>
      OBVIOUS
  <2>2. Books(loops, Scratch, BookFor("ResetStage"))
      BY <2>1, ResetStageBooks, WiderAll DEF BookFor
  <2> QED BY <1>1, <2>1, <2>2, PostedOf DEF ResetStage
<1>2. CASE Currents
  <2>1. Books(CalcCurrent, Scratch, BookFor("CalcCurrent"))
      BY CurrentBooks DEF BookFor
  <2>2. PICK loops : loops = CalcCurrent
      OBVIOUS
  <2> QED BY <1>2, <2>1, <2>2, PostedOf DEF Currents
<1>3. CASE HallDiffusivity
  <2>1. Books(<<Loop(Wherever, {Set("xHall", {<<"Vc", Here>>}, {})})>>, Scratch, BookFor("HallDiffusivity"))
    <3>1. "xHall" \in Scratch
        BY DEF Scratch
    <3> QED BY <3>1, ScratchWide DEF BookFor
  <2>2. PICK loops : loops = <<Loop(Wherever, {Set("xHall", {<<"Vc", Here>>}, {})})>>
      OBVIOUS
  <2>3. Call("HallDiffusivity", loops)
      BY <1>3, <2>2 DEF HallDiffusivity
  <2> QED BY <2>1, <2>2, <2>3, PostedOf
<1>4. CASE Refresh
  <2>1. Books(<<Loop(Wherever, {Set("csIso", {}, {})})>>, Scratch, BookFor("Refresh"))
    <3>1. "csIso" \in Scratch
        BY DEF Scratch
    <3> QED BY <3>1, ScratchWide DEF BookFor
  <2>2. PICK loops : loops = <<Loop(Wherever, {Set("csIso", {}, {})})>>
      OBVIOUS
  <2>3. Call("Refresh", loops)
      BY <1>4, <2>2 DEF Refresh
  <2> QED BY <2>1, <2>2, <2>3, PostedOf
<1>5. CASE RiemannFlux
  <2>1. Books(IF Rkl THEN ResetFlux ELSE CalcFlux, Scratch, BookFor("CalcFlux"))
      BY <1>0, CalcFluxBooks, ResetFluxBooks, WiderAll DEF BookFor
  <2>2. PICK loops : loops = IF Rkl THEN ResetFlux ELSE CalcFlux
      OBVIOUS
  <2>3. Call("CalcFlux", loops)
      BY <1>5, <2>2 DEF RiemannFlux
  <2> QED BY <2>1, <2>2, <2>3, PostedOf
<1>6. CASE Diffusion
  <2>1. Books(ResetDiffusion, Scratch, BookFor("ResetDiffusion"))
      BY ResetDiffusionBooks, WiderAll DEF BookFor
  <2>2. PICK loops : loops = ResetDiffusion
      OBVIOUS
  <2>3. Call("ResetDiffusion", loops)
      BY <1>6, <2>2 DEF Diffusion
  <2> QED BY <2>1, <2>2, <2>3, PostedOf
<1>7. CASE NonIdealFlux
  <2>1. Books(AddNonIdealMHDFlux, Scratch, BookFor("AddNonIdealMHDFlux"))
      BY NonIdealBooks DEF BookFor
  <2>2. PICK loops : loops = AddNonIdealMHDFlux
      OBVIOUS
  <2>3. Call("AddNonIdealMHDFlux", loops)
      BY <1>7, <2>2 DEF NonIdealFlux
  <2> QED BY <2>1, <2>2, <2>3, PostedOf
<1>8. CASE AddVelocityFluid
  <2>1. Books(AddVelocityLoops, Scratch, BookFor("AddVelocityFluid"))
      BY AddVelocityBooks DEF BookFor
  <2>2. PICK loops : loops = AddVelocityLoops
      OBVIOUS
  <2>3. Call("AddVelocityFluid", loops)
      BY <1>8, <2>2 DEF AddVelocityFluid, AddVelocityLoops
  <2> QED BY <2>1, <2>2, <2>3, PostedOf
<1>9. CASE ViscousFluxes
  <2>1. Books(AddViscousFlux, Scratch, BookFor("AddViscousFlux"))
      BY <1>0, ViscousBooks DEF BookFor
  <2>2. PICK loops : loops = AddViscousFlux
      OBVIOUS
  <2>3. Call("AddViscousFlux", loops)
      BY <1>9, <2>2 DEF ViscousFluxes
  <2> QED BY <2>1, <2>2, <2>3, PostedOf
<1>10. CASE SubstractVelocityFluid
  <2>1. Books(SubstractVelocityLoops, Scratch, BookFor("SubstractVelocityFluid"))
      BY SubstractVelocityBooks DEF BookFor
  <2>2. PICK loops : loops = SubstractVelocityLoops
      OBVIOUS
  <2>3. Call("SubstractVelocityFluid", loops)
      BY <1>10, <2>2 DEF SubstractVelocityFluid, SubstractVelocityLoops
  <2> QED BY <2>1, <2>2, <2>3, PostedOf
<1>11. CASE HeatFlux
  <2>1. Books(AddDiffusiveFlux, Scratch, BookFor("AddDiffusiveFlux"))
      BY HeatBooks DEF BookFor
  <2>2. PICK loops : loops = AddDiffusiveFlux
      OBVIOUS
  <2>3. Call("AddDiffusiveFlux", loops)
      BY <1>11, <2>2 DEF HeatFlux
  <2> QED BY <2>1, <2>2, <2>3, PostedOf
<1>12. CASE BragViscousFlux
  <2>1. Books(AddBragViscousFlux, Scratch, BookFor("AddBragViscousFlux"))
      BY <1>0, BragViscousBooks DEF BookFor
  <2>2. PICK loops : loops = AddBragViscousFlux
      OBVIOUS
  <2>3. Call("AddBragViscousFlux", loops)
      BY <1>12, <2>2 DEF BragViscousFlux
  <2> QED BY <2>1, <2>2, <2>3, PostedOf
<1>13. CASE BragHeatFlux
  <2>1. Books(AddBragDiffusiveFlux, Scratch, BookFor("AddBragDiffusiveFlux"))
      BY BragHeatBooks DEF BookFor
  <2>2. PICK loops : loops = AddBragDiffusiveFlux
      OBVIOUS
  <2>3. Call("AddBragDiffusiveFlux", loops)
      BY <1>13, <2>2 DEF BragHeatFlux
  <2> QED BY <2>1, <2>2, <2>3, PostedOf
<1>14. CASE TracerFlux
  <2>1. Books(TracerCalcFlux, Scratch, BookFor("TracerCalcFlux"))
      BY TracerFluxBooks, WiderAll DEF BookFor
  <2>2. PICK loops : loops = TracerCalcFlux
      OBVIOUS
  <2>3. Call("TracerCalcFlux", loops)
      BY <1>14, <2>2 DEF TracerFlux
  <2> QED BY <2>1, <2>2, <2>3, PostedOf
<1>15. CASE TotalFlux
  <2>1. Books(CorrectFlux, Scratch, BookFor("CorrectFlux"))
      BY CorrectBooks DEF BookFor
  <2>2. PICK loops : loops = CorrectFlux
      OBVIOUS
  <2>3. Call("CorrectFlux", loops)
      BY <1>15, <2>2 DEF TotalFlux
  <2> QED BY <2>1, <2>2, <2>3, PostedOf
<1>16. CASE CalcRightHandSide
  <2>1. Books(IF Rkl THEN CalcParabolicRHS ELSE CalcRHS, Scratch, BookFor("CalcRightHandSide"))
      BY ParabolicBooks, RHSBooks, WiderAll DEF BookFor
  <2>2. PICK loops : loops = IF Rkl THEN CalcParabolicRHS ELSE CalcRHS
      OBVIOUS
  <2>3. Call("CalcRightHandSide", loops)
      BY <1>16, <2>2 DEF CalcRightHandSide
  <2> QED BY <2>1, <2>2, <2>3, PostedOf
<1>17. CASE TracerRightHandSide
  <2>1. Books(TracerCalcRightHandSide, Scratch, BookFor("TracerCalcRightHandSide"))
      BY TracerBooks, WiderAll DEF BookFor
  <2>2. PICK loops : loops = TracerCalcRightHandSide
      OBVIOUS
  <2>3. Call("TracerCalcRightHandSide", loops)
      BY <1>17, <2>2 DEF TracerRightHandSide
  <2> QED BY <2>1, <2>2, <2>3, PostedOf
<1>18. CASE SourceTerms
  <2>1. Books(AddSourceTerms, Scratch, BookFor("AddSourceTerms"))
      BY SourceBooks, WiderAll DEF BookFor
  <2>2. PICK loops : loops = AddSourceTerms
      OBVIOUS
  <2>3. Call("AddSourceTerms", loops)
      BY <1>18, <2>2 DEF SourceTerms
  <2> QED BY <2>1, <2>2, <2>3, PostedOf
<1>19. CASE DragForce
  <2>1. Books(AddDragForce, Scratch, BookFor("AddDragForce"))
      BY DragBooks, WiderAll DEF BookFor
  <2>2. PICK loops : loops = AddDragForce
      OBVIOUS
  <2>3. Call("AddDragForce", loops)
      BY <1>19, <2>2 DEF DragForce
  <2> QED BY <2>1, <2>2, <2>3, PostedOf
<1>20. CASE CornerEMF
  <2>1. Books(CalcCornerEMF, Scratch, BookFor("CalcCornerEMF"))
      BY <1>0, CornerBooks DEF BookFor
  <2>2. PICK loops : loops = CalcCornerEMF
      OBVIOUS
  <2>3. Call("CalcCornerEMF", loops)
      BY <1>20, <2>2 DEF CornerEMF
  <2> QED BY <2>1, <2>2, <2>3, PostedOf
<1>21. CASE NonidealEMF
  <2>1. Books(CalcNonidealEMF(Evolved("ohmic"), Evolved("ambipolar")), Scratch, BookFor("CalcNonidealEMF"))
      BY NonidealBooks, WiderAll DEF BookFor
  <2>2. PICK loops : loops = CalcNonidealEMF(Evolved("ohmic"), Evolved("ambipolar"))
      OBVIOUS
  <2>3. Call("CalcNonidealEMF", loops)
      BY <1>21, <2>2 DEF NonidealEMF
  <2> QED BY <2>1, <2>2, <2>3, PostedOf
<1>22. CASE MagField
  <2>1. Books(FaceLoops, Scratch, BookFor("EvolveMagField"))
      BY <1>0, FaceFieldBooks, WiderAll DEF BookFor
  <2>2. PICK loops : loops = FaceLoops
      OBVIOUS
  <2>3. Call("EvolveMagField", loops)
      BY <1>22, <2>2 DEF MagField, FaceLoops
  <2> QED BY <2>1, <2>2, <2>3, PostedOf
<1>23. CASE CentredField
  <2>1. Books(ReconstructVcField, Scratch, BookFor("ReconstructVcField"))
      BY ReconstructBooks, WiderAll DEF BookFor
  <2>2. PICK loops : loops = ReconstructVcField
      OBVIOUS
  <2>3. Call("ReconstructVcField", loops)
      BY <1>23, <2>2 DEF CentredField
  <2> QED BY <2>1, <2>2, <2>3, PostedOf
<1> QED BY <1>1, <1>2, <1>3, <1>4, <1>5, <1>6, <1>7, <1>8, <1>9, <1>10, <1>11, <1>12,
           <1>13, <1>14, <1>15, <1>16, <1>17, <1>18, <1>19, <1>20, <1>21, <1>22, <1>23 DEF Next
-----------------------------------------------------------------------------
(* The ledger: of which parts each array is made at each point of a stage, from the *)
(* calls that have been made.                                                  *)

\* MeanParts, of the direction d.
MeanOf(fargo, rotation, d) ==
    If(HaveMean /\ conf.fargo # "no" /\ d \in FargoAcross, One(fargo))
    \cup If(HaveMean /\ conf.rotation /\ d \in RotationAcross, One(rotation))

\* What the fluxes of a sweep hold, and the largest coefficients.
HeldFlux ==
    If(~Rkl, Hyperbolic)
    \cup If(Been("AddNonIdealMHDFlux"), NonIdeal)
    \cup If(Been("AddViscousFlux"), Stress)
    \cup If(Been("AddDiffusiveFlux"), One("conduction"))
    \cup If(Been("AddBragViscousFlux"), One("bragViscosity"))
    \cup If(Been("AddBragDiffusiveFlux"), One("bragConduction"))
    \cup If(Been("CorrectFlux"), MeanOf("fargo", "rotation", dir))

HeldLimit ==
    If(Been("AddNonIdealMHDFlux"), NonIdeal)
    \cup If(Been("AddViscousFlux"), One("viscosity"))
    \cup If(Been("AddDiffusiveFlux"), One("conduction"))
    \cup If(Been("AddBragViscousFlux"), One("bragViscosity"))

\* What the direction d brings to the cells, and to the time step.
At0(d, parts) == {<<p[1], d>> : p \in parts}

FluxOf(d) ==
    If(~Rkl, Hyperbolic)
    \cup NonIdeal
    \cup If(Evolved("viscosity"), Stress)
    \cup If(Evolved("conduction"), One("conduction"))
    \cup If(Evolved("bragViscosity"), One("bragViscosity"))
    \cup If(Evolved("bragConduction"), One("bragConduction"))
    \cup If(~Rkl, MeanOf("fargo", "rotation", d))

LimitOf ==
    NonIdeal
    \cup If(Evolved("viscosity"), One("viscosity"))
    \cup If(Evolved("conduction"), One("conduction"))
    \cup If(Evolved("bragViscosity"), One("bragViscosity"))

BodyOf(d) ==
    CASE conf.dims = 1 -> 1..conf.comps
      [] conf.dims = 2 /\ conf.comps = 3 /\ d = JDIR -> {JDIR, KDIR}
      [] OTHER -> {d}

Share(d) ==
    At0(d, FluxOf(d)) \cup At0(d, MeanOf("fargoBack", "rotationBack", d))
    \cup (UNION {Part(s, d) : s \in CurvatureSource})
    \cup If(conf.potential, Part("potential", d))
    \cup If(conf.body, {<<"body", e>> : e \in BodyOf(d)})

ShareRKL(d) ==
    At0(d, FluxOf(d))
    \cup If(conf.geo # "cartesian" /\ Evolved("viscosity"), Part("viscSrc", d))
    \cup If(conf.geo # "cartesian" /\ Evolved("bragViscosity"), Part("bragViscSrc", d))

LimitShare(d) ==
    If(~Rkl, Part("hyperbolic", d))
    \cup At0(IF conf.cless /\ Evolved("bragConduction") THEN -d ELSE d, LimitOf)
    \cup If(Evolved("bragConduction"), Part("bragConduction", d))

Shares(S) == UNION {Share(d) : d \in S}
SharesRKL(S) == UNION {ShareRKL(d) : d \in S}
LimitShares(S) == UNION {LimitShare(d) : d \in S}

\* The directions that are in the cells.
Done(call) == 1..(dir - 1) \cup If(Been(call), {dir})

AtEdges == If(~Rkl, Hyperbolic) \cup If(Been("CalcNonidealEMF"), NonIdeal)

Parts(a) == mem[a].parts

FluxLedger ==
    /\ Been("CalcFlux") => Parts("Flux") = HeldFlux
    /\ Been("CalcFlux") /\ ~Rkl => Parts("cMax") = Hyperbolic
    /\ Been("ResetDiffusion") =>
          Parts("dMax") = IF Been("AddBragDiffusiveFlux")
                          THEN Scaled(HeldLimit) \cup One("bragConduction") ELSE HeldLimit
    /\ Been("TracerCalcFlux") => Parts("FluxTracer") = One("tracer")
    /\ Been("AddViscousFlux") /\ conf.geo # "cartesian" => Parts("viscSrc") = One("viscSrc")
    /\ Been("AddBragViscousFlux") /\ conf.geo # "cartesian" => Parts("bragViscSrc") = One("bragViscSrc")
    /\ conf.geo = "cartesian" =>
          \A a \in {"viscSrc", "bragViscSrc"} \cap DOMAIN mem : Parts(a) = {}

CellLedger ==
    /\ ~Rkl => Parts("Uc") = Shares(Done("CalcRightHandSide"))
                             \cup If(Been("AddSourceTerms"), SourceParts)
                             \cup If(Been("AddDragForce"), One("drag"))
    /\ Rkl => Parts("dU") = SharesRKL(Done("CalcRightHandSide"))
    /\ conf.cycle # "rklAgain" =>
          Parts("InvDt") = LimitShares(Done("CalcRightHandSide"))
                           \cup If(Been("AddDragForce"), One("drag"))
    /\ conf.tracer /\ ~Rkl =>
          Parts("UcTracer") = {<<"tracer", d>> : d \in Done("TracerCalcRightHandSide")}
    /\ conf.drag /\ ~Been("AddDragForce") => Parts("UcGas") = {}

FrameLedger ==
    Parts("Vc") = If(Been("AddVelocityFluid") /\ ~Been("SubstractVelocityFluid"), One("mean"))

FaceArrays == Names(BXs, Dirs) \cup Names(dB, Dirs) \cup Names(Ve, Dirs) \cup Names(dA, Dirs)

FieldLedger ==
    /\ Mhd /\ (Rkl \/ Been("CalcCornerEMF")) => \A e \in Edges : Parts(Edge[e]) = AtEdges
    /\ \A a \in FaceArrays \cap DOMAIN mem : ~Been("EvolveMagField") => Parts(a) = {}
    /\ Been("EvolveMagField") /\ ~Rkl => \A d \in Active : Parts(BXs[d]) = AtEdges
    /\ Been("ReconstructVcField") => Parts("UcField") = AtEdges

SteadyConf == conf' = conf /\ dir' = dir

\* The options alone make the parts.
LEMMA PartsSame ==
    ASSUME conf' = conf
    PROVE /\ (Rkl' <=> Rkl) /\ (LoopDirs' <=> LoopDirs) /\ (Mhd' <=> Mhd) /\ (OffMean' <=> OffMean)
          /\ Active' = Active /\ Edges' = Edges /\ Derivatives' = Derivatives
          /\ NonIdeal' = NonIdeal /\ Stress' = Stress /\ SourceParts' = SourceParts
          /\ CurvatureSource' = CurvatureSource
<1>1. (Rkl' <=> Rkl) /\ (LoopDirs' <=> LoopDirs) /\ (Mhd' <=> Mhd) /\ (haveVs' <=> haveVs)
    BY DEF Rkl, LoopDirs, Mhd, haveVs, haveVc, HaveRKL
<1>2. Active' = Active /\ Edges' = Edges
    BY DEF Active, Edges
<1>3. Derivatives' = Derivatives
    BY <1>1, <1>2 DEF Derivatives
<1>4. NonIdeal' = NonIdeal
    BY DEF NonIdeal, Evolved
<1>5. (OffMean' <=> OffMean)
    BY DEF OffMean, HaveMean
<1>6. Stress' = Stress
    BY <1>5 DEF Stress
<1>7. SourceParts' = SourceParts
    BY DEF SourceParts
<1>8. CurvatureSource' = CurvatureSource
    BY DEF CurvatureSource, Evolved
<1> QED BY <1>1, <1>2, <1>3, <1>4, <1>5, <1>6, <1>7, <1>8

LEMMA SharesSame ==
    ASSUME conf' = conf, NEW d
    PROVE /\ (MeanOf("fargo", "rotation", d))' = MeanOf("fargo", "rotation", d)
          /\ (MeanOf("fargoBack", "rotationBack", d))' = MeanOf("fargoBack", "rotationBack", d)
          /\ (FluxOf(d))' = FluxOf(d) /\ LimitOf' = LimitOf /\ (BodyOf(d))' = BodyOf(d)
          /\ (Share(d))' = Share(d) /\ (ShareRKL(d))' = ShareRKL(d)
          /\ (LimitShare(d))' = LimitShare(d)
<1>1. /\ (MeanOf("fargo", "rotation", d))' = MeanOf("fargo", "rotation", d)
      /\ (MeanOf("fargoBack", "rotationBack", d))' = MeanOf("fargoBack", "rotationBack", d)
    BY DEF MeanOf, HaveMean, FargoAcross, RotationAcross
<1>2. (FluxOf(d))' = FluxOf(d)
    BY <1>1, PartsSame DEF FluxOf, Evolved
<1>3. LimitOf' = LimitOf
    BY PartsSame DEF LimitOf, Evolved
<1>4. (BodyOf(d))' = BodyOf(d)
    BY DEF BodyOf
<1>5. (Share(d))' = Share(d)
    BY <1>1, <1>2, <1>4, PartsSame DEF Share
<1>6. (ShareRKL(d))' = ShareRKL(d)
    BY <1>2 DEF ShareRKL, Evolved
<1>7. (LimitShare(d))' = LimitShare(d)
    BY <1>3, PartsSame DEF LimitShare, Evolved
<1> QED BY <1>1, <1>2, <1>3, <1>4, <1>5, <1>6, <1>7

LEMMA PartsSteady ==
    ASSUME SteadyConf
    PROVE /\ (Rkl' <=> Rkl) /\ (LoopDirs' <=> LoopDirs) /\ (Mhd' <=> Mhd) /\ (OffMean' <=> OffMean)
          /\ Active' = Active /\ Edges' = Edges /\ Derivatives' = Derivatives
          /\ NonIdeal' = NonIdeal /\ Stress' = Stress /\ SourceParts' = SourceParts
          /\ CurvatureSource' = CurvatureSource
BY PartsSame DEF SteadyConf

LEMMA SharesSteady ==
    ASSUME SteadyConf, NEW d
    PROVE /\ (MeanOf("fargo", "rotation", d))' = MeanOf("fargo", "rotation", d)
          /\ (MeanOf("fargoBack", "rotationBack", d))' = MeanOf("fargoBack", "rotationBack", d)
          /\ (FluxOf(d))' = FluxOf(d) /\ LimitOf' = LimitOf /\ (BodyOf(d))' = BodyOf(d)
          /\ (Share(d))' = Share(d) /\ (ShareRKL(d))' = ShareRKL(d)
          /\ (LimitShare(d))' = LimitShare(d)
BY SharesSame DEF SteadyConf

LEMMA AfterPosted ==
    ASSUME StageInv, NEW call, NEW loops, Posted(call, loops)
    PROVE /\ SteadyConf /\ pc = call /\ DOMAIN mem' = DOMAIN mem /\ call \in Named
          /\ \A other \in Named : (Been(other))' <=> Been(other) \/ other = call
          /\ \A a \in DOMAIN mem : a \notin Scratch /\ a \notin Heads(BookFor(call)) => mem'[a] = mem[a]
          /\ \A a \in DOMAIN mem : \A parts :
                /\ <<a, "set", parts>> \in BookFor(call) => mem'[a].parts = parts
                /\ <<a, "add", parts>> \in BookFor(call) => mem'[a].parts = mem[a].parts \cup parts
<1>1. Call(call, loops) /\ Launch(loops) /\ Kernels(loops) /\ Books(loops, Scratch, BookFor(call))
      /\ call \in Named /\ call # "done"
    BY DEF Posted, Call
<1>2. SteadyConf /\ pc = call /\ DOMAIN mem' = DOMAIN mem
    BY <1>1 DEF Call, Launch, SteadyConf
<1>3. \A other \in Named : (Been(other))' <=> Been(other) \/ other = call
    BY <1>1, BeenStep
<1>4. PICK E : E = BookFor(call)
    OBVIOUS
<1>5. Books(loops, Scratch, E)
    BY <1>1, <1>4
<1>6. /\ \A a \in DOMAIN mem : a \notin Scratch /\ a \notin Heads(E) => mem'[a] = mem[a]
      /\ \A a \in DOMAIN mem : \A parts :
            /\ <<a, "set", parts>> \in E => mem'[a].parts = parts
            /\ <<a, "add", parts>> \in E => mem'[a].parts = mem[a].parts \cup parts
    BY <1>1, <1>5, BooksKept
<1> QED BY <1>1, <1>2, <1>3, <1>4, <1>6
-----------------------------------------------------------------------------
(* Which arrays a call writes. *)

Rate == {"dU", "InvDt", "ex", "ey", "ez", "dA1", "dA2", "dA3", "dB1", "dB2", "dB3"}

LEMMA RateNames == ASSUME Setting PROVE Derivatives \subseteq Rate
<1>1. /\ \A e \in Edges : Edge[e] \in {"ex", "ey", "ez"}
      /\ Edges \subseteq Dirs /\ Active \subseteq Dirs
    BY AtEdgeNames
<1>2. \A e \in Dirs : e = 1 \/ e = 2 \/ e = 3
    BY DEF Dirs
<1>3. \A e \in Dirs : dA[e] \in {"dA1", "dA2", "dA3"} /\ dB[e] \in {"dB1", "dB2", "dB3"}
  <2> SUFFICES ASSUME NEW e \in Dirs
               PROVE dA[e] \in {"dA1", "dA2", "dA3"} /\ dB[e] \in {"dB1", "dB2", "dB3"}
      OBVIOUS
  <2>1. CASE e = 1
      BY <2>1, Tuples
  <2>2. CASE e = 2
      BY <2>2, Tuples
  <2>3. CASE e = 3
      BY <2>3, Tuples
  <2> QED BY <1>2, <2>1, <2>2, <2>3
<1>4. Names(Edge, Edges) \subseteq Rate
    BY <1>1 DEF Names, Rate
<1>5. Names(dA, Edges) \subseteq Rate
    BY <1>1, <1>3 DEF Names, Rate
<1>6. Names(dB, Active) \subseteq Rate
    BY <1>1, <1>3 DEF Names, Rate
<1>7. {"dU"} \subseteq Rate /\ {"InvDt"} \subseteq Rate
    BY DEF Rate
<1> QED BY <1>4, <1>5, <1>6, <1>7 DEF Derivatives

FaceNames == {"BX1s", "BX2s", "BX3s", "AX1e", "AX2e", "AX3e", "dA1", "dA2", "dA3", "dB1", "dB2", "dB3"}

LEMMA FaceNamesOf == FaceArrays = FaceNames
<1>1. Dirs = {1, 2, 3}
    BY DEF Dirs
<1>2. Names(BXs, Dirs) = {"BX1s", "BX2s", "BX3s"}
    BY <1>1, Tuples DEF Names
<1>3. Names(Ve, Dirs) = {"AX1e", "AX2e", "AX3e"}
    BY <1>1, Tuples DEF Names
<1>4. Names(dA, Dirs) = {"dA1", "dA2", "dA3"}
    BY <1>1, Tuples DEF Names
<1>5. Names(dB, Dirs) = {"dB1", "dB2", "dB3"}
    BY <1>1, Tuples DEF Names
<1> QED BY <1>2, <1>3, <1>4, <1>5 DEF FaceArrays, FaceNames

LEMMA FaceHeads == ASSUME Setting PROVE Heads(FaceEntries) \subseteq FaceNames
<1>1. \A f, dirs, kind : dirs \subseteq Dirs => Heads(FieldEntries(f, dirs, kind)) \subseteq Names(f, Dirs)
    BY DEF Heads, FieldEntries, Names
<1>2. Edges \subseteq Dirs /\ Active \subseteq Dirs
    BY AtEdgeNames
<1>3. Heads(FieldEntries(dA, Edges, "add")) \subseteq FaceArrays
    BY <1>1, <1>2 DEF FaceArrays
<1>4. Heads(FieldEntries(dB, Active, "add")) \subseteq FaceArrays
    BY <1>1, <1>2 DEF FaceArrays
<1>5. Heads(FieldEntries(Ve, Edges, "add")) \subseteq FaceArrays
    BY <1>1, <1>2 DEF FaceArrays
<1>6. Heads(FieldEntries(BXs, Active, "set")) \subseteq FaceArrays
    BY <1>1, <1>2 DEF FaceArrays
<1>7. Heads(FieldEntries(BXs, Active, "add")) \subseteq FaceArrays
    BY <1>1, <1>2 DEF FaceArrays
<1>8. \A E, F : Heads(E \cup F) = Heads(E) \cup Heads(F)
    BY DEF Heads
<1> QED BY <1>3, <1>4, <1>5, <1>6, <1>7, <1>8, FaceNamesOf DEF FaceEntries

WrittenBy(call) ==
    CASE call = "ResetStage" -> Rate
      [] call \in {"CalcCurrent", "HallDiffusivity", "Refresh"} -> {}
      [] call = "CalcFlux" -> {"Flux", "cMax"}
      [] call = "ResetDiffusion" -> {"dMax"}
      [] call \in {"AddNonIdealMHDFlux", "AddDiffusiveFlux", "AddBragDiffusiveFlux"} -> {"Flux", "dMax"}
      [] call = "AddViscousFlux" -> {"Flux", "dMax", "viscSrc"}
      [] call = "AddBragViscousFlux" -> {"Flux", "dMax", "bragViscSrc"}
      [] call \in {"AddVelocityFluid", "SubstractVelocityFluid"} -> {"Vc"}
      [] call = "TracerCalcFlux" -> {"FluxTracer"}
      [] call = "CorrectFlux" -> {"Flux"}
      [] call = "CalcRightHandSide" -> IF Rkl THEN {"Flux", "dU", "InvDt"} ELSE {"Uc", "InvDt"}
      [] call = "TracerCalcRightHandSide" -> {"UcTracer"}
      [] call = "AddSourceTerms" -> {"Uc"}
      [] call = "AddDragForce" -> {"Uc", "UcGas", "InvDt"}
      [] call \in {"CalcCornerEMF", "CalcNonidealEMF"} -> {"ex", "ey", "ez"}
      [] call = "EvolveMagField" -> FaceNames
      [] call = "ReconstructVcField" -> {"UcField"}

LEMMA HeadsFor ==
    ASSUME Setting, NEW call, call \in Named \ {"done", "NextDir"}
    PROVE Heads(BookFor(call)) \subseteq WrittenBy(call)
<1>0. \A E, F : Heads(E \cup F) = Heads(E) \cup Heads(F)
    BY DEF Heads
<1>1. CASE call = "ResetStage"
  <2>1. Heads({<<a, "set", {}>> : a \in Derivatives}) \subseteq Derivatives
      BY DEF Heads
  <2> QED BY <1>1, <2>1, RateNames DEF BookFor, WrittenBy
<1>2. CASE call \in {"CalcCurrent", "HallDiffusivity", "Refresh"}
    BY <1>2, HeadsOf DEF BookFor
<1>3. CASE call = "CalcFlux"
    BY <1>3 DEF BookFor, WrittenBy, FluxEntries, Heads
<1>4. CASE call = "ResetDiffusion"
    BY <1>4 DEF BookFor, WrittenBy, Heads
<1>5. CASE call = "AddNonIdealMHDFlux"
    BY <1>5 DEF BookFor, WrittenBy, NonIdealEntries, Heads
<1>6. CASE call = "AddDiffusiveFlux"
    BY <1>6 DEF BookFor, WrittenBy, DiffuseEntries, Heads
<1>7. CASE call = "AddBragDiffusiveFlux"
    BY <1>7 DEF BookFor, WrittenBy, BragHeatEntries, Heads
<1>8. CASE call = "AddViscousFlux"
    BY <1>8 DEF BookFor, WrittenBy, ViscousEntries, SourceEntries, If, Heads
<1>9. CASE call = "AddBragViscousFlux"
    BY <1>9 DEF BookFor, WrittenBy, DiffuseEntries, SourceEntries, If, Heads
<1>10. CASE call \in {"AddVelocityFluid", "SubstractVelocityFluid"}
    BY <1>10 DEF BookFor, WrittenBy, Heads
<1>11. CASE call = "TracerCalcFlux"
    BY <1>11 DEF BookFor, WrittenBy, Heads
<1>12. CASE call = "CorrectFlux"
    BY <1>12 DEF BookFor, WrittenBy, Heads
<1>13. CASE call = "CalcRightHandSide"
    BY <1>13 DEF BookFor, WrittenBy, Heads, RKLEntries, If
<1>14. CASE call = "TracerCalcRightHandSide"
    BY <1>14 DEF BookFor, WrittenBy, Heads
<1>15. CASE call = "AddSourceTerms"
    BY <1>15 DEF BookFor, WrittenBy, Heads
<1>16. CASE call = "AddDragForce"
    BY <1>16 DEF BookFor, WrittenBy, DragEntries, Heads
<1>17. CASE call \in {"CalcCornerEMF", "CalcNonidealEMF"}
    BY <1>17, EdgeHeads DEF BookFor, WrittenBy
<1>18. CASE call = "EvolveMagField"
    BY <1>18, FaceHeads DEF BookFor, WrittenBy
<1>19. CASE call = "ReconstructVcField"
    BY <1>19 DEF BookFor, WrittenBy, Heads
<1> QED BY <1>1, <1>2, <1>3, <1>4, <1>5, <1>6, <1>7, <1>8, <1>9, <1>10, <1>11, <1>12,
<1>13, <1>14, <1>15, <1>16, <1>17, <1>18, <1>19, AllNamed

\* What a call leaves alone.
LEMMA Untouched ==
    ASSUME StageInv, NEW call, NEW loops, Posted(call, loops), NEW a \in DOMAIN mem,
           a \notin Scratch, a \notin WrittenBy(call)
    PROVE mem'[a] = mem[a]
<1>1. Setting /\ call \in Named \ {"done", "NextDir"}
    BY DEF StageInv, Posted
<1> QED BY <1>1, HeadsFor, AfterPosted
-----------------------------------------------------------------------------
(* The fluxes and the largest coefficients. *)

LEMMA MainArrays ==
    ASSUME StageInv
    PROVE /\ {"Vc", "Uc", "InvDt", "cMax", "dMax", "Flux"} \subseteq DOMAIN mem
          /\ {"Vc", "Uc", "InvDt", "cMax", "dMax", "Flux", "viscSrc", "bragViscSrc", "FluxTracer",
              "UcTracer", "UcGas", "UcField", "dU", "ex", "ey", "ez"} \cap Scratch = {}
<1>1. {"Vc", "Uc", "InvDt", "cMax", "dMax", "Flux"} \subseteq DOMAIN mem
    BY DEF StageInv, Allocated, FluidArrays
<1> QED BY <1>1 DEF Scratch

LEMMA MeanIsOf ==
    /\ MeanParts("fargo", "rotation") = MeanOf("fargo", "rotation", dir)
    /\ MeanParts("fargoBack", "rotationBack") = MeanOf("fargoBack", "rotationBack", dir)
BY DEF MeanParts, MeanOf, If, One, Part

\* A call that is still to come has not been made.
LEMMA NotBeen ==
    ASSUME StageInv, NEW call, NEW loops, Posted(call, loops), NEW other \in Named,
           Place(call) <= Place(other)
    PROVE ~Been(other)
<1>1. pc = call /\ call \in Named
    BY AfterPosted
<1>2. Place(call) \in 1..25 /\ Place(other) \in 1..25
    BY <1>1, PlaceNamed
<1> QED BY <1>1, <1>2 DEF Been

\* One that was wanted before it has been made.
LEMMA HasBeen ==
    ASSUME StageInv, NEW call, NEW loops, Posted(call, loops), NEW other \in Named,
           Place(other) < Place(call)
    PROVE Been(other) <=> Wanted(other)
<1>1. pc = call
    BY AfterPosted
<1> QED BY <1>1 DEF Been

LEMMA HeldFluxStep ==
    ASSUME StageInv, NEW call, NEW loops, Posted(call, loops)
    PROVE HeldFlux' =
            If(~Rkl, Hyperbolic)
            \cup If(Been("AddNonIdealMHDFlux") \/ call = "AddNonIdealMHDFlux", NonIdeal)
            \cup If(Been("AddViscousFlux") \/ call = "AddViscousFlux", Stress)
            \cup If(Been("AddDiffusiveFlux") \/ call = "AddDiffusiveFlux", One("conduction"))
            \cup If(Been("AddBragViscousFlux") \/ call = "AddBragViscousFlux", One("bragViscosity"))
            \cup If(Been("AddBragDiffusiveFlux") \/ call = "AddBragDiffusiveFlux", One("bragConduction"))
            \cup If(Been("CorrectFlux") \/ call = "CorrectFlux", MeanOf("fargo", "rotation", dir))
<1>1. SteadyConf
    BY AfterPosted
<1>2. \A other \in Named : (Been(other))' <=> Been(other) \/ call = other
    BY AfterPosted
<1>3. /\ (Been("AddNonIdealMHDFlux"))' <=> Been("AddNonIdealMHDFlux") \/ call = "AddNonIdealMHDFlux"
      /\ (Been("AddViscousFlux"))' <=> Been("AddViscousFlux") \/ call = "AddViscousFlux"
      /\ (Been("AddDiffusiveFlux"))' <=> Been("AddDiffusiveFlux") \/ call = "AddDiffusiveFlux"
      /\ (Been("AddBragViscousFlux"))' <=> Been("AddBragViscousFlux") \/ call = "AddBragViscousFlux"
      /\ (Been("AddBragDiffusiveFlux"))' <=> Been("AddBragDiffusiveFlux") \/ call = "AddBragDiffusiveFlux"
      /\ (Been("CorrectFlux"))' <=> Been("CorrectFlux") \/ call = "CorrectFlux"
    BY <1>2, AllNamed
<1>4. /\ (Rkl' <=> Rkl) /\ NonIdeal' = NonIdeal /\ Stress' = Stress
      /\ (MeanOf("fargo", "rotation", dir))' = MeanOf("fargo", "rotation", dir)
  <2>1. PICK d : d = dir
      OBVIOUS
  <2>2. (MeanOf("fargo", "rotation", d))' = MeanOf("fargo", "rotation", d)
      BY <1>1, SharesSteady
  <2>3. (MeanOf("fargo", "rotation", dir))' = (MeanOf("fargo", "rotation", d))'
      BY <1>1, <2>1 DEF SteadyConf, MeanOf
  <2> QED BY <1>1, <2>1, <2>2, <2>3, PartsSteady
<1> QED BY <1>3, <1>4 DEF HeldFlux, If, Hyperbolic, One

\* What each call makes of the fluxes.
FluxGain(call) ==
    CASE call = "AddNonIdealMHDFlux" -> NonIdeal
      [] call = "AddViscousFlux" -> Stress
      [] call = "AddDiffusiveFlux" -> One("conduction")
      [] call = "AddBragViscousFlux" -> One("bragViscosity")
      [] call = "AddBragDiffusiveFlux" -> One("bragConduction")
      [] call = "CorrectFlux" -> MeanOf("fargo", "rotation", dir)
      [] OTHER -> {}

FluxCalls ==
    {"AddNonIdealMHDFlux", "AddViscousFlux", "AddDiffusiveFlux", "AddBragViscousFlux",
     "AddBragDiffusiveFlux", "CorrectFlux"}

LEMMA FluxMoves ==
    ASSUME StageInv, NEW call, NEW loops, Posted(call, loops)
    PROVE /\ call = "CalcFlux" => mem'["Flux"].parts = If(~Rkl, Hyperbolic)
          /\ call # "CalcFlux" => mem'["Flux"].parts = mem["Flux"].parts \cup FluxGain(call)
<1>0. "Flux" \in DOMAIN mem /\ "Flux" \notin Scratch /\ call \in Named \ {"done", "NextDir"}
    BY MainArrays DEF Posted
<1>1. \A parts : /\ <<"Flux", "set", parts>> \in BookFor(call) => mem'["Flux"].parts = parts
                 /\ <<"Flux", "add", parts>> \in BookFor(call) =>
                        mem'["Flux"].parts = mem["Flux"].parts \cup parts
    BY <1>0, AfterPosted
<1>2. CASE call = "CalcFlux"
  <2>1. <<"Flux", "set", If(~Rkl, Hyperbolic)>> \in BookFor(call)
      BY <1>2 DEF BookFor, FluxEntries, If
  <2> QED BY <1>1, <1>2, <2>1
<1>3. CASE call \in FluxCalls
  <2>1. <<"Flux", "add", FluxGain(call)>> \in BookFor(call)
    <3>1. CASE call = "AddNonIdealMHDFlux"
        BY <3>1 DEF BookFor, NonIdealEntries, FluxGain
    <3>2. CASE call = "AddViscousFlux"
        BY <3>2 DEF BookFor, ViscousEntries, FluxGain
    <3>3. CASE call = "AddDiffusiveFlux"
        BY <3>3 DEF BookFor, DiffuseEntries, FluxGain
    <3>4. CASE call = "AddBragViscousFlux"
        BY <3>4 DEF BookFor, DiffuseEntries, FluxGain
    <3>5. CASE call = "AddBragDiffusiveFlux"
        BY <3>5 DEF BookFor, BragHeatEntries, FluxGain
    <3>6. CASE call = "CorrectFlux"
        BY <3>6, MeanIsOf DEF BookFor, FluxGain
    <3> QED BY <1>3, <3>1, <3>2, <3>3, <3>4, <3>5, <3>6 DEF FluxCalls
  <2> QED BY <1>1, <1>3, <2>1 DEF FluxCalls
<1>4. CASE call = "CalcRightHandSide" /\ Rkl
  <2>1. <<"Flux", "add", {}>> \in BookFor(call)
      BY <1>4 DEF BookFor, RKLEntries
  <2>2. FluxGain(call) = {}
      BY <1>4 DEF FluxGain
  <2> QED BY <1>1, <1>4, <2>1, <2>2
<1>5. CASE call # "CalcFlux" /\ call \notin FluxCalls /\ ~(call = "CalcRightHandSide" /\ Rkl)
  <2>1. FluxGain(call) = {}
      BY <1>5 DEF FluxGain, FluxCalls
  <2>2. "Flux" \notin WrittenBy(call)
      BY <1>0, <1>5, AllNamed DEF WrittenBy, FluxCalls, Rate, FaceNames
  <2>3. mem'["Flux"] = mem["Flux"]
      BY <1>0, <2>2, Untouched
  <2> QED BY <1>5, <2>1, <2>3
<1> QED BY <1>2, <1>3, <1>4, <1>5

LEMMA FluxStep ==
    ASSUME StageInv, FluxLedger, NEW call, NEW loops, Posted(call, loops)
    PROVE (Been("CalcFlux") => Parts("Flux") = HeldFlux)'
<1>1. (Been("CalcFlux"))' <=> Been("CalcFlux") \/ call = "CalcFlux"
    BY AfterPosted, AllNamed
<1>2. Been("CalcFlux") => mem["Flux"].parts = HeldFlux
    BY DEF FluxLedger, Parts
<1>3. CASE call = "CalcFlux"
  <2>1. \A c \in FluxCalls : ~Been(c) /\ c # call
    <3>1. \A c \in FluxCalls : c \in Named /\ Place(call) <= Place(c)
        BY <1>3, PlaceOf, AllNamed DEF FluxCalls
    <3> QED BY <1>3, <3>1, NotBeen DEF FluxCalls
  <2>2. HeldFlux' = If(~Rkl, Hyperbolic)
      BY <2>1, HeldFluxStep DEF FluxCalls, If
  <2>3. mem'["Flux"].parts = If(~Rkl, Hyperbolic)
      BY <1>3, FluxMoves
  <2> QED BY <2>2, <2>3 DEF Parts
<1>4. CASE call # "CalcFlux" /\ Been("CalcFlux")
  <2>1. mem'["Flux"].parts = HeldFlux \cup FluxGain(call)
      BY <1>2, <1>4, FluxMoves
  <2>2. HeldFlux' = HeldFlux \cup FluxGain(call)
    <3>1. PICK mean : mean = MeanOf("fargo", "rotation", dir)
        OBVIOUS
    <3>2. CASE call \in FluxCalls
      <4>1. CASE call = "AddNonIdealMHDFlux"
          BY <4>1, HeldFluxStep DEF HeldFlux, FluxGain, If
      <4>2. CASE call = "AddViscousFlux"
          BY <4>2, HeldFluxStep DEF HeldFlux, FluxGain, If
      <4>3. CASE call = "AddDiffusiveFlux"
          BY <4>3, HeldFluxStep DEF HeldFlux, FluxGain, If
      <4>4. CASE call = "AddBragViscousFlux"
          BY <4>4, HeldFluxStep DEF HeldFlux, FluxGain, If
      <4>5. CASE call = "AddBragDiffusiveFlux"
          BY <4>5, HeldFluxStep DEF HeldFlux, FluxGain, If
      <4>6. CASE call = "CorrectFlux"
          BY <4>6, HeldFluxStep DEF HeldFlux, FluxGain, If
      <4> QED BY <3>2, <4>1, <4>2, <4>3, <4>4, <4>5, <4>6 DEF FluxCalls
    <3>3. CASE call \notin FluxCalls
        BY <3>3, HeldFluxStep DEF HeldFlux, FluxGain, FluxCalls, If
    <3> QED BY <3>2, <3>3
  <2> QED BY <2>1, <2>2 DEF Parts
<1> QED BY <1>1, <1>3, <1>4

LimitGain(call) ==
    CASE call = "AddNonIdealMHDFlux" -> NonIdeal
      [] call = "AddViscousFlux" -> One("viscosity")
      [] call = "AddDiffusiveFlux" -> One("conduction")
      [] call = "AddBragViscousFlux" -> One("bragViscosity")
      [] OTHER -> {}

LimitCalls == {"AddNonIdealMHDFlux", "AddViscousFlux", "AddDiffusiveFlux", "AddBragViscousFlux"}

LEMMA LimitMoves ==
    ASSUME StageInv, NEW call, NEW loops, Posted(call, loops)
    PROVE /\ call = "ResetDiffusion" => mem'["dMax"].parts = {}
          /\ call = "AddBragDiffusiveFlux" =>
                mem'["dMax"].parts = Scaled(mem["dMax"].parts) \cup One("bragConduction")
          /\ call \notin {"ResetDiffusion", "AddBragDiffusiveFlux"} =>
                mem'["dMax"].parts = mem["dMax"].parts \cup LimitGain(call)
<1>0. "dMax" \in DOMAIN mem /\ "dMax" \notin Scratch /\ call \in Named \ {"done", "NextDir"}
    BY MainArrays DEF Posted
<1>1. \A parts : /\ <<"dMax", "set", parts>> \in BookFor(call) => mem'["dMax"].parts = parts
                 /\ <<"dMax", "add", parts>> \in BookFor(call) =>
                        mem'["dMax"].parts = mem["dMax"].parts \cup parts
    BY <1>0, AfterPosted
<1>2. CASE call = "ResetDiffusion"
  <2>1. <<"dMax", "set", {}>> \in BookFor(call)
      BY <1>2 DEF BookFor
  <2> QED BY <1>1, <1>2, <2>1
<1>3. CASE call = "AddBragDiffusiveFlux"
  <2>1. <<"dMax", "set", Scaled(mem["dMax"].parts) \cup One("bragConduction")>> \in BookFor(call)
      BY <1>3 DEF BookFor, BragHeatEntries
  <2> QED BY <1>1, <1>3, <2>1
<1>4. CASE call \in LimitCalls
  <2>1. <<"dMax", "add", LimitGain(call)>> \in BookFor(call)
    <3>1. CASE call = "AddNonIdealMHDFlux"
        BY <3>1 DEF BookFor, NonIdealEntries, LimitGain
    <3>2. CASE call = "AddViscousFlux"
        BY <3>2 DEF BookFor, ViscousEntries, LimitGain
    <3>3. CASE call = "AddDiffusiveFlux"
        BY <3>3 DEF BookFor, DiffuseEntries, LimitGain
    <3>4. CASE call = "AddBragViscousFlux"
        BY <3>4 DEF BookFor, DiffuseEntries, LimitGain
    <3> QED BY <1>4, <3>1, <3>2, <3>3, <3>4 DEF LimitCalls
  <2> QED BY <1>1, <1>4, <2>1 DEF LimitCalls
<1>5. CASE call \notin {"ResetDiffusion", "AddBragDiffusiveFlux"} \cup LimitCalls
  <2>1. LimitGain(call) = {}
      BY <1>5 DEF LimitGain, LimitCalls
  <2>2. "dMax" \notin WrittenBy(call)
      BY <1>0, <1>5, AllNamed DEF WrittenBy, LimitCalls, Rate, FaceNames
  <2>3. mem'["dMax"] = mem["dMax"]
      BY <1>0, <2>2, Untouched
  <2> QED BY <1>5, <2>1, <2>3
<1> QED BY <1>2, <1>3, <1>4, <1>5

LEMMA HeldLimitStep ==
    ASSUME StageInv, NEW call, NEW loops, Posted(call, loops)
    PROVE HeldLimit' =
            If(Been("AddNonIdealMHDFlux") \/ call = "AddNonIdealMHDFlux", NonIdeal)
            \cup If(Been("AddViscousFlux") \/ call = "AddViscousFlux", One("viscosity"))
            \cup If(Been("AddDiffusiveFlux") \/ call = "AddDiffusiveFlux", One("conduction"))
            \cup If(Been("AddBragViscousFlux") \/ call = "AddBragViscousFlux", One("bragViscosity"))
<1>1. SteadyConf
    BY AfterPosted
<1>2. \A other \in Named : (Been(other))' <=> Been(other) \/ call = other
    BY AfterPosted
<1>3. /\ (Been("AddNonIdealMHDFlux"))' <=> Been("AddNonIdealMHDFlux") \/ call = "AddNonIdealMHDFlux"
      /\ (Been("AddViscousFlux"))' <=> Been("AddViscousFlux") \/ call = "AddViscousFlux"
      /\ (Been("AddDiffusiveFlux"))' <=> Been("AddDiffusiveFlux") \/ call = "AddDiffusiveFlux"
      /\ (Been("AddBragViscousFlux"))' <=> Been("AddBragViscousFlux") \/ call = "AddBragViscousFlux"
    BY <1>2, AllNamed
<1>4. NonIdeal' = NonIdeal
    BY <1>1, PartsSteady
<1> QED BY <1>3, <1>4 DEF HeldLimit, If, One

LEMMA LimitStep ==
    ASSUME StageInv, FluxLedger, NEW call, NEW loops, Posted(call, loops)
    PROVE (Been("ResetDiffusion") =>
            Parts("dMax") = IF Been("AddBragDiffusiveFlux")
                            THEN Scaled(HeldLimit) \cup One("bragConduction") ELSE HeldLimit)'
<1>1. /\ (Been("ResetDiffusion"))' <=> Been("ResetDiffusion") \/ call = "ResetDiffusion"
      /\ (Been("AddBragDiffusiveFlux"))' <=> Been("AddBragDiffusiveFlux") \/ call = "AddBragDiffusiveFlux"
    BY AfterPosted, AllNamed
<1>2. Been("ResetDiffusion") =>
            mem["dMax"].parts = IF Been("AddBragDiffusiveFlux")
                                THEN Scaled(HeldLimit) \cup One("bragConduction") ELSE HeldLimit
    BY DEF FluxLedger, Parts
<1>3. (Scaled(HeldLimit))' = Scaled(HeldLimit')
    BY AfterPosted DEF Scaled, SteadyConf
<1>4. CASE call = "ResetDiffusion"
  <2>1. \A c \in LimitCalls \cup {"AddBragDiffusiveFlux"} : ~Been(c) /\ c # call
    <3>1. \A c \in LimitCalls \cup {"AddBragDiffusiveFlux"} : c \in Named /\ Place(call) <= Place(c)
        BY <1>4, PlaceOf, AllNamed DEF LimitCalls
    <3> QED BY <1>4, <3>1, NotBeen DEF LimitCalls
  <2>2. HeldLimit' = {}
      BY <2>1, HeldLimitStep DEF LimitCalls, If
  <2>3. mem'["dMax"].parts = {}
      BY <1>4, LimitMoves
  <2> QED BY <1>1, <2>1, <2>2, <2>3 DEF Parts
<1>5. CASE call = "AddBragDiffusiveFlux" /\ Been("ResetDiffusion")
  <2>1. ~Been("AddBragDiffusiveFlux")
      BY <1>5, NotBeen, AllNamed, PlaceOf
  <2>2. HeldLimit' = HeldLimit
      BY <1>5, HeldLimitStep DEF HeldLimit, If
  <2>3. mem'["dMax"].parts = Scaled(HeldLimit) \cup One("bragConduction")
      BY <1>2, <1>5, <2>1, LimitMoves
  <2> QED BY <1>1, <1>3, <1>5, <2>2, <2>3 DEF Parts, One
<1>6. CASE call \in LimitCalls /\ Been("ResetDiffusion")
  <2>1. ~Been("AddBragDiffusiveFlux") /\ call # "AddBragDiffusiveFlux" /\ call # "ResetDiffusion"
    <3>1. "AddBragDiffusiveFlux" \in Named /\ Place(call) <= Place("AddBragDiffusiveFlux")
        BY <1>6, PlaceOf, AllNamed DEF LimitCalls
    <3> QED BY <1>6, <3>1, NotBeen DEF LimitCalls
  <2>2. HeldLimit' = HeldLimit \cup LimitGain(call)
    <3>1. CASE call = "AddNonIdealMHDFlux"
        BY <3>1, HeldLimitStep DEF HeldLimit, LimitGain, If
    <3>2. CASE call = "AddViscousFlux"
        BY <3>2, HeldLimitStep DEF HeldLimit, LimitGain, If
    <3>3. CASE call = "AddDiffusiveFlux"
        BY <3>3, HeldLimitStep DEF HeldLimit, LimitGain, If
    <3>4. CASE call = "AddBragViscousFlux"
        BY <3>4, HeldLimitStep DEF HeldLimit, LimitGain, If
    <3> QED BY <1>6, <3>1, <3>2, <3>3, <3>4 DEF LimitCalls
  <2>3. mem'["dMax"].parts = HeldLimit \cup LimitGain(call)
      BY <1>2, <1>6, <2>1, LimitMoves
  <2> QED BY <1>1, <2>1, <2>2, <2>3 DEF Parts
<1>7. CASE call \notin LimitCalls \cup {"ResetDiffusion", "AddBragDiffusiveFlux"}
  <2>1. HeldLimit' = HeldLimit /\ LimitGain(call) = {}
      BY <1>7, HeldLimitStep DEF HeldLimit, LimitGain, LimitCalls, If
  <2>2. mem'["dMax"].parts = mem["dMax"].parts
      BY <1>7, <2>1, LimitMoves
  <2> QED BY <1>1, <1>2, <1>3, <1>7, <2>1, <2>2 DEF Parts, One
<1> QED BY <1>1, <1>4, <1>5, <1>6, <1>7

LEMMA WaveStep ==
    ASSUME StageInv, FluxLedger, NEW call, NEW loops, Posted(call, loops)
    PROVE (Been("CalcFlux") /\ ~Rkl => Parts("cMax") = Hyperbolic)'
<1>0. "cMax" \in DOMAIN mem /\ "cMax" \notin Scratch /\ call \in Named \ {"done", "NextDir"}
    BY MainArrays DEF Posted
<1>1. ((Been("CalcFlux"))' <=> Been("CalcFlux") \/ call = "CalcFlux") /\ (Rkl' <=> Rkl)
    BY AfterPosted, PartsSteady, AllNamed
<1>2. CASE call = "CalcFlux" /\ ~Rkl
  <2>1. <<"cMax", "set", Hyperbolic>> \in BookFor(call)
      BY <1>2 DEF BookFor, FluxEntries
  <2>2. mem'["cMax"].parts = Hyperbolic
      BY <1>0, <2>1, AfterPosted
  <2> QED BY <2>2 DEF Parts, Hyperbolic
<1>3. CASE call # "CalcFlux"
  <2>1. "cMax" \notin WrittenBy(call)
      BY <1>0, <1>3, AllNamed DEF WrittenBy, Rate, FaceNames
  <2>2. mem'["cMax"] = mem["cMax"]
      BY <1>0, <2>1, Untouched
  <2> QED BY <1>1, <1>3, <2>2 DEF FluxLedger, Parts, Hyperbolic
<1>4. CASE Rkl
    BY <1>1, <1>4
<1> QED BY <1>2, <1>3, <1>4

LEMMA TracerFluxStep ==
    ASSUME StageInv, FluxLedger, NEW call, NEW loops, Posted(call, loops)
    PROVE (Been("TracerCalcFlux") => Parts("FluxTracer") = One("tracer"))'
<1>0. "FluxTracer" \notin Scratch /\ call \in Named \ {"done", "NextDir"} /\ Wanted(call)
    BY MainArrays DEF Posted
<1>1. (Been("TracerCalcFlux"))' <=> Been("TracerCalcFlux") \/ call = "TracerCalcFlux"
    BY AfterPosted, AllNamed
<1>2. Wanted("TracerCalcFlux") => "FluxTracer" \in DOMAIN mem
    BY DEF Wanted, StageInv, Allocated, FluidArrays
<1>3. CASE call = "TracerCalcFlux"
  <2>1. <<"FluxTracer", "set", One("tracer")>> \in BookFor(call)
      BY <1>3 DEF BookFor, Part, One
  <2>2. mem'["FluxTracer"].parts = One("tracer")
      BY <1>0, <1>2, <1>3, <2>1, AfterPosted
  <2> QED BY <2>2 DEF Parts, One
<1>4. CASE call # "TracerCalcFlux" /\ Been("TracerCalcFlux")
  <2>1. "FluxTracer" \notin WrittenBy(call)
      BY <1>0, <1>4, AllNamed DEF WrittenBy, Rate, FaceNames
  <2>2. mem'["FluxTracer"] = mem["FluxTracer"]
      BY <1>0, <1>2, <1>4, <2>1, Untouched DEF Been
  <2> QED BY <1>1, <1>4, <2>2 DEF FluxLedger, Parts, One
<1> QED BY <1>1, <1>3, <1>4

LEMMA ViscousSourceStep ==
    ASSUME StageInv, FluxLedger, NEW call, NEW loops, Posted(call, loops)
    PROVE (Been("AddViscousFlux") /\ conf.geo # "cartesian" => Parts("viscSrc") = One("viscSrc"))'
<1>0. "viscSrc" \notin Scratch /\ call \in Named \ {"done", "NextDir"} /\ Wanted(call) /\ conf' = conf
    BY MainArrays, AfterPosted DEF Posted, SteadyConf
<1>1. (Been("AddViscousFlux"))' <=> Been("AddViscousFlux") \/ call = "AddViscousFlux"
    BY AfterPosted, AllNamed
<1>2. Wanted("AddViscousFlux") => "viscSrc" \in DOMAIN mem
    BY DEF Wanted, StageInv, Allocated, DiffusionArrays, Evolved
<1>3. CASE call = "AddViscousFlux" /\ conf.geo # "cartesian"
  <2>1. <<"viscSrc", "set", One("viscSrc")>> \in BookFor(call)
      BY <1>3 DEF BookFor, SourceEntries, If
  <2>2. mem'["viscSrc"].parts = One("viscSrc")
      BY <1>0, <1>2, <1>3, <2>1, AfterPosted
  <2> QED BY <2>2 DEF Parts, One
<1>4. CASE call # "AddViscousFlux" /\ Been("AddViscousFlux")
  <2>1. "viscSrc" \notin WrittenBy(call)
      BY <1>0, <1>4, AllNamed DEF WrittenBy, Rate, FaceNames
  <2>2. mem'["viscSrc"] = mem["viscSrc"]
      BY <1>0, <1>2, <1>4, <2>1, Untouched DEF Been
  <2> QED BY <1>0, <1>1, <1>4, <2>2 DEF FluxLedger, Parts, One
<1> QED BY <1>0, <1>1, <1>3, <1>4

LEMMA BragSourceStep ==
    ASSUME StageInv, FluxLedger, NEW call, NEW loops, Posted(call, loops)
    PROVE (Been("AddBragViscousFlux") /\ conf.geo # "cartesian" => Parts("bragViscSrc") = One("bragViscSrc"))'
<1>0. "bragViscSrc" \notin Scratch /\ call \in Named \ {"done", "NextDir"} /\ Wanted(call) /\ conf' = conf
    BY MainArrays, AfterPosted DEF Posted, SteadyConf
<1>1. (Been("AddBragViscousFlux"))' <=> Been("AddBragViscousFlux") \/ call = "AddBragViscousFlux"
    BY AfterPosted, AllNamed
<1>2. Wanted("AddBragViscousFlux") => "bragViscSrc" \in DOMAIN mem
    BY DEF Wanted, StageInv, Allocated, DiffusionArrays, Evolved
<1>3. CASE call = "AddBragViscousFlux" /\ conf.geo # "cartesian"
  <2>1. <<"bragViscSrc", "set", One("bragViscSrc")>> \in BookFor(call)
      BY <1>3 DEF BookFor, SourceEntries, If
  <2>2. mem'["bragViscSrc"].parts = One("bragViscSrc")
      BY <1>0, <1>2, <1>3, <2>1, AfterPosted
  <2> QED BY <2>2 DEF Parts, One
<1>4. CASE call # "AddBragViscousFlux" /\ Been("AddBragViscousFlux")
  <2>1. "bragViscSrc" \notin WrittenBy(call)
      BY <1>0, <1>4, AllNamed DEF WrittenBy, Rate, FaceNames
  <2>2. mem'["bragViscSrc"] = mem["bragViscSrc"]
      BY <1>0, <1>2, <1>4, <2>1, Untouched DEF Been
  <2> QED BY <1>0, <1>1, <1>4, <2>2 DEF FluxLedger, Parts, One
<1> QED BY <1>0, <1>1, <1>3, <1>4

LEMMA FlatSourceStep ==
    ASSUME StageInv, FluxLedger, NEW call, NEW loops, Posted(call, loops)
    PROVE (conf.geo = "cartesian" =>
              \A a \in {"viscSrc", "bragViscSrc"} \cap DOMAIN mem : Parts(a) = {})'
<1>0. call \in Named \ {"done", "NextDir"} /\ conf' = conf /\ DOMAIN mem' = DOMAIN mem
    BY AfterPosted DEF Posted, SteadyConf
<1>1. ASSUME conf.geo = "cartesian", NEW a \in {"viscSrc", "bragViscSrc"}, a \in DOMAIN mem
      PROVE mem'[a].parts = {}
  <2>1. a \notin Heads(BookFor(call))
    <3>1. CASE call = "AddViscousFlux"
        BY <1>1, <3>1 DEF BookFor, ViscousEntries, SourceEntries, If, Heads
    <3>2. CASE call = "AddBragViscousFlux"
        BY <1>1, <3>2 DEF BookFor, DiffuseEntries, SourceEntries, If, Heads
    <3>3. CASE call \notin {"AddViscousFlux", "AddBragViscousFlux"}
      <4>1. a \notin WrittenBy(call)
          BY <1>0, <1>1, <3>3, AllNamed DEF WrittenBy, Rate, FaceNames
      <4> QED BY <1>0, <4>1, HeadsFor DEF StageInv
    <3> QED BY <3>1, <3>2, <3>3
  <2>2. a \notin Scratch
      BY <1>1, MainArrays
  <2>3. mem'[a] = mem[a]
      BY <1>1, <2>1, <2>2, AfterPosted
  <2> QED BY <1>1, <2>3 DEF FluxLedger, Parts
<1> QED BY <1>0, <1>1 DEF Parts

LEMMA FluxLedgerStep ==
    ASSUME StageInv, FluxLedger, NEW call, NEW loops, Posted(call, loops)
    PROVE FluxLedger'
<1>1. (Been("CalcFlux") => Parts("Flux") = HeldFlux)'
    BY FluxStep
<1>2. (Been("CalcFlux") /\ ~Rkl => Parts("cMax") = Hyperbolic)'
    BY WaveStep
<1>3. (Been("ResetDiffusion") =>
            Parts("dMax") = IF Been("AddBragDiffusiveFlux")
                            THEN Scaled(HeldLimit) \cup One("bragConduction") ELSE HeldLimit)'
    BY LimitStep
<1>4. (Been("TracerCalcFlux") => Parts("FluxTracer") = One("tracer"))'
    BY TracerFluxStep
<1>5. (Been("AddViscousFlux") /\ conf.geo # "cartesian" => Parts("viscSrc") = One("viscSrc"))'
    BY ViscousSourceStep
<1>6. (Been("AddBragViscousFlux") /\ conf.geo # "cartesian" => Parts("bragViscSrc") = One("bragViscSrc"))'
    BY BragSourceStep
<1>7. (conf.geo = "cartesian" =>
              \A a \in {"viscSrc", "bragViscSrc"} \cap DOMAIN mem : Parts(a) = {})'
    BY FlatSourceStep
<1> QED BY <1>1, <1>2, <1>3, <1>4, <1>5, <1>6, <1>7 DEF FluxLedger
-----------------------------------------------------------------------------
(* What a sweep brings to the cells. *)

\* What the options ask of a sweep.
LEMMA WantedOf ==
    ASSUME LoopDirs
    PROVE /\ Wanted("CalcFlux")
          /\ Wanted("CalcRightHandSide")
          /\ Wanted("ResetDiffusion") <=> Rkl \/ ParabolicTerms
          /\ Wanted("AddNonIdealMHDFlux") <=> Evolved("ohmic") \/ Evolved("ambipolar")
          /\ Wanted("AddViscousFlux") <=> Evolved("viscosity")
          /\ Wanted("AddDiffusiveFlux") <=> Evolved("conduction")
          /\ Wanted("AddBragViscousFlux") <=> Evolved("bragViscosity")
          /\ Wanted("AddBragDiffusiveFlux") <=> Evolved("bragConduction")
          /\ Wanted("CorrectFlux") <=> ~Rkl
          /\ Wanted("TracerCalcFlux") <=> ~Rkl /\ conf.tracer
          /\ Wanted("TracerCalcRightHandSide") <=> ~Rkl /\ conf.tracer
BY DEF Wanted, Parabolic

LEMMA SweepWanted ==
    ASSUME Wanted("CalcRightHandSide") \/ Wanted("TracerCalcRightHandSide") PROVE LoopDirs
<1>1. Sweep("CalcRightHandSide") /\ Sweep("TracerCalcRightHandSide")
  <2>1. Calls[16] = "CalcRightHandSide" /\ Calls[17] = "TracerCalcRightHandSide" /\ 16 \in 5..18 /\ 17 \in 5..18
      BY DEF Calls
  <2> QED BY <2>1 DEF Sweep
<1> QED BY <1>1 DEF Wanted

LEMMA BeforeRHS ==
    ASSUME StageInv, NEW loops, Posted("CalcRightHandSide", loops)
    PROVE /\ LoopDirs
          /\ Been("CalcFlux")
          /\ Been("ResetDiffusion") <=> Rkl \/ ParabolicTerms
          /\ Been("AddNonIdealMHDFlux") <=> Evolved("ohmic") \/ Evolved("ambipolar")
          /\ Been("AddViscousFlux") <=> Evolved("viscosity")
          /\ Been("AddDiffusiveFlux") <=> Evolved("conduction")
          /\ Been("AddBragViscousFlux") <=> Evolved("bragViscosity")
          /\ Been("AddBragDiffusiveFlux") <=> Evolved("bragConduction")
          /\ Been("CorrectFlux") <=> ~Rkl
<1>1. LoopDirs
    BY SweepWanted DEF Posted
<1>2. \A c \in {"CalcFlux", "ResetDiffusion", "AddNonIdealMHDFlux", "AddViscousFlux", "AddDiffusiveFlux",
                "AddBragViscousFlux", "AddBragDiffusiveFlux", "CorrectFlux"} :
          c \in Named /\ Place(c) < Place("CalcRightHandSide")
    BY PlaceOf, AllNamed
<1>3. \A c \in {"CalcFlux", "ResetDiffusion", "AddNonIdealMHDFlux", "AddViscousFlux", "AddDiffusiveFlux",
                "AddBragViscousFlux", "AddBragDiffusiveFlux", "CorrectFlux"} : Been(c) <=> Wanted(c)
    BY <1>2, HasBeen
<1> QED BY <1>1, <1>3, WantedOf

LEMMA WholeFlux ==
    ASSUME StageInv, FluxLedger, NEW loops, Posted("CalcRightHandSide", loops)
    PROVE Swept("Flux") = At0(dir, FluxOf(dir))
<1>1. mem["Flux"].parts = HeldFlux
    BY BeforeRHS DEF FluxLedger, Parts
<1>2. PICK mean : mean = MeanOf("fargo", "rotation", dir)
    OBVIOUS
<1>3. If(Been("AddNonIdealMHDFlux"), NonIdeal) = NonIdeal
    BY BeforeRHS DEF NonIdeal, If
<1>4. HeldFlux = FluxOf(dir)
    BY <1>2, <1>3, BeforeRHS DEF HeldFlux, FluxOf, If
<1> QED BY <1>1, <1>4 DEF Swept, At0

LEMMA WholeCells ==
    ASSUME StageInv, FluxLedger, NEW loops, Posted("CalcRightHandSide", loops)
    PROVE CellGain = Share(dir)
<1>1. Swept("Flux") = At0(dir, FluxOf(dir))
    BY WholeFlux
<1>2. {<<p[1], dir>> : p \in MeanParts("fargoBack", "rotationBack")}
        = At0(dir, MeanOf("fargoBack", "rotationBack", dir))
    BY MeanIsOf DEF At0
<1>3. ForceComponents = BodyOf(dir)
    BY DEF ForceComponents, BodyOf
<1>4. (IF conf.body THEN UNION {Part("body", d) : d \in ForceComponents} ELSE {})
        = If(conf.body, {<<"body", e>> : e \in BodyOf(dir)})
    BY <1>3 DEF If, Part
<1> QED BY <1>1, <1>2, <1>4 DEF CellGain, Share, If

LEMMA WholeRKL ==
    ASSUME StageInv, FluxLedger, NEW loops, Posted("CalcRightHandSide", loops), Rkl
    PROVE RKLGain = ShareRKL(dir)
<1>1. Swept("Flux") = At0(dir, FluxOf(dir))
    BY WholeFlux
<1>2. Evolved("viscosity") => /\ "viscSrc" \in DOMAIN mem
                                /\ mem["viscSrc"].parts = If(conf.geo # "cartesian", One("viscSrc"))
  <2>1. Evolved("viscosity") => "viscSrc" \in DOMAIN mem
      BY DEF StageInv, Allocated, DiffusionArrays, Evolved
  <2> QED BY <2>1, BeforeRHS DEF FluxLedger, Parts, If
<1>3. Evolved("bragViscosity") =>
        "bragViscSrc" \in DOMAIN mem /\ mem["bragViscSrc"].parts = If(conf.geo # "cartesian", One("bragViscSrc"))
  <2>1. Evolved("bragViscosity") => "bragViscSrc" \in DOMAIN mem
      BY DEF StageInv, Allocated, DiffusionArrays, Evolved
  <2> QED BY <2>1, BeforeRHS DEF FluxLedger, Parts, If
<1>4. RKLSources = If(Evolved("viscosity"), {"viscSrc"}) \cup If(Evolved("bragViscosity"), {"bragViscSrc"})
  <2>1. PICK v, b : v = <<"viscosity", "viscSrc">> /\ b = <<"bragViscosity", "bragViscSrc">>
      OBVIOUS
  <2>2. v[1] = "viscosity" /\ v[2] = "viscSrc" /\ b[1] = "bragViscosity" /\ b[2] = "bragViscSrc"
      BY <2>1
  <2>3. RKLSources = {s[2] : s \in {s \in {v, b} : Evolved(s[1])}}
      BY <2>1 DEF RKLSources
  <2>4. {s \in {v, b} : Evolved(s[1])} = If(Evolved("viscosity"), {v}) \cup If(Evolved("bragViscosity"), {b})
      BY <2>2 DEF If
  <2>5. {s[2] : s \in If(Evolved("viscosity"), {v}) \cup If(Evolved("bragViscosity"), {b})}
          = If(Evolved("viscosity"), {"viscSrc"}) \cup If(Evolved("bragViscosity"), {"bragViscSrc"})
      BY ONLY <2>2 DEF If
  <2> QED BY <2>3, <2>4, <2>5
<1>5. UNION {{<<p[1], dir>> : p \in mem[s].parts} : s \in RKLSources}
        = If(conf.geo # "cartesian" /\ Evolved("viscosity"), Part("viscSrc", dir))
          \cup If(conf.geo # "cartesian" /\ Evolved("bragViscosity"), Part("bragViscSrc", dir))
  <2>1. Evolved("viscosity") =>
          {<<p[1], dir>> : p \in mem["viscSrc"].parts} = If(conf.geo # "cartesian", Part("viscSrc", dir))
    <3>1. CASE conf.geo = "cartesian"
      <4>1. Evolved("viscosity") => mem["viscSrc"].parts = {}
          BY <1>2, <3>1 DEF If
      <4> QED BY <3>1, <4>1 DEF If
    <3>2. CASE conf.geo # "cartesian"
      <4>1. PICK q : q = <<"viscSrc", 0>>
          OBVIOUS
      <4>2. q[1] = "viscSrc"
          BY <4>1
      <4>3. Evolved("viscosity") => mem["viscSrc"].parts = {q}
          BY <1>2, <3>2, <4>1 DEF If, One
      <4>4. {<<p[1], dir>> : p \in {q}} = {<<"viscSrc", dir>>}
          BY <4>2
      <4> QED BY <3>2, <4>3, <4>4 DEF If, Part
    <3> QED BY <3>1, <3>2
  <2>2. Evolved("bragViscosity") =>
          {<<p[1], dir>> : p \in mem["bragViscSrc"].parts} = If(conf.geo # "cartesian", Part("bragViscSrc", dir))
    <3>1. CASE conf.geo = "cartesian"
      <4>1. Evolved("bragViscosity") => mem["bragViscSrc"].parts = {}
          BY <1>3, <3>1 DEF If
      <4> QED BY <3>1, <4>1 DEF If
    <3>2. CASE conf.geo # "cartesian"
      <4>1. PICK q : q = <<"bragViscSrc", 0>>
          OBVIOUS
      <4>2. q[1] = "bragViscSrc"
          BY <4>1
      <4>3. Evolved("bragViscosity") => mem["bragViscSrc"].parts = {q}
          BY <1>3, <3>2, <4>1 DEF If, One
      <4>4. {<<p[1], dir>> : p \in {q}} = {<<"bragViscSrc", dir>>}
          BY <4>2
      <4> QED BY <3>2, <4>3, <4>4 DEF If, Part
    <3> QED BY <3>1, <3>2
  <2> DEFINE of(s) == {<<p[1], dir>> : p \in mem[s].parts}
  <2> HIDE DEF of
  <2>3. UNION {of(s) : s \in RKLSources}
          = If(Evolved("viscosity"), of("viscSrc")) \cup If(Evolved("bragViscosity"), of("bragViscSrc"))
      BY <1>4 DEF If
  <2> QED BY <2>1, <2>2, <2>3 DEF of, If
<1> QED BY <1>1, <1>5 DEF RKLGain, ShareRKL

Sign(part) == IF part[2] = 0 THEN dir ELSE -dir

LEMMA WholeLimit ==
    ASSUME StageInv, FluxLedger, NEW loops, Posted("CalcRightHandSide", loops), Rkl \/ ParabolicTerms
    PROVE Limits("dMax") =
            At0(IF conf.cless /\ Evolved("bragConduction") THEN -dir ELSE dir, LimitOf)
            \cup If(Evolved("bragConduction"), Part("bragConduction", dir))
<1>1. HeldLimit = LimitOf
  <2>1. If(Been("AddNonIdealMHDFlux"), NonIdeal) = NonIdeal
      BY BeforeRHS DEF NonIdeal, If
  <2> QED BY <2>1, BeforeRHS DEF HeldLimit, LimitOf, If
<1>2. mem["dMax"].parts = IF Evolved("bragConduction")
                          THEN Scaled(LimitOf) \cup One("bragConduction") ELSE LimitOf
    BY <1>1, BeforeRHS DEF FluxLedger, Parts
<1>3. \A p \in LimitOf : p[2] = 0
    BY DEF LimitOf, NonIdeal, If, One
<1> HIDE DEF LimitOf
<1>4. CASE ~Evolved("bragConduction")
  <2>1. Limits("dMax") = {<<p[1], IF p[2] = 0 THEN dir ELSE -dir>> : p \in LimitOf}
      BY <1>2, <1>4 DEF Limits
  <2>2. {<<p[1], IF p[2] = 0 THEN dir ELSE -dir>> : p \in LimitOf} = At0(dir, LimitOf)
      BY <1>3 DEF At0
  <2> QED BY <1>4, <2>1, <2>2 DEF If
<1>5. CASE Evolved("bragConduction")
  <2>1. Limits("dMax") = {<<p[1], IF p[2] = 0 THEN dir ELSE -dir>> : p \in Scaled(LimitOf)}
                         \cup {<<"bragConduction", dir>>}
    <3>1. PICK scaled : scaled = Scaled(LimitOf)
        OBVIOUS
    <3>2. PICK p : p = <<"bragConduction", 0>>
        OBVIOUS
    <3>3. p[1] = "bragConduction" /\ p[2] = 0
        BY <3>2
    <3>4. mem["dMax"].parts = scaled \cup {p}
        BY <1>2, <1>5, <3>1, <3>2 DEF One
    <3>5. Limits("dMax") = {<<q[1], IF q[2] = 0 THEN dir ELSE -dir>> : q \in scaled \cup {p}}
        BY <3>4 DEF Limits
    <3>6. {<<q[1], IF q[2] = 0 THEN dir ELSE -dir>> : q \in scaled \cup {p}}
           = {<<q[1], IF q[2] = 0 THEN dir ELSE -dir>> : q \in scaled} \cup {<<"bragConduction", dir>>}
        BY ONLY <3>3
    <3> QED BY <3>1, <3>5, <3>6
  <2>2. {<<p[1], IF p[2] = 0 THEN dir ELSE -dir>> : p \in Scaled(LimitOf)}
          = At0(IF conf.cless THEN -dir ELSE dir, LimitOf)
    <3>1. CASE conf.cless
      <4>1. Scaled(LimitOf) = {<<p[1], 1>> : p \in LimitOf}
          BY <3>1 DEF Scaled
      <4>2. \A x : <<x, 1>>[1] = x /\ <<x, 1>>[2] = 1
          OBVIOUS
      <4>3. {<<q[1], IF q[2] = 0 THEN dir ELSE -dir>> : q \in {<<p[1], 1>> : p \in LimitOf}}
             = {<<p[1], -dir>> : p \in LimitOf}
        <5>1. ASSUME NEW q \in {<<p[1], 1>> : p \in LimitOf}
              PROVE <<q[1], IF q[2] = 0 THEN dir ELSE -dir>> \in {<<p[1], -dir>> : p \in LimitOf}
          <6>1. PICK p \in LimitOf : q = <<p[1], 1>>
              OBVIOUS
          <6>2. q[1] = p[1] /\ q[2] = 1
              BY <6>1
          <6> QED BY <6>2
        <5>2. ASSUME NEW p \in LimitOf
              PROVE <<p[1], -dir>> \in {<<q[1], IF q[2] = 0 THEN dir ELSE -dir>> : q \in {<<r[1], 1>> : r \in LimitOf}}
          <6>1. PICK q : q = <<p[1], 1>>
              OBVIOUS
          <6>2. q[1] = p[1] /\ q[2] = 1 /\ q \in {<<r[1], 1>> : r \in LimitOf}
              BY <6>1
          <6> QED BY <6>2
        <5> QED BY <5>1, <5>2
      <4> QED BY <3>1, <4>1, <4>3 DEF At0
    <3>2. CASE ~conf.cless
        BY <1>3, <3>2 DEF Scaled, At0
    <3> QED BY <3>1, <3>2
  <2> QED BY <1>5, <2>1, <2>2 DEF If, Part
<1> QED BY <1>4, <1>5

LEMMA WholeStep ==
    ASSUME StageInv, FluxLedger, NEW loops, Posted("CalcRightHandSide", loops), ~Rkl
    PROVE StepGain = LimitShare(dir)
<1>1. Limits("cMax") = Part("hyperbolic", dir)
  <2>1. mem["cMax"].parts = Hyperbolic
      BY BeforeRHS DEF FluxLedger, Parts
  <2> QED BY <2>1 DEF Limits, Hyperbolic, Part
<1>2. CASE ParabolicTerms
    BY <1>1, <1>2, WholeLimit DEF StepGain, LimitShare, If
<1>3. CASE ~ParabolicTerms
  <2>1. \A t \in Terms : ~Evolved(t)
    <3>1. DOMAIN conf.terms = Terms
        BY ConfType DEF StageInv
    <3> QED BY <1>3, <3>1 DEF ParabolicTerms, Evolved, Rkl
  <2>2. LimitOf = {} /\ ~Evolved("bragConduction")
      BY <2>1 DEF LimitOf, NonIdeal, If, Terms
  <2> QED BY <1>1, <1>3, <2>2 DEF StepGain, LimitShare, If, At0
<1> QED BY <1>2, <1>3
-----------------------------------------------------------------------------
(* The cells and the time step. *)

LEMMA DoneStep ==
    ASSUME StageInv, NEW call, NEW loops, Posted(call, loops), NEW other \in Named
    PROVE /\ (Done(other))' = IF call = other THEN Done(other) \cup {dir} ELSE Done(other)
          /\ call = other => Done(other) = 1..(dir - 1)
<1>1. ((Been(other))' <=> Been(other) \/ other = call) /\ dir' = dir
    BY AfterPosted DEF SteadyConf
<1>2. call = other => ~Been(other)
  <2>1. Place(other) \in 1..25
      BY PlaceNamed
  <2> QED BY <2>1, NotBeen
<1>3. (Done(other))' = 1..(dir - 1) \cup If((Been(other))', {dir})
    BY <1>1 DEF Done, If
<1> QED BY <1>1, <1>2, <1>3 DEF Done, If

LEMMA UnionsSteady ==
    ASSUME SteadyConf, NEW S
    PROVE /\ (Shares(S))' = Shares(S)
          /\ (SharesRKL(S))' = SharesRKL(S)
          /\ (LimitShares(S))' = LimitShares(S)
<1>1. \A d : (Share(d))' = Share(d) /\ (ShareRKL(d))' = ShareRKL(d) /\ (LimitShare(d))' = LimitShare(d)
    BY SharesSteady
<1> QED BY <1>1 DEF Shares, SharesRKL, LimitShares

LEMMA UnionWith == ASSUME NEW F, NEW x PROVE (UNION (F \cup {x})) = (UNION F) \cup x
<1>1. PICK G, u, v : G = F \cup {x} /\ u = UNION G /\ v = UNION F
    OBVIOUS
<1>2. \A y : y \in u <=> \E s \in F \cup {x} : y \in s
    BY <1>1
<1>3. \A y : y \in v <=> \E s \in F : y \in s
    BY <1>1
<1>4. u = v \cup x
    BY ONLY <1>2, <1>3
<1>5. (UNION (F \cup {x})) = v \cup x
  <2>1. UNION G = v \cup x
      BY <1>1, <1>4, Zenon
  <2> QED BY <1>1, <2>1, Zenon
<1> QED BY <1>1, <1>5, Zenon

LEMMA NoShares == Shares({}) = {} /\ SharesRKL({}) = {} /\ LimitShares({}) = {}
BY DEF Shares, SharesRKL, LimitShares

LEMMA UnionGrows ==
    ASSUME NEW S, NEW d
    PROVE /\ Shares(S \cup {d}) = Shares(S) \cup Share(d)
          /\ SharesRKL(S \cup {d}) = SharesRKL(S) \cup ShareRKL(d)
          /\ LimitShares(S \cup {d}) = LimitShares(S) \cup LimitShare(d)
<1>1. Shares(S \cup {d}) = Shares(S) \cup Share(d)
  <2>1. {Share(e) : e \in S \cup {d}} = {Share(e) : e \in S} \cup {Share(d)}
      OBVIOUS
  <2> QED BY <2>1, UnionWith DEF Shares
<1>2. SharesRKL(S \cup {d}) = SharesRKL(S) \cup ShareRKL(d)
  <2>1. {ShareRKL(e) : e \in S \cup {d}} = {ShareRKL(e) : e \in S} \cup {ShareRKL(d)}
      OBVIOUS
  <2> QED BY <2>1, UnionWith DEF SharesRKL
<1>3. LimitShares(S \cup {d}) = LimitShares(S) \cup LimitShare(d)
  <2>1. {LimitShare(e) : e \in S \cup {d}} = {LimitShare(e) : e \in S} \cup {LimitShare(d)}
      OBVIOUS
  <2> QED BY <2>1, UnionWith DEF LimitShares
<1> QED BY <1>1, <1>2, <1>3

LEMMA CellStep ==
    ASSUME StageInv, OrderInv, FluxLedger, CellLedger, NEW call, NEW loops, Posted(call, loops)
    PROVE (~Rkl => Parts("Uc") = Shares(Done("CalcRightHandSide"))
                             \cup If(Been("AddSourceTerms"), SourceParts)
                             \cup If(Been("AddDragForce"), One("drag")))'
<1>0. "Uc" \in DOMAIN mem /\ "Uc" \notin Scratch /\ call \in Named \ {"done", "NextDir"} /\ SteadyConf
    BY MainArrays, AfterPosted DEF Posted
<1>1. PICK S : S = Done("CalcRightHandSide")
    OBVIOUS
<1>2. PICK T : T = (Done("CalcRightHandSide"))'
    OBVIOUS
<1>3. /\ (Been("AddSourceTerms"))' <=> Been("AddSourceTerms") \/ call = "AddSourceTerms"
      /\ (Been("AddDragForce"))' <=> Been("AddDragForce") \/ call = "AddDragForce"
    BY AfterPosted, AllNamed
<1>4. /\ T = IF call = "CalcRightHandSide" THEN S \cup {dir} ELSE S
    BY <1>1, <1>2, DoneStep, AllNamed
<1>5. (Rkl' <=> Rkl) /\ SourceParts' = SourceParts /\ (Shares(T))' = Shares(T)
    BY <1>0, PartsSteady, UnionsSteady
<1>6. ~Rkl => mem["Uc"].parts = Shares(S) \cup If(Been("AddSourceTerms"), SourceParts)
                                \cup If(Been("AddDragForce"), One("drag"))
    BY <1>1 DEF CellLedger, Parts
<1>7. \A parts : <<"Uc", "add", parts>> \in BookFor(call) => mem'["Uc"].parts = mem["Uc"].parts \cup parts
    BY <1>0, AfterPosted
<1>8. (Shares(Done("CalcRightHandSide")))' = Shares(T)
  <2>1. (Shares(Done("CalcRightHandSide")))' = (Shares(T))'
      BY <1>2 DEF Shares
  <2> QED BY <1>5, <2>1
<1>9. SUFFICES ASSUME ~Rkl
               PROVE mem'["Uc"].parts = Shares(T)
                        \cup If((Been("AddSourceTerms"))', SourceParts) \cup If((Been("AddDragForce"))', One("drag"))
    BY <1>5, <1>8 DEF Parts, If, One
<1>14. PICK A, B, C, D : A = Shares(S) /\ B = Share(dir) /\ C = SourceParts /\ D = One("drag")
    OBVIOUS
<1>10. CASE call = "CalcRightHandSide"
  <2>1. <<"Uc", "add", Share(dir)>> \in BookFor(call)
      BY <1>9, <1>10, WholeCells DEF BookFor
  <2>2. Shares(T) = Shares(S) \cup Share(dir)
      BY <1>4, <1>10, UnionGrows
  <2>3. mem'["Uc"].parts = mem["Uc"].parts \cup B
      BY <1>7, <1>14, <2>1
  <2>4. mem["Uc"].parts = A \cup If(Been("AddSourceTerms"), C) \cup If(Been("AddDragForce"), D)
      BY <1>6, <1>9, <1>14
  <2>5. Shares(T) = A \cup B
      BY <1>14, <2>2
  <2>6. mem'["Uc"].parts = Shares(T)
            \cup If((Been("AddSourceTerms"))', C) \cup If((Been("AddDragForce"))', D)
      BY ONLY <1>3, <1>10, <2>3, <2>4, <2>5 DEF If
  <2> QED BY <1>14, <2>6
<1>11. CASE call = "AddSourceTerms"
  <2>1. <<"Uc", "add", SourceParts>> \in BookFor(call)
      BY <1>11 DEF BookFor
  <2>3. mem'["Uc"].parts = mem["Uc"].parts \cup C
      BY <1>7, <1>14, <2>1
  <2>4. mem["Uc"].parts = A \cup If(Been("AddSourceTerms"), C) \cup If(Been("AddDragForce"), D)
      BY <1>6, <1>9, <1>14
  <2>5. Shares(T) = A
      BY <1>4, <1>11, <1>14
  <2>6. mem'["Uc"].parts = Shares(T)
            \cup If((Been("AddSourceTerms"))', C) \cup If((Been("AddDragForce"))', D)
      BY ONLY <1>3, <1>11, <2>3, <2>4, <2>5 DEF If
  <2> QED BY <1>14, <2>6
<1>12. CASE call = "AddDragForce"
  <2>1. <<"Uc", "add", One("drag")>> \in BookFor(call)
      BY <1>12 DEF BookFor, DragEntries, Part, One
  <2>3. mem'["Uc"].parts = mem["Uc"].parts \cup D
      BY <1>7, <1>14, <2>1
  <2>4. mem["Uc"].parts = A \cup If(Been("AddSourceTerms"), C) \cup If(Been("AddDragForce"), D)
      BY <1>6, <1>9, <1>14
  <2>5. Shares(T) = A
      BY <1>4, <1>12, <1>14
  <2>6. mem'["Uc"].parts = Shares(T)
            \cup If((Been("AddSourceTerms"))', C) \cup If((Been("AddDragForce"))', D)
      BY ONLY <1>3, <1>12, <2>3, <2>4, <2>5 DEF If
  <2> QED BY <1>14, <2>6
<1>13. CASE call \notin {"CalcRightHandSide", "AddSourceTerms", "AddDragForce"}
  <2>1. "Uc" \notin WrittenBy(call)
      BY <1>0, <1>13, AllNamed DEF WrittenBy, Rate, FaceNames
  <2>2. mem'["Uc"] = mem["Uc"]
      BY <1>0, <2>1, Untouched
  <2> QED BY <1>3, <1>4, <1>6, <1>9, <1>13, <2>2 DEF If
<1> QED BY <1>10, <1>11, <1>12, <1>13

LEMMA RateStep ==
    ASSUME StageInv, OrderInv, FluxLedger, CellLedger, NEW call, NEW loops, Posted(call, loops)
    PROVE (Rkl => Parts("dU") = SharesRKL(Done("CalcRightHandSide")))'
<1>0. "dU" \notin Scratch /\ call \in Named \ {"done", "NextDir"} /\ SteadyConf
      /\ (Rkl => "dU" \in DOMAIN mem)
  <2>1. Rkl => conf.rkl # {}
      BY DEF StageInv, Setting, Consistent, Rkl
  <2> QED BY <2>1, MainArrays, AfterPosted DEF Posted, StageInv, Allocated, RKLArrays
<1>1. PICK S : S = Done("CalcRightHandSide")
    OBVIOUS
<1>2. PICK T : T = (Done("CalcRightHandSide"))'
    OBVIOUS
<1>4. /\ T = IF call = "CalcRightHandSide" THEN S \cup {dir} ELSE S
    BY <1>1, <1>2, DoneStep, AllNamed
<1>5. (Rkl' <=> Rkl) /\ (SharesRKL(T))' = SharesRKL(T)
    BY <1>0, PartsSteady, UnionsSteady
<1>6. Rkl => mem["dU"].parts = SharesRKL(S)
    BY <1>1 DEF CellLedger, Parts
<1>8. (SharesRKL(Done("CalcRightHandSide")))' = SharesRKL(T)
  <2>1. (SharesRKL(Done("CalcRightHandSide")))' = (SharesRKL(T))'
      BY <1>2 DEF SharesRKL
  <2> QED BY <1>5, <2>1
<1>9. SUFFICES ASSUME Rkl PROVE mem'["dU"].parts = SharesRKL(T)
    BY <1>5, <1>8 DEF Parts
<1>7. \A parts : /\ <<"dU", "set", parts>> \in BookFor(call) => mem'["dU"].parts = parts
                 /\ <<"dU", "add", parts>> \in BookFor(call) => mem'["dU"].parts = mem["dU"].parts \cup parts
    BY <1>0, <1>9, AfterPosted
<1>10. CASE call = "CalcRightHandSide"
  <2>1. <<"dU", "add", ShareRKL(dir)>> \in BookFor(call)
      BY <1>9, <1>10, WholeRKL DEF BookFor, RKLEntries
  <2>2. SharesRKL(T) = SharesRKL(S) \cup ShareRKL(dir)
      BY <1>4, <1>10, UnionGrows
  <2>3. mem'["dU"].parts = mem["dU"].parts \cup ShareRKL(dir)
      BY <1>7, <2>1
  <2> QED BY <1>6, <1>9, <2>2, <2>3
<1>11. CASE call = "ResetStage"
  <2>1. S = {}
    <3>1. ~Been("CalcRightHandSide")
        BY <1>11, NotBeen, AllNamed, PlaceOf
    <3>2. dir = 1
        BY <1>11, AfterPosted, PlaceOf DEF OrderInv
    <3> QED BY <1>1, <3>1, <3>2 DEF Done, If
  <2>2. mem["dU"].parts = {}
      BY <1>6, <1>9, <2>1, NoShares
  <2>3. CASE "dU" \in Derivatives
    <3>1. <<"dU", "set", {}>> \in BookFor(call)
        BY <1>11, <2>3 DEF BookFor
    <3> QED BY <1>4, <1>7, <1>11, <2>1, <3>1, NoShares
  <2>4. CASE "dU" \notin Derivatives
    <3>1. "dU" \notin Heads(BookFor(call))
        BY <1>11, <2>4 DEF BookFor, Heads
    <3>2. mem'["dU"] = mem["dU"]
        BY <1>0, <1>9, <3>1, AfterPosted
    <3> QED BY <1>4, <1>11, <2>1, <2>2, <3>2, NoShares
  <2> QED BY <2>3, <2>4
<1>13. CASE call \notin {"CalcRightHandSide", "ResetStage"}
  <2>1. "dU" \notin WrittenBy(call)
      BY <1>0, <1>13, AllNamed DEF WrittenBy, FaceNames
  <2>2. mem'["dU"] = mem["dU"]
      BY <1>0, <1>9, <2>1, Untouched
  <2> QED BY <1>4, <1>6, <1>9, <1>13, <2>2
<1> QED BY <1>10, <1>11, <1>13

LEMMA TimeStepStep ==
    ASSUME StageInv, OrderInv, FluxLedger, CellLedger, NEW call, NEW loops, Posted(call, loops)
    PROVE (conf.cycle # "rklAgain" =>
              Parts("InvDt") = LimitShares(Done("CalcRightHandSide"))
                               \cup If(Been("AddDragForce"), One("drag")))'
<1>0. "InvDt" \in DOMAIN mem /\ "InvDt" \notin Scratch /\ call \in Named \ {"done", "NextDir"} /\ SteadyConf
    BY MainArrays, AfterPosted DEF Posted
<1>1. PICK S : S = Done("CalcRightHandSide")
    OBVIOUS
<1>2. PICK T : T = (Done("CalcRightHandSide"))'
    OBVIOUS
<1>3. (Been("AddDragForce"))' <=> Been("AddDragForce") \/ call = "AddDragForce"
    BY AfterPosted, AllNamed
<1>4. T = IF call = "CalcRightHandSide" THEN S \cup {dir} ELSE S
    BY <1>1, <1>2, DoneStep, AllNamed
<1>5. conf' = conf /\ (LimitShares(T))' = LimitShares(T)
    BY <1>0, UnionsSteady DEF SteadyConf
<1>6. conf.cycle # "rklAgain" =>
         mem["InvDt"].parts = LimitShares(S) \cup If(Been("AddDragForce"), One("drag"))
    BY <1>1 DEF CellLedger, Parts
<1>7. \A parts : /\ <<"InvDt", "set", parts>> \in BookFor(call) => mem'["InvDt"].parts = parts
                 /\ <<"InvDt", "add", parts>> \in BookFor(call) => mem'["InvDt"].parts = mem["InvDt"].parts \cup parts
    BY <1>0, AfterPosted
<1>8. (LimitShares(Done("CalcRightHandSide")))' = LimitShares(T)
  <2>1. (LimitShares(Done("CalcRightHandSide")))' = (LimitShares(T))'
      BY <1>2 DEF LimitShares
  <2> QED BY <1>5, <2>1
<1>9. SUFFICES ASSUME conf.cycle # "rklAgain"
               PROVE mem'["InvDt"].parts = LimitShares(T) \cup If((Been("AddDragForce"))', One("drag"))
    BY <1>5, <1>8 DEF Parts, If, One
<1>14. PICK A, B, D : A = LimitShares(S) /\ B = LimitShare(dir) /\ D = One("drag")
    OBVIOUS
<1>15. mem["InvDt"].parts = A \cup If(Been("AddDragForce"), D)
    BY <1>6, <1>9, <1>14
<1>10. CASE call = "CalcRightHandSide"
  <2>1. <<"InvDt", "add", LimitShare(dir)>> \in BookFor(call)
    <3>1. CASE Rkl
      <4>1. conf.cycle = "rkl"
          BY <1>9, <3>1 DEF Rkl, StageInv, Setting, Options
      <4>2. Limits("dMax") = LimitShare(dir)
          BY <1>10, <3>1, WholeLimit DEF LimitShare, If
      <4> QED BY <1>10, <3>1, <4>1, <4>2 DEF BookFor, RKLEntries, If
    <3>2. CASE ~Rkl
        BY <1>10, <3>2, WholeStep DEF BookFor
    <3> QED BY <3>1, <3>2
  <2>2. LimitShares(T) = LimitShares(S) \cup LimitShare(dir)
      BY <1>4, <1>10, UnionGrows
  <2>3. mem'["InvDt"].parts = mem["InvDt"].parts \cup B
      BY <1>7, <1>14, <2>1
  <2>5. LimitShares(T) = A \cup B
      BY <1>14, <2>2
  <2>6. mem'["InvDt"].parts = LimitShares(T) \cup If((Been("AddDragForce"))', D)
      BY ONLY <1>3, <1>10, <1>15, <2>3, <2>5 DEF If
  <2> QED BY <1>14, <2>6
<1>11. CASE call = "ResetStage"
  <2>1. S = {} /\ ~Been("AddDragForce")
    <3>1. ~Been("CalcRightHandSide") /\ ~Been("AddDragForce")
        BY <1>11, NotBeen, AllNamed, PlaceOf
    <3>2. dir = 1
        BY <1>11, AfterPosted, PlaceOf DEF OrderInv
    <3> QED BY <1>1, <3>1, <3>2 DEF Done, If
  <2>2. mem["InvDt"].parts = {} /\ T = {} /\ ~(Been("AddDragForce"))'
      BY <1>3, <1>4, <1>6, <1>9, <1>11, <2>1, NoShares DEF If
  <2>5. mem'["InvDt"].parts = {}
    <3>1. CASE "InvDt" \in Derivatives
      <4>1. <<"InvDt", "set", {}>> \in BookFor(call)
          BY <1>11, <3>1 DEF BookFor
      <4> QED BY <1>7, <4>1
    <3>2. CASE "InvDt" \notin Derivatives
      <4>1. "InvDt" \notin Heads(BookFor(call))
          BY <1>11, <3>2 DEF BookFor, Heads
      <4>2. mem'["InvDt"] = mem["InvDt"]
          BY <1>0, <4>1, AfterPosted
      <4> QED BY <2>2, <4>2
    <3> QED BY <3>1, <3>2
  <2> QED BY <2>2, <2>5, NoShares DEF If
<1>12. CASE call = "AddDragForce"
  <2>1. <<"InvDt", "add", One("drag")>> \in BookFor(call)
      BY <1>12 DEF BookFor, DragEntries, Part, One
  <2>3. mem'["InvDt"].parts = mem["InvDt"].parts \cup D
      BY <1>7, <1>14, <2>1
  <2>5. LimitShares(T) = A
      BY <1>4, <1>12, <1>14
  <2>6. mem'["InvDt"].parts = LimitShares(T) \cup If((Been("AddDragForce"))', D)
      BY ONLY <1>3, <1>12, <1>15, <2>3, <2>5 DEF If
  <2> QED BY <1>14, <2>6
<1>13. CASE call \notin {"CalcRightHandSide", "ResetStage", "AddDragForce"}
  <2>1. "InvDt" \notin WrittenBy(call)
      BY <1>0, <1>13, AllNamed DEF WrittenBy, FaceNames
  <2>2. mem'["InvDt"] = mem["InvDt"]
      BY <1>0, <2>1, Untouched
  <2> QED BY <1>3, <1>4, <1>6, <1>9, <1>13, <2>2 DEF If
<1> QED BY <1>10, <1>11, <1>12, <1>13

LEMMA TracerCellStep ==
    ASSUME StageInv, OrderInv, FluxLedger, CellLedger, NEW call, NEW loops, Posted(call, loops)
    PROVE (conf.tracer /\ ~Rkl =>
              Parts("UcTracer") = {<<"tracer", d>> : d \in Done("TracerCalcRightHandSide")})'
<1>0. "UcTracer" \notin Scratch /\ call \in Named \ {"done", "NextDir"} /\ SteadyConf
      /\ (conf.tracer => "UcTracer" \in DOMAIN mem)
    BY MainArrays, AfterPosted DEF Posted, StageInv, Allocated, FluidArrays
<1>1. PICK S : S = Done("TracerCalcRightHandSide")
    OBVIOUS
<1>2. PICK T : T = (Done("TracerCalcRightHandSide"))'
    OBVIOUS
<1>4. T = IF call = "TracerCalcRightHandSide" THEN S \cup {dir} ELSE S
    BY <1>1, <1>2, DoneStep, AllNamed
<1>5. conf' = conf /\ (Rkl' <=> Rkl)
    BY <1>0, PartsSteady DEF SteadyConf
<1>6. conf.tracer /\ ~Rkl => mem["UcTracer"].parts = {<<"tracer", d>> : d \in S}
    BY <1>1 DEF CellLedger, Parts
<1>9. SUFFICES ASSUME conf.tracer, ~Rkl PROVE mem'["UcTracer"].parts = {<<"tracer", d>> : d \in T}
    BY <1>2, <1>5 DEF Parts
<1>10. CASE call = "TracerCalcRightHandSide"
  <2>1. LoopDirs
      BY <1>10, SweepWanted DEF Posted
  <2>2. Been("TracerCalcFlux")
      BY <1>9, <1>10, <2>1, HasBeen, WantedOf, AllNamed, PlaceOf
  <2>3. mem["FluxTracer"].parts = One("tracer")
      BY <2>2 DEF FluxLedger, Parts
  <2>4. Swept("FluxTracer") = {<<"tracer", dir>>}
    <3>1. PICK q : q = <<"tracer", 0>>
        OBVIOUS
    <3>2. q[1] = "tracer" /\ mem["FluxTracer"].parts = {q}
        BY <2>3, <3>1 DEF One
    <3> QED BY <3>2 DEF Swept
  <2>5. <<"UcTracer", "add", {<<"tracer", dir>>}>> \in BookFor(call)
      BY <1>10, <2>4 DEF BookFor
  <2>6. mem'["UcTracer"].parts = mem["UcTracer"].parts \cup {<<"tracer", dir>>}
      BY <1>0, <1>9, <2>5, AfterPosted
  <2>7. mem'["UcTracer"].parts = {<<"tracer", d>> : d \in S} \cup {<<"tracer", dir>>}
      BY <1>6, <1>9, <2>6
  <2>8. {<<"tracer", d>> : d \in S \cup {dir}} = {<<"tracer", d>> : d \in S} \cup {<<"tracer", dir>>}
      OBVIOUS
  <2> QED BY <1>4, <1>10, <2>7, <2>8
<1>13. CASE call # "TracerCalcRightHandSide"
  <2>1. "UcTracer" \notin WrittenBy(call)
      BY <1>0, <1>13, AllNamed DEF WrittenBy, Rate, FaceNames
  <2>2. mem'["UcTracer"] = mem["UcTracer"]
      BY <1>0, <1>9, <2>1, Untouched
  <2> QED BY <1>4, <1>6, <1>9, <1>13, <2>2
<1> QED BY <1>10, <1>13

LEMMA GasStep ==
    ASSUME StageInv, OrderInv, FluxLedger, CellLedger, NEW call, NEW loops, Posted(call, loops)
    PROVE (conf.drag /\ ~Been("AddDragForce") => Parts("UcGas") = {})'
<1>0. "UcGas" \notin Scratch /\ call \in Named \ {"done", "NextDir"} /\ conf' = conf
      /\ (conf.drag => "UcGas" \in DOMAIN mem)
    BY MainArrays, AfterPosted DEF Posted, StageInv, Allocated, FluidArrays, SteadyConf
<1>1. (Been("AddDragForce"))' <=> Been("AddDragForce") \/ call = "AddDragForce"
    BY AfterPosted, AllNamed
<1>2. SUFFICES ASSUME conf.drag, ~Been("AddDragForce"), call # "AddDragForce" PROVE mem'["UcGas"].parts = {}
    BY <1>0, <1>1 DEF Parts
<1>3. "UcGas" \notin WrittenBy(call)
    BY <1>0, <1>2, AllNamed DEF WrittenBy, Rate, FaceNames
<1>4. mem'["UcGas"] = mem["UcGas"]
    BY <1>0, <1>2, <1>3, Untouched
<1> QED BY <1>2, <1>4 DEF CellLedger, Parts

LEMMA CellLedgerStep ==
    ASSUME StageInv, OrderInv, FluxLedger, CellLedger, NEW call, NEW loops, Posted(call, loops)
    PROVE CellLedger'
<1>1. (~Rkl => Parts("Uc") = Shares(Done("CalcRightHandSide"))
                             \cup If(Been("AddSourceTerms"), SourceParts)
                             \cup If(Been("AddDragForce"), One("drag")))'
    BY CellStep
<1>2. (Rkl => Parts("dU") = SharesRKL(Done("CalcRightHandSide")))'
    BY RateStep
<1>3. (conf.cycle # "rklAgain" =>
              Parts("InvDt") = LimitShares(Done("CalcRightHandSide"))
                               \cup If(Been("AddDragForce"), One("drag")))'
    BY TimeStepStep
<1>4. (conf.tracer /\ ~Rkl =>
              Parts("UcTracer") = {<<"tracer", d>> : d \in Done("TracerCalcRightHandSide")})'
    BY TracerCellStep
<1>5. (conf.drag /\ ~Been("AddDragForce") => Parts("UcGas") = {})'
    BY GasStep
<1> QED BY <1>1, <1>2, <1>3, <1>4, <1>5 DEF CellLedger
-----------------------------------------------------------------------------
(* The frame and the field. *)

LEMMA FrameLedgerStep ==
    ASSUME StageInv, FrameLedger, NEW call, NEW loops, Posted(call, loops)
    PROVE FrameLedger'
<1>0. "Vc" \in DOMAIN mem /\ "Vc" \notin Scratch /\ call \in Named \ {"done", "NextDir"}
    BY MainArrays, AfterPosted DEF Posted
<1>1. /\ (Been("AddVelocityFluid"))' <=> Been("AddVelocityFluid") \/ call = "AddVelocityFluid"
      /\ (Been("SubstractVelocityFluid"))' <=> Been("SubstractVelocityFluid") \/ call = "SubstractVelocityFluid"
    BY AfterPosted, AllNamed
<1>2. mem["Vc"].parts = If(Been("AddVelocityFluid") /\ ~Been("SubstractVelocityFluid"), One("mean"))
    BY DEF FrameLedger, Parts
<1>3. SUFFICES mem'["Vc"].parts = If((Been("AddVelocityFluid"))' /\ ~(Been("SubstractVelocityFluid"))', One("mean"))
    BY DEF FrameLedger, Parts, If, One
<1>4. Part("mean", 0) = One("mean")
    BY DEF Part, One
<1>5. CASE call = "AddVelocityFluid"
  <2>1. ~Been("AddVelocityFluid") /\ ~Been("SubstractVelocityFluid")
      BY <1>5, NotBeen, AllNamed, PlaceOf
  <2>2. <<"Vc", "add", One("mean")>> \in BookFor(call)
      BY <1>4, <1>5 DEF BookFor
  <2>3. mem'["Vc"].parts = mem["Vc"].parts \cup One("mean")
      BY <1>0, <2>2, AfterPosted
  <2> QED BY <1>1, <1>2, <1>5, <2>1, <2>3 DEF If
<1>6. CASE call = "SubstractVelocityFluid"
  <2>1. PICK parts : parts = mem["Vc"].parts \ One("mean")
      OBVIOUS
  <2>2. <<"Vc", "set", parts>> \in BookFor(call)
      BY <1>4, <1>6, <2>1 DEF BookFor
  <2>3. mem'["Vc"].parts = parts
      BY <1>0, <2>2, AfterPosted
  <2>4. parts = {}
      BY <1>2, <2>1 DEF If
  <2> QED BY <1>1, <1>6, <2>3, <2>4 DEF If
<1>7. CASE call \notin {"AddVelocityFluid", "SubstractVelocityFluid"}
  <2>1. "Vc" \notin WrittenBy(call)
      BY <1>0, <1>7, AllNamed DEF WrittenBy, Rate, FaceNames
  <2>2. mem'["Vc"] = mem["Vc"]
      BY <1>0, <2>1, Untouched
  <2> QED BY <1>1, <1>2, <1>7, <2>2
<1> QED BY <1>5, <1>6, <1>7

LEMMA AtEdgesStep ==
    ASSUME StageInv, NEW call, NEW loops, Posted(call, loops)
    PROVE AtEdges' = If(~Rkl, Hyperbolic)
                     \cup If(Been("CalcNonidealEMF") \/ call = "CalcNonidealEMF", NonIdeal)
<1>1. (Been("CalcNonidealEMF"))' <=> Been("CalcNonidealEMF") \/ call = "CalcNonidealEMF"
    BY AfterPosted, AllNamed
<1>2. (Rkl' <=> Rkl) /\ NonIdeal' = NonIdeal
    BY AfterPosted, PartsSteady
<1> QED BY <1>1, <1>2 DEF AtEdges, If, Hyperbolic

LEMMA EdgeArrays ==
    ASSUME StageInv, Mhd
    PROVE /\ \A e \in Edges : Edge[e] \in DOMAIN mem /\ Edge[e] \notin Scratch
                              /\ Edge[e] \in {"ex", "ey", "ez"}
          /\ \A d \in Active : BXs[d] \in DOMAIN mem /\ BXs[d] \in {"BX1s", "BX2s", "BX3s"}
          /\ "UcField" \in DOMAIN mem
<1>1. \A e \in Edges : Edge[e] \in {"ex", "ey", "ez"}
    BY AtEdgeNames DEF StageInv
<1>2. \A e \in Edges : Edge[e] \in EMFArrays
  <2>1. CASE conf.dims = 3
      BY <1>1, <2>1 DEF EMFArrays
  <2>2. CASE conf.dims # 3
      BY <2>2, Tuples DEF Edges, EMFArrays, KDIR, Edge
  <2> QED BY <2>1, <2>2
<1>3. \A d \in Active : BXs[d] \in FluidArrays
    BY DEF FluidArrays, Names
<1>4. "UcField" \in FluidArrays
    BY DEF FluidArrays
<1>5. EMFArrays \subseteq DOMAIN mem /\ FluidArrays \subseteq DOMAIN mem
    BY DEF StageInv, Allocated
<1> QED BY <1>1, <1>2, <1>3, <1>4, <1>5, AtEdgeNames DEF Scratch, StageInv

\* The electric field, that is set once and added to once.
LEMMA EdgeFieldStep ==
    ASSUME StageInv, OrderInv, FieldLedger, NEW call, NEW loops, Posted(call, loops)
    PROVE (Mhd /\ (Rkl \/ Been("CalcCornerEMF")) => \A e \in Edges : Parts(Edge[e]) = AtEdges)'
<1>0. SteadyConf /\ call \in Named \ {"done", "NextDir"} /\ Wanted(call)
    BY AfterPosted DEF Posted
<1>1. (Rkl' <=> Rkl) /\ (Mhd' <=> Mhd) /\ Edges' = Edges
    BY <1>0, PartsSteady
<1>2. (Been("CalcCornerEMF"))' <=> Been("CalcCornerEMF") \/ call = "CalcCornerEMF"
    BY AfterPosted, AllNamed
<1>3. PICK held, next : held = AtEdges /\ next = AtEdges'
    OBVIOUS
<1>4. held = If(~Rkl, Hyperbolic) \cup If(Been("CalcNonidealEMF"), NonIdeal)
    BY <1>3 DEF AtEdges
<1>5. next = If(~Rkl, Hyperbolic)
             \cup If(Been("CalcNonidealEMF") \/ call = "CalcNonidealEMF", NonIdeal)
    BY <1>3, AtEdgesStep
<1>6. (Rkl \/ Been("CalcCornerEMF")) => (Mhd => \A e \in Edges : mem[Edge[e]].parts = held)
    BY <1>3 DEF FieldLedger, Parts
<1>7. SUFFICES ASSUME Mhd, Rkl \/ Been("CalcCornerEMF") \/ call = "CalcCornerEMF", NEW e \in Edges
               PROVE mem'[Edge[e]].parts = next
    BY <1>1, <1>2, <1>3 DEF Parts
<1>8. PICK a : a = Edge[e]
    OBVIOUS
<1>9. a \in DOMAIN mem /\ a \notin Scratch /\ a \in {"ex", "ey", "ez"}
    BY <1>7, <1>8, EdgeArrays
<1>10. \A kind, parts : <<a, kind, parts>> \in EdgeEntries(kind, parts)
    BY <1>7, <1>8 DEF EdgeEntries
<1>11. \A parts : /\ <<a, "set", parts>> \in BookFor(call) => mem'[a].parts = parts
                  /\ <<a, "add", parts>> \in BookFor(call) => mem'[a].parts = mem[a].parts \cup parts
    BY <1>9, AfterPosted
<1>12. CASE call = "CalcCornerEMF"
  <2>1. ~Been("CalcNonidealEMF")
      BY <1>12, NotBeen, AllNamed, PlaceOf
  <2>2. ~Rkl
      BY <1>0, <1>12 DEF Wanted
  <2>3. mem'[a].parts = Hyperbolic
      BY <1>10, <1>11, <1>12 DEF BookFor
  <2> QED BY <1>5, <1>8, <1>12, <2>1, <2>2, <2>3 DEF If
<1>13. CASE call = "CalcNonidealEMF"
  <2>1. mem'[a].parts = mem[a].parts \cup NonIdeal
      BY <1>10, <1>11, <1>13 DEF BookFor
  <2>2. mem[a].parts = held
      BY <1>6, <1>7, <1>8, <1>13
  <2> QED BY <1>4, <1>5, <1>8, <1>13, <2>1, <2>2 DEF If
<1>14. CASE call = "ResetStage"
  <2>1. ~Been("CalcNonidealEMF") /\ ~Been("CalcCornerEMF")
      BY <1>14, NotBeen, AllNamed, PlaceOf
  <2>2. Rkl
      BY <1>7, <1>14, <2>1
  <2>3. held = {} /\ next = {}
      BY <1>4, <1>5, <1>14, <2>1, <2>2 DEF If
  <2>4. mem[a].parts = {}
      BY <1>6, <1>7, <1>8, <2>2, <2>3
  <2>5. CASE a \in Derivatives
    <3>1. <<a, "set", {}>> \in BookFor(call)
        BY <1>14, <2>5 DEF BookFor
    <3> QED BY <1>8, <1>11, <2>3, <3>1
  <2>6. CASE a \notin Derivatives
    <3>1. a \notin Heads(BookFor(call))
        BY <1>14, <2>6 DEF BookFor, Heads
    <3>2. mem'[a] = mem[a]
        BY <1>9, <3>1, AfterPosted
    <3> QED BY <1>8, <2>3, <2>4, <3>2
  <2> QED BY <2>5, <2>6
<1>15. CASE call \notin {"CalcCornerEMF", "CalcNonidealEMF", "ResetStage"}
  <2>1. a \notin WrittenBy(call)
      BY <1>0, <1>9, <1>15, AllNamed DEF WrittenBy, FaceNames
  <2>2. mem'[a] = mem[a]
      BY <1>9, <2>1, Untouched
  <2>3. mem[a].parts = held
      BY <1>6, <1>7, <1>8, <1>15
  <2>4. held = next
      BY ONLY <1>4, <1>5, <1>15 DEF If
  <2> QED BY <1>8, <2>2, <2>3, <2>4
<1> QED BY <1>12, <1>13, <1>14, <1>15

\* The fields of the faces and the potentials start from nothing.
LEMMA FaceStep ==
    ASSUME StageInv, FieldLedger, NEW call, NEW loops, Posted(call, loops)
    PROVE (\A a \in FaceArrays \cap DOMAIN mem : ~Been("EvolveMagField") => Parts(a) = {})'
<1>0. call \in Named \ {"done", "NextDir"} /\ DOMAIN mem' = DOMAIN mem
    BY AfterPosted DEF Posted
<1>1. (Been("EvolveMagField"))' <=> Been("EvolveMagField") \/ call = "EvolveMagField"
    BY AfterPosted, AllNamed
<1>2. FaceArrays' = FaceArrays
    BY DEF FaceArrays, Names, BXs, dB, Ve, dA, Dirs
<1>3. SUFFICES ASSUME NEW a \in FaceArrays, a \in DOMAIN mem,
                      ~Been("EvolveMagField"), call # "EvolveMagField"
               PROVE mem'[a].parts = {}
    BY <1>0, <1>1, <1>2 DEF Parts
<1>4. a \in FaceNames /\ a \notin Scratch
    BY <1>3, FaceNamesOf DEF FaceNames, Scratch
<1>5. mem[a].parts = {}
    BY <1>3 DEF FieldLedger, Parts
<1>6. CASE call = "ResetStage" /\ a \in Derivatives
  <2>1. <<a, "set", {}>> \in BookFor(call)
      BY <1>6 DEF BookFor
  <2> QED BY <1>3, <2>1, AfterPosted
<1>7. CASE call = "ResetStage" /\ a \notin Derivatives
  <2>1. a \notin Heads(BookFor(call))
      BY <1>7 DEF BookFor, Heads
  <2>2. mem'[a] = mem[a]
      BY <1>3, <1>4, <2>1, AfterPosted
  <2> QED BY <1>5, <2>2
<1>8. CASE call # "ResetStage"
  <2>1. a \notin WrittenBy(call)
      BY <1>0, <1>3, <1>4, <1>8, AllNamed DEF WrittenBy, FaceNames
  <2>2. mem'[a] = mem[a]
      BY <1>3, <1>4, <2>1, Untouched
  <2> QED BY <1>5, <2>2
<1> QED BY <1>6, <1>7, <1>8

\* What the edges hold once they are all there.
LEMMA EdgesHold ==
    ASSUME StageInv, OrderInv, FieldLedger, NEW call, NEW loops, Posted(call, loops),
           call \in {"EvolveMagField", "ReconstructVcField"}, ~Rkl
    PROVE EdgeParts = AtEdges /\ Mhd
<1>1. Corners /\ Wanted("CalcCornerEMF")
  <2>1. ~Sweep("CalcCornerEMF")
      BY DEF Sweep, Calls
  <2> QED BY <2>1 DEF Posted, Wanted
<1>2. Been("CalcCornerEMF")
  <2>1. Place("CalcCornerEMF") < Place(call)
      BY PlaceOf
  <2> QED BY <1>1, <2>1, HasBeen, AllNamed
<1>3. Mhd
    BY <1>1 DEF Corners
<1>4. \A e \in Edges : mem[Edge[e]].parts = AtEdges
    BY <1>2, <1>3 DEF FieldLedger, Parts
<1>5. KDIR \in Edges
    BY AtEdgeNames DEF StageInv
<1>6. PICK held : held = AtEdges
    OBVIOUS
<1>7. EdgeParts = UNION {mem[Edge[e]].parts : e \in Edges}
    BY DEF EdgeParts
<1>8. {mem[Edge[e]].parts : e \in Edges} = {held}
    BY <1>4, <1>5, <1>6
<1>9. EdgeParts = held
    BY <1>7, <1>8
<1> QED BY <1>3, <1>6, <1>9

LEMMA MagStep ==
    ASSUME StageInv, OrderInv, FieldLedger, NEW call, NEW loops, Posted(call, loops)
    PROVE (Been("EvolveMagField") /\ ~Rkl => \A d \in Active : Parts(BXs[d]) = AtEdges)'
<1>0. SteadyConf /\ call \in Named \ {"done", "NextDir"}
    BY AfterPosted DEF Posted
<1>1. (Rkl' <=> Rkl) /\ Active' = Active
    BY <1>0, PartsSteady
<1>2. (Been("EvolveMagField"))' <=> Been("EvolveMagField") \/ call = "EvolveMagField"
    BY AfterPosted, AllNamed
<1>3. PICK held, next : held = AtEdges /\ next = AtEdges'
    OBVIOUS
<1>4. held = If(~Rkl, Hyperbolic) \cup If(Been("CalcNonidealEMF"), NonIdeal)
    BY <1>3 DEF AtEdges
<1>5. next = If(~Rkl, Hyperbolic)
             \cup If(Been("CalcNonidealEMF") \/ call = "CalcNonidealEMF", NonIdeal)
    BY <1>3, AtEdgesStep
<1>6. SUFFICES ASSUME ~Rkl, Been("EvolveMagField") \/ call = "EvolveMagField", NEW d \in Active
               PROVE mem'[BXs[d]].parts = next
    BY <1>1, <1>2, <1>3 DEF Parts
<1>7. call # "CalcNonidealEMF"
  <2>1. call = "CalcNonidealEMF" => ~Been("EvolveMagField")
      BY NotBeen, AllNamed, PlaceOf
  <2> QED BY <1>6, <2>1
<1>8. held = next
    BY ONLY <1>4, <1>5, <1>7 DEF If
<1>9. Mhd
  <2>1. ~Sweep("EvolveMagField")
      BY DEF Sweep, Calls
  <2>2. Wanted("EvolveMagField")
      BY <1>6 DEF Been, Posted
  <2> QED BY <1>6, <2>1, <2>2 DEF Wanted, Corners
<1>10. PICK a : a = BXs[d]
    OBVIOUS
<1>11. a \in DOMAIN mem /\ a \in {"BX1s", "BX2s", "BX3s"} /\ a \notin Scratch
    BY <1>6, <1>9, <1>10, EdgeArrays DEF Scratch
<1>12. CASE call = "EvolveMagField"
  <2>1. EdgeParts = held
      BY <1>3, <1>6, <1>12, EdgesHold
  <2>2. <<a, "set", EdgeParts>> \in BookFor(call) \/ <<a, "add", EdgeParts>> \in BookFor(call)
      BY <1>6, <1>10, <1>12 DEF BookFor, FaceEntries, FieldEntries
  <2>3. mem[a].parts = {}
    <3>1. ~Been("EvolveMagField")
        BY <1>12, NotBeen, AllNamed, PlaceOf
    <3>2. a \in FaceArrays
        BY <1>11, FaceNamesOf DEF FaceNames
    <3> QED BY <1>11, <3>1, <3>2 DEF FieldLedger, Parts
  <2>4. mem'[a].parts = EdgeParts \/ mem'[a].parts = mem[a].parts \cup EdgeParts
      BY <1>11, <2>2, AfterPosted
  <2> QED BY <1>8, <1>10, <2>1, <2>3, <2>4
<1>13. CASE call # "EvolveMagField"
  <2>1. a \notin WrittenBy(call)
      BY <1>0, <1>11, <1>13, AllNamed DEF WrittenBy, Rate
  <2>2. mem'[a] = mem[a]
      BY <1>11, <2>1, Untouched
  <2>3. mem[a].parts = held
      BY <1>3, <1>6, <1>10, <1>13 DEF FieldLedger, Parts
  <2> QED BY <1>8, <1>10, <2>2, <2>3
<1> QED BY <1>12, <1>13

LEMMA CentreFieldStep ==
    ASSUME StageInv, OrderInv, FieldLedger, NEW call, NEW loops, Posted(call, loops)
    PROVE (Been("ReconstructVcField") => Parts("UcField") = AtEdges)'
<1>0. call \in Named \ {"done", "NextDir"} /\ Wanted(call)
    BY AfterPosted DEF Posted
<1>1. (Been("ReconstructVcField"))' <=> Been("ReconstructVcField") \/ call = "ReconstructVcField"
    BY AfterPosted, AllNamed
<1>2. ~Been("ReconstructVcField")
  <2>1. Place(call) <= Place("ReconstructVcField")
      BY <1>0, PlaceOf, AllNamed
  <2> QED BY <2>1, NotBeen, AllNamed
<1>3. SUFFICES ASSUME call = "ReconstructVcField" PROVE mem'["UcField"].parts = AtEdges'
    BY <1>1, <1>2 DEF Parts
<1>4. ~Rkl
    BY <1>0, <1>3 DEF Wanted
<1>5. EdgeParts = AtEdges /\ Mhd
    BY <1>3, <1>4, EdgesHold
<1>6. "UcField" \in DOMAIN mem
    BY <1>5, EdgeArrays
<1>7. <<"UcField", "set", AtEdges>> \in BookFor(call)
    BY <1>3, <1>5 DEF BookFor
<1>8. mem'["UcField"].parts = AtEdges
    BY <1>6, <1>7, AfterPosted
<1>9. AtEdges' = If(~Rkl, Hyperbolic) \cup If(Been("CalcNonidealEMF"), NonIdeal)
    BY <1>3, AtEdgesStep DEF If
<1> QED BY <1>8, <1>9 DEF AtEdges

LEMMA FieldLedgerStep ==
    ASSUME StageInv, OrderInv, FieldLedger, NEW call, NEW loops, Posted(call, loops)
    PROVE FieldLedger'
<1>1. (Mhd /\ (Rkl \/ Been("CalcCornerEMF")) => \A e \in Edges : Parts(Edge[e]) = AtEdges)'
    BY EdgeFieldStep
<1>2. (\A a \in FaceArrays \cap DOMAIN mem : ~Been("EvolveMagField") => Parts(a) = {})'
    BY FaceStep
<1>3. (Been("EvolveMagField") /\ ~Rkl => \A d \in Active : Parts(BXs[d]) = AtEdges)'
    BY MagStep
<1>4. (Been("ReconstructVcField") => Parts("UcField") = AtEdges)'
    BY CentreFieldStep
<1> QED BY <1>1, <1>2, <1>3, <1>4 DEF FieldLedger
-----------------------------------------------------------------------------
(* Nothing is added twice: what a call adds is not in what it adds to. *)

LEMMA OneName == ASSUME NEW x, NEW p \in One(x) PROVE p[1] = x /\ p[2] = 0
<1>1. p = <<x, 0>>
    BY DEF One
<1> QED BY <1>1

LEMMA PartName == ASSUME NEW x, NEW d, NEW p \in Part(x, d) PROVE p[1] = x /\ p[2] = d
<1>1. p = <<x, d>>
    BY DEF Part
<1> QED BY <1>1

LEMMA HyperbolicName == ASSUME NEW p \in Hyperbolic PROVE p[1] = "hyperbolic" /\ p[2] = 0
<1>1. p = <<"hyperbolic", 0>>
    BY DEF Hyperbolic
<1> QED BY <1>1

LEMMA NonIdealNames == ASSUME NEW p \in NonIdeal PROVE p[1] \in {"ohmic", "ambipolar"} /\ p[2] = 0
<1>1. p \in One("ohmic") \/ p \in One("ambipolar")
    BY DEF NonIdeal, If
<1> QED BY <1>1, OneName

LEMMA StressNames == ASSUME NEW p \in Stress PROVE p[1] \in {"viscosity", "deviations"} /\ p[2] = 0
<1>1. p \in One("viscosity") \/ p \in One("deviations")
    BY DEF Stress, If
<1> QED BY <1>1, OneName

LEMMA MeanNames ==
    ASSUME NEW x, NEW y, NEW d, NEW p \in MeanOf(x, y, d) PROVE p[1] \in {x, y} /\ p[2] = 0
<1>1. p \in One(x) \/ p \in One(y)
    BY DEF MeanOf, If
<1> QED BY <1>1, OneName

\* The call that adds each part to the fluxes.
Adds(name) ==
    CASE name \in {"ohmic", "ambipolar"} -> "AddNonIdealMHDFlux"
      [] name \in {"viscosity", "deviations"} -> "AddViscousFlux"
      [] name = "conduction" -> "AddDiffusiveFlux"
      [] name = "bragViscosity" -> "AddBragViscousFlux"
      [] name = "bragConduction" -> "AddBragDiffusiveFlux"
      [] name \in {"fargo", "rotation"} -> "CorrectFlux"
      [] OTHER -> "CalcFlux"

LEMMA HeldFluxNames ==
    ASSUME NEW p \in HeldFlux PROVE Adds(p[1]) = "CalcFlux" \/ Been(Adds(p[1]))
<1>1. \/ p \in Hyperbolic
      \/ Been("AddNonIdealMHDFlux") /\ p \in NonIdeal
      \/ Been("AddViscousFlux") /\ p \in Stress
      \/ Been("AddDiffusiveFlux") /\ p \in One("conduction")
      \/ Been("AddBragViscousFlux") /\ p \in One("bragViscosity")
      \/ Been("AddBragDiffusiveFlux") /\ p \in One("bragConduction")
      \/ Been("CorrectFlux") /\ p \in MeanOf("fargo", "rotation", dir)
  <2>1. PICK mean, non, stress : mean = MeanOf("fargo", "rotation", dir) /\ non = NonIdeal /\ stress = Stress
      OBVIOUS
  <2> QED BY <2>1 DEF HeldFlux, If
<1>2. CASE p \in Hyperbolic
    BY <1>2, HyperbolicName DEF Adds
<1>3. CASE Been("AddNonIdealMHDFlux") /\ p \in NonIdeal
    BY <1>3, NonIdealNames DEF Adds
<1>4. CASE Been("AddViscousFlux") /\ p \in Stress
    BY <1>4, StressNames DEF Adds
<1>5. CASE Been("AddDiffusiveFlux") /\ p \in One("conduction")
    BY <1>5, OneName DEF Adds
<1>6. CASE Been("AddBragViscousFlux") /\ p \in One("bragViscosity")
    BY <1>6, OneName DEF Adds
<1>7. CASE Been("AddBragDiffusiveFlux") /\ p \in One("bragConduction")
    BY <1>7, OneName DEF Adds
<1>8. CASE Been("CorrectFlux") /\ p \in MeanOf("fargo", "rotation", dir)
    BY <1>8, MeanNames DEF Adds
<1> QED BY <1>1, <1>2, <1>3, <1>4, <1>5, <1>6, <1>7, <1>8

LEMMA HeldLimitNames ==
    ASSUME NEW p \in HeldLimit PROVE Been(Adds(p[1]))
<1>1. \/ Been("AddNonIdealMHDFlux") /\ p \in NonIdeal
      \/ Been("AddViscousFlux") /\ p \in One("viscosity")
      \/ Been("AddDiffusiveFlux") /\ p \in One("conduction")
      \/ Been("AddBragViscousFlux") /\ p \in One("bragViscosity")
    BY DEF HeldLimit, If
<1>3. CASE Been("AddNonIdealMHDFlux") /\ p \in NonIdeal
    BY <1>3, NonIdealNames DEF Adds
<1>4. CASE Been("AddViscousFlux") /\ p \in One("viscosity")
    BY <1>4, OneName DEF Adds
<1>5. CASE Been("AddDiffusiveFlux") /\ p \in One("conduction")
    BY <1>5, OneName DEF Adds
<1>6. CASE Been("AddBragViscousFlux") /\ p \in One("bragViscosity")
    BY <1>6, OneName DEF Adds
<1> QED BY <1>1, <1>3, <1>4, <1>5, <1>6

LEMMA FluxGainNames ==
    ASSUME NEW call \in FluxCalls, NEW p \in FluxGain(call) PROVE Adds(p[1]) = call
<1>1. CASE call = "AddNonIdealMHDFlux"
    BY <1>1, NonIdealNames DEF Adds, FluxGain
<1>2. CASE call = "AddViscousFlux"
    BY <1>2, StressNames DEF Adds, FluxGain
<1>3. CASE call = "AddDiffusiveFlux"
    BY <1>3, OneName DEF Adds, FluxGain
<1>4. CASE call = "AddBragViscousFlux"
    BY <1>4, OneName DEF Adds, FluxGain
<1>5. CASE call = "AddBragDiffusiveFlux"
    BY <1>5, OneName DEF Adds, FluxGain
<1>6. CASE call = "CorrectFlux"
    BY <1>6, MeanNames DEF Adds, FluxGain
<1> QED BY <1>1, <1>2, <1>3, <1>4, <1>5, <1>6 DEF FluxCalls

LEMMA InSweep ==
    ASSUME NEW call \in Named, Place(call) \in 5..18, Wanted(call) PROVE LoopDirs
<1>1. Calls[Place(call)] = call
    BY PlaceNamed
<1>2. Sweep(call)
    BY <1>1 DEF Sweep
<1> QED BY <1>2 DEF Wanted

\* What adds to the arrays does not add twice.
Apart(e) == e[2] = "add" /\ e[1] \in DOMAIN mem => mem[e[1]].parts \cap e[3] = {}

LEMMA ApartOf ==
    ASSUME NEW a, NEW kind, NEW parts, kind = "add" /\ a \in DOMAIN mem => mem[a].parts \cap parts = {}
    PROVE Apart(<<a, kind, parts>>)
<1>1. PICK e : e = <<a, kind, parts>>
    OBVIOUS
<1>2. e[1] = a /\ e[2] = kind /\ e[3] = parts
    BY <1>1
<1>3. Apart(e)
    BY <1>2 DEF Apart
<1> QED BY <1>1, <1>3

LEMMA ApartSet == ASSUME NEW a, NEW parts PROVE Apart(<<a, "set", parts>>)
<1>1. PICK kind : kind = "set"
    OBVIOUS
<1>2. kind = "add" /\ a \in DOMAIN mem => mem[a].parts \cap parts = {}
    BY <1>1
<1>3. Apart(<<a, kind, parts>>)
    BY <1>2, ApartOf
<1> QED BY <1>1, <1>3

LEMMA ApartFlux ==
    ASSUME StageInv, FluxLedger, NEW call, NEW loops, Posted(call, loops), call \in FluxCalls
    PROVE Apart(<<"Flux", "add", FluxGain(call)>>)
<1>1. ~Been(call)
  <2>1. call \in Named /\ Place(call) \in 1..25
      BY PlaceNamed, AfterPosted
  <2> QED BY <2>1, NotBeen
<1>2. Been("CalcFlux")
  <2>1. LoopDirs
    <3>1. Place(call) \in 5..18 /\ call \in Named
        BY PlaceOf, AllNamed DEF FluxCalls
    <3> QED BY <3>1, InSweep DEF Posted
  <2>2. Place("CalcFlux") < Place(call)
      BY PlaceOf DEF FluxCalls
  <2> QED BY <2>1, <2>2, WantedOf, HasBeen, AllNamed
<1>3. mem["Flux"].parts = HeldFlux
    BY <1>2 DEF FluxLedger, Parts
<1>4. ASSUME NEW p \in HeldFlux, p \in FluxGain(call) PROVE FALSE
  <2>1. Adds(p[1]) = call
      BY <1>4, FluxGainNames
  <2>2. call # "CalcFlux"
      BY DEF FluxCalls
  <2> QED BY <1>1, <2>1, <2>2, HeldFluxNames
<1>5. mem["Flux"].parts \cap FluxGain(call) = {}
    BY <1>3, <1>4
<1> QED BY <1>5, ApartOf

LEMMA ApartLimit ==
    ASSUME StageInv, FluxLedger, NEW call, NEW loops, Posted(call, loops),
           call \in {"AddNonIdealMHDFlux", "AddViscousFlux", "AddDiffusiveFlux", "AddBragViscousFlux"},
           NEW parts, \A p \in parts : Adds(p[1]) = call
    PROVE Apart(<<"dMax", "add", parts>>)
<1>1. ~Been(call) /\ ~Been("AddBragDiffusiveFlux")
  <2>1. call \in Named /\ Place(call) \in 1..25
      BY PlaceNamed, AfterPosted
  <2>2. Place(call) <= Place("AddBragDiffusiveFlux")
      BY PlaceOf
  <2> QED BY <2>1, <2>2, NotBeen, AllNamed
<1>2. Been("ResetDiffusion")
  <2>1. LoopDirs
    <3>1. Place(call) \in 5..18 /\ call \in Named
        BY PlaceOf, AllNamed
    <3> QED BY <3>1, InSweep DEF Posted
  <2>2. Place("ResetDiffusion") < Place(call)
      BY PlaceOf
  <2>3. \E t \in Terms : Evolved(t)
      BY <2>1, WantedOf DEF Posted, Terms
  <2>4. Rkl \/ ParabolicTerms
    <3>1. DOMAIN conf.terms = Terms
        BY ConfType DEF StageInv
    <3> QED BY <2>3, <3>1 DEF ParabolicTerms, Evolved, Rkl
  <2> QED BY <2>1, <2>2, <2>4, WantedOf, HasBeen, AllNamed
<1>3. mem["dMax"].parts = HeldLimit
    BY <1>1, <1>2 DEF FluxLedger, Parts
<1>4. ASSUME NEW p \in HeldLimit, p \in parts PROVE FALSE
    BY <1>1, <1>4, HeldLimitNames
<1>5. mem["dMax"].parts \cap parts = {}
    BY <1>3, <1>4
<1> QED BY <1>5, ApartOf
-----------------------------------------------------------------------------
(* What the directions bring is not the same. *)

\* The direction of a part of the cells, and of the time step.
Bears(p, d) == IF p[1] = "body" THEN p[2] \in BodyOf(d) ELSE p[2] = d

Bounds(p, d) == p[2] = d \/ p[2] = -d

CellNames ==
    {"hyperbolic", "ohmic", "ambipolar", "viscosity", "deviations", "conduction", "bragViscosity",
     "bragConduction", "fargo", "rotation", "fargoBack", "rotationBack", "viscSrc", "bragViscSrc",
     "potential", "body"}

LEMMA At0Name == ASSUME NEW d, NEW S, NEW p \in At0(d, S) PROVE p[2] = d /\ \E q \in S : p[1] = q[1]
<1>1. PICK q \in S : p = <<q[1], d>>
    BY DEF At0
<1> QED BY <1>1

LEMMA FluxNames ==
    ASSUME NEW d, NEW p \in FluxOf(d) PROVE p[1] \in CellNames \ {"body"}
<1>1. \/ p \in Hyperbolic \/ p \in NonIdeal \/ p \in Stress \/ p \in One("conduction")
      \/ p \in One("bragViscosity") \/ p \in One("bragConduction") \/ p \in MeanOf("fargo", "rotation", d)
  <2>1. PICK mean, non, stress : mean = MeanOf("fargo", "rotation", d) /\ non = NonIdeal /\ stress = Stress
      OBVIOUS
  <2> QED BY <2>1 DEF FluxOf, If
<1>2. CASE p \in Hyperbolic
    BY <1>2, HyperbolicName DEF CellNames
<1>3. CASE p \in NonIdeal
    BY <1>3, NonIdealNames DEF CellNames
<1>4. CASE p \in Stress
    BY <1>4, StressNames DEF CellNames
<1>5. CASE p \in One("conduction")
    BY <1>5, OneName DEF CellNames
<1>6. CASE p \in One("bragViscosity")
    BY <1>6, OneName DEF CellNames
<1>7. CASE p \in One("bragConduction")
    BY <1>7, OneName DEF CellNames
<1>8. CASE p \in MeanOf("fargo", "rotation", d)
    BY <1>8, MeanNames DEF CellNames
<1> QED BY <1>1, <1>2, <1>3, <1>4, <1>5, <1>6, <1>7, <1>8

LEMMA ShareNames ==
    ASSUME NEW d, NEW p \in Share(d) PROVE Bears(p, d) /\ p[1] \in CellNames
<1>1. \/ p \in At0(d, FluxOf(d)) \/ p \in At0(d, MeanOf("fargoBack", "rotationBack", d))
      \/ p \in UNION {Part(s, d) : s \in CurvatureSource} \/ p \in Part("potential", d)
      \/ p \in {<<"body", e>> : e \in BodyOf(d)}
    BY DEF Share, If
<1>2. CASE p \in At0(d, FluxOf(d))
  <2>1. p[2] = d /\ \E q \in FluxOf(d) : p[1] = q[1]
      BY <1>2, At0Name
  <2>2. p[1] \in CellNames \ {"body"}
      BY <2>1, FluxNames
  <2> QED BY <2>1, <2>2 DEF Bears
<1>3. CASE p \in At0(d, MeanOf("fargoBack", "rotationBack", d))
  <2>1. p[2] = d /\ \E q \in MeanOf("fargoBack", "rotationBack", d) : p[1] = q[1]
      BY <1>3, At0Name
  <2>2. p[1] \in {"fargoBack", "rotationBack"}
      BY <2>1, MeanNames
  <2> QED BY <2>1, <2>2 DEF Bears, CellNames
<1>4. CASE p \in UNION {Part(s, d) : s \in CurvatureSource}
  <2>1. PICK s \in CurvatureSource : p \in Part(s, d)
      BY <1>4
  <2>2. p[1] = s /\ p[2] = d
      BY <2>1, PartName
  <2>3. s \in {"viscSrc", "bragViscSrc"}
      BY <2>1 DEF CurvatureSource
  <2> QED BY <2>2, <2>3 DEF Bears, CellNames
<1>5. CASE p \in Part("potential", d)
    BY <1>5, PartName DEF Bears, CellNames
<1>6. CASE p \in {<<"body", e>> : e \in BodyOf(d)}
  <2>1. PICK e \in BodyOf(d) : p = <<"body", e>>
      BY <1>6
  <2>2. p[1] = "body" /\ p[2] = e
      BY <2>1
  <2> QED BY <2>2 DEF Bears, CellNames
<1> QED BY <1>1, <1>2, <1>3, <1>4, <1>5, <1>6

LEMMA ShareRKLNames ==
    ASSUME NEW d, NEW p \in ShareRKL(d) PROVE p[2] = d
<1>1. p \in At0(d, FluxOf(d)) \/ p \in Part("viscSrc", d) \/ p \in Part("bragViscSrc", d)
    BY DEF ShareRKL, If
<1> QED BY <1>1, At0Name, PartName

LEMMA LimitShareNames ==
    ASSUME NEW d, NEW p \in LimitShare(d) PROVE Bounds(p, d) /\ p[1] # "drag"
<1>1. \/ p \in Part("hyperbolic", d) \/ p \in Part("bragConduction", d)
      \/ p \in At0(-d, LimitOf) \/ p \in At0(d, LimitOf)
    BY DEF LimitShare, If
<1>2. CASE p \in Part("hyperbolic", d) \/ p \in Part("bragConduction", d)
    BY <1>2, PartName DEF Bounds
<1>3. CASE p \in At0(-d, LimitOf) \/ p \in At0(d, LimitOf)
  <2>1. (p[2] = d \/ p[2] = -d) /\ \E q \in LimitOf : p[1] = q[1]
      BY <1>3, At0Name
  <2>2. PICK q \in LimitOf : p[1] = q[1]
      BY <2>1
  <2>3. q \in NonIdeal \/ q \in One("viscosity") \/ q \in One("conduction") \/ q \in One("bragViscosity")
      BY <2>2 DEF LimitOf, If
  <2>4. q[1] # "drag"
      BY <2>3, NonIdealNames, OneName
  <2> QED BY <2>1, <2>2, <2>4 DEF Bounds
<1> QED BY <1>1, <1>2, <1>3

LEMMA SharesOf ==
    ASSUME NEW S, NEW p
    PROVE /\ p \in Shares(S) <=> \E d \in S : p \in Share(d)
          /\ p \in SharesRKL(S) <=> \E d \in S : p \in ShareRKL(d)
          /\ p \in LimitShares(S) <=> \E d \in S : p \in LimitShare(d)
BY DEF Shares, SharesRKL, LimitShares

\* No two directions bring the same part.
LEMMA BodiesApart ==
    ASSUME Setting, NEW d \in Active, NEW e \in Active, d # e PROVE BodyOf(d) \cap BodyOf(e) = {}
BY DEF BodyOf, Setting, Options, Consistent, Active, JDIR, KDIR

LEMMA SharesApart ==
    ASSUME StageInv, NEW d \in Active, NEW S \in SUBSET Active, d \notin S
    PROVE /\ Shares(S) \cap Share(d) = {}
          /\ SharesRKL(S) \cap ShareRKL(d) = {}
          /\ LimitShares(S) \cap LimitShare(d) = {}
<1>0. Active \subseteq Nat \ {0}
    BY ConfType DEF StageInv, Active
<1>1. ASSUME NEW p \in Shares(S), p \in Share(d) PROVE FALSE
  <2>1. PICK e \in S : p \in Share(e)
      BY <1>1, SharesOf
  <2>2. Bears(p, d) /\ Bears(p, e) /\ d # e /\ e \in Active
      BY <1>1, <2>1, ShareNames
  <2>3. BodyOf(d) \cap BodyOf(e) = {}
      BY <2>2, BodiesApart DEF StageInv
  <2> QED BY <2>2, <2>3 DEF Bears
<1>2. ASSUME NEW p \in SharesRKL(S), p \in ShareRKL(d) PROVE FALSE
  <2>1. PICK e \in S : p \in ShareRKL(e)
      BY <1>2, SharesOf
  <2> QED BY <1>2, <2>1, ShareRKLNames
<1>3. ASSUME NEW p \in LimitShares(S), p \in LimitShare(d) PROVE FALSE
  <2>1. PICK e \in S : p \in LimitShare(e)
      BY <1>3, SharesOf
  <2>2. Bounds(p, d) /\ Bounds(p, e) /\ d # e /\ e \in Active
      BY <1>3, <2>1, LimitShareNames
  <2>3. d \in Nat /\ e \in Nat /\ d > 0 /\ e > 0
      BY <1>0, <2>2
  <2> QED BY <2>2, <2>3 DEF Bounds
<1> QED BY <1>1, <1>2, <1>3

\* When the right-hand side is computed, the directions before this one are there.
LEMMA BeforeThis ==
    ASSUME StageInv, OrderInv, NEW call, NEW loops, Posted(call, loops)
    PROVE /\ Done(call) = 1..(dir - 1) /\ Done(call) \in SUBSET Active /\ dir \in Active /\ dir \notin Done(call)
<1>1. dir \in 1..conf.dims /\ conf.dims \in Nat
    BY ConfType DEF StageInv
<1>2. Done(call) = 1..(dir - 1)
    BY DoneStep, AfterPosted
<1> QED BY <1>1, <1>2 DEF Active

LEMMA ApartCells ==
    ASSUME StageInv, OrderInv, FluxLedger, CellLedger, NEW loops, Posted("CalcRightHandSide", loops),
           NEW e \in BookFor("CalcRightHandSide")
    PROVE Apart(e)
<1>0. ~Been("AddSourceTerms") /\ ~Been("AddDragForce")
    BY NotBeen, AllNamed, PlaceOf
<1>1. PICK S : S = Done("CalcRightHandSide")
    OBVIOUS
<1>2. S \in SUBSET Active /\ dir \in Active /\ dir \notin S
    BY <1>1, BeforeThis
<1>3. PICK d : d = dir
    OBVIOUS
<1>4. /\ Shares(S) \cap Share(d) = {} /\ SharesRKL(S) \cap ShareRKL(d) = {}
      /\ LimitShares(S) \cap LimitShare(d) = {}
    BY <1>2, <1>3, SharesApart
<1>5. conf.cycle # "rklAgain" => mem["InvDt"].parts = LimitShares(S)
    BY <1>0, <1>1 DEF CellLedger, Parts, If
<1>6. CASE Rkl
  <2>1. RKLGain = ShareRKL(d)
      BY <1>3, <1>6, WholeRKL
  <2>2. \/ e = <<"Flux", "add", {}>> \/ e = <<"dU", "add", ShareRKL(d)>>
        \/ conf.cycle = "rkl" /\ e = <<"InvDt", "add", Limits("dMax")>>
      BY <1>6, <2>1 DEF BookFor, RKLEntries, If
  <2>3. mem["dU"].parts = SharesRKL(S)
      BY <1>1, <1>6 DEF CellLedger, Parts
  <2>4. Limits("dMax") = LimitShare(d)
      BY <1>3, <1>6, WholeLimit DEF LimitShare, If
  <2>5. mem["Flux"].parts \cap {} = {}
      OBVIOUS
  <2>6. mem["dU"].parts \cap ShareRKL(d) = {}
      BY <1>4, <2>3
  <2>7. conf.cycle = "rkl" => mem["InvDt"].parts \cap Limits("dMax") = {}
      BY <1>4, <1>5, <2>4
  <2> QED BY <2>2, <2>5, <2>6, <2>7, ApartOf
<1>7. CASE ~Rkl
  <2>1. CellGain = Share(d)
      BY <1>3, WholeCells
  <2>2. StepGain = LimitShare(d)
      BY <1>3, <1>7, WholeStep
  <2>3. e = <<"Uc", "add", Share(d)>> \/ e = <<"InvDt", "add", LimitShare(d)>>
      BY <1>7, <2>1, <2>2 DEF BookFor
  <2>4. mem["Uc"].parts = Shares(S)
      BY <1>0, <1>1, <1>7 DEF CellLedger, Parts, If
  <2>5. conf.cycle # "rklAgain"
      BY <1>7 DEF Rkl
  <2>6. mem["Uc"].parts \cap Share(d) = {} /\ mem["InvDt"].parts \cap LimitShare(d) = {}
      BY <1>4, <1>5, <2>4, <2>5
  <2> QED BY <2>3, <2>6, ApartOf
<1> QED BY <1>6, <1>7

LEMMA SourceNames == ASSUME NEW p \in SourceParts PROVE p[1] \in {"curvature", "coriolis"}
<1>1. p \in Part("curvature", 0) \/ p \in Part("coriolis", 0)
    BY DEF SourceParts
<1> QED BY <1>1, PartName

LEMMA ApartSource ==
    ASSUME StageInv, OrderInv, CellLedger, NEW loops, Posted("AddSourceTerms", loops)
    PROVE Apart(<<"Uc", "add", SourceParts>>)
<1>0. ~Been("AddSourceTerms") /\ ~Been("AddDragForce")
    BY NotBeen, AllNamed, PlaceOf
<1>1. ~Rkl
  <2>1. ~Sweep("AddSourceTerms")
      BY DEF Sweep, Calls
  <2> QED BY <2>1 DEF Posted, Wanted
<1>2. PICK S : S = Done("CalcRightHandSide")
    OBVIOUS
<1>3. mem["Uc"].parts = Shares(S)
    BY <1>0, <1>1, <1>2 DEF CellLedger, Parts, If
<1>4. ASSUME NEW p \in Shares(S), p \in SourceParts PROVE FALSE
  <2>1. PICK d \in S : p \in Share(d)
      BY <1>4, SharesOf
  <2>2. p[1] \in CellNames
      BY <2>1, ShareNames
  <2>3. p[1] \in {"curvature", "coriolis"}
      BY <1>4, SourceNames
  <2> QED BY <2>2, <2>3 DEF CellNames
<1>5. mem["Uc"].parts \cap SourceParts = {}
    BY <1>3, <1>4
<1> QED BY <1>5, ApartOf

LEMMA ApartDrag ==
    ASSUME StageInv, OrderInv, CellLedger, NEW loops, Posted("AddDragForce", loops), NEW e \in DragEntries
    PROVE Apart(e)
<1>0. ~Been("AddDragForce")
    BY NotBeen, AllNamed, PlaceOf
<1>1. ~Rkl /\ conf.drag
  <2>1. ~Sweep("AddDragForce")
      BY DEF Sweep, Calls
  <2> QED BY <2>1 DEF Posted, Wanted
<1>2. PICK S : S = Done("CalcRightHandSide")
    OBVIOUS
<1>3. PICK q : q = <<"drag", 0>>
    OBVIOUS
<1>4. q[1] = "drag" /\ Part("drag", 0) = {q}
    BY <1>3 DEF Part
<1>5. q \notin mem["Uc"].parts
  <2>1. mem["Uc"].parts = Shares(S) \cup If(Been("AddSourceTerms"), SourceParts)
      BY <1>0, <1>1, <1>2 DEF CellLedger, Parts, If
  <2>2. q \notin Shares(S)
    <3>1. ASSUME NEW d, q \in Share(d) PROVE FALSE
      <4>1. q[1] \in CellNames
          BY <3>1, ShareNames
      <4> QED BY <1>4, <4>1 DEF CellNames
    <3> QED BY <3>1, SharesOf
  <2>3. q \notin SourceParts
      BY <1>4, SourceNames
  <2> QED BY <2>1, <2>2, <2>3 DEF If
<1>6. q \notin mem["InvDt"].parts
  <2>1. mem["InvDt"].parts = LimitShares(S)
      BY <1>0, <1>1, <1>2 DEF CellLedger, Parts, If, Rkl
  <2>2. \A d : q \notin LimitShare(d)
      BY <1>4, LimitShareNames
  <2> QED BY <2>1, <2>2, SharesOf
<1>7. mem["UcGas"].parts = {}
    BY <1>0, <1>1 DEF CellLedger, Parts
<1>8. e \in {<<"Uc", "add", {q}>>, <<"UcGas", "add", {q}>>, <<"InvDt", "add", {q}>>}
    BY <1>4 DEF DragEntries
<1>9. /\ mem["Uc"].parts \cap {q} = {} /\ mem["UcGas"].parts \cap {q} = {} /\ mem["InvDt"].parts \cap {q} = {}
    BY <1>5, <1>6, <1>7
<1> QED BY <1>8, <1>9, ApartOf

LEMMA TracerSwept ==
    ASSUME StageInv, FluxLedger, NEW loops, Posted("TracerCalcRightHandSide", loops)
    PROVE Swept("FluxTracer") = {<<"tracer", dir>>} /\ conf.tracer /\ ~Rkl
<1>1. Wanted("TracerCalcRightHandSide")
    BY DEF Posted
<1>2. LoopDirs
    BY <1>1, SweepWanted
<1>3. conf.tracer /\ ~Rkl
    BY <1>1, <1>2, WantedOf
<1>4. Been("TracerCalcFlux")
    BY <1>2, <1>3, HasBeen, WantedOf, AllNamed, PlaceOf
<1>5. PICK q : q = <<"tracer", 0>>
    OBVIOUS
<1>6. q[1] = "tracer" /\ mem["FluxTracer"].parts = {q}
    BY <1>4, <1>5 DEF FluxLedger, Parts, One
<1> QED BY <1>3, <1>6 DEF Swept

LEMMA ApartTracer ==
    ASSUME StageInv, OrderInv, FluxLedger, CellLedger, NEW loops, Posted("TracerCalcRightHandSide", loops)
    PROVE Apart(<<"UcTracer", "add", Swept("FluxTracer")>>)
<1>1. PICK S : S = Done("TracerCalcRightHandSide")
    OBVIOUS
<1>2. dir \notin S
    BY <1>1, BeforeThis
<1>3. mem["UcTracer"].parts = {<<"tracer", d>> : d \in S}
    BY <1>1, TracerSwept DEF CellLedger, Parts
<1>4. \A d : <<"tracer", d>> = <<"tracer", dir>> => d = dir
    OBVIOUS
<1>5. mem["UcTracer"].parts \cap Swept("FluxTracer") = {}
    BY <1>2, <1>3, <1>4, TracerSwept
<1> QED BY <1>5, ApartOf

LEMMA ApartNonideal ==
    ASSUME StageInv, OrderInv, FieldLedger, NEW loops, Posted("CalcNonidealEMF", loops),
           NEW e \in EdgeEntries("add", NonIdeal)
    PROVE Apart(e)
<1>0. ~Been("CalcNonidealEMF")
    BY NotBeen, AllNamed, PlaceOf
<1>1. PICK d \in Edges : e = <<Edge[d], "add", NonIdeal>>
    BY DEF EdgeEntries
<1>2. Mhd /\ (Rkl \/ Been("CalcCornerEMF"))
  <2>1. ~Sweep("CalcNonidealEMF") /\ ~Sweep("CalcCornerEMF") /\ Wanted("CalcNonidealEMF")
      BY DEF Sweep, Calls, Posted
  <2>2. CASE Rkl
    <3>1. haveVs
        BY <2>1, <2>2 DEF Wanted
    <3>2. Mhd
        BY <3>1 DEF haveVs, HaveRKL, Mhd, StageInv, Setting, Consistent
    <3> QED BY <2>2, <3>2
  <2>3. CASE ~Rkl
    <3>1. Corners /\ Wanted("CalcCornerEMF")
        BY <2>1, <2>3 DEF Wanted
    <3>2. Been("CalcCornerEMF")
        BY <3>1, HasBeen, AllNamed, PlaceOf
    <3> QED BY <3>1, <3>2 DEF Corners
  <2> QED BY <2>2, <2>3
<1>3. mem[Edge[d]].parts = AtEdges
    BY <1>1, <1>2 DEF FieldLedger, Parts
<1>4. AtEdges = If(~Rkl, Hyperbolic)
    BY <1>0 DEF AtEdges, If
<1>5. ASSUME NEW p \in AtEdges, p \in NonIdeal PROVE FALSE
  <2>1. p \in Hyperbolic
      BY <1>4, <1>5 DEF If
  <2> QED BY <1>5, <2>1, HyperbolicName, NonIdealNames
<1>6. mem[Edge[d]].parts \cap NonIdeal = {}
    BY <1>3, <1>5
<1> QED BY <1>1, <1>6, ApartOf

LEMMA ApartFaces ==
    ASSUME StageInv, FieldLedger, NEW loops, Posted("EvolveMagField", loops), NEW e \in FaceEntries
    PROVE Apart(e)
<1>1. ~Been("EvolveMagField")
    BY NotBeen, AllNamed, PlaceOf
<1>2. e[1] \in FaceArrays
    BY FaceHeads, FaceNamesOf DEF Heads, StageInv
<1>3. e[1] \in DOMAIN mem => mem[e[1]].parts = {}
    BY <1>1, <1>2 DEF FieldLedger, Parts
<1> QED BY <1>3 DEF Apart

LEMMA ApartVelocity ==
    ASSUME StageInv, FrameLedger, NEW loops, Posted("AddVelocityFluid", loops)
    PROVE Apart(<<"Vc", "add", Part("mean", 0)>>)
<1>1. ~Been("AddVelocityFluid")
    BY NotBeen, AllNamed, PlaceOf
<1>2. mem["Vc"].parts \cap Part("mean", 0) = {}
    BY <1>1 DEF FrameLedger, Parts, If
<1> QED BY <1>2, ApartOf

LEMMA BooksApart ==
    ASSUME StageInv, OrderInv, FluxLedger, CellLedger, FrameLedger, FieldLedger,
           NEW call, NEW loops, Posted(call, loops), NEW e \in BookFor(call)
    PROVE Apart(e)
<1>0. call \in Named \ {"done", "NextDir"}
    BY DEF Posted
<1>1. CASE call = "ResetStage"
    BY <1>1, ApartSet DEF BookFor
<1>2. CASE call \in {"CalcCurrent", "HallDiffusivity", "Refresh"}
  <2>1. BookFor(call) = {}
      BY <1>2 DEF BookFor
  <2> QED BY <2>1
<1>3. CASE call = "CalcFlux"
  <2>1. e = <<"Flux", "set", {}>> \/ e = <<"Flux", "set", Hyperbolic>> \/ e = <<"cMax", "set", Hyperbolic>>
      BY <1>3 DEF BookFor, FluxEntries
  <2> QED BY <2>1, ApartSet
<1>4. CASE call = "ResetDiffusion"
    BY <1>4, ApartSet DEF BookFor
<1>5. CASE call = "AddNonIdealMHDFlux"
  <2>1. e = <<"Flux", "add", FluxGain(call)>> \/ e = <<"dMax", "add", FluxGain(call)>>
      BY <1>5 DEF BookFor, NonIdealEntries, FluxGain
  <2>2. \A p \in FluxGain(call) : Adds(p[1]) = call
      BY <1>5, FluxGainNames DEF FluxCalls
  <2> QED BY <1>5, <2>1, <2>2, ApartFlux, ApartLimit DEF FluxCalls
<1>6. CASE call = "AddDiffusiveFlux"
  <2>1. e = <<"Flux", "add", FluxGain(call)>> \/ e = <<"dMax", "add", FluxGain(call)>>
      BY <1>6 DEF BookFor, DiffuseEntries, FluxGain
  <2>2. \A p \in FluxGain(call) : Adds(p[1]) = call
      BY <1>6, FluxGainNames DEF FluxCalls
  <2> QED BY <1>6, <2>1, <2>2, ApartFlux, ApartLimit DEF FluxCalls
<1>7. CASE call = "AddBragDiffusiveFlux"
  <2>1. e = <<"Flux", "add", FluxGain(call)>> \/ \E parts : e = <<"dMax", "set", parts>>
      BY <1>7 DEF BookFor, BragHeatEntries, FluxGain
  <2> QED BY <1>7, <2>1, ApartFlux, ApartSet DEF FluxCalls
<1>8. CASE call = "AddViscousFlux"
  <2>1. e = <<"Flux", "add", FluxGain(call)>> \/ e = <<"dMax", "add", One("viscosity")>>
        \/ \E parts : e = <<"viscSrc", "set", parts>>
      BY <1>8 DEF BookFor, ViscousEntries, SourceEntries, If, FluxGain
  <2>2. \A p \in One("viscosity") : Adds(p[1]) = call
      BY <1>8, OneName DEF Adds
  <2> QED BY <1>8, <2>1, <2>2, ApartFlux, ApartLimit, ApartSet DEF FluxCalls
<1>9. CASE call = "AddBragViscousFlux"
  <2>1. e = <<"Flux", "add", FluxGain(call)>> \/ e = <<"dMax", "add", FluxGain(call)>>
        \/ \E parts : e = <<"bragViscSrc", "set", parts>>
      BY <1>9 DEF BookFor, DiffuseEntries, SourceEntries, If, FluxGain
  <2>2. \A p \in FluxGain(call) : Adds(p[1]) = call
      BY <1>9, FluxGainNames DEF FluxCalls
  <2> QED BY <1>9, <2>1, <2>2, ApartFlux, ApartLimit, ApartSet DEF FluxCalls
<1>10. CASE call = "AddVelocityFluid"
    BY <1>10, ApartVelocity DEF BookFor
<1>11. CASE call = "SubstractVelocityFluid"
    BY <1>11, ApartSet DEF BookFor
<1>12. CASE call = "TracerCalcFlux"
    BY <1>12, ApartSet DEF BookFor
<1>13. CASE call = "CorrectFlux"
  <2>1. e = <<"Flux", "add", FluxGain(call)>>
      BY <1>13, MeanIsOf DEF BookFor, FluxGain
  <2> QED BY <1>13, <2>1, ApartFlux DEF FluxCalls
<1>14. CASE call = "CalcRightHandSide"
    BY <1>14, ApartCells
<1>15. CASE call = "TracerCalcRightHandSide"
    BY <1>15, ApartTracer DEF BookFor
<1>16. CASE call = "AddSourceTerms"
    BY <1>16, ApartSource DEF BookFor
<1>17. CASE call = "AddDragForce"
    BY <1>17, ApartDrag DEF BookFor
<1>18. CASE call = "CalcCornerEMF"
  <2>1. \E a : e = <<a, "set", Hyperbolic>>
      BY <1>18 DEF BookFor, EdgeEntries
  <2> QED BY <2>1, ApartSet
<1>19. CASE call = "CalcNonidealEMF"
    BY <1>19, ApartNonideal DEF BookFor
<1>20. CASE call = "EvolveMagField"
    BY <1>20, ApartFaces DEF BookFor
<1>21. CASE call = "ReconstructVcField"
    BY <1>21, ApartSet DEF BookFor
<1> QED BY <1>0, <1>1, <1>2, <1>3, <1>4, <1>5, <1>6, <1>7, <1>8, <1>9, <1>10, <1>11, <1>12,
<1>13, <1>14, <1>15, <1>16, <1>17, <1>18, <1>19, <1>20, <1>21, AllNamed

LEMMA CleanStep ==
    ASSUME StageInv, OrderInv, FluxLedger, CellLedger, FrameLedger, FieldLedger, Clean,
           NEW call, NEW loops, Posted(call, loops)
    PROVE Clean'
<1>1. Launch(loops) /\ Kernels(loops) /\ Books(loops, Scratch, BookFor(call))
    BY DEF Posted, Call
<1>2. PICK E : E = BookFor(call)
    OBVIOUS
<1>3. \A e \in E : Apart(e)
    BY <1>2, BooksApart
<1>4. \A e \in E : e[2] = "add" /\ e[1] \in DOMAIN mem => mem[e[1]].parts \cap e[3] = {}
    BY <1>3 DEF Apart
<1>5. Books(loops, Scratch, E)
    BY <1>1, <1>2
<1> QED BY <1>1, <1>4, <1>5, BooksClean

\* The books of a stage.
Ledger ==
    /\ OrderInv
    /\ FluxLedger /\ CellLedger /\ FrameLedger /\ FieldLedger
    /\ Clean

LEMMA LedgerCall ==
    ASSUME StageInv, Ledger, Next, ~NextDir, ~NextStage PROVE Ledger'
<1>1. PICK call : \E loops : Posted(call, loops)
    BY CallsArePosted
<1>2. PICK loops : Posted(call, loops)
    BY <1>1
<1>3. OrderInv /\ FluxLedger /\ CellLedger /\ FrameLedger /\ FieldLedger /\ Clean
    BY DEF Ledger
<1>4. OrderInv'
    BY <1>2, <1>3, OrderCall DEF Posted
<1>5. FluxLedger'
    BY <1>2, <1>3, FluxLedgerStep
<1>6. CellLedger'
    BY <1>2, <1>3, CellLedgerStep
<1>7. FrameLedger'
    BY <1>2, <1>3, FrameLedgerStep
<1>8. FieldLedger'
    BY <1>2, <1>3, FieldLedgerStep
<1>9. Clean'
    BY <1>2, <1>3, CleanStep
<1> QED BY <1>4, <1>5, <1>6, <1>7, <1>8, <1>9 DEF Ledger
-----------------------------------------------------------------------------
(* A stage begins with nothing in its books, and LoopDir<dir+1> with those of the *)
(* sweeps alone.                                                              *)

Begun ==
    /\ \A a \in DOMAIN mem : mem[a].parts = {} /\ mem[a].twice = {}
    /\ dir = 1 /\ Place(pc) <= 5

LEMMA FreshParts == \A a \in Allocated : Fresh[a].parts = {} /\ Fresh[a].twice = {}
BY DEF Fresh, Unset

LEMMA BegunLedger == StageInv /\ Begun => Ledger
<1> SUFFICES ASSUME StageInv, Begun PROVE Ledger
    OBVIOUS
<1>1. \A a \in DOMAIN mem : mem[a].parts = {} /\ mem[a].twice = {}
    BY DEF Begun
<1>2. dir = 1 /\ Place(pc) \in 1..25 /\ Place(pc) <= 5
    BY PlaceNamed DEF Begun, StageInv
<1>3. \A call \in Named : Place(call) >= 5 => ~Been(call)
    BY <1>2, PlaceNamed DEF Been
<1>4. OrderInv
    BY <1>2 DEF OrderInv
<1>5. FluxLedger
  <2>1. /\ ~Been("CalcFlux") /\ ~Been("ResetDiffusion") /\ ~Been("TracerCalcFlux")
        /\ ~Been("AddViscousFlux") /\ ~Been("AddBragViscousFlux")
      BY <1>3, PlaceOf, AllNamed
  <2> QED BY <1>1, <2>1 DEF FluxLedger, Parts
<1>6. CellLedger
  <2>1. ~Been("CalcRightHandSide") /\ ~Been("AddSourceTerms") /\ ~Been("AddDragForce")
        /\ ~Been("TracerCalcRightHandSide")
      BY <1>3, PlaceOf, AllNamed
  <2>2. Done("CalcRightHandSide") = {} /\ Done("TracerCalcRightHandSide") = {}
      BY <1>2, <2>1 DEF Done, If
  <2>3. mem["Uc"].parts = {} /\ mem["InvDt"].parts = {}
      BY <1>1, MainArrays
  <2>4. Rkl => mem["dU"].parts = {}
      BY <1>1 DEF StageInv, Setting, Consistent, Rkl, Allocated, RKLArrays
  <2>5. /\ conf.tracer => mem["UcTracer"].parts = {}
        /\ conf.drag => mem["UcGas"].parts = {}
      BY <1>1 DEF StageInv, Allocated, FluidArrays
  <2>6. {<<"tracer", d>> : d \in {}} = {}
      OBVIOUS
  <2> QED BY <2>1, <2>2, <2>3, <2>4, <2>5, <2>6, NoShares DEF CellLedger, Parts, If
<1>7. FrameLedger
  <2>1. ~Been("AddVelocityFluid")
      BY <1>3, PlaceOf, AllNamed
  <2> QED BY <1>1, <2>1, MainArrays DEF FrameLedger, Parts, If
<1>8. FieldLedger
  <2>1. ~Been("CalcCornerEMF") /\ ~Been("CalcNonidealEMF") /\ ~Been("EvolveMagField")
        /\ ~Been("ReconstructVcField")
      BY <1>3, PlaceOf, AllNamed
  <2>2. Rkl => AtEdges = {}
      BY <2>1 DEF AtEdges, If
  <2>3. Mhd => \A e \in Edges : mem[Edge[e]].parts = {}
      BY <1>1, EdgeArrays
  <2> QED BY <1>1, <2>1, <2>2, <2>3 DEF FieldLedger, Parts
<1>9. Clean
    BY <1>1 DEF Clean
<1> QED BY <1>4, <1>5, <1>6, <1>7, <1>8, <1>9 DEF Ledger

LEMMA InitBegun == Init => Begun
<1> SUFFICES ASSUME Init PROVE Begun
    OBVIOUS
<1>1. (\A a \in DOMAIN mem : mem[a].parts = {} /\ mem[a].twice = {}) /\ dir = 1
  <2>1. mem = Fresh /\ dir = 1 /\ DOMAIN Fresh = Allocated
      BY DEF Init, IDIR, Fresh
  <2> QED BY <2>1, FreshParts
<1>2. PICK i \in DOMAIN Calls : Calls[i] = pc /\ \A j \in 1..(i - 1) : ~Wanted(Calls[j])
    BY FirstWanted
<1>3. i \in 1..25 /\ Place(pc) = i
    BY <1>2, CallsOf, PlaceCalls
<1>4. CASE Rkl
  <2>1. Calls[1] = "ResetStage" /\ Wanted("ResetStage")
      BY <1>4, SweepOf DEF Wanted, Calls
  <2> QED BY <1>1, <1>2, <1>3, <2>1 DEF Begun
<1>5. CASE ~Rkl
  <2>1. Calls[5] = "CalcFlux" /\ Wanted("CalcFlux")
      BY <1>5 DEF Wanted, Calls, LoopDirs
  <2> QED BY <1>1, <1>2, <1>3, <2>1 DEF Begun
<1> QED BY <1>4, <1>5

LEMMA StageBegun == NextStage => Begun'
<1> SUFFICES ASSUME NextStage PROVE Begun'
    OBVIOUS
<1>1. mem' = Fresh /\ dir' = 1 /\ pc' = "ResetStage" /\ DOMAIN Fresh = Allocated
    BY DEF NextStage, IDIR, Fresh
<1>2. (Place(pc))' = 1
    BY <1>1, PlaceOf DEF Place, Calls
<1> QED BY <1>1, <1>2, FreshParts DEF Begun

LEMMA UnionsSame ==
    ASSUME conf' = conf, NEW S
    PROVE /\ (Shares(S))' = Shares(S)
          /\ (SharesRKL(S))' = SharesRKL(S)
          /\ (LimitShares(S))' = LimitShares(S)
<1>1. \A d : (Share(d))' = Share(d) /\ (ShareRKL(d))' = ShareRKL(d) /\ (LimitShare(d))' = LimitShare(d)
    BY SharesSame
<1> QED BY <1>1 DEF Shares, SharesRKL, LimitShares

\* Where NextDir stands, and what it leaves to do.
LEMMA Turn ==
    ASSUME StageInv, NextDir
    PROVE /\ conf' = conf /\ dir' = dir + 1 /\ dir \in 1..conf.dims /\ DOMAIN mem' = DOMAIN mem /\ LoopDirs
          /\ \A a \in DOMAIN mem : a \notin PerSweep => mem'[a] = mem[a]
          /\ \A a \in DOMAIN mem : mem'[a].twice # {} => mem'[a] = mem[a]
          /\ \A call \in Named : Place(call) < 18 => (Been(call) <=> Wanted(call))
          /\ \A call \in Named : Place(call) > 18 => ~Been(call)
          /\ \A call \in Named : Place(call) >= 5 => ~(Been(call))'
<1>1. pc = "NextDir" /\ pc' = "CalcFlux" /\ conf' = conf /\ dir' = dir + 1 /\ DOMAIN mem' = DOMAIN mem
    BY DEF NextDir
<1>2. \A a \in DOMAIN mem : mem'[a] = IF a \in PerSweep THEN Unset ELSE mem[a]
    BY DEF NextDir
<1>3. \A call \in Named : Place(call) \in 1..25
    BY PlaceNamed
<1>4. Place(pc) = 18
    BY <1>1, PlaceOf
<1>5. (Place(pc))' = 5
    BY <1>1, PlaceOf DEF Place, Calls
<1>6. \A call : (Place(call))' = Place(call)
    BY DEF Place, Calls
<1>7. \A call \in Named : Place(call) >= 5 => ~(Been(call))'
    BY <1>3, <1>5, <1>6 DEF Been
<1>8. LoopDirs
    BY <1>1, SweepOf DEF StageInv, Wanted
<1>9. dir \in 1..conf.dims
    BY ConfType DEF StageInv
<1> QED BY <1>1, <1>2, <1>3, <1>4, <1>7, <1>8, <1>9 DEF Been, Unset

\* A direction that is done is one of those before the next.
LEMMA DoneTurn ==
    ASSUME StageInv, NextDir, NEW call, call = "CalcRightHandSide" \/ call = "TracerCalcRightHandSide",
           Wanted(call)
    PROVE (Done(call))' = Done(call)
<1>1. call \in Named /\ Place(call) < 18 /\ Place(call) >= 5
    BY PlaceOf, AllNamed
<1>2. Been(call) /\ ~(Been(call))' /\ dir' = dir + 1 /\ dir \in Nat /\ dir >= 1
    BY <1>1, Turn, ConfType DEF StageInv
<1>3. Done(call) = 1..dir
    BY <1>2 DEF Done, If
<1>4. (Done(call))' = 1..dir
  <2>1. (Done(call))' = 1..(dir' - 1) \cup If((Been(call))', {dir'})
      BY DEF Done, If
  <2>2. dir' - 1 = dir
      BY <1>2
  <2> QED BY <1>2, <2>1, <2>2 DEF If
<1> QED BY <1>3, <1>4

LEMMA TurnFlux == ASSUME StageInv, NextDir, FluxLedger PROVE FluxLedger'
<1>1. /\ ~(Been("CalcFlux"))' /\ ~(Been("ResetDiffusion"))' /\ ~(Been("TracerCalcFlux"))'
      /\ ~(Been("AddViscousFlux"))' /\ ~(Been("AddBragViscousFlux"))'
    BY Turn, PlaceOf, AllNamed
<1>2. conf.geo = "cartesian" => \A a \in {"viscSrc", "bragViscSrc"} \cap DOMAIN mem : mem[a].parts = {}
    BY DEF FluxLedger, Parts
<1>3. conf.geo = "cartesian" => \A a \in {"viscSrc", "bragViscSrc"} \cap DOMAIN mem : mem'[a] = mem[a]
    BY Turn DEF PerSweep
<1>4. conf' = conf /\ DOMAIN mem' = DOMAIN mem
    BY Turn
<1>5. conf'.geo = "cartesian" => \A a \in {"viscSrc", "bragViscSrc"} \cap DOMAIN mem' : mem'[a].parts = {}
    BY <1>2, <1>3, <1>4
<1> QED BY <1>1, <1>5 DEF FluxLedger, Parts

LEMMA TurnCells == ASSUME StageInv, NextDir, CellLedger PROVE CellLedger'
<1>0. LoopDirs /\ conf' = conf /\ (Rkl' <=> Rkl)
    BY Turn, PartsSame
<1>1. /\ ~(Been("AddSourceTerms"))' /\ ~(Been("AddDragForce"))'
      /\ ~Been("AddSourceTerms") /\ ~Been("AddDragForce")
    BY Turn, PlaceOf, AllNamed
<1>2. PICK S : S = Done("CalcRightHandSide")
    OBVIOUS
<1>3. (Done("CalcRightHandSide"))' = S
    BY <1>0, <1>2, DoneTurn, WantedOf
<1>4. conf.tracer /\ ~Rkl => (Done("TracerCalcRightHandSide"))' = Done("TracerCalcRightHandSide")
    BY <1>0, DoneTurn, WantedOf
<1>5. (Shares(Done("CalcRightHandSide")))' = Shares(S)
  <2>1. (Shares(Done("CalcRightHandSide")))' = (Shares(S))'
      BY <1>3 DEF Shares
  <2> QED BY <1>0, <2>1, UnionsSame
<1>6. (SharesRKL(Done("CalcRightHandSide")))' = SharesRKL(S)
  <2>1. (SharesRKL(Done("CalcRightHandSide")))' = (SharesRKL(S))'
      BY <1>3 DEF SharesRKL
  <2> QED BY <1>0, <2>1, UnionsSame
<1>7. (LimitShares(Done("CalcRightHandSide")))' = LimitShares(S)
  <2>1. (LimitShares(Done("CalcRightHandSide")))' = (LimitShares(S))'
      BY <1>3 DEF LimitShares
  <2> QED BY <1>0, <2>1, UnionsSame
<1>8. mem'["Uc"] = mem["Uc"] /\ mem'["InvDt"] = mem["InvDt"]
    BY Turn, MainArrays DEF PerSweep
<1>9. Rkl => mem'["dU"] = mem["dU"]
    BY Turn DEF PerSweep, StageInv, Setting, Consistent, Rkl, Allocated, RKLArrays
<1>10. (conf.tracer => mem'["UcTracer"] = mem["UcTracer"]) /\ (conf.drag => mem'["UcGas"] = mem["UcGas"])
    BY Turn DEF PerSweep, StageInv, Allocated, FluidArrays
<1>11. (~Rkl => Parts("Uc") = Shares(Done("CalcRightHandSide"))
                             \cup If(Been("AddSourceTerms"), SourceParts)
                             \cup If(Been("AddDragForce"), One("drag")))'
  <2>1. ~Rkl => mem["Uc"].parts = Shares(S)
      BY <1>1, <1>2 DEF CellLedger, Parts, If
  <2> QED BY <1>0, <1>1, <1>5, <1>8, <2>1 DEF Parts, If
<1>12. (Rkl => Parts("dU") = SharesRKL(Done("CalcRightHandSide")))'
  <2>1. Rkl => mem["dU"].parts = SharesRKL(S)
      BY <1>2 DEF CellLedger, Parts
  <2> QED BY <1>0, <1>6, <1>9, <2>1 DEF Parts
<1>13. (conf.cycle # "rklAgain" =>
              Parts("InvDt") = LimitShares(Done("CalcRightHandSide"))
                               \cup If(Been("AddDragForce"), One("drag")))'
  <2>1. conf.cycle # "rklAgain" => mem["InvDt"].parts = LimitShares(S)
      BY <1>1, <1>2 DEF CellLedger, Parts, If
  <2> QED BY <1>0, <1>1, <1>7, <1>8, <2>1 DEF Parts, If
<1>14. (conf.tracer /\ ~Rkl =>
              Parts("UcTracer") = {<<"tracer", d>> : d \in Done("TracerCalcRightHandSide")})'
  <2>1. PICK T : T = Done("TracerCalcRightHandSide")
      OBVIOUS
  <2>2. conf.tracer /\ ~Rkl => mem["UcTracer"].parts = {<<"tracer", d>> : d \in T}
      BY <2>1 DEF CellLedger, Parts
  <2>3. conf.tracer /\ ~Rkl => (Done("TracerCalcRightHandSide"))' = T
      BY <1>4, <2>1
  <2> QED BY <1>0, <1>10, <2>2, <2>3 DEF Parts
<1>15. (conf.drag /\ ~Been("AddDragForce") => Parts("UcGas") = {})'
    BY <1>0, <1>1, <1>10 DEF CellLedger, Parts
<1> QED BY <1>11, <1>12, <1>13, <1>14, <1>15 DEF CellLedger

LEMMA TurnFrame == ASSUME StageInv, NextDir, FrameLedger PROVE FrameLedger'
<1>1. ~(Been("AddVelocityFluid"))'
    BY Turn, PlaceOf, AllNamed
<1>2. Been("AddVelocityFluid") <=> Been("SubstractVelocityFluid")
  <2>1. Wanted("AddVelocityFluid") <=> Wanted("SubstractVelocityFluid")
      BY Turn DEF Wanted
  <2>2. Place("AddVelocityFluid") < 18 /\ Place("SubstractVelocityFluid") < 18
      BY PlaceOf
  <2> QED BY <2>1, <2>2, Turn, AllNamed
<1>3. mem'["Vc"] = mem["Vc"]
    BY Turn, MainArrays DEF PerSweep
<1> QED BY <1>1, <1>2, <1>3 DEF FrameLedger, Parts, If

LEMMA TurnField == ASSUME StageInv, NextDir, FieldLedger PROVE FieldLedger'
<1>0. /\ (Rkl' <=> Rkl) /\ (Mhd' <=> Mhd) /\ Edges' = Edges /\ DOMAIN mem' = DOMAIN mem
    BY Turn, PartsSame
<1>1. /\ ~(Been("CalcCornerEMF"))' /\ ~(Been("CalcNonidealEMF"))' /\ ~(Been("EvolveMagField"))'
      /\ ~(Been("ReconstructVcField"))'
      /\ ~Been("CalcCornerEMF") /\ ~Been("CalcNonidealEMF") /\ ~Been("EvolveMagField")
    BY Turn, PlaceOf, AllNamed
<1>2. Rkl => AtEdges = {} /\ AtEdges' = {}
    BY <1>0, <1>1 DEF AtEdges, If
<1>3. (Mhd /\ (Rkl \/ Been("CalcCornerEMF")) => \A e \in Edges : Parts(Edge[e]) = AtEdges)'
  <2>1. Mhd => \A e \in Edges : Edge[e] \in DOMAIN mem /\ Edge[e] \notin PerSweep
      BY EdgeArrays DEF PerSweep
  <2>2. Mhd => \A e \in Edges : mem'[Edge[e]] = mem[Edge[e]]
      BY <2>1, Turn
  <2>3. Mhd /\ Rkl => \A e \in Edges : mem[Edge[e]].parts = {}
      BY <1>2 DEF FieldLedger, Parts
  <2> QED BY <1>0, <1>1, <1>2, <2>2, <2>3 DEF Parts
<1>4. (\A a \in FaceArrays \cap DOMAIN mem : ~Been("EvolveMagField") => Parts(a) = {})'
  <2>1. FaceArrays' = FaceArrays
      BY DEF FaceArrays, Names, BXs, dB, Ve, dA, Dirs
  <2>2. \A a \in FaceArrays : a \notin PerSweep
      BY FaceNamesOf DEF FaceNames, PerSweep
  <2>3. \A a \in FaceArrays \cap DOMAIN mem : mem'[a] = mem[a] /\ mem[a].parts = {}
      BY <1>1, <2>2, Turn DEF FieldLedger, Parts
  <2> QED BY <1>0, <2>1, <2>3 DEF Parts
<1> QED BY <1>1, <1>3, <1>4 DEF FieldLedger

LEMMA LedgerTurn == ASSUME StageInv, Ledger, NextDir PROVE Ledger'
<1>1. OrderInv /\ FluxLedger /\ CellLedger /\ FrameLedger /\ FieldLedger /\ Clean
    BY DEF Ledger
<1>2. Clean'
    BY <1>1, Turn DEF Clean
<1> QED BY <1>1, <1>2, OrderOthers, TurnFlux, TurnCells, TurnFrame, TurnField DEF Ledger
-----------------------------------------------------------------------------
(* The books of every stage that a run reaches.                               *)

LEMMA BeenSame ==
    ASSUME conf' = conf, dir' = dir, pc' = pc, NEW call PROVE (Been(call))' <=> Been(call)
<1>1. (Wanted(call))' <=> Wanted(call)
    BY WantedSame
<1>2. (Place(call))' = Place(call) /\ (Place(pc))' = Place(pc)
    BY DEF Place, Calls
<1> QED BY <1>1, <1>2 DEF Been

LEMMA DoneSame ==
    ASSUME conf' = conf, dir' = dir, pc' = pc, NEW call PROVE (Done(call))' = Done(call)
BY BeenSame DEF Done, If

LEMMA HeldSame ==
    ASSUME conf' = conf, dir' = dir, pc' = pc
    PROVE HeldFlux' = HeldFlux /\ HeldLimit' = HeldLimit /\ AtEdges' = AtEdges
<1>1. /\ (Been("AddNonIdealMHDFlux"))' <=> Been("AddNonIdealMHDFlux")
      /\ (Been("AddViscousFlux"))' <=> Been("AddViscousFlux")
      /\ (Been("AddDiffusiveFlux"))' <=> Been("AddDiffusiveFlux")
      /\ (Been("AddBragViscousFlux"))' <=> Been("AddBragViscousFlux")
      /\ (Been("AddBragDiffusiveFlux"))' <=> Been("AddBragDiffusiveFlux")
      /\ (Been("CorrectFlux"))' <=> Been("CorrectFlux")
      /\ (Been("CalcNonidealEMF"))' <=> Been("CalcNonidealEMF")
    BY BeenSame
<1>2. (Rkl' <=> Rkl) /\ NonIdeal' = NonIdeal /\ Stress' = Stress
    BY PartsSame
<1>3. (MeanOf("fargo", "rotation", dir))' = MeanOf("fargo", "rotation", dir)
  <2>1. PICK d : d = dir
      OBVIOUS
  <2>2. (MeanOf("fargo", "rotation", d))' = MeanOf("fargo", "rotation", d)
      BY SharesSame
  <2>3. (MeanOf("fargo", "rotation", dir))' = (MeanOf("fargo", "rotation", d))'
      BY <2>1 DEF MeanOf
  <2> QED BY <2>1, <2>2, <2>3
<1>4. HeldFlux' = HeldFlux
    BY <1>1, <1>2, <1>3 DEF HeldFlux, If, Hyperbolic, One
<1>5. HeldLimit' = HeldLimit
    BY <1>1, <1>2 DEF HeldLimit, If, One
<1>6. AtEdges' = AtEdges
    BY <1>1, <1>2 DEF AtEdges, If, Hyperbolic
<1> QED BY <1>4, <1>5, <1>6

LEMMA LedgerStutter == ASSUME Ledger, UNCHANGED vars PROVE Ledger'
<1>1. conf' = conf /\ dir' = dir /\ mem' = mem /\ pc' = pc
    BY DEF vars
<1>2. \A call : (Been(call))' <=> Been(call)
    BY <1>1, BeenSame
<1>3. HeldFlux' = HeldFlux /\ HeldLimit' = HeldLimit /\ AtEdges' = AtEdges
    BY <1>1, HeldSame
<1>4. OrderInv'
  <2>1. (Place(pc))' = Place(pc) /\ (LoopDirs' <=> LoopDirs)
      BY <1>1, LoopDirsSame DEF Place, Calls
  <2> QED BY <1>1, <2>1 DEF Ledger, OrderInv
<1>5. FluxLedger'
  <2>1. FluxLedger
      BY DEF Ledger
  <2>2. Rkl' <=> Rkl
      BY <1>1, PartsSame
  <2> QED BY <1>1, <1>2, <1>3, <2>1, <2>2 DEF FluxLedger, Parts, Hyperbolic, Scaled, One
<1>6. CellLedger'
  <2>1. CellLedger
      BY DEF Ledger
  <2>2. (Rkl' <=> Rkl) /\ SourceParts' = SourceParts
      BY <1>1, PartsSame
  <2>3. PICK S, T : S = Done("CalcRightHandSide") /\ T = Done("TracerCalcRightHandSide")
      OBVIOUS
  <2>4. (Done("CalcRightHandSide"))' = S /\ (Done("TracerCalcRightHandSide"))' = T
      BY <1>1, <2>3, DoneSame
  <2>5. /\ (Shares(Done("CalcRightHandSide")))' = Shares(S)
        /\ (SharesRKL(Done("CalcRightHandSide")))' = SharesRKL(S)
        /\ (LimitShares(Done("CalcRightHandSide")))' = LimitShares(S)
    <3>1. /\ (Shares(Done("CalcRightHandSide")))' = (Shares(S))'
          /\ (SharesRKL(Done("CalcRightHandSide")))' = (SharesRKL(S))'
          /\ (LimitShares(Done("CalcRightHandSide")))' = (LimitShares(S))'
        BY <2>4 DEF Shares, SharesRKL, LimitShares
    <3> QED BY <1>1, <3>1, UnionsSame
  <2>6. ~Rkl => Parts("Uc") = Shares(S) \cup If(Been("AddSourceTerms"), SourceParts)
                              \cup If(Been("AddDragForce"), One("drag"))
      BY <2>1, <2>3 DEF CellLedger
  <2>7. Rkl => Parts("dU") = SharesRKL(S)
      BY <2>1, <2>3 DEF CellLedger
  <2>8. conf.cycle # "rklAgain" =>
            Parts("InvDt") = LimitShares(S) \cup If(Been("AddDragForce"), One("drag"))
      BY <2>1, <2>3 DEF CellLedger
  <2>9. conf.tracer /\ ~Rkl => Parts("UcTracer") = {<<"tracer", d>> : d \in T}
      BY <2>1, <2>3 DEF CellLedger
  <2>10. conf.drag /\ ~Been("AddDragForce") => Parts("UcGas") = {}
      BY <2>1 DEF CellLedger
  <2> QED BY <1>1, <1>2, <2>2, <2>4, <2>5, <2>6, <2>7, <2>8, <2>9, <2>10 DEF CellLedger, Parts, If, One
<1>7. FrameLedger'
    BY <1>1, <1>2 DEF Ledger, FrameLedger, Parts, If, One
<1>8. FieldLedger'
  <2>1. FieldLedger
      BY DEF Ledger
  <2>2. /\ (Rkl' <=> Rkl) /\ (Mhd' <=> Mhd) /\ Edges' = Edges /\ Active' = Active
        /\ FaceArrays' = FaceArrays
      BY <1>1, PartsSame DEF FaceArrays, Names, BXs, dB, Ve, dA, Dirs
  <2> QED BY <1>1, <1>2, <1>3, <2>1, <2>2 DEF FieldLedger, Parts
<1>9. Clean'
    BY <1>1 DEF Ledger, Clean
<1> QED BY <1>4, <1>5, <1>6, <1>7, <1>8, <1>9 DEF Ledger

LEMMA LedgerStep == StageInv /\ Ledger /\ [Next]_vars => Ledger'
<1> SUFFICES ASSUME StageInv, Ledger, [Next]_vars PROVE Ledger'
    OBVIOUS
<1>1. CASE NextDir
    BY <1>1, LedgerTurn
<1>2. CASE NextStage
  <2>1. StageInv'
      BY StepInv
  <2>2. Begun'
      BY <1>2, StageBegun
  <2> QED BY <2>1, <2>2, BegunLedger, PTL
<1>3. CASE Next /\ ~NextDir /\ ~NextStage
    BY <1>3, LedgerCall
<1>4. CASE UNCHANGED vars
    BY <1>4, LedgerStutter
<1> QED BY <1>1, <1>2, <1>3, <1>4

LEMMA LedgerInvariant == Spec => [](StageInv /\ Ledger)
<1>1. Init => StageInv /\ Ledger
    BY InitInv, InitBegun, BegunLedger
<1>2. StageInv /\ Ledger /\ [Next]_vars => (StageInv /\ Ledger)'
    BY StepInv, LedgerStep
<1> QED BY <1>1, <1>2, PTL DEF Spec
-----------------------------------------------------------------------------
(* What the frame puts into the fluxes, and what the cells get back.           *)

\* The options that put the mean flow, or the rotation, into the direction d.
Drifts(d) == HaveMean /\ conf.fargo # "no" /\ d \in FargoAcross

Turns(d) == HaveMean /\ conf.rotation /\ d \in RotationAcross

LEMMA MeanName ==
    ASSUME NEW x, NEW y, x # y, NEW d, NEW q \in MeanOf(x, y, d)
    PROVE (q[1] = x => Drifts(d)) /\ (q[1] = y => Turns(d))
<1>1. (q \in One(x) /\ Drifts(d)) \/ (q \in One(y) /\ Turns(d))
    BY DEF MeanOf, If, Drifts, Turns
<1> QED BY <1>1, OneName

LEMMA MeanThere ==
    ASSUME NEW x, NEW y, NEW d
    PROVE (Drifts(d) => <<x, 0>> \in MeanOf(x, y, d)) /\ (Turns(d) => <<y, 0>> \in MeanOf(x, y, d))
BY DEF MeanOf, If, Drifts, Turns, One

LEMMA At0There == ASSUME NEW d, NEW S, NEW x, <<x, 0>> \in S PROVE <<x, d>> \in At0(d, S)
<1>1. PICK q : q = <<x, 0>>
    OBVIOUS
<1>2. q \in S /\ q[1] = x
    BY <1>1
<1> QED BY <1>2 DEF At0

FrameNames == {"fargo", "rotation", "fargoBack", "rotationBack", "deviations"}

\* The parts of the frame that the fluxes of a direction hold.
LEMMA FrameFlux ==
    ASSUME NEW d, NEW q \in FluxOf(d), q[1] \in FrameNames
    PROVE /\ q[1] \notin {"fargoBack", "rotationBack"}
          /\ q[1] = "fargo" => ~Rkl /\ Drifts(d)
          /\ q[1] = "rotation" => ~Rkl /\ Turns(d)
          /\ q[1] = "deviations" => Evolved("viscosity") /\ OffMean
<1>1. \/ q \in Hyperbolic \/ q \in NonIdeal \/ (Evolved("viscosity") /\ q \in Stress)
      \/ q \in One("conduction") \/ q \in One("bragViscosity") \/ q \in One("bragConduction")
      \/ (~Rkl /\ q \in MeanOf("fargo", "rotation", d))
  <2>1. PICK mean, non, stress : mean = MeanOf("fargo", "rotation", d) /\ non = NonIdeal /\ stress = Stress
      OBVIOUS
  <2> QED BY <2>1 DEF FluxOf, If
<1>2. CASE q \in Hyperbolic \/ q \in NonIdeal
    BY <1>2, HyperbolicName, NonIdealNames DEF FrameNames
<1>3. CASE Evolved("viscosity") /\ q \in Stress
  <2>1. q \in One("viscosity") \/ (q \in One("deviations") /\ OffMean)
      BY <1>3 DEF Stress, If
  <2> QED BY <1>3, <2>1, OneName DEF FrameNames
<1>4. CASE q \in One("conduction") \/ q \in One("bragViscosity") \/ q \in One("bragConduction")
    BY <1>4, OneName DEF FrameNames
<1>5. CASE ~Rkl /\ q \in MeanOf("fargo", "rotation", d)
    BY <1>5, MeanNames, MeanName
<1> QED BY <1>1, <1>2, <1>3, <1>4, <1>5

\* And those that a direction brings to the cells.
LEMMA FrameShare ==
    ASSUME NEW d, NEW x \in FrameNames, NEW e, <<x, e>> \in Share(d), ~Rkl
    PROVE /\ e = d
          /\ x \in {"fargo", "fargoBack"} => Drifts(d)
          /\ x \in {"rotation", "rotationBack"} => Turns(d)
          /\ x = "deviations" => Evolved("viscosity") /\ OffMean
<1>1. PICK p : p = <<x, e>>
    OBVIOUS
<1>2. p \in Share(d) /\ p[1] = x /\ p[2] = e
    BY <1>1
<1>3. \/ p \in At0(d, FluxOf(d)) \/ p \in At0(d, MeanOf("fargoBack", "rotationBack", d))
      \/ p \in UNION {Part(s, d) : s \in CurvatureSource} \/ p \in Part("potential", d)
      \/ p \in {<<"body", f>> : f \in BodyOf(d)}
    BY <1>2 DEF Share, If
<1>4. CASE p \in At0(d, FluxOf(d))
  <2>1. PICK q \in FluxOf(d) : p[1] = q[1] /\ p[2] = d
      BY <1>4, At0Name
  <2> QED BY <1>2, <2>1, FrameFlux
<1>5. CASE p \in At0(d, MeanOf("fargoBack", "rotationBack", d))
  <2>1. PICK q \in MeanOf("fargoBack", "rotationBack", d) : p[1] = q[1] /\ p[2] = d
      BY <1>5, At0Name
  <2>2. q[1] \in {"fargoBack", "rotationBack"}
      BY MeanNames
  <2>3. (q[1] = "fargoBack" => Drifts(d)) /\ (q[1] = "rotationBack" => Turns(d))
      BY MeanName
  <2> QED BY <1>2, <2>1, <2>2, <2>3
<1>6. CASE p \in UNION {Part(s, d) : s \in CurvatureSource}
  <2>1. PICK s \in CurvatureSource : p \in Part(s, d)
      BY <1>6
  <2>2. p[1] = s
      BY <2>1, PartName
  <2>3. s \in {"viscSrc", "bragViscSrc"}
      BY <2>1 DEF CurvatureSource
  <2> QED BY <1>2, <2>2, <2>3 DEF FrameNames
<1>7. CASE p \in Part("potential", d)
    BY <1>2, <1>7, PartName DEF FrameNames
<1>8. CASE p \in {<<"body", f>> : f \in BodyOf(d)}
  <2>1. PICK f \in BodyOf(d) : p = <<"body", f>>
      BY <1>8
  <2>2. p[1] = "body"
      BY <2>1
  <2> QED BY <1>2, <2>2 DEF FrameNames
<1> QED BY <1>3, <1>4, <1>5, <1>6, <1>7, <1>8

LEMMA FrameThere ==
    ASSUME ~Rkl, NEW d
    PROVE /\ Drifts(d) => <<"fargo", d>> \in Share(d) /\ <<"fargoBack", d>> \in Share(d)
          /\ Turns(d) => <<"rotation", d>> \in Share(d) /\ <<"rotationBack", d>> \in Share(d)
<1>1. PICK mean : mean = MeanOf("fargo", "rotation", d)
    OBVIOUS
<1>2. mean \subseteq FluxOf(d)
    BY <1>1 DEF FluxOf, If
<1>3. PICK flux, back : flux = At0(d, FluxOf(d)) /\ back = At0(d, MeanOf("fargoBack", "rotationBack", d))
    OBVIOUS
<1>4. flux \subseteq Share(d) /\ back \subseteq Share(d)
    BY <1>3 DEF Share
<1>5. ASSUME Drifts(d) PROVE <<"fargo", d>> \in flux /\ <<"fargoBack", d>> \in back
  <2>1. <<"fargo", 0>> \in FluxOf(d)
      BY <1>1, <1>2, <1>5, MeanThere
  <2> QED BY <1>3, <1>5, <2>1, MeanThere, At0There
<1>6. ASSUME Turns(d) PROVE <<"rotation", d>> \in flux /\ <<"rotationBack", d>> \in back
  <2>1. <<"rotation", 0>> \in FluxOf(d)
      BY <1>1, <1>2, <1>6, MeanThere
  <2> QED BY <1>3, <1>6, <2>1, MeanThere, At0There
<1> QED BY <1>4, <1>5, <1>6

\* What the source terms and the drag bring is not of the frame.
LEMMA FrameCells ==
    ASSUME StageInv, CellLedger, ~Rkl, NEW x \in FrameNames, NEW d
    PROVE <<x, d>> \in mem["Uc"].parts <=> \E e \in Done("CalcRightHandSide") : <<x, d>> \in Share(e)
<1>1. PICK S : S = Done("CalcRightHandSide")
    OBVIOUS
<1>2. PICK p : p = <<x, d>>
    OBVIOUS
<1>3. p[1] = x
    BY <1>2
<1>4. mem["Uc"].parts = Shares(S) \cup If(Been("AddSourceTerms"), SourceParts)
                        \cup If(Been("AddDragForce"), One("drag"))
    BY <1>1 DEF CellLedger, Parts
<1>5. p \notin SourceParts
  <2>1. SUFFICES ASSUME p \in SourceParts PROVE FALSE
      OBVIOUS
  <2>2. p \in Part("curvature", 0) \/ p \in Part("coriolis", 0)
      BY <2>1 DEF SourceParts
  <2> QED BY <1>3, <2>2, PartName DEF FrameNames
<1>6. p \notin One("drag")
    BY <1>3, OneName DEF FrameNames
<1>7. p \in mem["Uc"].parts <=> p \in Shares(S)
    BY <1>4, <1>5, <1>6 DEF If
<1> QED BY <1>1, <1>2, <1>7, SharesOf

\* An RKL cycle has no frame, but for the work of the deviations.
LEMMA FrameRKL ==
    ASSUME CellLedger, Rkl, NEW x \in FrameNames, NEW d, <<x, d>> \in mem["dU"].parts
    PROVE x = "deviations" /\ Evolved("viscosity") /\ OffMean
<1>1. PICK p : p = <<x, d>>
    OBVIOUS
<1>2. p[1] = x
    BY <1>1
<1>3. PICK S : S = Done("CalcRightHandSide")
    OBVIOUS
<1>4. p \in SharesRKL(S)
    BY <1>1, <1>3 DEF CellLedger, Parts
<1>5. PICK e \in S : p \in ShareRKL(e)
    BY <1>4, SharesOf
<1>6. p \in At0(e, FluxOf(e)) \/ p \in Part("viscSrc", e) \/ p \in Part("bragViscSrc", e)
    BY <1>5 DEF ShareRKL, If
<1>7. CASE p \in At0(e, FluxOf(e))
  <2>1. PICK q \in FluxOf(e) : p[1] = q[1]
      BY <1>7, At0Name
  <2> QED BY <1>2, <2>1, FrameFlux DEF FrameNames
<1>8. CASE p \in Part("viscSrc", e) \/ p \in Part("bragViscSrc", e)
    BY <1>2, <1>8, PartName DEF FrameNames
<1> QED BY <1>6, <1>7, <1>8

\* What the mean flow and the rotation add to the fluxes is taken back at the cells, in
\* the same directions, and the energy is of the frame in which the stress works.
THEOREM StagesBalanceFrames == Spec => []FrameTermsBalance
<1>1. ASSUME StageInv, Ledger PROVE FrameTermsBalance
  <2>0. CellLedger
      BY <1>1 DEF Ledger
  <2>1. CASE Rkl
    <3>1. \A x \in FrameNames : \A d : <<x, d>> \in mem["dU"].parts =>
              x = "deviations" /\ Evolved("viscosity") /\ OffMean
        BY <2>0, <2>1, FrameRKL
    <3>2. \A x \in {"fargo", "rotation", "fargoBack", "rotationBack"} : Where(x) = {}
        BY <2>1, <3>1 DEF Where, FrameNames
    <3>3. ~MixedFrames => Where("deviations") = {}
        BY <2>1, <3>1 DEF Where, FrameNames, MixedFrames
    <3>4. Where("fargo") = Where("fargoBack") /\ Where("rotation") = Where("rotationBack")
        BY <3>2
    <3> QED BY <3>3, <3>4 DEF FrameTermsBalance
  <2>2. CASE ~Rkl
    <3>1. PICK S : S = Done("CalcRightHandSide")
        OBVIOUS
    <3>2. \A x \in FrameNames : \A d :
              <<x, d>> \in mem["Uc"].parts <=> \E e \in S : <<x, d>> \in Share(e)
        BY <1>1, <2>0, <2>2, <3>1, FrameCells
    <3>3. \A x \in FrameNames : \A d, e : <<x, d>> \in Share(e) =>
              /\ d = e
              /\ x \in {"fargo", "fargoBack"} => Drifts(d)
              /\ x \in {"rotation", "rotationBack"} => Turns(d)
              /\ x = "deviations" => Evolved("viscosity") /\ OffMean
        BY <2>2, FrameShare
    <3>4. \A d : Drifts(d) => <<"fargo", d>> \in Share(d) /\ <<"fargoBack", d>> \in Share(d)
        BY <2>2, FrameThere
    <3>5. \A d : Turns(d) => <<"rotation", d>> \in Share(d) /\ <<"rotationBack", d>> \in Share(d)
        BY <2>2, FrameThere
    <3>6. \A d : /\ <<"fargo", d>> \in mem["Uc"].parts <=> d \in S /\ Drifts(d)
                 /\ <<"fargoBack", d>> \in mem["Uc"].parts <=> d \in S /\ Drifts(d)
      <4>1. \A d : /\ <<"fargo", d>> \in mem["Uc"].parts => d \in S /\ Drifts(d)
                   /\ d \in S /\ Drifts(d) => <<"fargo", d>> \in mem["Uc"].parts
        <5>1. "fargo" \in FrameNames
            BY DEF FrameNames
        <5>2. \A d : <<"fargo", d>> \in mem["Uc"].parts <=> \E e \in S : <<"fargo", d>> \in Share(e)
            BY <3>2, <5>1
        <5>3. \A d, e : <<"fargo", d>> \in Share(e) => d = e /\ Drifts(d)
            BY <3>3, <5>1
        <5>4. ASSUME NEW d, <<"fargo", d>> \in mem["Uc"].parts PROVE d \in S /\ Drifts(d)
          <6>1. PICK e \in S : <<"fargo", d>> \in Share(e)
              BY <5>2, <5>4
          <6> QED BY <5>3, <6>1
        <5>5. ASSUME NEW d, d \in S, Drifts(d) PROVE <<"fargo", d>> \in mem["Uc"].parts
          <6>1. <<"fargo", d>> \in Share(d)
              BY <3>4, <5>5
          <6> QED BY <5>2, <5>5, <6>1
        <5> QED BY <5>4, <5>5
      <4>2. \A d : /\ <<"fargoBack", d>> \in mem["Uc"].parts => d \in S /\ Drifts(d)
                   /\ d \in S /\ Drifts(d) => <<"fargoBack", d>> \in mem["Uc"].parts
        <5>1. "fargoBack" \in FrameNames
            BY DEF FrameNames
        <5>2. \A d : <<"fargoBack", d>> \in mem["Uc"].parts <=> \E e \in S : <<"fargoBack", d>> \in Share(e)
            BY <3>2, <5>1
        <5>3. \A d, e : <<"fargoBack", d>> \in Share(e) => d = e /\ Drifts(d)
            BY <3>3, <5>1
        <5>4. ASSUME NEW d, <<"fargoBack", d>> \in mem["Uc"].parts PROVE d \in S /\ Drifts(d)
          <6>1. PICK e \in S : <<"fargoBack", d>> \in Share(e)
              BY <5>2, <5>4
          <6> QED BY <5>3, <6>1
        <5>5. ASSUME NEW d, d \in S, Drifts(d) PROVE <<"fargoBack", d>> \in mem["Uc"].parts
          <6>1. <<"fargoBack", d>> \in Share(d)
              BY <3>4, <5>5
          <6> QED BY <5>2, <5>5, <6>1
        <5> QED BY <5>4, <5>5
      <4> QED BY <4>1, <4>2
    <3>7. \A d : /\ <<"rotation", d>> \in mem["Uc"].parts <=> d \in S /\ Turns(d)
                 /\ <<"rotationBack", d>> \in mem["Uc"].parts <=> d \in S /\ Turns(d)
      <4>1. \A d : /\ <<"rotation", d>> \in mem["Uc"].parts => d \in S /\ Turns(d)
                   /\ d \in S /\ Turns(d) => <<"rotation", d>> \in mem["Uc"].parts
        <5>1. "rotation" \in FrameNames
            BY DEF FrameNames
        <5>2. \A d : <<"rotation", d>> \in mem["Uc"].parts <=> \E e \in S : <<"rotation", d>> \in Share(e)
            BY <3>2, <5>1
        <5>3. \A d, e : <<"rotation", d>> \in Share(e) => d = e /\ Turns(d)
            BY <3>3, <5>1
        <5>4. ASSUME NEW d, <<"rotation", d>> \in mem["Uc"].parts PROVE d \in S /\ Turns(d)
          <6>1. PICK e \in S : <<"rotation", d>> \in Share(e)
              BY <5>2, <5>4
          <6> QED BY <5>3, <6>1
        <5>5. ASSUME NEW d, d \in S, Turns(d) PROVE <<"rotation", d>> \in mem["Uc"].parts
          <6>1. <<"rotation", d>> \in Share(d)
              BY <3>5, <5>5
          <6> QED BY <5>2, <5>5, <6>1
        <5> QED BY <5>4, <5>5
      <4>2. \A d : /\ <<"rotationBack", d>> \in mem["Uc"].parts => d \in S /\ Turns(d)
                   /\ d \in S /\ Turns(d) => <<"rotationBack", d>> \in mem["Uc"].parts
        <5>1. "rotationBack" \in FrameNames
            BY DEF FrameNames
        <5>2. \A d : <<"rotationBack", d>> \in mem["Uc"].parts <=> \E e \in S : <<"rotationBack", d>> \in Share(e)
            BY <3>2, <5>1
        <5>3. \A d, e : <<"rotationBack", d>> \in Share(e) => d = e /\ Turns(d)
            BY <3>3, <5>1
        <5>4. ASSUME NEW d, <<"rotationBack", d>> \in mem["Uc"].parts PROVE d \in S /\ Turns(d)
          <6>1. PICK e \in S : <<"rotationBack", d>> \in Share(e)
              BY <5>2, <5>4
          <6> QED BY <5>3, <6>1
        <5>5. ASSUME NEW d, d \in S, Turns(d) PROVE <<"rotationBack", d>> \in mem["Uc"].parts
          <6>1. <<"rotationBack", d>> \in Share(d)
              BY <3>5, <5>5
          <6> QED BY <5>2, <5>5, <6>1
        <5> QED BY <5>4, <5>5
      <4> QED BY <4>1, <4>2
    <3>8. \A d : <<"deviations", d>> \in mem["Uc"].parts => d \in S /\ OffMean
        BY <3>2, <3>3 DEF FrameNames
    <3>9. Where("fargo") = Where("fargoBack") /\ Where("rotation") = Where("rotationBack")
        BY <2>2, <3>6, <3>7 DEF Where
    <3>10. Where("deviations") \cap FargoAcross \subseteq Where("fargo")
        BY <2>2, <3>6, <3>8 DEF Where, Drifts, OffMean
    <3> QED BY <3>9, <3>10 DEF FrameTermsBalance
  <2> QED BY <2>1, <2>2
<1> QED BY <1>1, LedgerInvariant, PTL
-----------------------------------------------------------------------------
(* Which velocity a kernel sees. *)

\* The statements that read the velocity write to these arrays.
Sees(loop, S) == \A s \in loop.does : (\E r \in s.ins : r[1] = "Vc") => s.out \in S

Seen(loops, S) == (\E M : loops \in Seq(M)) /\ \A i \in 1..Len(loops) : Sees(loops[i], S)

LEMMA OneSeen == ASSUME NEW loop, NEW S, Sees(loop, S) PROVE Seen(<<loop>>, S)
<1>1. PICK loops : loops = <<loop>>
    OBVIOUS
<1>2. loops \in Seq({loop}) /\ Len(loops) = 1 /\ loops[1] = loop
    BY <1>1
<1>3. \A i \in 1..Len(loops) : loops[i] = loop
    BY <1>2
<1>4. \E M : loops \in Seq(M)
    BY <1>2
<1> QED BY <1>1, <1>3, <1>4 DEF Seen

LEMMA NoneSeen == ASSUME NEW S PROVE Seen(<<>>, S)
<1>1. <<>> \in Seq({}) /\ Len(<<>>) = 0
    OBVIOUS
<1> QED BY <1>1 DEF Seen

LEMMA JoinSeen == ASSUME NEW f, NEW g, NEW S, Seen(f, S), Seen(g, S) PROVE Seen(f \o g, S)
<1>1. PICK M : f \in Seq(M)
    BY DEF Seen
<1>2. PICK N : g \in Seq(N)
    BY DEF Seen
<1>3. f \in Seq(M \cup N) /\ g \in Seq(M \cup N)
    BY <1>1, <1>2
<1>4. PICK h : h = f \o g
    OBVIOUS
<1>5. /\ h \in Seq(M \cup N) /\ Len(h) = Len(f) + Len(g) /\ Len(f) \in Nat /\ Len(g) \in Nat
      /\ \A i \in 1..Len(f) : h[i] = f[i]
      /\ \A i \in 1..Len(h) : i > Len(f) => h[i] = g[i - Len(f)]
    BY <1>3, <1>4
<1>6. \A i \in 1..Len(h) : i \in 1..Len(f) \/ (i > Len(f) /\ i - Len(f) \in 1..Len(g))
    BY <1>5
<1>7. ASSUME NEW i \in 1..Len(h) PROVE Sees(h[i], S)
  <2>1. CASE i \in 1..Len(f)
      BY <1>5, <2>1 DEF Seen
  <2>2. CASE i > Len(f)
      BY <1>5, <1>6, <2>2 DEF Seen
  <2> QED BY <1>6, <2>1, <2>2
<1> QED BY <1>4, <1>5, <1>7 DEF Seen

LEMMA UserSeen ==
    ASSUME NEW arrays, NEW term, NEW S, arrays \subseteq S PROVE Seen(UserDiffusivity(arrays, term), S)
<1>1. CASE conf.terms[term] = "userdef" /\ dir = IDIR
  <2> DEFINE does == {Set(a, {<<"Vc", Here>>}, {}) : a \in arrays}
             loop == Loop(Wherever, does)
  <2>1. \A s \in does : s.out \in S
      BY Entered
  <2>2. loop.does = does
      BY DEF Loop
  <2>3. Sees(loop, S)
      BY <2>1, <2>2 DEF Sees
  <2>4. UserDiffusivity(arrays, term) = <<loop>>
      BY <1>1 DEF UserDiffusivity
  <2> HIDE DEF loop
  <2> QED BY <2>3, <2>4, OneSeen
<1>2. CASE ~(conf.terms[term] = "userdef" /\ dir = IDIR)
    BY <1>2, NoneSeen DEF UserDiffusivity
<1> QED BY <1>1, <1>2

ViscousOuts == {"Flux", "dMax", "viscSrc", "eta1", "eta2"}

LEMMA ViscousSeen == ASSUME Setting PROVE Seen(AddViscousFlux, ViscousOuts)
<1> DEFINE does == <<ViscousFluxIDIR, ViscousFluxJDIR, ViscousFluxKDIR>>[dir]
           loop == Loop(Faces(dir), does)
<1>1. \E mean, ins : does = ViscousStress(mean) \cup Curvature("viscSrc", ins)
  <2>1. CASE dir = 1 BY <2>1 DEF ViscousFluxIDIR
  <2>2. CASE dir = 2 BY <2>2 DEF ViscousFluxJDIR
  <2>3. CASE dir = 3 BY <2>3 DEF ViscousFluxKDIR
  <2> QED BY <2>1, <2>2, <2>3, ConfType DEF Dirs
<1>2. loop.does = does
    BY DEF Loop
<1>3. AddViscousFlux = UserDiffusivity({"eta1", "eta2"}, "viscosity") \o <<loop>>
    BY DEF AddViscousFlux
<1> HIDE DEF does
<1>4. PICK mean, ins : does = ViscousStress(mean) \cup Curvature("viscSrc", ins)
    BY <1>1
<1>5. ASSUME NEW s \in does PROVE s.out \in ViscousOuts
  <2>1. s \in ViscousStress(mean) \/ s \in Curvature("viscSrc", ins)
      BY <1>4
  <2>2. s \in ViscousStress(mean) => s.out \in {"Flux", "dMax"}
      BY Entered DEF ViscousStress, Limiting
  <2>3. s \in Curvature("viscSrc", ins) => s.out = "viscSrc"
      BY Entered DEF Curvature
  <2> QED BY <2>1, <2>2, <2>3 DEF ViscousOuts
<1>6. Sees(loop, ViscousOuts)
    BY <1>2, <1>5 DEF Sees
<1> HIDE DEF loop
<1>7. {"eta1", "eta2"} \subseteq ViscousOuts
    BY DEF ViscousOuts
<1>8. Seen(UserDiffusivity({"eta1", "eta2"}, "viscosity"), ViscousOuts)
    BY <1>7, UserSeen
<1>9. Seen(<<loop>>, ViscousOuts)
    BY <1>6, OneSeen
<1> QED BY <1>3, <1>8, <1>9, JoinSeen

LEMMA AddVelocitySeen == Seen(AddVelocityLoops, {"Vc"})
<1> DEFINE s == Add("Vc", {}, Part("mean", 0))
           loop == Loop(Wherever, {s})
           t == Set("fargoVelocity", {}, {})
           first == Loop(Wherever, {t})
<1>1. s.out = "Vc" /\ t.ins = {}
    BY DEF Add, Set
<1>2. loop.does = {s} /\ first.does = {t}
    BY DEF Loop
<1>3. AddVelocityLoops = (IF conf.fargo = "userdef" THEN <<first>> ELSE <<>>) \o <<loop>>
    BY DEF AddVelocityLoops, GetFargoVelocity
<1> HIDE DEF s, t, loop, first
<1>4. Sees(loop, {"Vc"})
    BY <1>1, <1>2 DEF Sees
<1>5. Sees(first, {"Vc"})
    BY <1>1, <1>2 DEF Sees
<1>6. Seen(IF conf.fargo = "userdef" THEN <<first>> ELSE <<>>, {"Vc"})
    BY <1>5, OneSeen, NoneSeen
<1>7. Seen(<<loop>>, {"Vc"})
    BY <1>4, OneSeen
<1> QED BY <1>3, <1>6, <1>7, JoinSeen

LEMMA SeenStatement ==
    ASSUME NEW loops, NEW S, Seen(loops, S), last' = loops,
           NEW x \in Statements', \E r \in x[2].ins : r[1] = "Vc"
    PROVE x[2].out \in S
<1>1. PICK i \in DOMAIN loops : x \in {<<loops[i], s>> : s \in loops[i].does}
    BY DEF Statements
<1>2. DOMAIN loops = 1..Len(loops)
    BY DEF Seen
<1>3. x[2] \in loops[i].does
    BY <1>1
<1> QED BY <1>1, <1>2, <1>3 DEF Seen, Sees

\* What the velocity holds before a call.
LEMMA FrameAt ==
    ASSUME StageInv, FrameLedger
    PROVE (Part("mean", 0) \subseteq mem["Vc"].parts) <=> Place(pc) \in 9..10 /\ AddsMean
<1>1. Wanted("AddVelocityFluid") /\ Wanted("SubstractVelocityFluid") <=> AddsMean /\ LoopDirs
  <2>1. Sweep("AddVelocityFluid") /\ Sweep("SubstractVelocityFluid")
    <3>1. Calls[8] = "AddVelocityFluid" /\ Calls[10] = "SubstractVelocityFluid" /\ 8 \in 5..18 /\ 10 \in 5..18
        BY DEF Calls
    <3> QED BY <3>1 DEF Sweep
  <2> QED BY <2>1 DEF Wanted
<1>2. AddsMean => LoopDirs
    BY DEF AddsMean, LoopDirs
<1>3. Wanted("AddVelocityFluid") <=> Wanted("SubstractVelocityFluid")
  <2>1. Sweep("AddVelocityFluid") /\ Sweep("SubstractVelocityFluid")
    <3>1. Calls[8] = "AddVelocityFluid" /\ Calls[10] = "SubstractVelocityFluid" /\ 8 \in 5..18 /\ 10 \in 5..18
        BY DEF Calls
    <3> QED BY <3>1 DEF Sweep
  <2> QED BY <2>1 DEF Wanted
<1>4. Place(pc) \in 1..25
    BY PlaceNamed DEF StageInv
<1>5. Been("AddVelocityFluid") /\ ~Been("SubstractVelocityFluid") <=> Place(pc) \in 9..10 /\ AddsMean
    BY <1>1, <1>2, <1>3, <1>4, PlaceOf DEF Been
<1>6. mem["Vc"].parts = If(Place(pc) \in 9..10 /\ AddsMean, One("mean"))
    BY <1>5 DEF FrameLedger, Parts, If
<1> QED BY <1>6 DEF If, One, Part

\* Between the two, a single call is made.
LEMMA ViscousNext ==
    ASSUME StageInv, AddsMean, NEW call, NEW loops, Posted(call, loops), Place(pc') \in 9..10
    PROVE \/ call = "AddVelocityFluid" /\ pc' = "AddViscousFlux"
          \/ call = "AddViscousFlux" /\ pc' = "SubstractVelocityFluid"
<1>1. call \in Named /\ pc' = Following(call) /\ call # "done"
    BY DEF Posted, Call
<1>2. PICK next : next = Following(call)
    OBVIOUS
<1>3. next \in Named
    BY <1>1, <1>2, FollowingWanted
<1>4. /\ Place(call) < Place(next)
      /\ \A other \in Named : Place(call) < Place(other) /\ Place(other) < Place(next) => ~Wanted(other)
    BY <1>1, <1>2, FollowingPlace
<1>5. Wanted("AddVelocityFluid") /\ Wanted("AddViscousFlux")
    BY DEF Wanted, AddsMean, LoopDirs
<1>6. Place(call) \in 1..25 /\ Place(next) \in 9..10 /\ pc' = next
    BY <1>1, <1>2, <1>3, PlaceNamed
<1>7. "AddVelocityFluid" \in Named /\ "AddViscousFlux" \in Named
    BY AllNamed
<1>8. \/ Place(call) = 8 /\ Place(next) = 9
      \/ Place(call) = 9 /\ Place(next) = 10
  <2>1. Place(next) = 9 => ~(Place(call) < 8)
      BY <1>4, <1>5, <1>6, <1>7, PlaceOf
  <2>2. Place(next) = 10 => ~(Place(call) < 9)
      BY <1>4, <1>5, <1>6, <1>7, PlaceOf
  <2> QED BY <1>4, <1>6, <2>1, <2>2
<1>9. Calls[8] = "AddVelocityFluid" /\ Calls[9] = "AddViscousFlux" /\ Calls[10] = "SubstractVelocityFluid"
    BY DEF Calls
<1>10. Calls[Place(call)] = call /\ Calls[Place(next)] = next
    BY <1>1, <1>3, PlaceNamed
<1> QED BY <1>6, <1>8, <1>9, <1>10

LEMMA NoStatements == last = <<>> => Statements = {}
<1> SUFFICES ASSUME last = <<>> PROVE Statements = {}
    OBVIOUS
<1>1. DOMAIN last = {}
    OBVIOUS
<1> QED BY <1>1 DEF Statements

LEMMA ViscousCall ==
    ASSUME StageInv, Ledger, StageInv', Ledger', Next, ~NextDir, ~NextStage PROVE ViscousFrame'
<1>1. PICK call : \E loops : Posted(call, loops)
    BY CallsArePosted
<1>2. PICK loops : Posted(call, loops)
    BY <1>1
<1>3. pc = call /\ last' = loops /\ conf' = conf /\ dir' = dir
    BY <1>2 DEF Posted, Call, Launch
<1>4. AddsMean' <=> AddsMean
    BY <1>3 DEF AddsMean, Rkl, Evolved
<1>5. ((Part("mean", 0) \subseteq mem["Vc"].parts) <=> Place(pc) \in 9..10 /\ AddsMean)'
  <2>1. StageInv' /\ FrameLedger'
      BY DEF Ledger
  <2> QED BY <2>1, FrameAt, PTL
<1>6. (Place(pc))' = Place(pc')
    BY DEF Place, Calls
<1>7. pc' = "SubstractVelocityFluid" => (Place(pc))' = 10
    BY <1>6, PlaceOf
<1>8. CASE ~((Place(pc))' \in 9..10 /\ AddsMean)
  <2>1. ~(AddsMean' /\ pc' = "SubstractVelocityFluid")
      BY <1>4, <1>7, <1>8
  <2>2. ~(Part("mean", 0) \subseteq mem["Vc"].parts)'
      BY <1>4, <1>5, <1>8
  <2> QED BY <2>1, <2>2 DEF ViscousFrame
<1>9. CASE (Place(pc))' \in 9..10 /\ AddsMean
  <2>1. (Part("mean", 0) \subseteq mem["Vc"].parts)'
      BY <1>4, <1>5, <1>9
  <2>2. \/ call = "AddVelocityFluid" /\ pc' = "AddViscousFlux"
        \/ call = "AddViscousFlux" /\ pc' = "SubstractVelocityFluid"
      BY <1>2, <1>6, <1>9, ViscousNext
  <2>3. CASE call = "AddVelocityFluid"
    <3>1. last' = AddVelocityLoops
      <4>1. pc = "AddVelocityFluid"
          BY <1>3, <2>3
      <4>2. Call("AddVelocityFluid", AddVelocityLoops)
          BY <4>1 DEF Next, AddVelocityFluid, AddVelocityLoops, ResetStage, Currents, HallDiffusivity, Refresh,
             RiemannFlux, Diffusion, NonIdealFlux, ViscousFluxes, SubstractVelocityFluid,
             HeatFlux, BragViscousFlux, BragHeatFlux, TracerFlux, TotalFlux, CalcRightHandSide,
             TracerRightHandSide, SourceTerms, DragForce, CornerEMF, NonidealEMF, MagField, CentredField, Call
      <4> QED BY <4>2 DEF Call, Launch
    <3>2. Seen(loops, {"Vc"})
        BY <1>3, <3>1, AddVelocitySeen
    <3>3. \A x \in Statements' : (\E r \in x[2].ins : r[1] = "Vc") => x[2].out = "Vc"
        BY <1>3, <3>2, SeenStatement
    <3> QED BY <3>3 DEF ViscousFrame
  <2>4. CASE call = "AddViscousFlux"
    <3>1. last' = AddViscousFlux
      <4>1. pc = "AddViscousFlux"
          BY <1>3, <2>4
      <4>2. Call("AddViscousFlux", AddViscousFlux)
          BY <4>1 DEF Next, AddVelocityFluid, ResetStage, Currents, HallDiffusivity, Refresh,
             RiemannFlux, Diffusion, NonIdealFlux, ViscousFluxes, SubstractVelocityFluid,
             HeatFlux, BragViscousFlux, BragHeatFlux, TracerFlux, TotalFlux, CalcRightHandSide,
             TracerRightHandSide, SourceTerms, DragForce, CornerEMF, NonidealEMF, MagField, CentredField, Call
      <4> QED BY <4>2 DEF Call, Launch
    <3>2. Seen(loops, ViscousOuts)
        BY <1>3, <3>1, ViscousSeen DEF StageInv
    <3>3. \A x \in Statements' : (\E r \in x[2].ins : r[1] = "Vc") => x[2].out \in ViscousOuts
        BY <1>3, <3>2, SeenStatement
    <3>4. AddsMean' /\ pc' = "SubstractVelocityFluid"
        BY <1>4, <1>9, <2>2, <2>4
    <3> QED BY <2>1, <3>3, <3>4 DEF ViscousFrame, ViscousOuts
  <2> QED BY <2>2, <2>3, <2>4
<1> QED BY <1>8, <1>9

LEMMA ViscousStutter == ASSUME ViscousFrame, UNCHANGED vars PROVE ViscousFrame'
<1>1. conf' = conf /\ mem' = mem /\ last' = last /\ pc' = pc
    BY DEF vars
<1>2. PICK S : S = Statements
    OBVIOUS
<1>3. Statements' = S
  <2>1. Statements' = UNION {{<<last'[i], s>> : s \in last'[i].does} : i \in DOMAIN last'}
      BY DEF Statements
  <2>2. S = UNION {{<<last[i], s>> : s \in last[i].does} : i \in DOMAIN last}
      BY <1>2 DEF Statements
  <2> QED BY <1>1, <2>1, <2>2
<1>4. AddsMean' <=> AddsMean
    BY <1>1 DEF AddsMean, Rkl, Evolved
<1> QED BY <1>1, <1>2, <1>3, <1>4 DEF ViscousFrame, Part

LEMMA ViscousQuiet == last = <<>> => ViscousFrame
BY NoStatements DEF ViscousFrame

\* The viscous stress of an explicit stage is that of the whole flow, and every other
\* kernel sees the deviations, wherever the fluxes of the stage stand.
THEOREM ViscosityOfTheWholeFlow == Spec => []ViscousFrame
<1>1. Init => ViscousFrame
    BY ViscousQuiet DEF Init
<1>2. /\ StageInv /\ Ledger /\ ViscousFrame /\ StageInv' /\ Ledger' /\ [Next]_vars
      => ViscousFrame'
  <2> SUFFICES ASSUME StageInv, Ledger, ViscousFrame, StageInv', Ledger', [Next]_vars PROVE ViscousFrame'
      OBVIOUS
  <2>1. CASE NextDir \/ NextStage
    <3>1. (last = <<>>)'
        BY <2>1 DEF NextDir, NextStage
    <3> QED BY <3>1, ViscousQuiet, PTL
  <2>2. CASE Next /\ ~NextDir /\ ~NextStage
      BY <2>2, ViscousCall
  <2>3. CASE UNCHANGED vars
      BY <2>3, ViscousStutter
  <2> QED BY <2>1, <2>2, <2>3
<1> QED BY <1>1, <1>2, LedgerInvariant, PTL DEF Spec
-----------------------------------------------------------------------------
(* What the options ask for, against what a stage brings.                      *)

LEMMA TermFlux == ASSUME NEW t \in Diffusive, NEW d PROVE <<t, 0>> \in FluxOf(d)
<1>1. t \in Terms /\ Evolved(t)
    BY DEF Diffusive
<1>2. PICK mean : mean = MeanOf("fargo", "rotation", d)
    OBVIOUS
<1>3. <<t, 0>> \in One(t)
    BY DEF One
<1>4. CASE t \in {"ohmic", "ambipolar"}
  <2>1. <<t, 0>> \in NonIdeal
      BY <1>1, <1>3, <1>4 DEF NonIdeal, If
  <2> QED BY <2>1 DEF FluxOf
<1>5. CASE t = "viscosity"
  <2>1. <<t, 0>> \in Stress
      BY <1>3, <1>5 DEF Stress
  <2>2. Evolved("viscosity")
      BY <1>1, <1>5
  <2> QED BY <2>1, <2>2 DEF FluxOf, If
<1>6. CASE t \in {"conduction", "bragViscosity", "bragConduction"}
    BY <1>1, <1>3, <1>6 DEF FluxOf, If
<1> QED BY <1>1, <1>4, <1>5, <1>6 DEF Terms

LEMMA TermLimit == ASSUME NEW t \in Diffusive, t # "bragConduction" PROVE <<t, 0>> \in LimitOf
<1>1. t \in Terms /\ Evolved(t)
    BY DEF Diffusive
<1>2. <<t, 0>> \in One(t)
    BY DEF One
<1>3. CASE t \in {"ohmic", "ambipolar"}
  <2>1. <<t, 0>> \in NonIdeal
      BY <1>1, <1>2, <1>3 DEF NonIdeal, If
  <2> QED BY <2>1 DEF LimitOf
<1>4. CASE t \in {"viscosity", "conduction", "bragViscosity"}
    BY <1>1, <1>2, <1>4 DEF LimitOf, If
<1> QED BY <1>1, <1>3, <1>4 DEF Terms

LEMMA DueCases ==
    ASSUME NEW d, NEW p \in Due(d)
    PROVE \/ \E t \in Diffusive : p = <<t, d>>
          \/ ~Rkl /\ p = <<"hyperbolic", d>>
          \/ ~Rkl /\ conf.potential /\ p = <<"potential", d>>
          \/ conf.geo # "cartesian" /\ Evolved("viscosity") /\ p = <<"viscSrc", d>>
          \/ /\ conf.geo # "cartesian" /\ Evolved("bragViscosity") /\ (Evolved("viscosity") => Rkl)
             /\ p = <<"bragViscSrc", d>>
BY DEF Due, Part

LEMMA FluxThere ==
    ASSUME NEW d, NEW p, (\E t \in Diffusive : p = <<t, d>>) \/ (~Rkl /\ p = <<"hyperbolic", d>>)
    PROVE p \in At0(d, FluxOf(d))
<1>1. CASE \E t \in Diffusive : p = <<t, d>>
    BY <1>1, TermFlux, At0There
<1>2. CASE ~Rkl /\ p = <<"hyperbolic", d>>
  <2>1. <<"hyperbolic", 0>> \in FluxOf(d)
      BY <1>2 DEF FluxOf, If, Hyperbolic
  <2> QED BY <1>2, <2>1, At0There
<1> QED BY <1>1, <1>2

LEMMA DueShare == ASSUME ~Rkl, NEW d PROVE Due(d) \subseteq Share(d)
<1> SUFFICES ASSUME NEW p \in Due(d) PROVE p \in Share(d)
    OBVIOUS
<1>1. PICK flux : flux = At0(d, FluxOf(d))
    OBVIOUS
<1>2. flux \subseteq Share(d)
    BY <1>1 DEF Share
<1>3. CASE (\E t \in Diffusive : p = <<t, d>>) \/ p = <<"hyperbolic", d>>
    BY <1>1, <1>2, <1>3, FluxThere
<1>4. CASE conf.potential /\ p = <<"potential", d>>
    BY <1>4 DEF Share, If, Part
<1>5. ASSUME NEW s \in CurvatureSource, p = <<s, d>> PROVE p \in Share(d)
  <2>1. PICK sources : sources = UNION {Part(x, d) : x \in CurvatureSource}
      OBVIOUS
  <2>2. p \in Part(s, d)
      BY <1>5 DEF Part
  <2>3. p \in sources
      BY <2>1, <2>2
  <2>4. sources \subseteq Share(d)
      BY <2>1 DEF Share
  <2> QED BY <2>3, <2>4
<1>6. CASE conf.geo # "cartesian" /\ Evolved("viscosity") /\ p = <<"viscSrc", d>>
  <2>1. "viscSrc" \in CurvatureSource
      BY <1>6 DEF CurvatureSource
  <2> QED BY <1>5, <1>6, <2>1
<1>7. CASE conf.geo # "cartesian" /\ Evolved("bragViscosity") /\ ~Evolved("viscosity") /\ p = <<"bragViscSrc", d>>
  <2>1. "bragViscSrc" \in CurvatureSource
      BY <1>7 DEF CurvatureSource
  <2> QED BY <1>5, <1>7, <2>1
<1> QED BY <1>3, <1>4, <1>6, <1>7, DueCases

LEMMA DueRKL == ASSUME Rkl, NEW d PROVE Due(d) \subseteq ShareRKL(d)
<1> SUFFICES ASSUME NEW p \in Due(d) PROVE p \in ShareRKL(d)
    OBVIOUS
<1>1. PICK flux : flux = At0(d, FluxOf(d))
    OBVIOUS
<1>2. flux \subseteq ShareRKL(d)
    BY <1>1 DEF ShareRKL
<1>3. CASE \E t \in Diffusive : p = <<t, d>>
    BY <1>1, <1>2, <1>3, FluxThere
<1>4. CASE \/ conf.geo # "cartesian" /\ Evolved("viscosity") /\ p = <<"viscSrc", d>>
           \/ conf.geo # "cartesian" /\ Evolved("bragViscosity") /\ p = <<"bragViscSrc", d>>
    BY <1>4 DEF ShareRKL, If, Part
<1> QED BY <1>3, <1>4, DueCases

LEMMA LimitThere == ASSUME NEW d PROVE Limit(d) \subseteq LimitShare(d)
<1> SUFFICES ASSUME NEW p \in Limit(d) PROVE p \in LimitShare(d)
    OBVIOUS
<1> DEFINE scaled == conf.cless /\ Evolved("bragConduction")
<1>1. \/ ~Rkl /\ p = <<"hyperbolic", d>>
      \/ scaled /\ p = <<"bragConduction", d>>
      \/ ~scaled /\ \E t \in Diffusive : p = <<t, d>>
    BY DEF Limit, Part
<1>2. CASE ~Rkl /\ p = <<"hyperbolic", d>>
    BY <1>2 DEF LimitShare, If, Part
<1>3. CASE Evolved("bragConduction") /\ p = <<"bragConduction", d>>
    BY <1>3 DEF LimitShare, If, Part
<1>4. ASSUME ~scaled, NEW t \in Diffusive, t # "bragConduction", p = <<t, d>> PROVE p \in LimitShare(d)
  <2>1. p \in At0(d, LimitOf)
      BY <1>4, TermLimit, At0There
  <2>2. At0(d, LimitOf) \subseteq LimitShare(d)
      BY <1>4 DEF LimitShare
  <2> QED BY <2>1, <2>2
<1> QED BY <1>1, <1>2, <1>3, <1>4 DEF Diffusive

\* Each component of the force comes with one of the directions.
LEMMA BodyThere ==
    ASSUME Setting, NEW c \in 1..conf.comps PROVE \E d \in Active : c \in BodyOf(d)
<1>1. conf.dims \in 1..3 /\ conf.comps \in 1..3 /\ conf.dims <= conf.comps
    BY DEF Setting, Options, Consistent
<1>2. CASE conf.dims = 1
    BY <1>2 DEF BodyOf, Active
<1>3. CASE conf.dims = 2 /\ conf.comps = 3
  <2>1. BodyOf(1) = {1} /\ BodyOf(2) = {2, 3}
      BY <1>3 DEF BodyOf, JDIR, KDIR
  <2>2. 1 \in Active /\ 2 \in Active
      BY <1>3 DEF Active
  <2> QED BY <1>1, <1>3, <2>1, <2>2
<1>4. CASE conf.dims = conf.comps /\ conf.dims # 1
    BY <1>1, <1>4 DEF BodyOf, Active
<1> QED BY <1>1, <1>2, <1>3, <1>4

\* What has been called by the end of a stage.
LEMMA AtDone ==
    ASSUME StageInv, OrderInv, pc = "done"
    PROVE /\ \A call \in Named \ {"done"} : Been(call) <=> Wanted(call)
          /\ LoopDirs => Done("CalcRightHandSide") = Active
          /\ LoopDirs /\ ~Rkl /\ conf.tracer => Done("TracerCalcRightHandSide") = Active
<1>1. Place(pc) = 25
    BY PlaceOf
<1>2. \A call \in Named \ {"done"} : Place(call) \in 1..25 /\ Place(call) # 25
    BY PlaceNamed, CallsOf
<1>3. \A call \in Named \ {"done"} : Been(call) <=> Wanted(call)
    BY <1>1, <1>2 DEF Been
<1>4. LoopDirs => dir = conf.dims /\ dir \in Nat /\ dir >= 1
    BY <1>1, ConfType DEF OrderInv, StageInv
<1>5. ASSUME NEW call, LoopDirs, Been(call) PROVE Done(call) = Active
  <2>1. Done(call) = 1..(dir - 1) \cup {dir}
      BY <1>5 DEF Done, If
  <2> QED BY <1>4, <1>5, <2>1 DEF Active
<1>6. LoopDirs => Been("CalcRightHandSide")
    BY <1>3, WantedOf, AllNamed
<1>7. LoopDirs /\ ~Rkl /\ conf.tracer => Been("TracerCalcRightHandSide")
    BY <1>3, WantedOf, AllNamed
<1> QED BY <1>3, <1>5, <1>6, <1>7

LEMMA CellsArrived ==
    ASSUME StageInv, OrderInv, CellLedger, pc = "done", NEW d \in Active
    PROVE /\ LoopDirs => Due(d) \subseteq mem[IF Rkl THEN "dU" ELSE "Uc"].parts
          /\ conf.cycle # "rklAgain" => Limit(d) \subseteq mem["InvDt"].parts
          /\ conf.tracer /\ ~Rkl => Part("tracer", d) \subseteq mem["UcTracer"].parts
<1>1. PICK S, T : S = Done("CalcRightHandSide") /\ T = Done("TracerCalcRightHandSide")
    OBVIOUS
<1>2. ~Rkl => LoopDirs
    BY DEF LoopDirs
<1>3. conf.cycle # "rklAgain" => LoopDirs
    BY DEF LoopDirs, Rkl, StageInv, Setting, Options
<1>4. (LoopDirs => d \in S) /\ (~Rkl /\ conf.tracer => d \in T)
    BY <1>1, <1>2, AtDone
<1>5. Rkl /\ LoopDirs => Due(d) \subseteq mem["dU"].parts
  <2>1. SUFFICES ASSUME Rkl, LoopDirs PROVE Due(d) \subseteq mem["dU"].parts
      OBVIOUS
  <2>2. mem["dU"].parts = SharesRKL(S)
      BY <1>1, <2>1 DEF CellLedger, Parts
  <2>3. ShareRKL(d) \subseteq SharesRKL(S)
      BY <1>4, <2>1, SharesOf
  <2> QED BY <2>1, <2>2, <2>3, DueRKL
<1>6. ~Rkl => Due(d) \subseteq mem["Uc"].parts
  <2>1. SUFFICES ASSUME ~Rkl PROVE Due(d) \subseteq mem["Uc"].parts
      OBVIOUS
  <2>2. Shares(S) \subseteq mem["Uc"].parts
      BY <1>1, <2>1 DEF CellLedger, Parts
  <2>3. Share(d) \subseteq Shares(S)
      BY <1>2, <1>4, <2>1, SharesOf
  <2> QED BY <2>1, <2>2, <2>3, DueShare
<1>7. conf.cycle # "rklAgain" => Limit(d) \subseteq mem["InvDt"].parts
  <2>1. SUFFICES ASSUME conf.cycle # "rklAgain" PROVE Limit(d) \subseteq mem["InvDt"].parts
      OBVIOUS
  <2>2. LimitShares(S) \subseteq mem["InvDt"].parts
      BY <1>1, <2>1 DEF CellLedger, Parts
  <2>3. LimitShare(d) \subseteq LimitShares(S)
      BY <1>3, <1>4, <2>1, SharesOf
  <2> QED BY <2>2, <2>3, LimitThere
<1>8. conf.tracer /\ ~Rkl => Part("tracer", d) \subseteq mem["UcTracer"].parts
  <2>1. SUFFICES ASSUME conf.tracer, ~Rkl PROVE Part("tracer", d) \subseteq mem["UcTracer"].parts
      OBVIOUS
  <2>2. mem["UcTracer"].parts = {<<"tracer", e>> : e \in T}
      BY <1>1, <2>1 DEF CellLedger, Parts
  <2> QED BY <1>4, <2>1, <2>2 DEF Part
<1> QED BY <1>5, <1>6, <1>7, <1>8

LEMMA BodyArrived ==
    ASSUME StageInv, OrderInv, CellLedger, pc = "done", conf.body, ~Rkl, NEW c \in 1..conf.comps
    PROVE Part("body", c) \subseteq mem["Uc"].parts
<1>1. PICK d \in Active : c \in BodyOf(d)
    BY BodyThere DEF StageInv
<1>2. PICK S : S = Done("CalcRightHandSide")
    OBVIOUS
<1>3. LoopDirs
    BY DEF LoopDirs
<1>4. Shares(S) \subseteq mem["Uc"].parts
    BY <1>2 DEF CellLedger, Parts
<1>5. d \in S
    BY <1>2, <1>3, AtDone
<1>6. <<"body", c>> \in Share(d)
  <2>1. PICK bodies : bodies = {<<"body", e>> : e \in BodyOf(d)}
      OBVIOUS
  <2>2. <<"body", c>> \in bodies
      BY <1>1, <2>1
  <2>3. bodies \subseteq Share(d)
      BY <2>1 DEF Share, If
  <2> QED BY <2>2, <2>3
<1>7. <<"body", c>> \in Shares(S)
    BY <1>5, <1>6, SharesOf
<1> QED BY <1>4, <1>7 DEF Part

LEMMA FieldArrived ==
    ASSUME StageInv, OrderInv, FieldLedger, pc = "done", Corners, ~Rkl, NEW a \in Names(BXs, Active) \cup {"UcField"}
    PROVE Hyperbolic \cup UNION {Part(t, 0) : t \in Diffusive \cap {"ohmic", "ambipolar"}} \subseteq mem[a].parts
<1>1. /\ Wanted("EvolveMagField") /\ Wanted("ReconstructVcField")
      /\ Wanted("CalcNonidealEMF") <=> Evolved("ohmic") \/ Evolved("ambipolar")
  <2>1. ~Sweep("EvolveMagField") /\ ~Sweep("ReconstructVcField") /\ ~Sweep("CalcNonidealEMF")
      BY DEF Sweep, Calls
  <2> QED BY <2>1 DEF Wanted
<1>2. /\ Been("EvolveMagField") /\ Been("ReconstructVcField")
      /\ Been("CalcNonidealEMF") <=> Evolved("ohmic") \/ Evolved("ambipolar")
    BY <1>1, AtDone, AllNamed
<1>3. mem[a].parts = AtEdges
    BY <1>2 DEF FieldLedger, Parts, Names
<1>4. ASSUME NEW t \in Diffusive \cap {"ohmic", "ambipolar"} PROVE Part(t, 0) \subseteq AtEdges
  <2>1. Evolved(t)
      BY <1>4 DEF Diffusive
  <2>2. Part(t, 0) \subseteq NonIdeal
      BY <1>4, <2>1 DEF NonIdeal, If, One, Part
  <2> QED BY <1>2, <1>4, <2>1, <2>2 DEF AtEdges, If
<1>5. Hyperbolic \subseteq AtEdges
    BY DEF AtEdges, If
<1> QED BY <1>3, <1>4, <1>5

\* Each term that the input file asks for reaches what it evolves, in each direction
\* and component of the problem, with its time step, and none is added twice.
THEOREM StagesLoseNothing == Spec => []NothingIsLost
<1>1. ASSUME StageInv, Ledger PROVE NothingIsLost
  <2>1. OrderInv /\ CellLedger /\ FieldLedger /\ Clean
      BY <1>1 DEF Ledger
  <2>2. ASSUME pc = "done" PROVE Arrived
    <3>1. \A d \in Active :
              /\ LoopDirs => Due(d) \subseteq mem[IF Rkl THEN "dU" ELSE "Uc"].parts
              /\ conf.cycle # "rklAgain" => Limit(d) \subseteq mem["InvDt"].parts
              /\ conf.tracer /\ ~Rkl => Part("tracer", d) \subseteq mem["UcTracer"].parts
        BY <1>1, <2>1, <2>2, CellsArrived
    <3>2. conf.body /\ ~Rkl => \A d \in 1..conf.comps : Part("body", d) \subseteq mem["Uc"].parts
        BY <1>1, <2>1, <2>2, BodyArrived
    <3>3. Corners /\ ~Rkl =>
              \A a \in Names(BXs, Active) \cup {"UcField"} :
                  Hyperbolic \cup UNION {Part(t, 0) : t \in Diffusive \cap {"ohmic", "ambipolar"}}
                      \subseteq mem[a].parts
        BY <1>1, <2>1, <2>2, FieldArrived
    <3> QED BY <3>1, <3>2, <3>3 DEF Arrived
  <2> QED BY <2>1, <2>2 DEF NothingIsLost, Clean
<1> QED BY <1>1, LedgerInvariant, PTL
=============================================================================
