---------------------------- MODULE RegionProofs ----------------------------
(* Two ghost cells, three at order 4, are enough: what a stage evolves in the   *)
(* cells, faces and edges of the domain is computed from values that were there *)
(* when they were read, for every build and input file that ConfigsAssumption   *)
(* admits.                                                                      *)
(*                                                                             *)
(* Need is the region of an array that a stage relies on, Serves what the loops *)
(* of a function have to be to give it, with a lemma for each function, and     *)
(* Covered says that the arrays that are Ready at each point of a stage hold    *)
(* that region.                                                                 *)
EXTENDS KernelProofs

InCells == {"Uc", "InvDt", "UcTracer", "UcField", "dU", "viscSrc", "bragViscSrc"}

AtFaces == Names(Et, Dirs) \cup Names(Eb, Dirs) \cup Names(SV, Dirs) \cup Names(Fan, Dirs)

Side(n, a) == [e \in Dirs |-> IF a \in {Et[e], Eb[e], SV[e], Fan[e]} THEN <<0, 1>> ELSE Region(n, n)[e]]

\* The region of an array that a stage relies on, before the field on the faces has
\* been evolved and after.
Need(a, moved) ==
    CASE a \in OnSweep -> Faces(dir)
      [] a \in InCells -> Interior
      [] a = "flags" -> Region(1, 1)
      [] a \in Names(Current, Dirs) -> Region(nghost - 1, nghost)
      [] a \in AtFaces -> Side(perpExtension, a)
      [] a \in Names(Edge, Dirs) \cup Names(dA, Dirs) -> AllEdges
      [] a \in Names(Ve, Dirs) -> IF moved THEN AllEdges ELSE Region(nghost, nghost + 1)
      [] a \in Names(BXs, Dirs) ->
            [d \in Dirs |-> IF BXs[d] = a
                            THEN IF moved THEN Along(d, 0, 1)[d] ELSE Along(d, nghost, nghost + 1)[d]
                            ELSE IF moved THEN <<0, 0>> ELSE Wherever[d]]
      [] a \in Names(dB, Dirs) -> [d \in Dirs |-> IF dB[d] = a THEN Along(d, 0, 1)[d] ELSE <<0, 0>>]
      [] OTHER -> Wherever

\* An array holds at least the region box.
Covers(m, a, box) == IsBox(m[a].valid) /\ Within(box, m[a].valid)

LEMMA LeastAbove ==
    ASSUME NEW b \in Int, NEW T \in SUBSET Int, T # {}, \A x \in T : b <= x
    PROVE Min(T) \in T /\ Min(T) \in Int /\ b <= Min(T)
<1> DEFINE shifted == {x - b : x \in T}
<1>1. shifted \in SUBSET Nat /\ shifted # {}
  <2>1. \A x \in T : x - b \in Nat
      OBVIOUS
  <2> QED BY <2>1
<1>2. PICK y \in shifted : \A z \in shifted : y <= z
    BY <1>1, LeastOne
<1>3. PICK x \in T : y = x - b
    BY <1>2
<1>4. \A z \in T : x <= z
  <2> SUFFICES ASSUME NEW z \in T PROVE x <= z
      OBVIOUS
  <2>1. z - b \in shifted /\ x \in Int /\ z \in Int
      OBVIOUS
  <2>2. y <= z - b
      BY <1>2, <2>1
  <2> QED BY <1>3, <2>1, <2>2
<1>5. Min(T) \in T
    BY <1>3, <1>4 DEF Min
<1> QED BY <1>5

\* What all regions hold, their meeting holds.
LEMMA MeetCovers ==
    ASSUME NEW box, IsBox(box), NEW S, S # {}, \A r \in S : IsBox(r) /\ Within(box, r)
    PROVE IsBox(Meet(S)) /\ Within(box, Meet(S))
<1> SUFFICES ASSUME NEW d \in Dirs
             PROVE /\ Meet(S)[d][1] \in Int /\ Meet(S)[d][2] \in Int
                   /\ box[d][1] <= Meet(S)[d][1] /\ box[d][2] <= Meet(S)[d][2]
    BY DEF IsBox, Within
<1>1. Meet(S)[d] = <<Min({r[d][1] : r \in S}), Min({r[d][2] : r \in S})>>
    BY DEF Meet
<1>2. box[d][1] \in Int /\ box[d][2] \in Int
    BY DEF IsBox
<1>3. \A r \in S : /\ r[d][1] \in Int /\ r[d][2] \in Int
                   /\ box[d][1] <= r[d][1] /\ box[d][2] <= r[d][2]
    BY DEF IsBox, Within
<1>4. Min({r[d][1] : r \in S}) \in Int /\ box[d][1] <= Min({r[d][1] : r \in S})
  <2> DEFINE T == {r[d][1] : r \in S}
  <2>1. T \in SUBSET Int /\ T # {} /\ \A x \in T : box[d][1] <= x
      BY <1>3
  <2> HIDE DEF T
  <2>2. Min(T) \in Int /\ box[d][1] <= Min(T)
      BY <1>2, <2>1, LeastAbove
  <2> QED BY <2>2 DEF T
<1>5. Min({r[d][2] : r \in S}) \in Int /\ box[d][2] <= Min({r[d][2] : r \in S})
  <2> DEFINE T == {r[d][2] : r \in S}
  <2>1. T \in SUBSET Int /\ T # {} /\ \A x \in T : box[d][2] <= x
      BY <1>3
  <2> HIDE DEF T
  <2>2. Min(T) \in Int /\ box[d][2] <= Min(T)
      BY <1>2, <2>1, LeastAbove
  <2> QED BY <2>2 DEF T
<1> QED BY <1>1, <1>4, <1>5

\* A stencil that stays in a region has the cells around which it does.
LEMMA ReachCovers ==
    ASSUME NEW box, IsBox(box), NEW stencil, IsBox(stencil), NEW region, IsBox(region),
           NEW need, IsBox(need), Within(need, region), Within(Touch(box, stencil), need)
    PROVE IsBox(Reach(region, stencil)) /\ Within(box, Reach(region, stencil))
<1> SUFFICES ASSUME NEW d \in Dirs
             PROVE /\ Reach(region, stencil)[d][1] \in Int /\ Reach(region, stencil)[d][2] \in Int
                   /\ box[d][1] <= Reach(region, stencil)[d][1]
                   /\ box[d][2] <= Reach(region, stencil)[d][2]
    BY DEF IsBox, Within
<1>1. /\ Reach(region, stencil)[d][1] = region[d][1] + stencil[d][1]
      /\ Reach(region, stencil)[d][2] = region[d][2] - stencil[d][2]
    BY DEF Reach
<1>2. /\ box[d][1] \in Int /\ box[d][2] \in Int /\ need[d][1] \in Int /\ need[d][2] \in Int
      /\ stencil[d][1] \in Int /\ stencil[d][2] \in Int
      /\ region[d][1] \in Int /\ region[d][2] \in Int
    BY DEF IsBox
<1>3. /\ box[d][1] - stencil[d][1] <= need[d][1] /\ box[d][2] + stencil[d][2] <= need[d][2]
      /\ need[d][1] <= region[d][1] /\ need[d][2] <= region[d][2]
    BY DEF Within, Touch
<1> QED BY <1>1, <1>2, <1>3

LEMMA IsBoxOf ==
    /\ \A n, k \in Int : IsBox(Region(n, k)) 
    /\ IsBox(Interior) /\ IsBox(AllEdges) /\ IsBox(Wherever) /\ IsBox(Here)
    /\ nghost \in Int /\ perpExtension \in Int
<1>1. \A n, k \in Int : IsBox(Region(n, k))
    BY DEF IsBox, Region
<1>2. nghost \in Int /\ perpExtension \in Int
    BY Ghosts DEF perpExtension
<1> QED BY <1>1, <1>2, HereBox DEF Interior, AllEdges, Wherever

LEMMA NeedBox == ASSUME Setting, NEW a, NEW moved \in BOOLEAN PROVE IsBox(Need(a, moved))
<1>1. IsBox(Faces(dir))
    BY FacesPlaces DEF Fit, IsBox
<1>2. IsBox(Side(perpExtension, a))
    BY IsBoxOf DEF Side, IsBox
<1>3. IsBox(Region(1, 1)) /\ IsBox(Region(nghost - 1, nghost)) /\ IsBox(Region(nghost, nghost + 1))
    BY IsBoxOf
<1>4. IsBox([d \in Dirs |-> IF BXs[d] = a
                            THEN IF moved THEN Along(d, 0, 1)[d] ELSE Along(d, nghost, nghost + 1)[d]
                            ELSE IF moved THEN <<0, 0>> ELSE Wherever[d]])
    BY IsBoxOf DEF IsBox, Along
<1>5. IsBox([d \in Dirs |-> IF dB[d] = a THEN Along(d, 0, 1)[d] ELSE <<0, 0>>])
    BY DEF IsBox, Along
<1> QED BY <1>1, <1>2, <1>3, <1>4, <1>5, IsBoxOf DEF Need
-----------------------------------------------------------------------------
\* The arrays that a stage relies on in all cells with their ghosts.
Wide ==
    {"Vc", "xHall", "csIso", "fargoVelocity", "phiP", "bodyForce", "VcGas", "UcGas",
     "Ex1", "Ex2", "Ex3", "etaOhmic", "xAmbipolar", "eta1", "eta2", "kappa", "etaBrag",
     "kpar", "knor", "clessAlpha", "clessBeta"}

LEMMA NamesOf ==
    /\ Names(BXs, Dirs) = {"BX1s", "BX2s", "BX3s"} /\ Names(dB, Dirs) = {"dB1", "dB2", "dB3"}
    /\ Names(Ve, Dirs) = {"AX1e", "AX2e", "AX3e"} /\ Names(dA, Dirs) = {"dA1", "dA2", "dA3"}
    /\ Names(Edge, Dirs) = {"ex", "ey", "ez"} /\ Names(Current, Dirs) = {"J1", "J2", "J3"}
    /\ AtFaces = {"ezi", "ezj", "eyk", "eyi", "exj", "exk", "svx", "svy", "svz", "ax", "ay", "az"}
BY Tuples DEF Names, Dirs, AtFaces

LEMMA NeedWide == ASSUME NEW a \in Wide, NEW moved PROVE Need(a, moved) = Wherever /\ Room(a) = Wherever
<1>1. /\ a \notin OnSweep /\ a \notin InCells /\ a # "flags" /\ a \notin Names(Current, Dirs)
      /\ a \notin AtFaces /\ a \notin Names(Edge, Dirs) \cup Names(dA, Dirs)
      /\ a \notin Names(Ve, Dirs) /\ a \notin Names(BXs, Dirs) /\ a \notin Names(dB, Dirs)
    BY NamesOf DEF Wide, OnSweep, InCells
<1>2. a \notin OnGrid
    BY <1>1 DEF OnGrid
<1>3. Need(a, moved) = Wherever
    BY <1>1 DEF Need
<1> QED BY <1>2, <1>3 DEF Room, Wherever

LEMMA NeedSweep == ASSUME NEW a \in OnSweep, NEW moved PROVE Need(a, moved) = Faces(dir)
<1>1. /\ a \in OnSweep /\ a \notin InCells /\ a # "flags" /\ a \notin Names(Current, Dirs)
      /\ a \notin AtFaces /\ a \notin Names(Edge, Dirs) \cup Names(dA, Dirs) /\ a \notin Names(Ve, Dirs)
      /\ a \notin Names(BXs, Dirs) /\ a \notin Names(dB, Dirs)
    BY NamesOf DEF InCells, OnSweep
<1> QED BY <1>1 DEF Need

LEMMA NeedCells == ASSUME NEW a \in InCells, NEW moved PROVE Need(a, moved) = Interior
<1>1. /\ a \notin OnSweep /\ a \in InCells /\ a # "flags" /\ a \notin Names(Current, Dirs)
      /\ a \notin AtFaces /\ a \notin Names(Edge, Dirs) \cup Names(dA, Dirs) /\ a \notin Names(Ve, Dirs)
      /\ a \notin Names(BXs, Dirs) /\ a \notin Names(dB, Dirs)
    BY NamesOf DEF InCells, OnSweep
<1> QED BY <1>1 DEF Need

LEMMA NeedFlags == ASSUME NEW moved PROVE Need("flags", moved) = Region(1, 1)
<1> DEFINE a == "flags"
<1>1. /\ a \notin OnSweep /\ a \notin InCells /\ a = "flags" /\ a \notin Names(Current, Dirs)
      /\ a \notin AtFaces /\ a \notin Names(Edge, Dirs) \cup Names(dA, Dirs) /\ a \notin Names(Ve, Dirs)
      /\ a \notin Names(BXs, Dirs) /\ a \notin Names(dB, Dirs)
    BY NamesOf DEF InCells, OnSweep
<1> HIDE DEF a
<1>2. Need(a, moved) = Region(1, 1)
    BY <1>1 DEF Need
<1> QED BY <1>2 DEF a

LEMMA NeedCurrent ==
    ASSUME NEW a \in {"J1", "J2", "J3"}, NEW moved PROVE Need(a, moved) = Region(nghost - 1, nghost)
<1>1. /\ a \notin OnSweep /\ a \notin InCells /\ a # "flags" /\ a \in Names(Current, Dirs)
      /\ a \notin AtFaces /\ a \notin Names(Edge, Dirs) \cup Names(dA, Dirs) /\ a \notin Names(Ve, Dirs)
      /\ a \notin Names(BXs, Dirs) /\ a \notin Names(dB, Dirs)
    BY NamesOf DEF InCells, OnSweep
<1> QED BY <1>1 DEF Need

LEMMA NeedFaces == ASSUME NEW a \in AtFaces, NEW moved PROVE Need(a, moved) = Side(perpExtension, a)
<1>1. /\ a \notin OnSweep /\ a \notin InCells /\ a # "flags" /\ a \notin Names(Current, Dirs)
      /\ a \in AtFaces /\ a \notin Names(Edge, Dirs) \cup Names(dA, Dirs) /\ a \notin Names(Ve, Dirs)
      /\ a \notin Names(BXs, Dirs) /\ a \notin Names(dB, Dirs)
    BY NamesOf DEF InCells, OnSweep
<1> QED BY <1>1 DEF Need

LEMMA SideOf ==
    ASSUME NEW d \in Dirs, NEW a \in {Et[d], Eb[d], SV[d], Fan[d]}
    PROVE /\ a \in AtFaces
          /\ \A e \in Dirs : a \in {Et[e], Eb[e], SV[e], Fan[e]} <=> e = d
<1>1. a \in AtFaces
    BY DEF AtFaces, Names
<1>2. \A e \in Dirs : a \in {Et[e], Eb[e], SV[e], Fan[e]} <=> e = d
    BY Tuples DEF Dirs
<1> QED BY <1>1, <1>2

LEMMA NeedSide ==
    ASSUME NEW d \in Dirs, NEW a \in {Et[d], Eb[d], SV[d], Fan[d]}, NEW moved
    PROVE Need(a, moved) = [e \in Dirs |-> IF e = d THEN <<0, 1>> ELSE Region(perpExtension, perpExtension)[e]]
<1>1. a \in AtFaces /\ \A e \in Dirs : a \in {Et[e], Eb[e], SV[e], Fan[e]} <=> e = d
    BY SideOf
<1>2. Need(a, moved) = Side(perpExtension, a)
    BY <1>1, NeedFaces
<1>3. Side(perpExtension, a) = [e \in Dirs |-> IF e = d THEN <<0, 1>>
                                                ELSE Region(perpExtension, perpExtension)[e]]
    BY <1>1 DEF Side
<1> QED BY <1>2, <1>3

LEMMA NeedEdge ==
    ASSUME NEW e \in Dirs, NEW a \in {Edge[e], dA[e]}, NEW moved PROVE Need(a, moved) = AllEdges
<1>1. a \in Names(Edge, Dirs) \cup Names(dA, Dirs)
    BY DEF Names
<1>2. /\ a \notin OnSweep /\ a \notin InCells /\ a # "flags" /\ a \notin Names(Current, Dirs)
      /\ a \notin AtFaces /\ a \in Names(Edge, Dirs) \cup Names(dA, Dirs) /\ a \notin Names(Ve, Dirs)
      /\ a \notin Names(BXs, Dirs) /\ a \notin Names(dB, Dirs)
    BY <1>1, NamesOf DEF InCells, OnSweep
<1> QED BY <1>1, <1>2 DEF Need

LEMMA NeedPotential ==
    ASSUME NEW e \in Dirs, NEW moved
    PROVE Need(Ve[e], moved) = IF moved THEN AllEdges ELSE Region(nghost, nghost + 1)
<1> DEFINE a == Ve[e]
<1>1. a \in Names(Ve, Dirs)
    BY DEF Names
<1> HIDE DEF a
<1>2. /\ a \notin OnSweep /\ a \notin InCells /\ a # "flags" /\ a \notin Names(Current, Dirs)
      /\ a \notin AtFaces /\ a \notin Names(Edge, Dirs) \cup Names(dA, Dirs) /\ a \in Names(Ve, Dirs)
      /\ a \notin Names(BXs, Dirs) /\ a \notin Names(dB, Dirs)
    BY <1>1, NamesOf DEF InCells, OnSweep
<1>3. Need(a, moved) = IF moved THEN AllEdges ELSE Region(nghost, nghost + 1)
    BY <1>1, <1>2 DEF Need
<1> QED BY <1>3 DEF a

LEMMA NeedField ==
    ASSUME NEW e \in Dirs, NEW moved
    PROVE Need(BXs[e], moved) =
            [d \in Dirs |-> IF d = e
                            THEN IF moved THEN Along(d, 0, 1)[d] ELSE Along(d, nghost, nghost + 1)[d]
                            ELSE IF moved THEN <<0, 0>> ELSE Wherever[d]]
<1> DEFINE a == BXs[e]
<1>0. \A d \in Dirs : BXs[d] = a <=> d = e
    BY Tuples DEF Dirs
<1>1. a \in Names(BXs, Dirs)
    BY DEF Names
<1> HIDE DEF a
<1>2. /\ a \notin OnSweep /\ a \notin InCells /\ a # "flags" /\ a \notin Names(Current, Dirs)
      /\ a \notin AtFaces /\ a \notin Names(Edge, Dirs) \cup Names(dA, Dirs) /\ a \notin Names(Ve, Dirs)
      /\ a \in Names(BXs, Dirs) /\ a \notin Names(dB, Dirs)
    BY <1>1, NamesOf DEF InCells, OnSweep
<1>3. Need(a, moved) = [d \in Dirs |-> IF BXs[d] = a
                            THEN IF moved THEN Along(d, 0, 1)[d] ELSE Along(d, nghost, nghost + 1)[d]
                            ELSE IF moved THEN <<0, 0>> ELSE Wherever[d]]
    BY <1>1, <1>2 DEF Need
<1>4. Need(a, moved) = [d \in Dirs |-> IF d = e
                            THEN IF moved THEN Along(d, 0, 1)[d] ELSE Along(d, nghost, nghost + 1)[d]
                            ELSE IF moved THEN <<0, 0>> ELSE Wherever[d]]
    BY <1>0, <1>3
<1> QED BY <1>4 DEF a

LEMMA NeedRate ==
    ASSUME NEW e \in Dirs, NEW moved
    PROVE Need(dB[e], moved) = [d \in Dirs |-> IF d = e THEN Along(d, 0, 1)[d] ELSE <<0, 0>>]
<1> DEFINE a == dB[e]
<1>0. \A d \in Dirs : dB[d] = a <=> d = e
    BY Tuples DEF Dirs
<1>1. a \in Names(dB, Dirs)
    BY DEF Names
<1> HIDE DEF a
<1>2. /\ a \notin OnSweep /\ a \notin InCells /\ a # "flags" /\ a \notin Names(Current, Dirs)
      /\ a \notin AtFaces /\ a \notin Names(Edge, Dirs) \cup Names(dA, Dirs) /\ a \notin Names(Ve, Dirs)
      /\ a \notin Names(BXs, Dirs) /\ a \in Names(dB, Dirs)
    BY <1>1, NamesOf DEF InCells, OnSweep
<1>3. Need(a, moved) = [d \in Dirs |-> IF dB[d] = a THEN Along(d, 0, 1)[d] ELSE <<0, 0>>]
    BY <1>1, <1>2 DEF Need
<1>4. Need(a, moved) = [d \in Dirs |-> IF d = e THEN Along(d, 0, 1)[d] ELSE <<0, 0>>]
    BY <1>0, <1>3
<1> QED BY <1>4 DEF a
-----------------------------------------------------------------------------
\* A read of an array of K that has what is needed of it. Kernel says already that what
\* is read of an array that is relied on everywhere is there.
Okay(need, K, moved, r) ==
    /\ r[1] \in K /\ IsBox(r[2])
    /\ r[1] \notin Wide => Within(Touch(need, r[2]), Need(r[1], moved))

\* A statement that gives what is needed of its array, from arrays of K.
Serve(over, s, K, moved) ==
    /\ IsBox(over) /\ Within(Need(s.out, moved), over)
    /\ s.add => s.out \in K
    /\ \A r \in s.ins : Okay(Need(s.out, moved), K, moved, r)

LEMMA TouchWithin ==
    ASSUME NEW box, IsBox(box), NEW over, IsBox(over), NEW stencil, IsBox(stencil),
           NEW room, IsBox(room), Within(box, over), Within(Touch(over, stencil), room)
    PROVE Within(Touch(box, stencil), room)
<1> SUFFICES ASSUME NEW d \in Dirs
             PROVE /\ box[d][1] - stencil[d][1] <= room[d][1]
                   /\ box[d][2] + stencil[d][2] <= room[d][2]
    BY DEF Within, Touch
<1>1. /\ box[d][1] \in Int /\ box[d][2] \in Int /\ over[d][1] \in Int /\ over[d][2] \in Int
      /\ stencil[d][1] \in Int /\ stencil[d][2] \in Int /\ room[d][1] \in Int /\ room[d][2] \in Int
    BY DEF IsBox
<1>2. /\ over[d][1] - stencil[d][1] <= room[d][1] /\ over[d][2] + stencil[d][2] <= room[d][2]
      /\ box[d][1] <= over[d][1] /\ box[d][2] <= over[d][2]
    BY DEF Within, Touch
<1> QED BY <1>1, <1>2

\* What a read has of an array that holds what is needed of it.
LEMMA ReadCovers ==
    ASSUME Setting, ~Overreach, NEW loop, Kernel(loop), NEW s \in loop.does, NEW K,
           NEW moved \in BOOLEAN, Serve(loop.over, s, K, moved), NEW r \in s.ins,
           NEW m, DOMAIN m = Allocated, \A a \in K \cap Allocated : Covers(m, a, Need(a, moved))
    PROVE /\ IsBox(Reach(Look(m, r[1]), r[2]))
          /\ Within(Need(s.out, moved), Reach(Look(m, r[1]), r[2]))
<1>1. r[1] \in Allocated /\ Within(Touch(loop.over, r[2]), Room(r[1]))
    BY DEF Kernel
<1>2. /\ IsBox(loop.over) /\ Within(Need(s.out, moved), loop.over)
      /\ r[1] \in K /\ IsBox(r[2])
      /\ r[1] \notin Wide => Within(Touch(Need(s.out, moved), r[2]), Need(r[1], moved))
    BY DEF Serve, Okay
<1>3. Look(m, r[1]) = m[r[1]].valid
    BY <1>1 DEF Look
<1>4. IsBox(m[r[1]].valid) /\ Within(Need(r[1], moved), m[r[1]].valid)
    BY <1>1, <1>2 DEF Covers
<1>5. IsBox(Need(s.out, moved)) /\ IsBox(Need(r[1], moved))
    BY NeedBox
<1>6. Within(Touch(Need(s.out, moved), r[2]), Need(r[1], moved))
  <2>1. CASE r[1] \in Wide
    <3>1. Need(r[1], moved) = Wherever /\ Room(r[1]) = Wherever
        BY <2>1, NeedWide
    <3> QED BY <1>1, <1>2, <1>5, <3>1, IsBoxOf, TouchWithin
  <2> QED BY <1>2, <2>1
<1>7. PICK box, stencil, region, need :
        box = Need(s.out, moved) /\ stencil = r[2] /\ region = m[r[1]].valid /\ need = Need(r[1], moved)
    OBVIOUS
<1>8. IsBox(Reach(region, stencil)) /\ Within(box, Reach(region, stencil))
    BY <1>2, <1>4, <1>5, <1>6, <1>7, ReachCovers
<1> QED BY <1>3, <1>7, <1>8

LEMMA ExecuteCovers ==
    ASSUME Setting, ~Overreach, NEW loop, Kernel(loop), NEW K, NEW moved \in BOOLEAN,
           \A s \in loop.does : Serve(loop.over, s, K, moved),
           NEW m, DOMAIN m = Allocated, \A a \in K \cap Allocated : Covers(m, a, Need(a, moved))
    PROVE \A a \in (K \cup {s.out : s \in loop.does}) \cap Allocated :
              Covers(Execute(m, loop), a, Need(a, moved))
<1> SUFFICES ASSUME NEW a \in (K \cup {s.out : s \in loop.does}) \cap Allocated
             PROVE Covers(Execute(m, loop), a, Need(a, moved))
    OBVIOUS
<1>1. CASE \E s \in loop.does : s.out = a
  <2>1. PICK s : s = CHOOSE x \in loop.does : x.out = a
      OBVIOUS
  <2>2. s \in loop.does /\ s.out = a
      BY <1>1, <2>1
  <2>3. Execute(m, loop)[a] = Apply(m, loop.over, s)
      BY <1>1, <2>1 DEF Execute
  <2> DEFINE S == {loop.over} \cup (IF s.add THEN {m[a].valid} ELSE {})
                  \cup {Reach(Look(m, r[1]), r[2]) : r \in s.ins}
  <2>4. Execute(m, loop)[a].valid = Meet(S)
      BY <2>2, <2>3 DEF Apply, Computed
  <2>5. Serve(loop.over, s, K, moved)
      BY <2>2
  <2>6. \A x \in S : IsBox(x) /\ Within(Need(a, moved), x)
    <3>1. IsBox(loop.over) /\ Within(Need(a, moved), loop.over)
        BY <2>2, <2>5 DEF Serve
    <3>2. s.add => IsBox(m[a].valid) /\ Within(Need(a, moved), m[a].valid)
        BY <2>2, <2>5 DEF Serve, Covers
    <3>3. \A r \in s.ins : /\ IsBox(Reach(Look(m, r[1]), r[2]))
                           /\ Within(Need(a, moved), Reach(Look(m, r[1]), r[2]))
        BY <2>2, <2>5, ReadCovers
    <3> QED BY <3>1, <3>2, <3>3
  <2>7. S # {} /\ IsBox(Need(a, moved))
      BY NeedBox
  <2> HIDE DEF S
  <2>8. PICK box : box = Need(a, moved)
      OBVIOUS
  <2>9. IsBox(Meet(S)) /\ Within(box, Meet(S))
      BY <2>6, <2>7, <2>8, MeetCovers
  <2> QED BY <2>4, <2>8, <2>9 DEF Covers
<1>2. CASE ~\E s \in loop.does : s.out = a
  <2>1. a \in K /\ Execute(m, loop)[a] = m[a]
      BY <1>2 DEF Execute
  <2> QED BY <2>1 DEF Covers
<1> QED BY <1>1, <1>2

\* The arrays that the first loops write.
Outs(loops, n) == UNION {{s.out : s \in loops[i].does} : i \in 1..n}

\* What a function needs (K) and leaves (O).
Serves(loops, K, O, moved) ==
    /\ \E M : loops \in Seq(M)
    /\ \A i \in 1..Len(loops) : \A s \in loops[i].does :
          Serve(loops[i].over, s, K \cup Outs(loops, i - 1), moved)
    /\ O \subseteq K \cup Outs(loops, Len(loops))

LEMMA AfterCovers ==
    ASSUME Setting, ~Overreach, DOMAIN mem = Allocated, NEW loops, Kernels(loops), NEW K, NEW O,
           NEW moved \in BOOLEAN, Serves(loops, K, O, moved),
           \A a \in K \cap Allocated : Covers(mem, a, Need(a, moved))
    PROVE \A a \in (K \cup O) \cap Allocated : Covers(After(mem, loops), a, Need(a, moved))
<1>1. Len(loops) \in Nat
    BY DEF Kernels
<1>2. PICK f : f[0] = mem /\ Run(f, loops) /\ After(mem, loops) = f[Len(loops)]
    BY <1>1, AfterSteps
<1> DEFINE Held(n) == K \cup Outs(loops, n)
           T == {n \in Nat : /\ DOMAIN f[n] = Allocated
                             /\ \A a \in Held(n) \cap Allocated : Covers(f[n], a, Need(a, moved))}
<1>3. 0 \in T
  <2>1. Outs(loops, 0) = {}
      BY DEF Outs
  <2> QED BY <1>2, <2>1
<1>4. ASSUME NEW n \in 0..(Len(loops) - 1), n \in T PROVE n + 1 \in T
  <2>1. n + 1 \in 1..Len(loops) /\ (n + 1) - 1 = n /\ n + 1 \in Nat
      BY <1>1
  <2>2. PICK loop : loop = loops[n + 1]
      OBVIOUS
  <2>3. f[n + 1] = Execute(f[n], loop)
      BY <1>2, <2>1, <2>2 DEF Run
  <2>4. Kernel(loop)
      BY <2>1, <2>2 DEF Kernels
  <2>5. PICK H : H = Held(n)
      OBVIOUS
  <2>6. \A s \in loop.does : Serve(loop.over, s, H, moved)
      BY <2>1, <2>2, <2>5 DEF Serves
  <2>7. DOMAIN f[n] = Allocated /\ \A a \in H \cap Allocated : Covers(f[n], a, Need(a, moved))
      BY <1>4, <2>5
  <2>8. \A a \in (H \cup {s.out : s \in loop.does}) \cap Allocated :
            Covers(Execute(f[n], loop), a, Need(a, moved))
      BY <2>4, <2>6, <2>7, ExecuteCovers
  <2>9. Held(n + 1) = H \cup {s.out : s \in loop.does}
    <3>1. 1..(n + 1) = 1..n \cup {n + 1}
        BY <2>1
    <3> QED BY <2>2, <2>5, <3>1 DEF Outs
  <2>10. DOMAIN f[n + 1] = Allocated
      BY <2>3, <2>7 DEF Execute
  <2> QED BY <2>1, <2>3, <2>8, <2>9, <2>10
<1> HIDE DEF T
<1>5. \A n \in 0..Len(loops) : n \in T
    BY <1>1, <1>3, <1>4, StepByStep
<1>6. Len(loops) \in T
    BY <1>1, <1>5
<1>7. O \subseteq Held(Len(loops))
    BY DEF Serves
<1> QED BY <1>2, <1>6, <1>7 DEF T

LEMMA OneServes ==
    ASSUME NEW over, NEW does, NEW K, NEW moved, NEW O, O \subseteq {s.out : s \in does},
           \A s \in does : Serve(over, s, K, moved)
    PROVE Serves(<<Loop(over, does)>>, K, O, moved)
<1> DEFINE loops == <<Loop(over, does)>>
<1>1. Len(loops) = 1 /\ loops[1].over = over /\ loops[1].does = does
    BY DEF Loop
<1> HIDE DEF loops
<1>2. Outs(loops, 0) = {} /\ Outs(loops, 1) = {s.out : s \in does}
    BY <1>1 DEF Outs
<1>3. K \cup Outs(loops, 0) = K
    BY <1>2
<1>4. \A i \in 1..Len(loops) : i = 1
    BY <1>1
<1>5. ASSUME NEW i \in 1..Len(loops), NEW s \in loops[i].does
      PROVE Serve(loops[i].over, s, K \cup Outs(loops, i - 1), moved)
  <2>1. i = 1 /\ i - 1 = 0
      BY <1>4
  <2> QED BY <1>1, <1>3, <1>5, <2>1
<1>6. O \subseteq K \cup Outs(loops, Len(loops))
    BY <1>1, <1>2
<1>7. loops \in Seq({Loop(over, does)})
    BY DEF loops
<1>8. Serves(loops, K, O, moved)
    BY <1>5, <1>6, <1>7 DEF Serves
<1> QED BY <1>8 DEF loops

LEMMA NoServes == ASSUME NEW K, NEW moved, NEW O, O \subseteq K PROVE Serves(<<>>, K, O, moved)
<1>1. Len(<<>>) = 0 /\ <<>> \in Seq({0})
    OBVIOUS
<1> QED BY <1>1 DEF Serves

\* More arrays to read, fewer to leave.
LEMMA ServeMore ==
    ASSUME NEW over, NEW s, NEW K, NEW moved, Serve(over, s, K, moved), NEW L, K \subseteq L
    PROVE Serve(over, s, L, moved)
BY DEF Serve, Okay

LEMMA JoinServes ==
    ASSUME NEW f, NEW g, NEW K, NEW O, NEW P, NEW moved,
           Serves(f, K, O, moved), Serves(g, K \cup O, P, moved)
    PROVE Serves(f \o g, K, O \cup P, moved)
<1>1. PICK M, N : f \in Seq(M) /\ g \in Seq(N)
    BY DEF Serves
<1>2. f \in Seq(M \cup N) /\ g \in Seq(M \cup N)
    BY <1>1
<1> DEFINE h == f \o g
<1>3. /\ Len(f) \in Nat /\ Len(g) \in Nat /\ Len(h) = Len(f) + Len(g)
      /\ \A i \in 1..Len(f) : h[i] = f[i]
      /\ \A i \in 1..Len(g) : h[Len(f) + i] = g[i]
    BY <1>2
<1> HIDE DEF h
<1>4. \A n \in 0..Len(f) : Outs(h, n) = Outs(f, n)
  <2> SUFFICES ASSUME NEW n \in 0..Len(f) PROVE Outs(h, n) = Outs(f, n)
      OBVIOUS
  <2>1. \A i \in 1..n : h[i] = f[i]
      BY <1>3
  <2> QED BY <2>1 DEF Outs
<1>5. \A n \in 0..Len(g) : Outs(f, Len(f)) \cup Outs(g, n) \subseteq Outs(h, Len(f) + n)
  <2> SUFFICES ASSUME NEW n \in 0..Len(g), NEW a \in Outs(f, Len(f)) \cup Outs(g, n)
               PROVE a \in Outs(h, Len(f) + n)
      OBVIOUS
  <2>1. CASE a \in Outs(f, Len(f))
    <3>1. PICK i \in 1..Len(f) : a \in {s.out : s \in f[i].does}
        BY <2>1 DEF Outs
    <3>2. i \in 1..(Len(f) + n) /\ h[i] = f[i]
        BY <1>3
    <3> QED BY <3>1, <3>2 DEF Outs
  <2>2. CASE a \in Outs(g, n)
    <3>1. PICK i \in 1..n : a \in {s.out : s \in g[i].does}
        BY <2>2 DEF Outs
    <3>2. Len(f) + i \in 1..(Len(f) + n) /\ h[Len(f) + i] = g[i]
        BY <1>3
    <3> QED BY <3>1, <3>2 DEF Outs
  <2> QED BY <2>1, <2>2
<1>6. ASSUME NEW i \in 1..Len(h), NEW s \in h[i].does
      PROVE Serve(h[i].over, s, K \cup Outs(h, i - 1), moved)
  <2>1. CASE i <= Len(f)
    <3>1. i \in 1..Len(f) /\ i - 1 \in 0..Len(f)
        BY <1>3, <2>1
    <3>2. h[i] = f[i] /\ Outs(h, i - 1) = Outs(f, i - 1)
        BY <1>3, <1>4, <3>1
    <3>3. Serve(f[i].over, s, K \cup Outs(f, i - 1), moved)
        BY <1>6, <3>1, <3>2 DEF Serves
    <3> QED BY <3>2, <3>3
  <2>2. CASE ~(i <= Len(f))
    <3>1. PICK j : j = i - Len(f)
        OBVIOUS
    <3>2. j \in 1..Len(g) /\ i = Len(f) + j /\ i - 1 = Len(f) + (j - 1) /\ j - 1 \in 0..Len(g)
        BY <1>3, <2>2, <3>1
    <3>3. h[i] = g[j]
        BY <1>3, <3>2
    <3>4. Serve(g[j].over, s, (K \cup O) \cup Outs(g, j - 1), moved)
        BY <1>6, <3>2, <3>3 DEF Serves
    <3>5. O \subseteq K \cup Outs(f, Len(f))
        BY DEF Serves
    <3>6. (K \cup O) \cup Outs(g, j - 1) \subseteq K \cup Outs(h, i - 1)
        BY <1>5, <3>2, <3>5
    <3> QED BY <3>3, <3>4, <3>6, ServeMore
  <2> QED BY <2>1, <2>2
<1>7. O \cup P \subseteq K \cup Outs(h, Len(h))
  <2>1. O \subseteq K \cup Outs(f, Len(f)) /\ P \subseteq (K \cup O) \cup Outs(g, Len(g))
      BY DEF Serves
  <2>2. Outs(f, Len(f)) \cup Outs(g, Len(g)) \subseteq Outs(h, Len(h))
      BY <1>3, <1>5
  <2> QED BY <2>1, <2>2
<1>8. h \in Seq(M \cup N)
    BY <1>2 DEF h
<1>9. Serves(h, K, O \cup P, moved)
    BY <1>6, <1>7, <1>8 DEF Serves
<1> QED BY <1>9 DEF h
-----------------------------------------------------------------------------
LEMMA Kinds ==
    ASSUME NEW a, NEW ins, NEW parts
    PROVE ~Set(a, ins, parts).add /\ Add(a, ins, parts).add
BY DEF Set, Add

LEMMA OkayWide ==
    ASSUME NEW need, NEW K, NEW moved, NEW a \in Wide, a \in K, NEW box, IsBox(box)
    PROVE Okay(need, K, moved, <<a, box>>)
BY DEF Okay

LEMMA FieldRoom ==
    ASSUME NEW e \in Dirs
    PROVE IsBox(Need(BXs[e], FALSE)) /\ Within(Wherever, Need(BXs[e], FALSE))
<1>1. PICK need : need = Need(BXs[e], FALSE)
    OBVIOUS
<1>2. need = [c \in Dirs |-> IF c = e
                             THEN IF FALSE THEN Along(c, 0, 1)[c] ELSE Along(c, nghost, nghost + 1)[c]
                             ELSE IF FALSE THEN <<0, 0>> ELSE Wherever[c]]
    BY <1>1, NeedField
<1>3. ASSUME NEW d \in Dirs
      PROVE /\ need[d][1] \in Int /\ need[d][2] \in Int
            /\ Wherever[d][1] <= need[d][1] /\ Wherever[d][2] <= need[d][2]
  <2>1. need[d] = IF d = e THEN Along(d, nghost, nghost + 1)[d] ELSE Wherever[d]
      BY <1>2
  <2>2. Wherever[d] = IF d \in Active THEN <<nghost, nghost>> ELSE <<0, 0>>
      BY DEF Wherever, Region
  <2>3. Along(d, nghost, nghost + 1)[d] = IF d \in Active THEN <<nghost, nghost + 1>> ELSE <<0, 0>>
      BY DEF Along
  <2>4. nghost \in Int
      BY Ghosts
  <2> QED BY <2>1, <2>2, <2>3, <2>4
<1>4. IsBox(need) /\ Within(Wherever, need)
    BY <1>3 DEF IsBox, Within
<1> QED BY <1>1, <1>4

LEMMA WithinWithin ==
    ASSUME NEW a, IsBox(a), NEW b, IsBox(b), NEW c, IsBox(c), Within(a, b), Within(b, c)
    PROVE Within(a, c)
<1> SUFFICES ASSUME NEW d \in Dirs PROVE a[d][1] <= c[d][1] /\ a[d][2] <= c[d][2]
    BY DEF Within
<1>1. /\ a[d][1] \in Int /\ a[d][2] \in Int /\ b[d][1] \in Int /\ b[d][2] \in Int
      /\ c[d][1] \in Int /\ c[d][2] \in Int
    BY DEF IsBox
<1>2. a[d][1] <= b[d][1] /\ a[d][2] <= b[d][2] /\ b[d][1] <= c[d][1] /\ b[d][2] <= c[d][2]
    BY DEF Within
<1> QED BY <1>1, <1>2

LEMMA SelfWithin == ASSUME NEW a, IsBox(a) PROVE Within(a, a)
BY DEF IsBox, Within

LEMMA TouchBox ==
    ASSUME NEW need, IsBox(need), NEW box, IsBox(box) PROVE IsBox(Touch(need, box))
<1> SUFFICES ASSUME NEW d \in Dirs
             PROVE Touch(need, box)[d][1] \in Int /\ Touch(need, box)[d][2] \in Int
    BY DEF IsBox
<1>1. Touch(need, box)[d][1] = need[d][1] - box[d][1] /\ Touch(need, box)[d][2] = need[d][2] + box[d][2]
    BY DEF Touch
<1> QED BY <1>1 DEF IsBox

\* The field on the faces is there as far as the cells.
LEMMA OkayField ==
    ASSUME NEW need, IsBox(need), NEW K, NEW e \in Dirs, BXs[e] \in K, NEW box, IsBox(box),
           Inside(need, box)
    PROVE Okay(need, K, FALSE, <<BXs[e], box>>)
<1>1. Within(Touch(need, box), Wherever) /\ IsBox(Touch(need, box))
    BY TouchBox DEF Inside
<1>2. Within(Touch(need, box), Need(BXs[e], FALSE))
    BY <1>1, FieldRoom, IsBoxOf, WithinWithin
<1> QED BY <1>2 DEF Okay

LEMMA OkayNear ==
    ASSUME NEW need, Near(need), NEW K, NEW a \in K, a \in Wide \/ (\E e \in Dirs : a = BXs[e]),
           NEW box, IsBox(box), Small(box)
    PROVE Okay(need, K, FALSE, <<a, box>>)
<1>1. IsBox(need) /\ Inside(need, box)
    BY SmallInside DEF Near, IsBox
<1>2. CASE a \in Wide
    BY <1>2, OkayWide
<1>3. CASE \E e \in Dirs : a = BXs[e]
    BY <1>1, <1>3, OkayField
<1> QED BY <1>2, <1>3

\* An array that is relied on in one region is there around a smaller one.
LEMMA OkayIn ==
    ASSUME NEW need, IsBox(need), NEW K, NEW moved, NEW a \in K, NEW box, IsBox(box),
           Within(Touch(need, box), Need(a, moved))
    PROVE Okay(need, K, moved, <<a, box>>)
BY DEF Okay

LEMMA HereTouch == ASSUME NEW need, IsBox(need) PROVE Within(Touch(need, Here), need)
<1> SUFFICES ASSUME NEW d \in Dirs
             PROVE need[d][1] - Here[d][1] <= need[d][1] /\ need[d][2] + Here[d][2] <= need[d][2]
    BY DEF Within, Touch
<1> QED BY HereOf DEF IsBox

LEMMA OkayHere ==
    ASSUME NEW need, IsBox(need), NEW K, NEW moved, NEW a \in K, Need(a, moved) = need
    PROVE Okay(need, K, moved, <<a, Here>>)
BY HereBox, HereTouch DEF Okay

\* The current is computed one cell less far on the left, and one more on the right.
LEMMA OkayCurrent ==
    ASSUME NEW need, IsBox(need), NEW K, NEW moved, NEW a \in {"J1", "J2", "J3"}, a \in K,
           NEW box, IsBox(box),
           \A d \in Dirs : IF d \in Active THEN need[d][1] - box[d][1] <= 1 /\ need[d][2] + box[d][2] <= 2
                           ELSE need[d][1] - box[d][1] <= 0 /\ need[d][2] + box[d][2] <= 0
    PROVE Okay(need, K, moved, <<a, box>>)
<1>1. Within(Touch(need, box), Region(nghost - 1, nghost))
  <2> SUFFICES ASSUME NEW d \in Dirs
               PROVE /\ need[d][1] - box[d][1] <= Region(nghost - 1, nghost)[d][1]
                     /\ need[d][2] + box[d][2] <= Region(nghost - 1, nghost)[d][2]
      BY DEF Within, Touch
  <2>1. /\ need[d][1] \in Int /\ need[d][2] \in Int /\ box[d][1] \in Int /\ box[d][2] \in Int
      BY DEF IsBox
  <2>2. Region(nghost - 1, nghost)[d] = IF d \in Active THEN <<nghost - 1, nghost>> ELSE <<0, 0>>
      BY DEF Region
  <2> QED BY <2>1, <2>2, Ghosts
<1> QED BY <1>1, NeedCurrent, OkayIn

LEMMA SmallCurrent ==
    ASSUME NEW need, IsBox(need), NEW K, NEW moved, NEW a \in {"J1", "J2", "J3"}, a \in K,
           NEW box, IsBox(box), Small(box),
           \A d \in Dirs : IF d \in Active THEN need[d][1] <= 0 /\ need[d][2] <= 1
                           ELSE need[d][1] = 0 /\ need[d][2] = 0
    PROVE Okay(need, K, moved, <<a, box>>)
<1>1. ASSUME NEW d \in Dirs
      PROVE IF d \in Active THEN need[d][1] - box[d][1] <= 1 /\ need[d][2] + box[d][2] <= 2
            ELSE need[d][1] - box[d][1] <= 0 /\ need[d][2] + box[d][2] <= 0
    BY DEF IsBox, Small
<1> QED BY <1>1, OkayCurrent

\* What the sweep has on its faces, at the faces and in the cells between them.
LEMMA OkaySweep ==
    ASSUME Setting, NEW K, NEW moved, NEW a \in OnSweep, a \in K
    PROVE /\ Okay(Faces(dir), K, moved, <<a, Here>>)
          /\ Okay(Interior, K, moved, <<a, Along(dir, 0, 1)>>)
<1>1. Need(a, moved) = Faces(dir)
    BY NeedSweep
<1>2. IsBox(Faces(dir)) /\ IsBox(Interior)
    BY FacesPlaces, IsBoxOf DEF Fit, IsBox
<1>3. Okay(Faces(dir), K, moved, <<a, Here>>)
    BY <1>1, <1>2, OkayHere
<1>4. IsBox(Along(dir, 0, 1))
    BY AlongBox, ConfType
<1>5. Within(Touch(Interior, Along(dir, 0, 1)), Faces(dir))
  <2> SUFFICES ASSUME NEW d \in Dirs
               PROVE /\ Interior[d][1] - Along(dir, 0, 1)[d][1] <= Faces(dir)[d][1]
                     /\ Interior[d][2] + Along(dir, 0, 1)[d][2] <= Faces(dir)[d][2]
      BY DEF Within, Touch
  <2>1. Interior[d] = <<0, 0>> /\ Faces(dir)[d] = IF d = dir THEN <<0, 1>> ELSE <<0, 0>>
      BY DEF Interior, Region, Faces
  <2>2. Along(dir, 0, 1)[d] = IF d = dir THEN <<0, 1>> ELSE <<0, 0>>
      BY ActiveDirs DEF Along
  <2> QED BY <2>1, <2>2
<1>6. Okay(Interior, K, moved, <<a, Along(dir, 0, 1)>>)
    BY <1>1, <1>2, <1>4, <1>5, OkayIn
<1> QED BY <1>3, <1>6
-----------------------------------------------------------------------------
LEMMA SetServes ==
    ASSUME NEW over, IsBox(over), NEW a, NEW moved, Within(Need(a, moved), over), NEW ins, NEW parts,
           NEW K, \A r \in ins : Okay(Need(a, moved), K, moved, r)
    PROVE /\ Serve(over, Set(a, ins, parts), K, moved)
          /\ a \in K => Serve(over, Add(a, ins, parts), K, moved)
BY Fields, Kinds DEF Serve

LEMMA CellsWithin ==
    ASSUME Setting
    PROVE /\ IsBox(Wherever) /\ IsBox(Interior) /\ IsBox(AllEdges) /\ IsBox(Faces(dir))
          /\ Within(Interior, Wherever) /\ Within(Wherever, Wherever) /\ Within(AllEdges, Wherever)
          /\ Within(Faces(dir), Wherever) /\ Within(Interior, Faces(dir))
          /\ Within(Faces(dir), Faces(dir)) /\ Within(Interior, Interior) /\ Within(AllEdges, AllEdges)
<1>1. IsBox(Wherever) /\ IsBox(Interior) /\ IsBox(AllEdges) /\ IsBox(Faces(dir))
    BY IsBoxOf, FacesPlaces DEF Fit, IsBox
<1>2. Within(Interior, Wherever) /\ Within(AllEdges, Wherever) /\ Within(Faces(dir), Wherever)
    BY Places, NearFit DEF Fit
<1>3. Within(Interior, Faces(dir))
  <2> SUFFICES ASSUME NEW d \in Dirs
               PROVE Interior[d][1] <= Faces(dir)[d][1] /\ Interior[d][2] <= Faces(dir)[d][2]
      BY DEF Within
  <2> QED BY DEF Interior, Region, Faces
<1> QED BY <1>1, <1>2, <1>3, SelfWithin

\* The functions of the user fill their arrays, in the first sweep.
LEMMA UserServes ==
    ASSUME Setting, NEW term, NEW arrays, arrays \subseteq Wide, NEW K, "Vc" \in K
    PROVE Serves(UserDiffusivity(arrays, term), K,
                 If(conf.terms[term] = "userdef" /\ dir = IDIR, arrays), FALSE)
<1> DEFINE does == {Set(a, {<<"Vc", Here>>}, {}) : a \in arrays}
<1>1. CASE conf.terms[term] = "userdef" /\ dir = IDIR
  <2>1. ASSUME NEW s \in does PROVE Serve(Wherever, s, K, FALSE)
    <3>1. PICK a \in arrays : s = Set(a, {<<"Vc", Here>>}, {})
        OBVIOUS
    <3>2. Need(a, FALSE) = Wherever
        BY NeedWide
    <3>3. "Vc" \in Wide
        BY DEF Wide
    <3>4. \A r \in {<<"Vc", Here>>} : Okay(Need(a, FALSE), K, FALSE, r)
        BY <3>3, HereBox, OkayWide
    <3> QED BY <3>1, <3>2, <3>4, CellsWithin, SetServes
  <2>2. arrays \subseteq {s.out : s \in does}
    <3> SUFFICES ASSUME NEW a \in arrays PROVE \E s \in does : a = s.out
        OBVIOUS
    <3>1. Set(a, {<<"Vc", Here>>}, {}) \in does
        OBVIOUS
    <3> QED BY <3>1, Fields
  <2>3. /\ UserDiffusivity(arrays, term) = <<Loop(Wherever, does)>>
        /\ If(conf.terms[term] = "userdef" /\ dir = IDIR, arrays) = arrays
      BY <1>1 DEF UserDiffusivity, If
  <2> HIDE DEF does
  <2> QED BY <2>1, <2>2, <2>3, OneServes
<1>2. CASE ~(conf.terms[term] = "userdef" /\ dir = IDIR)
  <2>1. /\ UserDiffusivity(arrays, term) = <<>>
        /\ If(conf.terms[term] = "userdef" /\ dir = IDIR, arrays) = {}
      BY <1>2 DEF UserDiffusivity, If
  <2> QED BY <2>1, NoServes
<1> QED BY <1>1, <1>2

LEMMA ServesLess ==
    ASSUME NEW loops, NEW K, NEW O, NEW P, NEW moved, Serves(loops, K, O, moved), P \subseteq K \cup O
    PROVE Serves(loops, K, P, moved)
BY DEF Serves

LEMMA ServesMore ==
    ASSUME NEW loops, NEW K, NEW L, NEW O, NEW moved, Serves(loops, K, O, moved), K \subseteq L
    PROVE Serves(loops, L, O, moved)
<1>1. ASSUME NEW i \in 1..Len(loops), NEW s \in loops[i].does
      PROVE Serve(loops[i].over, s, L \cup Outs(loops, i - 1), moved)
  <2>1. Serve(loops[i].over, s, K \cup Outs(loops, i - 1), moved)
      BY DEF Serves
  <2>2. K \cup Outs(loops, i - 1) \subseteq L \cup Outs(loops, i - 1)
      OBVIOUS
  <2> QED BY <2>1, <2>2, ServeMore
<1>2. O \subseteq L \cup Outs(loops, Len(loops))
    BY DEF Serves
<1>3. \E M : loops \in Seq(M)
    BY DEF Serves
<1> QED BY <1>1, <1>2, <1>3 DEF Serves

\* The functions of the user come before the kernel that takes their arrays.
LEMMA UserThenServes ==
    ASSUME Setting, NEW term, NEW arrays, arrays \subseteq Wide, NEW K, "Vc" \in K,
           conf.terms[term] = "userdef" /\ dir # IDIR => arrays \subseteq K,
           NEW loops, NEW O,
           Serves(loops, K \cup If(conf.terms[term] = "userdef", arrays), O, FALSE)
    PROVE Serves(UserDiffusivity(arrays, term) \o loops, K,
                 If(conf.terms[term] = "userdef", arrays) \cup O, FALSE)
<1> DEFINE F == If(conf.terms[term] = "userdef" /\ dir = IDIR, arrays)
           all == If(conf.terms[term] = "userdef", arrays)
           first == UserDiffusivity(arrays, term)
<1>1. Serves(first, K, F, FALSE)
    BY UserServes
<1>2. K \cup all = K \cup F /\ all \subseteq K \cup F
    BY DEF If
<1> HIDE DEF F, all, first
<1>3. Serves(loops, K \cup F, O, FALSE)
    BY <1>2 DEF all
<1>4. Serves(first \o loops, K, F \cup O, FALSE)
    BY <1>1, <1>3, JoinServes DEF first
<1>5. all \cup O \subseteq K \cup (F \cup O)
    BY <1>2
<1>6. Serves(first \o loops, K, all \cup O, FALSE)
    BY <1>4, <1>5, ServesLess
<1> QED BY <1>6 DEF all, first

LEMMA OkayAtFace ==
    ASSUME Setting, NEW term, NEW arrays, arrays \subseteq Wide, NEW K, NEW need, NEW moved,
           conf.terms[term] = "userdef" => arrays \subseteq K
    PROVE /\ \A r \in AtFace(arrays, term) : Okay(need, K, moved, r)
          /\ \A r \in AtCell(arrays, term) : Okay(need, K, moved, r)
<1>1. IsBox(Along(dir, -1, 0)) /\ IsBox(Here)
    BY AlongBox, HereBox, ConfType
<1>2. ASSUME NEW r \in AtFace(arrays, term) PROVE Okay(need, K, moved, r)
  <2>1. PICK a \in arrays : r = <<a, Along(dir, -1, 0)>> /\ a \in K
      BY DEF AtFace
  <2> QED BY <1>1, <2>1, OkayWide
<1>3. ASSUME NEW r \in AtCell(arrays, term) PROVE Okay(need, K, moved, r)
  <2>1. PICK a \in arrays : r = <<a, Here>> /\ a \in K
      BY DEF AtCell
  <2> QED BY <1>1, <2>1, OkayWide
<1> QED BY <1>2, <1>3

\* What a sweep adds to the fluxes, and the sources it sets.
LEMMA FluxServes ==
    ASSUME Setting, NEW does, NEW K, "Flux" \in K, "dMax" \in K,
           \A s \in does :
              \/ s.out \in {"Flux", "dMax"} /\ \A r \in s.ins : Okay(Faces(dir), K, FALSE, r)
              \/ /\ s.out \in {"viscSrc", "bragViscSrc"} /\ ~s.add
                 /\ \A r \in s.ins : Okay(Interior, K, FALSE, r)
    PROVE \A s \in does : Serve(Faces(dir), s, K, FALSE)
<1> SUFFICES ASSUME NEW s \in does PROVE Serve(Faces(dir), s, K, FALSE)
    OBVIOUS
<1>1. /\ \A a \in {"Flux", "dMax"} : Need(a, FALSE) = Faces(dir)
      /\ \A a \in {"viscSrc", "bragViscSrc"} : Need(a, FALSE) = Interior
    BY NeedSweep, NeedCells DEF OnSweep, InCells
<1>2. CASE s.out \in {"Flux", "dMax"} /\ \A r \in s.ins : Okay(Faces(dir), K, FALSE, r)
    BY <1>1, <1>2, CellsWithin DEF Serve
<1>3. CASE /\ s.out \in {"viscSrc", "bragViscSrc"} /\ ~s.add
           /\ \A r \in s.ins : Okay(Interior, K, FALSE, r)
    BY <1>1, <1>3, CellsWithin DEF Serve
<1> QED BY <1>2, <1>3
-----------------------------------------------------------------------------
\* What one statement of a function gives.
LEMMA SingleServes ==
    ASSUME NEW over, NEW s, NEW K, NEW moved, Serve(over, s, K, moved), NEW O, O \subseteq {s.out}
    PROVE Serves(<<Loop(over, {s})>>, K, O, moved)
<1>1. O \subseteq {t.out : t \in {s}} /\ \A t \in {s} : Serve(over, t, K, moved)
    OBVIOUS
<1> QED BY <1>1, OneServes

LEMMA AlongEdges ==
    ASSUME Setting, NEW d \in Dirs
    PROVE Within([e \in Dirs |-> IF e = d THEN Along(d, 0, 1)[e] ELSE <<0, 0>>], AllEdges)
<1>1. \A e \in Dirs : AllEdges[e] = IF e \in Active THEN <<0, 1>> ELSE <<0, 0>>
    BY DEF AllEdges, Region
<1>2. \A e \in Dirs : Along(d, 0, 1)[e] = IF e = d /\ e \in Active THEN <<0, 1>> ELSE <<0, 0>>
    BY DEF Along
<1> QED BY <1>1, <1>2 DEF Within

LEMMA RateWithin ==
    ASSUME Setting, NEW a \in Derivatives PROVE Within(Need(a, FALSE), Wherever)
<1>1. CASE a \in {"dU", "InvDt"}
    BY <1>1, NeedCells, CellsWithin DEF InCells
<1>2. ASSUME NEW e \in Dirs, a \in {Edge[e], dA[e]} PROVE Within(Need(a, FALSE), Wherever)
    BY <1>2, NeedEdge, CellsWithin
<1>3. ASSUME NEW d \in Dirs, a = dB[d] PROVE Within(Need(a, FALSE), Wherever)
  <2> DEFINE box == [e \in Dirs |-> IF e = d THEN Along(d, 0, 1)[e] ELSE <<0, 0>>]
  <2>1. Need(a, FALSE) = [e \in Dirs |-> IF e = d THEN Along(d, 0, 1)[d] ELSE <<0, 0>>]
      BY <1>3, NeedRate
  <2>2. Need(a, FALSE) = box
      BY <2>1
  <2>3. Within(box, AllEdges)
      BY AlongEdges
  <2>4. IsBox(box)
      BY DEF IsBox, Along
  <2> HIDE DEF box
  <2> QED BY <2>2, <2>3, <2>4, CellsWithin, WithinWithin
<1>4. Edges \subseteq Dirs /\ Active \subseteq Dirs
    BY ActiveDirs DEF Edges, Dirs, KDIR
<1>5. \/ a \in {"dU", "InvDt"} \/ (\E e \in Dirs : a \in {Edge[e], dA[e]}) \/ \E d \in Dirs : a = dB[d]
    BY <1>4 DEF Derivatives, Names
<1> QED BY <1>1, <1>2, <1>3, <1>5

LEMMA ResetStageServes ==
    ASSUME Setting, NEW K
    PROVE Serves(<<Loop(Wherever, {Set(a, {}, {}) : a \in Derivatives})>>, K, Derivatives, FALSE)
<1> DEFINE does == {Set(a, {}, {}) : a \in Derivatives}
<1>1. ASSUME NEW s \in does PROVE Serve(Wherever, s, K, FALSE)
  <2>1. PICK a \in Derivatives : s = Set(a, {}, {})
      OBVIOUS
  <2>2. Within(Need(a, FALSE), Wherever) /\ \A r \in {} : Okay(Need(a, FALSE), K, FALSE, r)
      BY RateWithin
  <2> QED BY <2>1, <2>2, CellsWithin, SetServes
<1>2. Derivatives \subseteq {s.out : s \in does}
  <2> SUFFICES ASSUME NEW a \in Derivatives PROVE \E s \in does : a = s.out
      OBVIOUS
  <2>1. Set(a, {}, {}) \in does
      OBVIOUS
  <2> QED BY <2>1, Fields
<1> HIDE DEF does
<1>3. Serves(<<Loop(Wherever, does)>>, K, Derivatives, FALSE)
    BY <1>1, <1>2, OneServes
<1> QED BY <1>3 DEF does

LEMMA CurrentServes ==
    ASSUME Setting, NEW K, "Vc" \in K, Names(BXs, Dirs) \subseteq K
    PROVE Serves(CalcCurrent, K, {"J1", "J2", "J3"}, FALSE)
<1> DEFINE over == Region(nghost - 1, nghost)
           W == {"J1", "J2", "J3"}
           does == {Set(c, CurrentFrom[c], {}) : c \in W}
<1>1. \A d \in Dirs : /\ over[d] = IF d \in Active THEN <<nghost - 1, nghost>> ELSE <<0, 0>>
                      /\ Wherever[d] = IF d \in Active THEN <<nghost, nghost>> ELSE <<0, 0>>
    BY DEF Region, Wherever
<1>2. IsBox(over) /\ Within(over, over)
    BY <1>1, Ghosts DEF IsBox, Within
<1>3. \A b \in Dirs : IsBox(Along(b, -1, 0)) /\ Inside(over, Along(b, -1, 0))
  <2> SUFFICES ASSUME NEW b \in Dirs PROVE IsBox(Along(b, -1, 0)) /\ Inside(over, Along(b, -1, 0))
      OBVIOUS
  <2>1. \A d \in Dirs : Along(b, -1, 0)[d] = IF d = b /\ d \in Active THEN <<-1, 0>> ELSE <<0, 0>>
      BY DEF Along
  <2> HIDE DEF over
  <2> QED BY <1>1, <2>1, Ghosts DEF IsBox, Inside, Within, Touch
<1>4. \A c \in W : Need(c, FALSE) = over
    BY NeedCurrent
<1>5. ASSUME NEW e \in Dirs, NEW r \in CurrentFrom[Current[e]] PROVE Okay(over, K, FALSE, r)
  <2>1. PICK b \in Dirs :
              /\ r[2] = Along(b, -1, 0) /\ r = <<r[1], r[2]>>
              /\ r[1] = "Vc" \/ \E c \in Active : r[1] = BXs[c]
      BY <1>5, CurrentReads
  <2>2. CASE r[1] = "Vc"
    <3>1. "Vc" \in Wide
        BY DEF Wide
    <3> QED BY <1>3, <2>1, <2>2, <3>1, OkayWide
  <2>3. ASSUME NEW c \in Active, r[1] = BXs[c] PROVE Okay(over, K, FALSE, r)
    <3>1. c \in Dirs /\ BXs[c] \in K
        BY ActiveDirs DEF Names
    <3> HIDE DEF over
    <3> QED BY <1>2, <1>3, <2>1, <2>3, <3>1, OkayField
  <2> QED BY <2>1, <2>2, <2>3
<1>6. W = {Current[e] : e \in Dirs}
    BY Tuples DEF Dirs
<1>7. ASSUME NEW s \in does PROVE Serve(over, s, K, FALSE)
  <2>1. PICK c \in W : s = Set(c, CurrentFrom[c], {})
      OBVIOUS
  <2>2. \A r \in CurrentFrom[c] : Okay(Need(c, FALSE), K, FALSE, r)
      BY <1>4, <1>5, <1>6
  <2> HIDE DEF over
  <2> QED BY <1>2, <1>4, <2>1, <2>2, SetServes
<1>8. W \subseteq {s.out : s \in does}
  <2> SUFFICES ASSUME NEW a \in W PROVE \E s \in does : a = s.out
      OBVIOUS
  <2>1. Set(a, CurrentFrom[a], {}) \in does
      OBVIOUS
  <2> QED BY <2>1, Fields
<1>9. CalcCurrent = <<Loop(over, does)>>
    BY DEF CalcCurrent
<1> HIDE DEF over, does, W
<1>10. Serves(CalcCurrent, K, W, FALSE)
    BY <1>7, <1>8, <1>9, OneServes
<1> QED BY <1>10 DEF W

\* Kernels of one statement over the cells and their ghosts.
LEMMA LocalServes ==
    ASSUME Setting, NEW K,
           NEW parts
    PROVE /\ "Vc" \in K => Serves(<<Loop(Wherever, {Set("xHall", {<<"Vc", Here>>}, parts)})>>, K, {"xHall"}, FALSE)
          /\ Serves(<<Loop(Wherever, {Set("csIso", {}, parts)})>>, K, {"csIso"}, FALSE)
          /\ Serves(<<Loop(Wherever, {Set("fargoVelocity", {}, parts)})>>, K, {"fargoVelocity"}, FALSE)
          /\ Serves(<<Loop(Wherever, {Set("dMax", {}, parts)})>>, K, {"dMax"}, FALSE)
          /\ Serves(<<Loop(Wherever, {Set("Flux", {}, parts)})>>, K, {"Flux"}, FALSE)
          /\ "Vc" \in K => Serves(<<Loop(Wherever, {Add("Vc", {}, parts)})>>, K, {"Vc"}, FALSE)
          /\ "Vc" \in K => Serves(<<Loop(Wherever, {Set("Vc", {<<"Vc", Here>>}, parts)})>>, K, {"Vc"}, FALSE)
<1>1. \A a \in {"xHall", "csIso", "fargoVelocity", "dMax", "Flux", "Vc"} :
          Within(Need(a, FALSE), Wherever) /\ \A r \in {} : Okay(Need(a, FALSE), K, FALSE, r)
  <2>1. {"xHall", "csIso", "fargoVelocity", "Vc"} \subseteq Wide /\ {"dMax", "Flux"} \subseteq OnSweep
      BY DEF Wide, OnSweep
  <2>2. \A a \in Wide : Within(Need(a, FALSE), Wherever)
      BY NeedWide, CellsWithin
  <2>3. \A a \in OnSweep : Within(Need(a, FALSE), Wherever)
      BY NeedSweep, CellsWithin
  <2> QED BY <2>1, <2>2, <2>3
<1>2. "Vc" \in K => \A a \in {"xHall", "Vc"} : \A r \in {<<"Vc", Here>>} : Okay(Need(a, FALSE), K, FALSE, r)
    BY HereBox, OkayWide DEF Wide
<1>3. \A a \in {"csIso", "fargoVelocity", "dMax", "Flux"} : 
          Serve(Wherever, Set(a, {}, parts), K, FALSE) /\ Set(a, {}, parts).out = a
  <2>1. \A a \in {"csIso", "fargoVelocity", "dMax", "Flux"} : Serve(Wherever, Set(a, {}, parts), K, FALSE)
      BY <1>1, CellsWithin, SetServes
  <2>2. \A a : Set(a, {}, parts).out = a
      BY Fields
  <2> QED BY <2>1, <2>2
<1>4. "Vc" \in K =>
          /\ \A a \in {"xHall", "Vc"} : /\ Serve(Wherever, Set(a, {<<"Vc", Here>>}, parts), K, FALSE)
                                        /\ Set(a, {<<"Vc", Here>>}, parts).out = a
          /\ Serve(Wherever, Add("Vc", {}, parts), K, FALSE) /\ Add("Vc", {}, parts).out = "Vc"
  <2> SUFFICES ASSUME "Vc" \in K
               PROVE /\ \A a \in {"xHall", "Vc"} : /\ Serve(Wherever, Set(a, {<<"Vc", Here>>}, parts), K, FALSE)
                                                   /\ Set(a, {<<"Vc", Here>>}, parts).out = a
                     /\ Serve(Wherever, Add("Vc", {}, parts), K, FALSE) /\ Add("Vc", {}, parts).out = "Vc"
      OBVIOUS
  <2>1. \A a \in {"xHall", "Vc"} : Serve(Wherever, Set(a, {<<"Vc", Here>>}, parts), K, FALSE)
      BY <1>1, <1>2, CellsWithin, SetServes
  <2>2. Serve(Wherever, Add("Vc", {}, parts), K, FALSE)
      BY <1>1, CellsWithin, SetServes
  <2>3. (\A a : Set(a, {<<"Vc", Here>>}, parts).out = a) /\ Add("Vc", {}, parts).out = "Vc"
      BY Fields
  <2> QED BY <2>1, <2>2, <2>3
<1>5. \A a \in {"csIso", "fargoVelocity", "dMax", "Flux"} :
          Serves(<<Loop(Wherever, {Set(a, {}, parts)})>>, K, {a}, FALSE)
    BY <1>3, SingleServes
<1>6. "Vc" \in K =>
          /\ \A a \in {"xHall", "Vc"} : Serves(<<Loop(Wherever, {Set(a, {<<"Vc", Here>>}, parts)})>>, K, {a}, FALSE)
          /\ Serves(<<Loop(Wherever, {Add("Vc", {}, parts)})>>, K, {"Vc"}, FALSE)
    BY <1>4, SingleServes
<1> QED BY <1>5, <1>6
-----------------------------------------------------------------------------
\* The mean flow of the user is filled before the kernel that takes it.
LEMMA FargoServes ==
    ASSUME Setting, NEW K, NEW loops, NEW O,
           Serves(loops, K \cup If(conf.fargo = "userdef", {"fargoVelocity"}), O, FALSE)
    PROVE Serves(GetFargoVelocity \o loops, K,
                 If(conf.fargo = "userdef", {"fargoVelocity"}) \cup O, FALSE)
<1> DEFINE F == If(conf.fargo = "userdef", {"fargoVelocity"})
<1>1. Serves(GetFargoVelocity, K, F, FALSE)
  <2>1. CASE conf.fargo = "userdef"
    <3>1. F = {"fargoVelocity"} /\ GetFargoVelocity = <<Loop(Wherever, {Set("fargoVelocity", {}, {})})>>
        BY <2>1 DEF If, GetFargoVelocity
    <3> HIDE DEF F
    <3> QED BY <3>1, LocalServes
  <2>2. CASE conf.fargo # "userdef"
    <3>1. F = {} /\ GetFargoVelocity = <<>>
        BY <2>2 DEF If, GetFargoVelocity
    <3> HIDE DEF F
    <3> QED BY <3>1, NoServes
  <2> QED BY <2>1, <2>2
<1> HIDE DEF F
<1>2. Serves(GetFargoVelocity \o loops, K, F \cup O, FALSE)
    BY <1>1, JoinServes DEF F
<1> QED BY <1>2 DEF F

LEMMA VelocityServes ==
    ASSUME Setting, NEW K, "Vc" \in K
    PROVE /\ Serves(AddVelocityLoops, K, If(conf.fargo = "userdef", {"fargoVelocity"}), FALSE)
          /\ Serves(SubstractVelocityLoops, K, If(conf.fargo = "userdef", {"fargoVelocity"}), FALSE)
<1> DEFINE F == If(conf.fargo = "userdef", {"fargoVelocity"})
           L == K \cup F
           first == <<Loop(Wherever, {Add("Vc", {}, Part("mean", 0))})>>
           second == <<Loop(Wherever, {Set("Vc", {<<"Vc", Here>>}, mem["Vc"].parts \ Part("mean", 0))})>>
<1>1. Serves(first, L, {"Vc"}, FALSE) /\ Serves(second, L, {"Vc"}, FALSE)
    BY LocalServes
<1>2. AddVelocityLoops = GetFargoVelocity \o first /\ SubstractVelocityLoops = GetFargoVelocity \o second
    BY DEF AddVelocityLoops, SubstractVelocityLoops
<1> HIDE DEF F, first, second
<1>3. /\ Serves(AddVelocityLoops, K, F \cup {"Vc"}, FALSE)
      /\ Serves(SubstractVelocityLoops, K, F \cup {"Vc"}, FALSE)
    BY <1>1, <1>2, FargoServes DEF F
<1>4. F \subseteq K \cup (F \cup {"Vc"})
    OBVIOUS
<1>5. Serves(AddVelocityLoops, K, F, FALSE) /\ Serves(SubstractVelocityLoops, K, F, FALSE)
    BY <1>3, <1>4, ServesLess
<1> QED BY <1>5 DEF F
-----------------------------------------------------------------------------
\* What a solver reads, and where it has to give what is needed.
SolverReads(K) ==
    /\ "Vc" \in K
    /\ conf.eos = "userdef" => "csIso" \in K
    /\ conf.shock /\ conf.order \in {2, 3} => "flags" \in K
    /\ Names(BXs, Dirs) \subseteq K
    /\ conf.hall # "no" => {"J1", "J2", "J3"} \subseteq K
    /\ conf.hall = "userdef" => "xHall" \in K

LEMMA ExtendedBox ==
    ASSUME Setting, NEW k \in 0..nghost
    PROVE IsBox(Extended(k)) /\ (k <= 1 => Near(Extended(k)))
<1>1. \A d \in Dirs : Extended(k)[d] = IF d = dir THEN <<0, 1>>
                                       ELSE IF d \in Active THEN <<k, k>> ELSE <<0, 0>>
    BY ExtendedFit
<1>2. k \in Int
    BY Ghosts
<1> QED BY <1>1, <1>2, ActiveDirs DEF IsBox, Near

LEMMA PrimServe ==
    ASSUME Setting, NEW k \in 0..nghost, NEW K, SolverReads(K), NEW r \in ExtrapolatePrimVar,
           conf.shock /\ conf.order \in {2, 3} => k <= 1
    PROVE Okay(Extended(k), K, FALSE, r)
<1>0. "Vc" \in Wide
    BY DEF Wide
<1>1. CASE conf.shock /\ conf.order \in {2, 3} /\ r = <<"flags", Along(dir, -1, 0)>>
  <2>1. "flags" \in K
      BY <1>1 DEF SolverReads
  <2>2. IsBox(Along(dir, -1, 0)) /\ IsBox(Extended(k))
      BY AlongBox, ConfType, ExtendedBox
  <2>3. Within(Touch(Extended(k), Along(dir, -1, 0)), Region(1, 1))
    <3> SUFFICES ASSUME NEW d \in Dirs
                 PROVE /\ Extended(k)[d][1] - Along(dir, -1, 0)[d][1] <= Region(1, 1)[d][1]
                       /\ Extended(k)[d][2] + Along(dir, -1, 0)[d][2] <= Region(1, 1)[d][2]
        BY DEF Within, Touch
    <3>1. Extended(k)[d] = IF d = dir THEN <<0, 1>> ELSE IF d \in Active THEN <<k, k>> ELSE <<0, 0>>
        BY ExtendedFit
    <3>2. Region(1, 1)[d] = IF d \in Active THEN <<1, 1>> ELSE <<0, 0>>
        BY DEF Region
    <3>3. Along(dir, -1, 0)[d] = IF d = dir THEN <<-1, 0>> ELSE <<0, 0>>
        BY ActiveDirs DEF Along
    <3>4. k \in Int /\ k <= 1 /\ dir \in Active
        BY <1>1, Ghosts, ActiveDirs
    <3> QED BY <3>1, <3>2, <3>3, <3>4
  <2>4. Need("flags", FALSE) = Region(1, 1)
      BY NeedFlags
  <2> QED BY <1>1, <2>1, <2>2, <2>3, <2>4, OkayIn
<1>2. CASE r = <<"Vc", <<DonorCell, LinearSlopes, LimO3, PpmStates>>[conf.order]>>
  <2>1. IsBox(DonorCell) /\ IsBox(LinearSlopes) /\ IsBox(LimO3) /\ IsBox(PpmStates)
      BY AlongBox, ConfType DEF DonorCell, LinearSlopes, LimO3, PpmStates
  <2>2. IsBox(<<DonorCell, LinearSlopes, LimO3, PpmStates>>[conf.order])
      BY <2>1, ConfType
  <2>3. "Vc" \in K
      BY DEF SolverReads
  <2> QED BY <1>0, <1>2, <2>2, <2>3, OkayWide
<1> QED BY <1>1, <1>2 DEF ExtrapolatePrimVar

LEMMA HDServe ==
    ASSUME Setting, NEW k \in 0..nghost, NEW K, SolverReads(K), NEW r \in HDStates,
           conf.shock /\ conf.order \in {2, 3} => k <= 1
    PROVE Okay(Extended(k), K, FALSE, r)
<1>1. CASE conf.eos = "userdef" /\ r = <<"csIso", Along(dir, -1, 0)>>
  <2>1. "csIso" \in Wide /\ "csIso" \in K
      BY <1>1 DEF Wide, SolverReads
  <2>2. IsBox(Along(dir, -1, 0))
      BY AlongBox, ConfType
  <2> QED BY <1>1, <2>1, <2>2, OkayWide
<1> QED BY <1>1, PrimServe DEF HDStates, Speeds

LEMMA MHDServe ==
    ASSUME Setting, NEW k \in 0..nghost, NEW K, SolverReads(K), NEW r \in MHDStates,
           conf.shock /\ conf.order \in {2, 3} => k <= 1
    PROVE Okay(Extended(k), K, FALSE, r)
<1>1. CASE r = <<BXs[dir], Here>>
  <2>1. 0 \in 0..nghost
      BY Ghosts
  <2>2. Inside(Extended(k), Here) /\ IsBox(Here) /\ IsBox(Extended(k))
      BY <2>1, StatesInside, ExtendedBox
  <2>3. dir \in Dirs /\ BXs[dir] \in K
      BY ConfType DEF SolverReads, Names
  <2> QED BY <1>1, <2>2, <2>3, OkayField
<1> QED BY <1>1, HDServe DEF MHDStates

LEMMA FaceCurrentServe ==
    ASSUME Setting, NEW k \in {0, 1}, NEW K, {"J1", "J2", "J3"} \subseteq K, NEW moved, NEW r \in FaceCurrent
    PROVE Okay(Extended(k), K, moved, r)
<1>0. k \in 0..nghost /\ k \in Int
    BY Ghosts
<1>1. /\ r[1] \in {"J1", "J2", "J3"} /\ r = <<r[1], r[2]>> /\ IsBox(r[2])
      /\ \A d \in Dirs : IF d \in Active
                         THEN -1 <= r[2][d][1] /\ (d # dir => 0 <= r[2][d][1]) /\ r[2][d][2] <= 1
                         ELSE r[2][d] = <<0, 0>>
  <2>1. CASE dir = 1
    <3>1. CASE r = <<"J1", Box(<<-1, 0>>, <<0, 1>>, <<0, 1>>)>>
        BY <2>1, <3>1, BoxBox DEF Box, Dirs
    <3>2. CASE r = <<"J2", Along(KDIR, 0, 1)>>
        BY <2>1, <3>2, AlongBox DEF KDIR, Dirs, Along
    <3>3. CASE r = <<"J3", Along(JDIR, 0, 1)>>
        BY <2>1, <3>3, AlongBox DEF JDIR, Dirs, Along
    <3> QED BY <2>1, <3>1, <3>2, <3>3 DEF FaceCurrent, IDIR, JDIR, KDIR
  <2>2. CASE dir = 2
    <3>1. CASE r = <<"J2", Box(<<0, 1>>, <<-1, 0>>, <<0, 1>>)>>
        BY <2>2, <3>1, BoxBox DEF Box, Dirs
    <3>2. CASE r = <<"J1", Along(KDIR, 0, 1)>>
        BY <2>2, <3>2, AlongBox DEF KDIR, Dirs, Along
    <3>3. CASE r = <<"J3", Along(IDIR, 0, 1)>>
        BY <2>2, <3>3, AlongBox DEF IDIR, Dirs, Along
    <3> QED BY <2>2, <3>1, <3>2, <3>3 DEF FaceCurrent, IDIR, JDIR, KDIR
  <2>3. CASE dir = 3
    <3>1. CASE r = <<"J3", Box(<<0, 1>>, <<0, 1>>, <<-1, 0>>)>>
        BY <2>3, <3>1, BoxBox DEF Box, Dirs
    <3>2. CASE r = <<"J1", Along(JDIR, 0, 1)>>
        BY <2>3, <3>2, AlongBox DEF JDIR, Dirs, Along
    <3>3. CASE r = <<"J2", Along(IDIR, 0, 1)>>
        BY <2>3, <3>3, AlongBox DEF IDIR, Dirs, Along
    <3> QED BY <2>3, <3>1, <3>2, <3>3 DEF FaceCurrent, IDIR, JDIR, KDIR
  <2> QED BY <2>1, <2>2, <2>3, ConfType DEF Dirs
<1>2. \A d \in Dirs : Extended(k)[d] = IF d = dir THEN <<0, 1>>
                                       ELSE IF d \in Active THEN <<k, k>> ELSE <<0, 0>>
    BY <1>0, ExtendedFit
<1>3. PICK box : box = r[2]
    OBVIOUS
<1>4. ASSUME NEW d \in Dirs
      PROVE IF d \in Active THEN Extended(k)[d][1] - box[d][1] <= 1 /\ Extended(k)[d][2] + box[d][2] <= 2
            ELSE Extended(k)[d][1] - box[d][1] <= 0 /\ Extended(k)[d][2] + box[d][2] <= 0
  <2>1. box[d][1] \in Int /\ box[d][2] \in Int
      BY <1>1, <1>3 DEF IsBox
  <2>2. Extended(k)[d] = IF d = dir THEN <<0, 1>> ELSE IF d \in Active THEN <<k, k>> ELSE <<0, 0>>
      BY <1>2
  <2>3. IF d \in Active THEN -1 <= box[d][1] /\ (d # dir => 0 <= box[d][1]) /\ box[d][2] <= 1
        ELSE box[d] = <<0, 0>>
      BY <1>1, <1>3
  <2>4. k \in Int /\ k <= 1 /\ dir \in Active
      BY ActiveDirs
  <2> QED BY <2>1, <2>2, <2>3, <2>4
<1>5. Okay(Extended(k), K, moved, <<r[1], box>>)
    BY <1>0, <1>1, <1>3, <1>4, ExtendedBox, OkayCurrent
<1> QED BY <1>1, <1>3, <1>5
-----------------------------------------------------------------------------
\* What a sweep stores for the edges.
Stored(d) ==
    {Et[d]} \cup If(conf.dims = 3, {Eb[d]})
    \cup If(conf.emf = "uct_contact", {SV[d]})
    \cup If(conf.emf \in {"uct_hll", "uct_hlld"}, {Fan[d]})

LEMMA StoreNeed ==
    ASSUME Setting, NEW a \in {Et[dir], Eb[dir], SV[dir], Fan[dir]}, NEW moved
    PROVE Need(a, moved) = Extended(perpExtension)
<1>1. dir \in Dirs
    BY ConfType
<1>2. Need(a, moved) = [e \in Dirs |-> IF e = dir THEN <<0, 1>> ELSE Region(perpExtension, perpExtension)[e]]
    BY <1>1, NeedSide
<1> QED BY <1>2 DEF Extended

LEMMA PerpOf == perpExtension \in 0..nghost /\ 0 \in 0..nghost /\ 1 \in 0..nghost /\ 1 <= perpExtension
BY Ghosts DEF perpExtension

LEMMA ExtendedWithin ==
    ASSUME Setting, NEW k \in 0..nghost
    PROVE Within(Faces(dir), Extended(k)) /\ Within(Extended(k), Extended(k)) /\ IsBox(Extended(k))
<1>1. k \in Int /\ 0 <= k /\ 0 \in 0..nghost
    BY Ghosts
<1>2. \A d \in Dirs : /\ Extended(k)[d] = IF d = dir THEN <<0, 1>>
                                          ELSE IF d \in Active THEN <<k, k>> ELSE <<0, 0>>
                      /\ Extended(0)[d] = IF d = dir THEN <<0, 1>>
                                          ELSE IF d \in Active THEN <<0, 0>> ELSE <<0, 0>>
    BY <1>1, ExtendedFit
<1>3. Within(Extended(0), Extended(k))
    BY <1>1, <1>2 DEF Within
<1> QED BY <1>3, FacesExtended, ExtendedBox, SelfWithin

LEMMA FaceServe ==
    ASSUME Setting, NEW over, IsBox(over), Within(Faces(dir), over), NEW ins, NEW K,
           \A r \in ins : Okay(Faces(dir), K, FALSE, r)
    PROVE /\ \A s \in Face(ins) : Serve(over, s, K, FALSE)
          /\ {"Flux", "cMax"} \subseteq {s.out : s \in Face(ins)}
<1>1. \A a \in {"Flux", "cMax"} : Need(a, FALSE) = Faces(dir)
    BY NeedSweep DEF OnSweep
<1>2. \A a \in {"Flux", "cMax"} : Serve(over, Set(a, ins, Hyperbolic), K, FALSE)
    BY <1>1, SetServes
<1>3. Face(ins) = {Set("Flux", ins, Hyperbolic), Set("cMax", ins, Hyperbolic)}
    BY DEF Face
<1>4. Set("Flux", ins, Hyperbolic).out = "Flux" /\ Set("cMax", ins, Hyperbolic).out = "cMax"
    BY Fields
<1> QED BY <1>2, <1>3, <1>4

\* What the stores write, and that they set it.
LEMMA StoresGive ==
    ASSUME Setting, NEW ins, conf.comps > 1
    PROVE /\ \A s \in K_StoreEMF(ins) \cup K_StoreHLL(ins) \cup K_StoreContact(ins) \cup K_StoreHLLD(ins) :
                \E a \in {Et[dir], Eb[dir], SV[dir], Fan[dir]} : \E parts : s = Set(a, ins, parts)
          /\ {Et[dir]} \cup If(conf.dims = 3, {Eb[dir]}) \subseteq {s.out : s \in K_StoreEMF(ins)}
          /\ {Et[dir], SV[dir]} \cup If(conf.dims = 3, {Eb[dir]}) \subseteq {s.out : s \in K_StoreContact(ins)}
          /\ {Et[dir], Fan[dir]} \cup If(conf.dims = 3, {Eb[dir]}) \subseteq {s.out : s \in K_StoreHLLD(ins)}
          /\ {Et[dir], Fan[dir]} \cup If(conf.dims = 3, {Eb[dir]}) \subseteq {s.out : s \in K_StoreHLL(ins)}
<1>0. conf.comps # 1 /\ (conf.dims = 3 => conf.comps = 3)
    BY ConfType
<1>1. PICK et, eb, sv, fan :
        /\ et = Set(Et[dir], ins, Hyperbolic) /\ eb = Set(Eb[dir], ins, Hyperbolic)
        /\ sv = Set(SV[dir], ins, {}) /\ fan = Set(Fan[dir], ins, {})
    OBVIOUS
<1>2. et.out = Et[dir] /\ eb.out = Eb[dir] /\ sv.out = SV[dir] /\ fan.out = Fan[dir]
    BY <1>1, Fields
<1>3. K_StoreEMF(ins) = {et} \cup IF conf.dims = 3 THEN {eb} ELSE {}
    BY <1>0, <1>1 DEF K_StoreEMF
<1>4. /\ K_StoreContact(ins) = K_StoreEMF(ins) \cup {sv}
      /\ K_StoreHLLD(ins) = K_StoreEMF(ins) \cup {fan}
    BY <1>1 DEF K_StoreContact, K_StoreHLLD
<1>5. K_StoreHLL(ins) = {fan, et} \cup IF conf.comps = 3 THEN {eb} ELSE {}
    BY <1>0, <1>1 DEF K_StoreHLL
<1>6. ASSUME NEW s \in {et, eb, sv, fan}
      PROVE \E a \in {Et[dir], Eb[dir], SV[dir], Fan[dir]} : \E parts : s = Set(a, ins, parts)
    BY <1>1
<1>7. /\ {Et[dir]} \cup If(conf.dims = 3, {Eb[dir]}) \subseteq {s.out : s \in K_StoreEMF(ins)}
      /\ {Et[dir], Fan[dir]} \cup If(conf.dims = 3, {Eb[dir]}) \subseteq {s.out : s \in K_StoreHLL(ins)}
    BY <1>0, <1>2, <1>3, <1>5 DEF If
<1>8. /\ {Et[dir], SV[dir]} \cup If(conf.dims = 3, {Eb[dir]}) \subseteq {s.out : s \in K_StoreContact(ins)}
      /\ {Et[dir], Fan[dir]} \cup If(conf.dims = 3, {Eb[dir]}) \subseteq {s.out : s \in K_StoreHLLD(ins)}
    BY <1>0, <1>2, <1>3, <1>4 DEF If
<1>9. K_StoreEMF(ins) \cup K_StoreHLL(ins) \cup K_StoreContact(ins) \cup K_StoreHLLD(ins)
          \subseteq {et, eb, sv, fan}
    BY <1>3, <1>4, <1>5
<1>10. \A s \in K_StoreEMF(ins) \cup K_StoreHLL(ins) \cup K_StoreContact(ins) \cup K_StoreHLLD(ins) :
           \E a \in {Et[dir], Eb[dir], SV[dir], Fan[dir]} : \E parts : s = Set(a, ins, parts)
    BY <1>6, <1>9
<1> QED BY <1>7, <1>8, <1>10

LEMMA NoStore ==
    ASSUME Setting, NEW ins, conf.comps = 1
    PROVE \A s \in K_StoreEMF(ins) \cup K_StoreHLL(ins) \cup K_StoreContact(ins) \cup K_StoreHLLD(ins) :
                \E a \in {Et[dir], Eb[dir], SV[dir], Fan[dir]} : \E parts : s = Set(a, ins, parts)
BY DEF K_StoreEMF, K_StoreHLL, K_StoreContact, K_StoreHLLD

LEMMA StoreServe ==
    ASSUME Setting, NEW over, IsBox(over), Within(Extended(perpExtension), over), NEW ins, NEW K,
           \A r \in ins : Okay(Extended(perpExtension), K, FALSE, r)
    PROVE \A s \in K_StoreEMF(ins) \cup K_StoreHLL(ins) \cup K_StoreContact(ins) \cup K_StoreHLLD(ins) :
              Serve(over, s, K, FALSE)
<1> SUFFICES ASSUME NEW s \in K_StoreEMF(ins) \cup K_StoreHLL(ins) \cup K_StoreContact(ins) \cup K_StoreHLLD(ins)
             PROVE Serve(over, s, K, FALSE)
    OBVIOUS
<1>1. conf.comps = 1 \/ conf.comps > 1
    BY ConfType
<1>2. PICK a \in {Et[dir], Eb[dir], SV[dir], Fan[dir]} : \E parts : s = Set(a, ins, parts)
    BY <1>1, StoresGive, NoStore
<1>3. PICK parts : s = Set(a, ins, parts)
    BY <1>2
<1>4. Need(a, FALSE) = Extended(perpExtension)
    BY StoreNeed
<1> QED BY <1>3, <1>4, SetServes

\* A kernel of a solver of MHD.
LEMMA StoresServe ==
    ASSUME Setting, NEW over, IsBox(over), Within(Extended(perpExtension), over), NEW ins, NEW ins2, NEW K,
           \A r \in ins : Okay(Faces(dir), K, FALSE, r),
           \A r \in ins2 : Okay(Extended(perpExtension), K, FALSE, r),
           NEW more, NEW kept,
           \/ more = K_StoreEMF(ins2) /\ kept = {Et[dir]} \cup If(conf.dims = 3, {Eb[dir]})
           \/ more = K_StoreContact(ins2) /\ kept = {Et[dir], SV[dir]} \cup If(conf.dims = 3, {Eb[dir]})
           \/ /\ more \in {K_StoreHLLD(ins2), K_StoreHLL(ins2)}
              /\ kept = {Et[dir], Fan[dir]} \cup If(conf.dims = 3, {Eb[dir]})
    PROVE Serves(<<Loop(over, Face(ins) \cup more)>>, K, {"Flux", "cMax"} \cup If(conf.comps > 1, kept), FALSE)
<1>1. Within(Faces(dir), over)
    BY PerpOf, ExtendedWithin, CellsWithin, WithinWithin
<1>2. \A s \in Face(ins) : Serve(over, s, K, FALSE)
    BY <1>1, FaceServe
<1>3. {"Flux", "cMax"} \subseteq {s.out : s \in Face(ins)}
    BY <1>1, FaceServe
<1>4. \A s \in more : Serve(over, s, K, FALSE)
    BY StoreServe
<1>5. conf.comps > 1 => kept \subseteq {s.out : s \in more}
    BY StoresGive
<1>6. If(conf.comps > 1, kept) \subseteq {s.out : s \in more}
    BY <1>5 DEF If
<1> DEFINE does == Face(ins) \cup more
<1>7. \A s \in does : Serve(over, s, K, FALSE)
    BY <1>2, <1>4
<1>8. {"Flux", "cMax"} \cup If(conf.comps > 1, kept) \subseteq {s.out : s \in does}
    BY <1>3, <1>6
<1> HIDE DEF does
<1>9. Serves(<<Loop(over, does)>>, K, {"Flux", "cMax"} \cup If(conf.comps > 1, kept), FALSE)
    BY <1>7, <1>8, OneServes
<1> QED BY <1>9 DEF does

LEMMA SolverServes ==
    ASSUME Setting, ~Starved, NEW K, SolverReads(K)
    PROVE Serves(<<Solver>>, K, {"Flux", "cMax"} \cup If(Corners, Stored(dir)), FALSE)
<1>0. Faces(dir) = Extended(0) /\ IsBox(Faces(dir)) /\ Within(Faces(dir), Faces(dir))
    BY FacesPlaces, CellsWithin
<1>1. CASE conf.phys # "mhd"
  <2>1. /\ \A r \in HDStates : Okay(Faces(dir), K, FALSE, r)
        /\ \A r \in ExtrapolatePrimVar : Okay(Faces(dir), K, FALSE, r)
    <3>1. PICK k \in 0..nghost : k = 0
        BY PerpOf
    <3>2. conf.shock /\ conf.order \in {2, 3} => k <= 1
        BY <3>1
    <3>3. \A r \in HDStates : Okay(Extended(k), K, FALSE, r)
        BY <3>2, HDServe
    <3>4. \A r \in ExtrapolatePrimVar : Okay(Extended(k), K, FALSE, r)
        BY <3>2, PrimServe
    <3> QED BY <1>0, <3>1, <3>3, <3>4
  <2>2. /\ Serves(<<Loop(Faces(dir), Face(HDStates))>>, K, {"Flux", "cMax"}, FALSE)
        /\ Serves(<<Loop(Faces(dir), Face(ExtrapolatePrimVar))>>, K, {"Flux", "cMax"}, FALSE)
    <3>1. /\ \A s \in Face(HDStates) : Serve(Faces(dir), s, K, FALSE)
          /\ \A s \in Face(ExtrapolatePrimVar) : Serve(Faces(dir), s, K, FALSE)
          /\ {"Flux", "cMax"} \subseteq {s.out : s \in Face(HDStates)}
          /\ {"Flux", "cMax"} \subseteq {s.out : s \in Face(ExtrapolatePrimVar)}
        BY <1>0, <2>1, FaceServe
    <3> QED BY <3>1, OneServes
  <2>3. Serves(<<Solver>>, K, {"Flux", "cMax"}, FALSE)
      BY <1>1, <2>2 DEF Solver, HllHD, HllcHD, RoeHD, TvdlfHD, HllDust, Setting, Solves, Options
  <2>4. {"Flux", "cMax"} \cup If(Corners, Stored(dir)) = {"Flux", "cMax"}
      BY <1>1 DEF Corners, Mhd, If
  <2> QED BY <2>3, <2>4
<1>2. CASE conf.phys = "mhd"
  <2> DEFINE E == Extended(perpExtension)
             give == {"Flux", "cMax"} \cup If(Corners, Stored(dir))
             base == If(conf.dims = 3, {Eb[dir]})
             kept == CASE conf.emf \in {"arithmetic", "uct0"} -> {Et[dir]} \cup base
                       [] conf.emf = "uct_contact" -> {Et[dir], SV[dir]} \cup base
                       [] conf.emf \in {"uct_hll", "uct_hlld"} -> {Et[dir], Fan[dir]} \cup base
  <2>1. conf.emf \in {"arithmetic", "uct0", "uct_contact", "uct_hll", "uct_hlld"}
      BY DEF Setting, Options
  <2>2. /\ conf.shock /\ conf.order \in {2, 3} => perpExtension <= 1
        /\ conf.solver \in {"roe", "tvdlf"} => perpExtension = 1
      BY <1>2 DEF Starved, perpExtension
  <2>3. IsBox(E) /\ Within(E, E)
      BY PerpOf, ExtendedWithin
  <2>4. \A r \in MHDStates : Okay(Faces(dir), K, FALSE, r) /\ Okay(E, K, FALSE, r)
    <3>1. ASSUME NEW k \in 0..nghost, conf.shock /\ conf.order \in {2, 3} => k <= 1
          PROVE \A r \in MHDStates : Okay(Extended(k), K, FALSE, r)
        BY <3>1, MHDServe
    <3>2. \A r \in MHDStates : Okay(Extended(0), K, FALSE, r)
      <4>1. PICK k \in 0..nghost : k = 0
          BY PerpOf
      <4>2. conf.shock /\ conf.order \in {2, 3} => k <= 1
          BY <4>1
      <4>3. \A r \in MHDStates : Okay(Extended(k), K, FALSE, r)
          BY <3>1, <4>2
      <4> QED BY <4>1, <4>3
    <3>3. \A r \in MHDStates : Okay(Extended(perpExtension), K, FALSE, r)
        BY <2>2, <3>1, PerpOf
    <3> QED BY <1>0, <3>2, <3>3
  <2>5. give \subseteq K \cup ({"Flux", "cMax"} \cup If(conf.comps > 1, kept))
    <3>1. Corners => conf.comps > 1
        BY ConfType DEF Corners
    <3>2. Stored(dir) \subseteq kept
        BY <2>1 DEF Stored, If
    <3> HIDE DEF kept
    <3> QED BY <3>1, <3>2 DEF If
  <2>6. Serves(<<Loop(E, Face(MHDStates) \cup StoreAll)>>, K, {"Flux", "cMax"} \cup If(conf.comps > 1, kept), FALSE)
    <3>1. \/ StoreAll = K_StoreEMF(MHDStates) /\ kept = {Et[dir]} \cup If(conf.dims = 3, {Eb[dir]})
          \/ StoreAll = K_StoreContact(MHDStates) /\ kept = {Et[dir], SV[dir]} \cup If(conf.dims = 3, {Eb[dir]})
          \/ /\ StoreAll \in {K_StoreHLLD(MHDStates), K_StoreHLL(MHDStates)}
             /\ kept = {Et[dir], Fan[dir]} \cup If(conf.dims = 3, {Eb[dir]})
        BY <2>1 DEF StoreAll
    <3> HIDE DEF kept, E
    <3> QED BY <2>3, <2>4, <3>1, StoresServe DEF E
  <2>7. Serves(<<HlldMHD>>, K, give, FALSE)
      BY <2>5, <2>6, ServesLess DEF HlldMHD
  <2>8. conf.solver \in {"roe", "tvdlf"} => Serves(<<RoeMHD>>, K, give, FALSE) /\ Serves(<<TvdlfMHD>>, K, give, FALSE)
      BY <2>2, <2>5, <2>6, ServesLess DEF RoeMHD, TvdlfMHD
  <2>9. conf.solver = "hll" => Serves(<<HllMHD>>, K, give, FALSE)
    <3> SUFFICES ASSUME conf.solver = "hll" PROVE Serves(<<HllMHD>>, K, give, FALSE)
        OBVIOUS
    <3>1. conf.emf # "uct_hlld"
        BY DEF Setting, Solves
    <3> DEFINE ins == MHDStates \cup HallStates
               more == CASE conf.emf \in {"arithmetic", "uct0"} -> K_StoreEMF(ins)
                         [] conf.emf = "uct_contact" -> K_StoreContact(ins)
                         [] conf.emf = "uct_hll" -> K_StoreHLL(MHDStates)
    <3>2. HllMHD = Loop(E, Face(ins) \cup more)
        BY DEF HllMHD
    <3>3. \A k \in {0, 1} : \A r \in HallStates : Okay(Extended(k), K, FALSE, r)
      <4> SUFFICES ASSUME NEW k \in {0, 1}, NEW r \in HallStates PROVE Okay(Extended(k), K, FALSE, r)
          OBVIOUS
      <4>1. CASE r \in FaceCurrent /\ conf.hall # "no"
        <5>1. {"J1", "J2", "J3"} \subseteq K
            BY <4>1 DEF SolverReads
        <5> QED BY <4>1, <5>1, FaceCurrentServe
      <4>2. CASE r = <<"xHall", Along(dir, -1, 0)>> /\ conf.hall = "userdef"
        <5>1. "xHall" \in K /\ "xHall" \in Wide
            BY <4>2 DEF SolverReads, Wide
        <5>2. IsBox(Along(dir, -1, 0))
            BY AlongBox, ConfType
        <5> QED BY <4>2, <5>1, <5>2, OkayWide
      <4> QED BY <4>1, <4>2 DEF HallStates
    <3>4. \A r \in ins : Okay(Faces(dir), K, FALSE, r)
        BY <1>0, <2>4, <3>3
    <3>5. conf.emf # "uct_hll" => \A r \in ins : Okay(E, K, FALSE, r)
      <4>1. conf.emf # "uct_hll" => perpExtension = 1
          BY <3>1 DEF perpExtension
      <4> QED BY <2>4, <3>3, <4>1
    <3> HIDE DEF ins
    <3>6. Serves(<<Loop(E, Face(ins) \cup more)>>, K, {"Flux", "cMax"} \cup If(conf.comps > 1, kept), FALSE)
      <4>1. CASE conf.emf = "uct_hll"
        <5>1. more = K_StoreHLL(MHDStates) /\ kept = {Et[dir], Fan[dir]} \cup If(conf.dims = 3, {Eb[dir]})
            BY <4>1
        <5> HIDE DEF kept, E, more
        <5> QED BY <2>3, <2>4, <3>4, <5>1, StoresServe DEF E
      <4>2. CASE conf.emf # "uct_hll"
        <5>1. \/ more = K_StoreEMF(ins) /\ kept = {Et[dir]} \cup If(conf.dims = 3, {Eb[dir]})
              \/ more = K_StoreContact(ins) /\ kept = {Et[dir], SV[dir]} \cup If(conf.dims = 3, {Eb[dir]})
            BY <2>1, <3>1, <4>2
        <5>2. \A r \in ins : Okay(E, K, FALSE, r)
            BY <3>5, <4>2
        <5> HIDE DEF kept, E, more
        <5> QED BY <2>3, <3>4, <5>1, <5>2, StoresServe DEF E
      <4> QED BY <4>1, <4>2
    <3> HIDE DEF more
    <3> HIDE DEF give, kept, E
    <3>7. Serves(<<HllMHD>>, K, {"Flux", "cMax"} \cup If(conf.comps > 1, kept), FALSE)
        BY <3>2, <3>6
    <3> QED BY <2>5, <3>7, ServesLess
  <2> HIDE DEF give
  <2>10. Serves(<<Solver>>, K, give, FALSE)
      BY <1>2, <2>7, <2>8, <2>9 DEF Solver, Setting, Solves
  <2> QED BY <2>10 DEF give
<1> QED BY <1>1, <1>2

LEMMA CalcFluxServes ==
    ASSUME Setting, ~Starved, NEW K, SolverReads(K \cup If(conf.shock /\ dir = IDIR, {"flags"}))
    PROVE Serves(CalcFlux, K, {"Flux", "cMax"} \cup If(conf.shock /\ dir = IDIR, {"flags"})
                              \cup If(Corners, Stored(dir)), FALSE)
<1> DEFINE F == If(conf.shock /\ dir = IDIR, {"flags"})
           O == {"Flux", "cMax"} \cup If(Corners, Stored(dir))
           first == IF dir = IDIR /\ conf.shock THEN <<FindShock>> ELSE <<>>
<1>1. Serves(<<Solver>>, K \cup F, O, FALSE)
    BY SolverServes
<1>2. Serves(first, K, F, FALSE)
  <2>1. CASE dir = IDIR /\ conf.shock
    <3> DEFINE ins == {<<"Vc", Along(d, -1, 1)>> : d \in Active}
                      \cup UNION {Speeds(d, -1, 1) : d \in Active}
    <3>1. ASSUME NEW r \in ins PROVE Okay(Need("flags", FALSE), K, FALSE, r)
      <4>1. PICK d \in Active, a \in {"Vc", "csIso"} :
               r = <<a, Along(d, -1, 1)>> /\ (a = "csIso" => conf.eos = "userdef")
          BY DEF Speeds
      <4>2. a \in K /\ a \in Wide /\ d \in Dirs
          BY <4>1, ActiveDirs DEF Wide, SolverReads, If
      <4>3. IsBox(Along(d, -1, 1))
          BY <4>2, AlongBox
      <4> QED BY <4>1, <4>2, <4>3, OkayWide
    <3>2. Need("flags", FALSE) = Region(1, 1) /\ IsBox(Region(1, 1)) /\ Within(Region(1, 1), Region(1, 1))
      <4>1. IsBox(Region(1, 1))
          BY IsBoxOf
      <4>2. Within(Region(1, 1), Region(1, 1))
          BY <4>1, SelfWithin
      <4> QED BY <4>1, <4>2, NeedFlags
    <3>3. FindShock = Loop(Region(1, 1), {Set("flags", ins, {})})
        BY DEF FindShock
    <3> HIDE DEF ins
    <3>4. Serve(Region(1, 1), Set("flags", ins, {}), K, FALSE)
        BY <3>1, <3>2, SetServes
    <3>5. F = {"flags"} /\ first = <<FindShock>> /\ Set("flags", ins, {}).out = "flags"
        BY <2>1, Fields DEF If
    <3> HIDE DEF F, first
    <3> QED BY <3>3, <3>4, <3>5, SingleServes
  <2>2. CASE ~(dir = IDIR /\ conf.shock)
    <3>1. F = {} /\ first = <<>>
        BY <2>2 DEF If
    <3> HIDE DEF F, first
    <3> QED BY <3>1, NoServes
  <2> QED BY <2>1, <2>2
<1>3. CalcFlux = first \o <<Solver>>
    BY DEF CalcFlux
<1> HIDE DEF F, O, first
<1>4. Serves(CalcFlux, K, F \cup O, FALSE)
    BY <1>1, <1>2, <1>3, JoinServes
<1>5. {"Flux", "cMax"} \cup F \cup If(Corners, Stored(dir)) \subseteq K \cup (F \cup O)
    BY DEF O
<1>6. Serves(CalcFlux, K, {"Flux", "cMax"} \cup F \cup If(Corners, Stored(dir)), FALSE)
    BY <1>4, <1>5, ServesLess
<1> QED BY <1>6 DEF F
-----------------------------------------------------------------------------
\* A sweep of the diffusive terms, that adds to what is there.
LEMMA SweepServes ==
    ASSUME Setting, NEW does, NEW K, "Flux" \in K, "dMax" \in K,
           \A s \in does :
              \/ s.out \in {"Flux", "dMax"} /\ \A r \in s.ins : Okay(Faces(dir), K, FALSE, r)
              \/ /\ s.out \in {"viscSrc", "bragViscSrc"} /\ ~s.add
                 /\ \A r \in s.ins : Okay(Interior, K, FALSE, r),
           NEW O, O \subseteq {s.out : s \in does}
    PROVE Serves(<<Loop(Faces(dir), does)>>, K, O, FALSE)
<1>1. \A s \in does : Serve(Faces(dir), s, K, FALSE)
    BY FluxServes
<1> QED BY <1>1, OneServes

LEMMA OkayVc ==
    ASSUME NEW need, NEW K, "Vc" \in K, NEW moved, NEW box, IsBox(box)
    PROVE Okay(need, K, moved, <<"Vc", box>>)
<1>1. "Vc" \in Wide
    BY DEF Wide
<1> QED BY <1>1, OkayWide

LEMMA NormalServe ==
    ASSUME Setting, NEW need, NEW K, "Vc" \in K, NEW moved
    PROVE Okay(need, K, moved, Normal) /\ Okay(need, K, moved, <<"Vc", Here>>)
<1>1. IsBox(Along(dir, -1, 0)) /\ IsBox(Here)
    BY AlongBox, HereBox, ConfType
<1> QED BY <1>1, OkayVc DEF Normal

LEMMA TransverseServe ==
    ASSUME Setting, NEW e \in Active, e # dir, NEW need, NEW K, "Vc" \in K, NEW moved
    PROVE Okay(need, K, moved, Transverse(e))
<1> DEFINE box == [d \in Dirs |-> CASE d = dir -> Along(dir, -1, 0)[d]
                                    [] d = e -> Along(e, -1, 1)[d]
                                    [] OTHER -> <<0, 0>>]
<1>1. \A d \in Dirs : box[d] = IF d = dir THEN <<-1, 0>> ELSE IF d = e THEN <<-1, 1>> ELSE <<0, 0>>
    BY ActiveDirs DEF Along
<1>2. Transverse(e) = <<"Vc", box>>
    BY DEF Transverse
<1> HIDE DEF box
<1>3. IsBox(box)
    BY <1>1 DEF IsBox
<1> QED BY <1>2, <1>3, OkayVc

LEMMA GradientsServe ==
    ASSUME Setting, NEW need, NEW K, "Vc" \in K, NEW moved
    PROVE /\ \A r \in FaceGradients : Okay(need, K, moved, r)
          /\ \A r \in CellGradients : Okay(need, K, moved, r)
<1>1. \A r \in FaceGradients : Okay(need, K, moved, r)
    BY NormalServe, TransverseServe DEF FaceGradients
<1>2. ASSUME NEW r \in CellGradients PROVE Okay(need, K, moved, r)
  <2>1. PICK d \in Active : r = <<"Vc", Along(d, -1, 1)>>
      BY DEF CellGradients
  <2>2. IsBox(Along(d, -1, 1))
      BY ActiveDirs, AlongBox
  <2> QED BY <2>1, <2>2, OkayVc
<1> QED BY <1>1, <1>2

LEMMA BragFieldServe ==
    ASSUME Setting, NEW K, Names(BXs, Dirs) \subseteq K, NEW r \in BragField(Active)
    PROVE Okay(Faces(dir), K, FALSE, r)
<1>0. \A d \in Active : BXs[d] \in K /\ d \in Dirs
    BY ActiveDirs DEF Names
<1>1. CASE r = <<BXs[dir], Here>>
    BY <1>0, <1>1, ActiveDirs, FacesPlaces, HereBox, OkayNear
<1>2. ASSUME NEW d \in Active \ {dir},
             r = <<BXs[d], [e \in Dirs |-> CASE e = d -> <<0, 1>>
                                      [] e = dir -> Along(dir, -1, 0)[dir]
                                      [] OTHER -> <<0, 0>>]>>
      PROVE Okay(Faces(dir), K, FALSE, r)
  <2> DEFINE box == [e \in Dirs |-> CASE e = d -> <<0, 1>>
                                      [] e = dir -> Along(dir, -1, 0)[dir]
                                      [] OTHER -> <<0, 0>>]
  <2>1. \A e \in Dirs : box[e] = IF e = d THEN <<0, 1>> ELSE IF e = dir THEN <<-1, 0>> ELSE <<0, 0>>
      BY ActiveDirs DEF Along
  <2>2. r = <<BXs[d], box>>
      BY <1>2
  <2> HIDE DEF box
  <2>3. IsBox(box) /\ Small(box)
      BY <2>1, ActiveDirs DEF IsBox, Small
  <2> QED BY <1>0, <2>2, <2>3, FacesPlaces, OkayNear
<1> QED BY <1>1, <1>2 DEF BragField

\* A build has what its terms read.
LEMMA NothingMissing ==
    ASSUME Setting, ~Overreach
    PROVE /\ conf.terms["conduction"] # "no" => Pressure = "Vc"
          /\ conf.terms["viscosity"] # "no" => EnergyFlux = {}
          /\ conf.terms["bragConduction"] # "no" => HeatField = BragField(Active)
          /\ conf.terms["bragViscosity"] # "no" /\ conf.geo = "cylindrical" => Velocity(3) = "Vc"
          /\ conf.geo = "cartesian" /\ conf.rotation => Velocity(2) = "Vc"
<1>1. conf.terms["conduction"] # "no" => Pressure = "Vc"
    BY DEF Pressure, Overreach, ComponentOverreach, Wants
<1>2. conf.terms["viscosity"] # "no" => EnergyFlux = {}
    BY DEF EnergyFlux, Overreach, ComponentOverreach, Wants
<1>3. conf.terms["bragConduction"] # "no" => HeatField = BragField(Active)
  <2>1. SUFFICES ASSUME conf.terms["bragConduction"] # "no", dir = JDIR PROVE 1..conf.comps = Active
      BY DEF HeatField
  <2>2. conf.comps = conf.dims
      BY <2>1, ConfType DEF Overreach, BragOverreach, Wants, JDIR
  <2> QED BY <2>2 DEF Active
<1>4. conf.terms["bragViscosity"] # "no" /\ conf.geo = "cylindrical" => Velocity(3) = "Vc"
    BY ConfType DEF Velocity, Overreach, BragOverreach, Wants
<1>5. conf.geo = "cartesian" /\ conf.rotation => Velocity(2) = "Vc"
    BY ConfType DEF Velocity, Overreach, ComponentOverreach
<1> QED BY <1>1, <1>2, <1>3, <1>4, <1>5

\* The arrays of the user that a term reads.
UserRead(term, arrays) == If(Evolved(term) /\ conf.terms[term] = "userdef", arrays)

LEMMA NonIdealFluxServes ==
    ASSUME Setting, NEW K, {"Vc", "Flux", "dMax", "J1", "J2", "J3"} \subseteq K, Names(BXs, Dirs) \subseteq K,
           dir # IDIR => UserRead("ohmic", {"etaOhmic"}) \subseteq K
                         /\ UserRead("ambipolar", {"xAmbipolar"}) \subseteq K
    PROVE Serves(AddNonIdealMHDFlux, K,
                 UserRead("ohmic", {"etaOhmic"}) \cup UserRead("ambipolar", {"xAmbipolar"}), FALSE)
<1> DEFINE
      terms == {t \in {"ohmic", "ambipolar"} : Evolved(t)}
      array(t) == IF t = "ohmic" THEN {"etaOhmic"} ELSE {"xAmbipolar"}
      coefficients == UNION {AtFace(array(t), t) : t \in terms}
      parts == {<<t, 0>> : t \in terms}
      s == Add("Flux", FaceCurrent \cup FaceField \cup coefficients, parts)
      t == Add("dMax", FaceField \cup coefficients, parts)
      F1 == If(conf.terms["ohmic"] = "userdef" /\ dir = IDIR, {"etaOhmic"})
      F2 == If(conf.terms["ambipolar"] = "userdef" /\ dir = IDIR, {"xAmbipolar"})
      L == (K \cup F1) \cup F2
      first == UserDiffusivity({"etaOhmic"}, "ohmic")
      second == UserDiffusivity({"xAmbipolar"}, "ambipolar")
<1>1. Serves(first, K, F1, FALSE) /\ Serves(second, K \cup F1, F2, FALSE)
  <2>1. {"etaOhmic"} \subseteq Wide /\ {"xAmbipolar"} \subseteq Wide
      BY DEF Wide
  <2> QED BY <2>1, UserServes
<1>2. UserRead("ohmic", {"etaOhmic"}) \subseteq L /\ UserRead("ambipolar", {"xAmbipolar"}) \subseteq L
    BY DEF UserRead, If
<1>3. AddNonIdealMHDFlux = first \o second \o <<Loop(Faces(dir), {s, t})>>
    BY DEF AddNonIdealMHDFlux
<1>4. s.out = "Flux" /\ s.ins = FaceCurrent \cup FaceField \cup coefficients
    BY Fields
<1>5. t.out = "dMax" /\ t.ins = FaceField \cup coefficients
    BY Fields
<1> HIDE DEF s, t, L, F1, F2, first, second
<1>6. \A r \in coefficients : Okay(Faces(dir), L, FALSE, r)
  <2> SUFFICES ASSUME NEW x \in terms, NEW r \in AtFace(array(x), x)
               PROVE Okay(Faces(dir), L, FALSE, r)
      OBVIOUS
  <2>1. CASE x = "ohmic"
    <3>1. r \in AtFace({"etaOhmic"}, "ohmic")
        BY <2>1
    <3>2. conf.terms["ohmic"] = "userdef" => {"etaOhmic"} \subseteq L
        BY <1>2, <2>1 DEF UserRead, If
    <3>3. {"etaOhmic"} \subseteq Wide
        BY DEF Wide
    <3> QED BY <3>1, <3>2, <3>3, OkayAtFace
  <2>2. CASE x = "ambipolar"
    <3>1. r \in AtFace({"xAmbipolar"}, "ambipolar")
        BY <2>2
    <3>2. conf.terms["ambipolar"] = "userdef" => {"xAmbipolar"} \subseteq L
        BY <1>2, <2>2 DEF UserRead, If
    <3>3. {"xAmbipolar"} \subseteq Wide
        BY DEF Wide
    <3> QED BY <3>1, <3>2, <3>3, OkayAtFace
  <2> QED BY <2>1, <2>2
<1>7. {"Vc", "Flux", "dMax", "J1", "J2", "J3"} \subseteq L /\ Names(BXs, Dirs) \subseteq L
    BY DEF L
<1>8. \A r \in FaceField : Okay(Faces(dir), L, FALSE, r)
  <2>1. Okay(Faces(dir), L, FALSE, <<"Vc", Along(dir, -1, 0)>>)
      BY <1>7, NormalServe DEF Normal
  <2>2. Okay(Faces(dir), L, FALSE, <<BXs[dir], Here>>)
      BY <1>7, BragFieldServe DEF BragField
  <2> QED BY <2>1, <2>2 DEF FaceField
<1>9. \A r \in FaceCurrent : Okay(Faces(dir), L, FALSE, r)
  <2>1. PICK k \in {0, 1} : k = 0
      OBVIOUS
  <2>2. {"J1", "J2", "J3"} \subseteq L
      BY <1>7
  <2>3. \A r \in FaceCurrent : Okay(Extended(k), L, FALSE, r)
      BY <2>2, FaceCurrentServe
  <2> QED BY <2>1, <2>3, FacesPlaces
<1> HIDE DEF coefficients
<1>10. Serves(<<Loop(Faces(dir), {s, t})>>, L, {}, FALSE)
  <2>1. \A r \in s.ins : Okay(Faces(dir), L, FALSE, r)
      BY <1>4, <1>6, <1>8, <1>9
  <2>2. \A r \in t.ins : Okay(Faces(dir), L, FALSE, r)
      BY <1>5, <1>6, <1>8
  <2> QED BY <1>4, <1>5, <1>7, <2>1, <2>2, SweepServes
<1>11. Serves(first \o second, K, F1 \cup F2, FALSE)
    BY <1>1, JoinServes
<1>12. K \cup (F1 \cup F2) = L
    BY DEF L
<1>13. Serves(AddNonIdealMHDFlux, K, (F1 \cup F2) \cup {}, FALSE)
    BY <1>3, <1>10, <1>11, <1>12, JoinServes
<1> QED BY <1>2, <1>12, <1>13, ServesLess

LEMMA DiffuseServe ==
    ASSUME Setting, NEW K, "Vc" \in K, NEW term, NEW gradients, NEW coefficients,
           \A r \in gradients \cup coefficients : Okay(Faces(dir), K, FALSE, r)
    PROVE \A s \in Diffuse(term, gradients, coefficients) :
              s.out \in {"Flux", "dMax"} /\ \A r \in s.ins : Okay(Faces(dir), K, FALSE, r)
<1> DEFINE s == Add("Flux", gradients \cup coefficients, {<<term, 0>>})
           t == Limiting(term, coefficients)
<1>1. s.out = "Flux" /\ s.ins = gradients \cup coefficients
    BY Fields
<1>2. t.out = "dMax" /\ t.ins = {Normal} \cup coefficients
    BY Fields DEF Limiting, Normal
<1>3. Diffuse(term, gradients, coefficients) = {s, t}
    BY DEF Diffuse
<1>4. Okay(Faces(dir), K, FALSE, Normal)
    BY NormalServe
<1> HIDE DEF s, t
<1> QED BY <1>1, <1>2, <1>3, <1>4

\* One term, with the functions of the user before it.
LEMMA TermServes ==
    ASSUME Setting, NEW term, NEW arrays, arrays \subseteq Wide, NEW K, "Vc" \in K,
           Evolved(term), dir # IDIR => UserRead(term, arrays) \subseteq K,
           NEW loops, NEW O, Serves(loops, K \cup UserRead(term, arrays), O, FALSE)
    PROVE Serves(UserDiffusivity(arrays, term) \o loops, K, UserRead(term, arrays) \cup O, FALSE)
<1>1. UserRead(term, arrays) = If(conf.terms[term] = "userdef", arrays)
    BY DEF UserRead, If
<1>2. conf.terms[term] = "userdef" /\ dir # IDIR => arrays \subseteq K
    BY DEF UserRead, If
<1> QED BY <1>1, <1>2, UserThenServes

LEMMA HeatServes ==
    ASSUME Setting, ~Overreach, Evolved("conduction"), NEW K, {"Vc", "Flux", "dMax"} \subseteq K,
           dir # IDIR => UserRead("conduction", {"kappa"}) \subseteq K
    PROVE Serves(AddDiffusiveFlux, K, UserRead("conduction", {"kappa"}), FALSE)
<1> DEFINE F == UserRead("conduction", {"kappa"})
           gradient == {Normal, <<Pressure, Along(dir, -1, 0)>>}
           does == Diffuse("conduction", gradient, AtFace({"kappa"}, "conduction"))
<1>0. {"kappa"} \subseteq Wide
    BY DEF Wide
<1>1. conf.terms["conduction"] = "userdef" => {"kappa"} \subseteq K \cup F
    BY DEF UserRead, If
<1> HIDE DEF F
<1>2. \A r \in gradient \cup AtFace({"kappa"}, "conduction") : Okay(Faces(dir), K \cup F, FALSE, r)
  <2>0. gradient = {Normal}
      BY NothingMissing DEF Evolved, Normal
  <2>1. Okay(Faces(dir), K \cup F, FALSE, Normal)
      BY NormalServe
  <2>2. \A r \in AtFace({"kappa"}, "conduction") : Okay(Faces(dir), K \cup F, FALSE, r)
      BY <1>0, <1>1, OkayAtFace
  <2> QED BY <2>0, <2>1, <2>2
<1>3. AddDiffusiveFlux = UserDiffusivity({"kappa"}, "conduction") \o <<Loop(Faces(dir), does)>>
    BY DEF AddDiffusiveFlux
<1> HIDE DEF gradient
<1>4. \A s \in does : s.out \in {"Flux", "dMax"} /\ \A r \in s.ins : Okay(Faces(dir), K \cup F, FALSE, r)
    BY <1>2, DiffuseServe
<1> HIDE DEF does
<1>5. Serves(<<Loop(Faces(dir), does)>>, K \cup F, {}, FALSE)
    BY <1>4, SweepServes
<1>6. Serves(AddDiffusiveFlux, K, F \cup {}, FALSE)
    BY <1>0, <1>3, <1>5, TermServes DEF F
<1> QED BY <1>6 DEF F

LEMMA CurvatureServe ==
    ASSUME Setting, NEW array \in {"viscSrc", "bragViscSrc"}, NEW ins, NEW K,
           conf.geo # "cartesian" => \A r \in ins : Okay(Interior, K, FALSE, r)
    PROVE /\ \A s \in Curvature(array, ins) :
                s.out = array /\ ~s.add /\ \A r \in s.ins : Okay(Interior, K, FALSE, r)
          /\ If(conf.geo # "cartesian", {array}) \subseteq {s.out : s \in Curvature(array, ins)}
<1>1. CASE conf.geo = "cartesian"
    BY <1>1 DEF Curvature, If
<1>2. CASE conf.geo # "cartesian"
  <2> DEFINE s == Set(array, ins, {<<array, 0>>})
  <2>1. s.out = array /\ s.ins = ins
      BY Fields
  <2>2. ~s.add
      BY Kinds
  <2>3. Curvature(array, ins) = {s}
      BY <1>2 DEF Curvature
  <2>4. If(conf.geo # "cartesian", {array}) = {array}
      BY <1>2 DEF If
  <2> HIDE DEF s
  <2> QED BY <1>2, <2>1, <2>2, <2>3, <2>4
<1> QED BY <1>1, <1>2

\* The sweep of a stress, with the source for the curvature.
LEMMA StressServes ==
    ASSUME Setting, NEW K, {"Vc", "Flux", "dMax"} \subseteq K, NEW fluxes,
           \A s \in fluxes : s.out \in {"Flux", "dMax"} /\ \A r \in s.ins : Okay(Faces(dir), K, FALSE, r),
           NEW array \in {"viscSrc", "bragViscSrc"}, NEW ins,
           \A r \in ins : Okay(Interior, K, FALSE, r)
    PROVE Serves(<<Loop(Faces(dir), fluxes \cup Curvature(array, ins))>>, K,
                 If(conf.geo # "cartesian", {array}), FALSE)
<1> DEFINE does == fluxes \cup Curvature(array, ins)
<1>1. /\ \A s \in Curvature(array, ins) :
            s.out = array /\ ~s.add /\ \A r \in s.ins : Okay(Interior, K, FALSE, r)
      /\ If(conf.geo # "cartesian", {array}) \subseteq {s.out : s \in Curvature(array, ins)}
    BY CurvatureServe
<1>2. ASSUME NEW s \in does
      PROVE \/ s.out \in {"Flux", "dMax"} /\ \A r \in s.ins : Okay(Faces(dir), K, FALSE, r)
            \/ /\ s.out \in {"viscSrc", "bragViscSrc"} /\ ~s.add
               /\ \A r \in s.ins : Okay(Interior, K, FALSE, r)
    BY <1>1
<1>3. If(conf.geo # "cartesian", {array}) \subseteq {s.out : s \in does}
    BY <1>1
<1> HIDE DEF does
<1>4. Serves(<<Loop(Faces(dir), does)>>, K, If(conf.geo # "cartesian", {array}), FALSE)
    BY <1>2, <1>3, SweepServes
<1> QED BY <1>4 DEF does
-----------------------------------------------------------------------------
LEMMA EtaServe ==
    ASSUME Setting, NEW need, NEW K, NEW moved, conf.terms["viscosity"] = "userdef" => {"eta1", "eta2"} \subseteq K
    PROVE /\ \A r \in EtaAtFace : Okay(need, K, moved, r)
          /\ \A r \in EtaAtCell : Okay(need, K, moved, r)
<1>1. {"eta1", "eta2"} \subseteq Wide
    BY DEF Wide
<1> QED BY <1>1, OkayAtFace DEF EtaAtFace, EtaAtCell

LEMMA ViscousStressServe ==
    ASSUME Setting, EnergyFlux = {}, NEW K, "Vc" \in K, conf.terms["viscosity"] = "userdef" => {"eta1", "eta2"} \subseteq K,
           OffMean /\ conf.fargo = "userdef" => "fargoVelocity" \in K,
           NEW mean, IsBox(mean), NEW s \in ViscousStress(mean)
    PROVE s.out \in {"Flux", "dMax"} /\ \A r \in s.ins : Okay(Faces(dir), K, FALSE, r)
<1> DEFINE parts == {<<"viscosity", 0>>} \cup IF OffMean THEN {<<"deviations", 0>>} ELSE {}
           f == Add("Flux", FaceGradients \cup EtaAtFace \cup ViscousWork(mean) \cup EnergyFlux, parts)
           t == Limiting("viscosity", EtaAtFace)
<1>1. f.out = "Flux" /\ f.ins = FaceGradients \cup EtaAtFace \cup ViscousWork(mean) \cup EnergyFlux
    BY Fields
<1>2. t.out = "dMax" /\ t.ins = {Normal} \cup EtaAtFace
    BY Fields DEF Limiting, Normal
<1>3. ViscousStress(mean) = {f, t}
    BY DEF ViscousStress
<1> HIDE DEF f, t
<1>4. ASSUME NEW r \in ViscousWork(mean) PROVE Okay(Faces(dir), K, FALSE, r)
  <2>1. r = <<"fargoVelocity", mean>> /\ "fargoVelocity" \in K
      BY DEF ViscousWork
  <2>2. "fargoVelocity" \in Wide
      BY DEF Wide
  <2> QED BY <2>1, <2>2, OkayWide
<1>5. \A r \in EtaAtFace : Okay(Faces(dir), K, FALSE, r)
    BY EtaServe
<1>6. \A r \in FaceGradients \cup {Normal} : Okay(Faces(dir), K, FALSE, r)
    BY NormalServe, GradientsServe
<1> QED BY <1>1, <1>2, <1>3, <1>4, <1>5, <1>6

LEMMA ViscousServes ==
    ASSUME Setting, ~Overreach, Evolved("viscosity"), NEW K, {"Vc", "Flux", "dMax"} \subseteq K,
           OffMean /\ conf.fargo = "userdef" => "fargoVelocity" \in K,
           dir # IDIR => UserRead("viscosity", {"eta1", "eta2"}) \subseteq K
    PROVE Serves(AddViscousFlux, K,
                 UserRead("viscosity", {"eta1", "eta2"}) \cup If(conf.geo # "cartesian", {"viscSrc"}), FALSE)
<1> DEFINE F == UserRead("viscosity", {"eta1", "eta2"})
           does == <<ViscousFluxIDIR, ViscousFluxJDIR, ViscousFluxKDIR>>[dir]
           O == If(conf.geo # "cartesian", {"viscSrc"})
<1>0. {"eta1", "eta2"} \subseteq Wide
    BY DEF Wide
<1>1. conf.terms["viscosity"] = "userdef" => {"eta1", "eta2"} \subseteq K \cup F
    BY DEF UserRead, If
<1> HIDE DEF F
<1>2. PICK mean, ins :
        /\ does = ViscousStress(mean) \cup Curvature("viscSrc", ins)
        /\ mean = Along(dir, -1, 0) \/ mean = Here
        /\ \/ ins = {} \/ ins = CellGradients \cup EtaAtCell
           \/ ins = CellGradients \cup EtaAtCell \cup EtaAtFace
  <2>1. CASE dir = 1
    <3>1. CASE conf.geo = "spherical" BY <2>1, <3>1 DEF ViscousFluxIDIR
    <3>2. CASE conf.geo # "spherical"
      <4>1. does = ViscousStress(Along(dir, -1, 0)) \cup Curvature("viscSrc", CellGradients \cup EtaAtCell)
          BY <2>1, <3>2 DEF ViscousFluxIDIR, IDIR
      <4> HIDE DEF does
      <4> QED BY <4>1
    <3> QED BY <3>1, <3>2
  <2>2. CASE dir = 2
    <3>1. CASE conf.geo = "spherical" BY <2>2, <3>1 DEF ViscousFluxJDIR, JDIR
    <3>2. CASE conf.geo # "spherical" BY <2>2, <3>2 DEF ViscousFluxJDIR
    <3> QED BY <3>1, <3>2
  <2>3. CASE dir = 3
    <3>1. CASE conf.geo = "spherical" BY <2>3, <3>1 DEF ViscousFluxKDIR
    <3>2. CASE conf.geo # "spherical"
      <4>1. does = ViscousStress(Along(dir, -1, 0)) \cup Curvature("viscSrc", {})
          BY <2>3, <3>2 DEF ViscousFluxKDIR, KDIR
      <4> HIDE DEF does
      <4> QED BY <4>1
    <3> QED BY <3>1, <3>2
  <2> HIDE DEF does
  <2> QED BY <2>1, <2>2, <2>3, ConfType DEF Dirs
<1>3. IsBox(mean)
  <2>1. IsBox(Along(dir, -1, 0)) /\ IsBox(Here)
      BY AlongBox, HereBox, ConfType
  <2> QED BY <1>2, <2>1
<1>4. \A r \in ins : Okay(Interior, K \cup F, FALSE, r)
  <2>1. \A r \in CellGradients : Okay(Interior, K \cup F, FALSE, r)
      BY GradientsServe
  <2>2. \A r \in EtaAtCell \cup EtaAtFace : Okay(Interior, K \cup F, FALSE, r)
      BY <1>1, EtaServe
  <2> QED BY <1>2, <2>1, <2>2
<1> HIDE DEF does
<1>5. \A s \in ViscousStress(mean) :
          s.out \in {"Flux", "dMax"} /\ \A r \in s.ins : Okay(Faces(dir), K \cup F, FALSE, r)
  <2>1. EnergyFlux = {}
      BY NothingMissing DEF Evolved
  <2> QED BY <1>1, <1>3, <2>1, ViscousStressServe
<1>6. Serves(<<Loop(Faces(dir), ViscousStress(mean) \cup Curvature("viscSrc", ins))>>, K \cup F, O, FALSE)
    BY <1>4, <1>5, StressServes
<1>7. AddViscousFlux = UserDiffusivity({"eta1", "eta2"}, "viscosity") \o <<Loop(Faces(dir), does)>>
    BY DEF AddViscousFlux, does
<1> HIDE DEF O
<1>8. Serves(<<Loop(Faces(dir), does)>>, K \cup F, O, FALSE)
    BY <1>2, <1>6
<1>9. Serves(AddViscousFlux, K, F \cup O, FALSE)
    BY <1>0, <1>7, <1>8, TermServes DEF F
<1> QED BY <1>9 DEF F, O

LEMMA BragViscousServes ==
    ASSUME Setting, ~Overreach, Evolved("bragViscosity"), NEW K, {"Vc", "Flux", "dMax"} \subseteq K,
           Names(BXs, Dirs) \subseteq K,
           dir # IDIR => UserRead("bragViscosity", {"etaBrag"}) \subseteq K
    PROVE Serves(AddBragViscousFlux, K,
                 UserRead("bragViscosity", {"etaBrag"}) \cup If(conf.geo # "cartesian", {"bragViscSrc"}), FALSE)
<1> DEFINE F == UserRead("bragViscosity", {"etaBrag"})
           does == BragStress \cup Curvature("bragViscSrc", CellStress)
           O == If(conf.geo # "cartesian", {"bragViscSrc"})
<1>0. {"etaBrag"} \subseteq Wide
    BY DEF Wide
<1>1. conf.terms["bragViscosity"] = "userdef" => {"etaBrag"} \subseteq K \cup F
    BY DEF UserRead, If
<1> HIDE DEF F
<1>2. AddBragViscousFlux = UserDiffusivity({"etaBrag"}, "bragViscosity") \o <<Loop(Faces(dir), does)>>
    BY DEF AddBragViscousFlux
<1> HIDE DEF does, O
<1>3. \A r \in CellStress : Okay(Interior, K \cup F, FALSE, r)
  <2>1. \A r \in CellGradients \cup {<<"Vc", Here>>} : Okay(Interior, K \cup F, FALSE, r)
      BY NormalServe, GradientsServe
  <2>2. \A r \in AtCell({"etaBrag"}, "bragViscosity") : Okay(Interior, K \cup F, FALSE, r)
      BY <1>0, <1>1, OkayAtFace
  <2>3. conf.geo = "cylindrical" => <<Velocity(3), Here>> = <<"Vc", Here>>
      BY NothingMissing DEF Evolved
  <2> QED BY <2>1, <2>2, <2>3 DEF CellStress
<1>4. \A s \in BragStress :
          s.out \in {"Flux", "dMax"} /\ \A r \in s.ins : Okay(Faces(dir), K \cup F, FALSE, r)
  <2>1. \A r \in FaceGradients : Okay(Faces(dir), K \cup F, FALSE, r)
      BY GradientsServe
  <2>2. \A r \in AtFace({"etaBrag"}, "bragViscosity") : Okay(Faces(dir), K \cup F, FALSE, r)
      BY <1>0, <1>1, OkayAtFace
  <2>3. \A r \in BragField(Active) : Okay(Faces(dir), K \cup F, FALSE, r)
      BY BragFieldServe
  <2>4. \A r \in (FaceGradients \cup BragField(Active)) \cup AtFace({"etaBrag"}, "bragViscosity") :
            Okay(Faces(dir), K \cup F, FALSE, r)
      BY <2>1, <2>2, <2>3
  <2> QED BY <2>4, DiffuseServe DEF BragStress
<1>5. Serves(<<Loop(Faces(dir), does)>>, K \cup F, O, FALSE)
    BY <1>3, <1>4, StressServes DEF does, O
<1>6. Serves(AddBragViscousFlux, K, F \cup O, FALSE)
    BY <1>0, <1>2, <1>5, TermServes DEF F
<1> QED BY <1>6 DEF F, O

LEMMA HeatGradientsServe ==
    ASSUME Setting, NEW K, "Vc" \in K, NEW r \in <<HeatFluxIDIR, HeatFluxJDIR, HeatFluxKDIR>>[dir]
    PROVE Okay(Faces(dir), K, FALSE, r)
<1>1. CASE dir \in {1, 3}
  <2>1. r \in FaceGradients
      BY <1>1 DEF HeatFluxIDIR, HeatFluxKDIR
  <2>2. \A g \in FaceGradients : Okay(Faces(dir), K, FALSE, g)
      BY GradientsServe
  <2> QED BY <2>1, <2>2
<1>2. CASE dir = 2
  <2>1. r \in HeatFluxJDIR
      BY <1>2
  <2>2. 1 \in Active /\ 1 # dir /\ (conf.dims = 3 => 3 \in Active /\ 3 # dir)
      BY <1>2, ConfType DEF Active
  <2>3. \/ r \in {Normal, Transverse(1)}
        \/ conf.dims = 3 /\ r = Transverse(3)
        \/ r = <<"Vc", Box(<<-1, 0>>, <<-1, 0>>, <<0, 1>>)>>
    <3>1. CASE conf.dims < 3
        BY <2>1, <3>1 DEF HeatFluxJDIR, IDIR
    <3>2. CASE conf.dims = 3 /\ ~conf.lim
        BY <2>1, <3>2 DEF HeatFluxJDIR, IDIR, KDIR
    <3>3. CASE conf.dims = 3 /\ conf.lim
        BY <2>1, <3>3 DEF HeatFluxJDIR, IDIR
    <3>4. conf.lim \in BOOLEAN
        BY DEF Setting, Options
    <3> QED BY <3>1, <3>2, <3>3, <3>4, ConfType
  <2>4. CASE r \in {Normal, Transverse(1)}
      BY <2>2, <2>4, NormalServe, TransverseServe
  <2>5. CASE conf.dims = 3 /\ r = Transverse(3)
      BY <2>2, <2>5, TransverseServe
  <2>6. CASE r = <<"Vc", Box(<<-1, 0>>, <<-1, 0>>, <<0, 1>>)>>
      BY <2>6, BoxBox, OkayVc
  <2> QED BY <2>3, <2>4, <2>5, <2>6
<1>3. dir \in {1, 3} \/ dir = 2
    BY ConfType DEF Dirs
<1> QED BY <1>1, <1>2, <1>3

LEMMA UpwindServe ==
    ASSUME Setting, NEW K, "Vc" \in K, NEW r \in Upwind PROVE Okay(Faces(dir), K, FALSE, r)
<1>1. conf.cless \in BOOLEAN /\ conf.lim \in BOOLEAN
    BY DEF Setting, Options
<1>2. CASE conf.cless /\ ~conf.lim
    BY <1>2, NormalServe DEF Upwind
<1>3. CASE conf.cless /\ conf.lim
  <2>1. r = <<"Vc", Along(dir, -1, 1)>>
      BY <1>3 DEF Upwind
  <2>2. IsBox(Along(dir, -1, 1))
      BY ConfType, AlongBox
  <2> QED BY <2>1, <2>2, OkayVc
<1>4. conf.cless
    BY DEF Upwind
<1> QED BY <1>1, <1>2, <1>3, <1>4

LEMMA BragHeatServes ==
    ASSUME Setting, ~Overreach, Evolved("bragConduction"), NEW K, {"Vc", "Flux", "dMax"} \subseteq K,
           Names(BXs, Dirs) \subseteq K,
           dir # IDIR => UserRead("bragConduction", BragCoefficients) \subseteq K
    PROVE Serves(AddBragDiffusiveFlux, K, UserRead("bragConduction", BragCoefficients), FALSE)
<1> DEFINE coefficients == AtFace(BragCoefficients, "bragConduction")
           gradients == <<HeatFluxIDIR, HeatFluxJDIR, HeatFluxKDIR>>[dir]
           s == Add("Flux", gradients \cup HeatField \cup Upwind \cup coefficients,
                    {<<"bragConduction", 0>>})
           t == Set("dMax", {<<"dMax", Here>>, Normal} \cup coefficients,
                    Scaled(mem["dMax"].parts) \cup {<<"bragConduction", 0>>})
           F == UserRead("bragConduction", BragCoefficients)
<1>0. BragCoefficients \subseteq Wide
    BY DEF Wide, BragCoefficients
<1>1. s.out = "Flux" /\ s.ins = gradients \cup HeatField \cup Upwind \cup coefficients
    BY Fields
<1>2. t.out = "dMax" /\ t.ins = {<<"dMax", Here>>, Normal} \cup coefficients
    BY Fields
<1>3. AddBragDiffusiveFlux =
        UserDiffusivity(BragCoefficients, "bragConduction") \o <<Loop(Faces(dir), {s, t})>>
    BY DEF AddBragDiffusiveFlux
<1>4. conf.terms["bragConduction"] = "userdef" => BragCoefficients \subseteq K \cup F
    BY DEF UserRead, If
<1> HIDE DEF F
<1>5. \A r \in coefficients : Okay(Faces(dir), K \cup F, FALSE, r)
    BY <1>0, <1>4, OkayAtFace
<1>6. \A r \in gradients : Okay(Faces(dir), K \cup F, FALSE, r)
    BY HeatGradientsServe
<1>7. Okay(Faces(dir), K \cup F, FALSE, <<"dMax", Here>>)
  <2>1. "dMax" \in OnSweep
      BY DEF OnSweep
  <2> QED BY <2>1, OkaySweep
<1>8. Okay(Faces(dir), K \cup F, FALSE, Normal)
    BY NormalServe
<1> HIDE DEF s, t, gradients, coefficients
<1>9. Serves(<<Loop(Faces(dir), {s, t})>>, K \cup F, {}, FALSE)
  <2>1. \A r \in s.ins : Okay(Faces(dir), K \cup F, FALSE, r)
    <3>1. HeatField = BragField(Active)
        BY NothingMissing DEF Evolved
    <3>2. \A r \in BragField(Active) : Okay(Faces(dir), K \cup F, FALSE, r)
        BY BragFieldServe
    <3> QED BY <1>1, <1>5, <1>6, <3>1, <3>2, UpwindServe
  <2>2. \A r \in t.ins : Okay(Faces(dir), K \cup F, FALSE, r)
      BY <1>2, <1>5, <1>7, <1>8
  <2> QED BY <1>1, <1>2, <2>1, <2>2, SweepServes
<1>10. Serves(AddBragDiffusiveFlux, K, F \cup {}, FALSE)
    BY <1>0, <1>3, <1>9, TermServes DEF F
<1> QED BY <1>10 DEF F
-----------------------------------------------------------------------------
\* What is added to the cells.
LEMMA CellServe ==
    ASSUME Setting, NEW s, NEW K, s.out \in InCells, s.out \in K, \A r \in s.ins : Okay(Interior, K, FALSE, r)
    PROVE Serve(Interior, s, K, FALSE) /\ Serve(Wherever, s, K, FALSE)
<1>1. Need(s.out, FALSE) = Interior
    BY NeedCells
<1> QED BY <1>1, CellsWithin DEF Serve

LEMMA MeanServe ==
    ASSUME Setting, NEW need, NEW K, NEW moved, conf.fargo = "userdef" => "fargoVelocity" \in K
    PROVE /\ \A r \in MeanVelocity(-1) : Okay(need, K, moved, r)
          /\ \A r \in MeanVelocity(0) : Okay(need, K, moved, r)
<1>1. "fargoVelocity" \in Wide
    BY DEF Wide
<1>2. IsBox(Along(dir, -1, 0)) /\ IsBox(Along(dir, 0, 0))
    BY AlongBox, ConfType
<1>3. ASSUME NEW r \in MeanVelocity(-1) PROVE Okay(need, K, moved, r)
  <2>1. r = <<"fargoVelocity", Along(dir, -1, 0)>> /\ "fargoVelocity" \in K
      BY DEF MeanVelocity
  <2> QED BY <1>1, <1>2, <2>1, OkayWide
<1>4. ASSUME NEW r \in MeanVelocity(0) PROVE Okay(need, K, moved, r)
  <2>1. r = <<"fargoVelocity", Along(dir, 0, 0)>> /\ "fargoVelocity" \in K
      BY DEF MeanVelocity
  <2> QED BY <1>1, <1>2, <2>1, OkayWide
<1> QED BY <1>3, <1>4

\* The fluxes are made total.
LEMMA CorrectServes ==
    ASSUME Setting, NEW K, "Flux" \in K
    PROVE Serves(CorrectFlux, K, If(conf.fargo = "userdef", {"fargoVelocity"}), FALSE)
<1> DEFINE s == Add("Flux", MeanVelocity(-1), MeanParts("fargo", "rotation"))
           F == If(conf.fargo = "userdef", {"fargoVelocity"})
<1>1. s.out = "Flux" /\ s.ins = MeanVelocity(-1)
    BY Fields
<1>2. CorrectFlux = GetFargoVelocity \o <<Loop(Faces(dir), {s})>>
    BY DEF CorrectFlux
<1>3. conf.fargo = "userdef" => "fargoVelocity" \in K \cup F
    BY DEF If
<1> HIDE DEF s, F
<1>4. Need("Flux", FALSE) = Faces(dir)
    BY NeedSweep DEF OnSweep
<1>5. \A r \in MeanVelocity(-1) : Okay(Faces(dir), K \cup F, FALSE, r)
    BY <1>3, MeanServe
<1>6. Serve(Faces(dir), s, K \cup F, FALSE)
    BY <1>1, <1>4, <1>5, CellsWithin DEF Serve
<1>7. Serves(<<Loop(Faces(dir), {s})>>, K \cup F, {}, FALSE)
    BY <1>6, SingleServes
<1>8. Serves(CorrectFlux, K, F \cup {}, FALSE)
    BY <1>2, <1>7, FargoServes DEF F
<1> QED BY <1>8 DEF F

LEMMA TracerFluxServes ==
    ASSUME Setting, NEW K, {"Vc", "Flux"} \subseteq K
    PROVE Serves(TracerCalcFlux, K, {"FluxTracer"}, FALSE)
<1> DEFINE ins == {<<"Vc", Along(dir, -2, 1)>>, <<"Flux", Here>>}
           s == Set("FluxTracer", ins, Part("tracer", 0))
<1>1. s.out = "FluxTracer"
    BY Fields
<1>2. TracerCalcFlux = <<Loop(Faces(dir), {s})>>
    BY DEF TracerCalcFlux
<1>3. Need("FluxTracer", FALSE) = Faces(dir)
    BY NeedSweep DEF OnSweep
<1>4. Okay(Faces(dir), K, FALSE, <<"Vc", Along(dir, -2, 1)>>)
  <2>1. IsBox(Along(dir, -2, 1))
      BY AlongBox, ConfType
  <2> QED BY <2>1, OkayVc
<1>5. Okay(Faces(dir), K, FALSE, <<"Flux", Here>>)
  <2>1. "Flux" \in OnSweep
      BY DEF OnSweep
  <2> QED BY <2>1, OkaySweep
<1>6. \A r \in ins : Okay(Faces(dir), K, FALSE, r)
    BY <1>4, <1>5
<1> HIDE DEF ins
<1>7. Serve(Faces(dir), s, K, FALSE)
    BY <1>3, <1>6, CellsWithin, SetServes
<1> HIDE DEF s
<1> QED BY <1>1, <1>2, <1>7, SingleServes

LEMMA TracerServes ==
    ASSUME Setting, NEW K, {"UcTracer", "FluxTracer"} \subseteq K
    PROVE Serves(TracerCalcRightHandSide, K, {}, FALSE)
<1> DEFINE s == Add("UcTracer", {<<"FluxTracer", Along(dir, 0, 1)>>}, Swept("FluxTracer"))
<1>1. s.out = "UcTracer" /\ s.ins = {<<"FluxTracer", Along(dir, 0, 1)>>}
    BY Fields
<1>2. Okay(Interior, K, FALSE, <<"FluxTracer", Along(dir, 0, 1)>>)
    BY OkaySweep DEF OnSweep
<1>3. TracerCalcRightHandSide = <<Loop(Interior, {s})>>
    BY DEF TracerCalcRightHandSide
<1> HIDE DEF s
<1>4. s.out \in InCells /\ s.out \in K /\ \A r \in s.ins : Okay(Interior, K, FALSE, r)
    BY <1>1, <1>2 DEF InCells
<1>5. Serve(Interior, s, K, FALSE)
    BY <1>4, CellServe
<1> QED BY <1>3, <1>5, SingleServes

\* The sources that were set in the cells.
LEMMA SourceServe ==
    ASSUME Setting, NEW a \in {"viscSrc", "bragViscSrc"}, NEW K, a \in K
    PROVE Okay(Interior, K, FALSE, <<a, Here>>)
<1>1. PICK moved \in BOOLEAN : moved = FALSE
    OBVIOUS
<1>2. Need(a, moved) = Interior
    BY NeedCells DEF InCells
<1>3. Okay(Interior, K, moved, <<a, Here>>)
    BY <1>2, IsBoxOf, OkayHere
<1> QED BY <1>1, <1>3

LEMMA RHSServes ==
    ASSUME Setting, NEW K, {"Vc", "Uc", "InvDt", "Flux", "cMax"} \subseteq K,
           ParabolicTerms => "dMax" \in K, CurvatureSource \subseteq K,
           conf.fargo = "userdef" => "fargoVelocity" \in K,
           {"phiP", "bodyForce"} \subseteq K
    PROVE Serves(CalcRHS, K, {}, FALSE)
<1> DEFINE ins == {<<"Flux", Along(dir, 0, 1)>>} \cup MeanVelocity(0) \cup PotentialForce
                  \cup {<<s, Here>> : s \in CurvatureSource}
                  \cup IF conf.body THEN {<<"bodyForce", Here>>, <<"Vc", Here>>} ELSE {}
           parts == Swept("Flux")
                    \cup {<<p[1], dir>> : p \in MeanParts("fargoBack", "rotationBack")}
                    \cup (UNION {Part(s, dir) : s \in CurvatureSource})
                    \cup (IF conf.potential THEN Part("potential", dir) ELSE {})
                    \cup IF conf.body THEN UNION {Part("body", d) : d \in ForceComponents} ELSE {}
           speeds == {<<"cMax", Along(dir, 0, 1)>>}
                     \cup IF ParabolicTerms THEN {<<"dMax", Along(dir, 0, 1)>>} ELSE {}
           limits == Limits("cMax") \cup IF ParabolicTerms THEN Limits("dMax") ELSE {}
           s == Add("Uc", ins, parts)
           t == Add("InvDt", speeds, limits)
<1>1. CalcRHS = <<Loop(Interior, {s, t})>>
    BY DEF CalcRHS
<1>2. \A r \in ins : Okay(Interior, K, FALSE, r)
  <2>1. Okay(Interior, K, FALSE, <<"Flux", Along(dir, 0, 1)>>)
      BY OkaySweep DEF OnSweep
  <2>2. \A a \in CurvatureSource : Okay(Interior, K, FALSE, <<a, Here>>)
      BY SourcesAllocated, SourceServe
  <2>3. /\ Okay(Interior, K, FALSE, <<"bodyForce", Here>>)
        /\ Okay(Interior, K, FALSE, <<"Vc", Here>>)
    <3>1. {"bodyForce", "Vc"} \subseteq Wide
        BY DEF Wide
    <3> QED BY <3>1, HereBox, OkayWide
  <2>4. \A r \in PotentialForce : Okay(Interior, K, FALSE, r)
    <3>1. "phiP" \in Wide /\ IsBox(Along(dir, -2, 2))
        BY AlongBox, ConfType DEF Wide
    <3> QED BY <2>3, <3>1, OkayWide DEF PotentialForce
  <2>5. \A r \in MeanVelocity(0) : Okay(Interior, K, FALSE, r)
      BY MeanServe
  <2> QED BY <2>1, <2>2, <2>3, <2>4, <2>5
<1>3. \A r \in speeds : Okay(Interior, K, FALSE, r)
  <2>1. {"cMax", "dMax"} \subseteq OnSweep
      BY DEF OnSweep
  <2> QED BY <2>1, OkaySweep
<1>4. s.out = "Uc" /\ s.ins = ins /\ t.out = "InvDt" /\ t.ins = speeds
    BY Fields
<1> HIDE DEF ins, parts, speeds, limits, s, t
<1>5. Serve(Interior, s, K, FALSE)
  <2>1. s.out \in InCells /\ s.out \in K /\ \A r \in s.ins : Okay(Interior, K, FALSE, r)
      BY <1>2, <1>4 DEF InCells
  <2> QED BY <2>1, CellServe
<1>6. Serve(Interior, t, K, FALSE)
  <2>1. t.out \in InCells /\ t.out \in K /\ \A r \in t.ins : Okay(Interior, K, FALSE, r)
      BY <1>3, <1>4 DEF InCells
  <2> QED BY <2>1, CellServe
<1>7. \A x \in {s, t} : Serve(Interior, x, K, FALSE)
    BY <1>5, <1>6
<1> QED BY <1>1, <1>7, OneServes

LEMMA ParabolicServes ==
    ASSUME Setting, NEW K, {"Flux", "dU", "InvDt", "dMax"} \subseteq K, RKLSources \subseteq K
    PROVE Serves(CalcParabolicRHS, K, {}, FALSE)
<1> DEFINE ins == {<<"Flux", Along(dir, 0, 1)>>} \cup {<<s, Here>> : s \in RKLSources}
           r1 == Add("Flux", {}, {})
           r2 == Add("dU", ins,
                     Swept("Flux") \cup UNION {{<<p[1], dir>> : p \in mem[s].parts} : s \in RKLSources})
           r3 == Add("InvDt", {<<"dMax", Along(dir, 0, 1)>>}, Limits("dMax"))
           third == IF conf.cycle = "rkl" THEN <<Loop(Interior, {r3})>> ELSE <<>>
<1>0. CalcParabolicRHS = (<<Loop(Faces(dir), {r1})>> \o <<Loop(Interior, {r2})>>) \o third
  <2>1. CalcParabolicRHS = <<Loop(Faces(dir), {r1}), Loop(Interior, {r2})>> \o third
      BY DEF CalcParabolicRHS
  <2> HIDE DEF r1, r2, third
  <2>2. <<Loop(Faces(dir), {r1}), Loop(Interior, {r2})>>
            = <<Loop(Faces(dir), {r1})>> \o <<Loop(Interior, {r2})>>
      OBVIOUS
  <2> QED BY <2>1, <2>2
<1>1. /\ r1.out = "Flux" /\ r1.ins = {} /\ r2.out = "dU" /\ r2.ins = ins
      /\ r3.out = "InvDt" /\ r3.ins = {<<"dMax", Along(dir, 0, 1)>>}
    BY Fields
<1>2. \A r \in ins : Okay(Interior, K, FALSE, r)
  <2>1. Okay(Interior, K, FALSE, <<"Flux", Along(dir, 0, 1)>>)
      BY OkaySweep DEF OnSweep
  <2>2. \A a \in RKLSources : Okay(Interior, K, FALSE, <<a, Here>>)
      BY SourcesAllocated, SourceServe
  <2> QED BY <2>1, <2>2
<1>3. Okay(Interior, K, FALSE, <<"dMax", Along(dir, 0, 1)>>)
    BY OkaySweep DEF OnSweep
<1> HIDE DEF ins, r1, r2, r3
<1>4. Serve(Faces(dir), r1, K, FALSE)
  <2>1. Need("Flux", FALSE) = Faces(dir)
      BY NeedSweep DEF OnSweep
  <2> QED BY <1>1, <2>1, CellsWithin DEF Serve
<1>5. Serve(Interior, r2, K, FALSE)
  <2>1. r2.out \in InCells /\ r2.out \in K /\ \A r \in r2.ins : Okay(Interior, K, FALSE, r)
      BY <1>1, <1>2 DEF InCells
  <2> QED BY <2>1, CellServe
<1>6. Serve(Interior, r3, K, FALSE)
  <2>1. r3.out \in InCells /\ r3.out \in K /\ \A r \in r3.ins : Okay(Interior, K, FALSE, r)
      BY <1>1, <1>3 DEF InCells
  <2> QED BY <2>1, CellServe
<1>7. /\ Serves(<<Loop(Faces(dir), {r1})>>, K, {}, FALSE)
      /\ Serves(<<Loop(Interior, {r2})>>, K \cup {}, {}, FALSE)
      /\ Serves(<<Loop(Interior, {r3})>>, K, {}, FALSE)
    BY <1>4, <1>5, <1>6, SingleServes
<1>8. Serves(third, K \cup ({} \cup {}), {}, FALSE)
    BY <1>7, NoServes
<1> HIDE DEF third
<1>9. Serves(<<Loop(Faces(dir), {r1})>> \o <<Loop(Interior, {r2})>>, K, {} \cup {}, FALSE)
    BY <1>7, JoinServes
<1>10. Serves(CalcParabolicRHS, K, ({} \cup {}) \cup {}, FALSE)
    BY <1>0, <1>8, <1>9, JoinServes
<1> QED BY <1>10

LEMMA SourcesServes ==
    ASSUME Setting, ~Overreach, NEW K, {"Vc", "Uc"} \subseteq K, conf.eos = "userdef" => "csIso" \in K,
           conf.fargo = "userdef" => "fargoVelocity" \in K
    PROVE Serves(AddSourceTerms, K, {}, FALSE)
<1> DEFINE ins == {<<"Vc", Here>>}
                  \cup (IF conf.geo = "cartesian" /\ conf.rotation THEN {<<Velocity(2), Here>>} ELSE {})
                  \cup (IF conf.eos = "userdef" THEN {<<"csIso", Here>>} ELSE {})
                  \cup IF conf.fargo = "userdef" /\ conf.geo \in {"polar", "spherical"}
                       THEN {<<"fargoVelocity", Here>>} ELSE {}
           s == Add("Uc", ins, SourceParts)
<1>1. s.out = "Uc" /\ s.ins = ins
    BY Fields
<1>2. \A r \in ins : Okay(Interior, K, FALSE, r)
  <2>1. {"Vc", "csIso", "fargoVelocity"} \subseteq Wide
      BY DEF Wide
  <2>2. conf.geo = "cartesian" /\ conf.rotation => <<Velocity(2), Here>> = <<"Vc", Here>>
      BY NothingMissing
  <2>3. \A a \in {"Vc", "csIso", "fargoVelocity"} : a \in K => Okay(Interior, K, FALSE, <<a, Here>>)
      BY <2>1, HereBox, OkayWide
  <2>4. \A r \in ins : \/ r = <<"Vc", Here>>
                       \/ r = <<"csIso", Here>> /\ conf.eos = "userdef"
                       \/ r = <<"fargoVelocity", Here>> /\ conf.fargo = "userdef"
      BY <2>2
  <2> QED BY <2>3, <2>4
<1>3. AddSourceTerms = <<Loop(Interior, {s})>>
    BY DEF AddSourceTerms
<1> HIDE DEF s, ins
<1>4. s.out \in InCells /\ s.out \in K /\ \A r \in s.ins : Okay(Interior, K, FALSE, r)
    BY <1>1, <1>2 DEF InCells
<1>5. Serve(Interior, s, K, FALSE)
    BY <1>4, CellServe
<1> QED BY <1>3, <1>5, SingleServes

LEMMA DragServes ==
    ASSUME Setting, NEW K, {"Vc", "VcGas", "Uc", "UcGas", "InvDt"} \subseteq K
    PROVE Serves(AddDragForce, K, {}, FALSE)
<1> DEFINE both == {<<"Vc", Here>>, <<"VcGas", Here>>}
           s == Add("Uc", both, Part("drag", 0))
           t == Add("UcGas", both, Part("drag", 0))
           u == Add("InvDt", {<<"VcGas", Here>>}, Part("drag", 0))
<1>1. /\ s.out = "Uc" /\ s.ins = both /\ t.out = "UcGas" /\ t.ins = both
      /\ u.out = "InvDt" /\ u.ins = {<<"VcGas", Here>>}
    BY Fields
<1>2. AddDragForce = <<Loop(Wherever, {s, t, u})>>
    BY DEF AddDragForce
<1>3. \A need : \A r \in both : Okay(need, K, FALSE, r)
  <2>1. {"Vc", "VcGas"} \subseteq Wide
      BY DEF Wide
  <2> QED BY <2>1, HereBox, OkayWide
<1> HIDE DEF s, t, u
<1>4. Serve(Wherever, s, K, FALSE) /\ Serve(Wherever, u, K, FALSE)
  <2>1. /\ s.out \in InCells /\ s.out \in K /\ \A r \in s.ins : Okay(Interior, K, FALSE, r)
        /\ u.out \in InCells /\ u.out \in K /\ \A r \in u.ins : Okay(Interior, K, FALSE, r)
      BY <1>1, <1>3 DEF InCells
  <2> QED BY <2>1, CellServe
<1>5. Serve(Wherever, t, K, FALSE)
  <2>1. Need("UcGas", FALSE) = Wherever
      BY NeedWide DEF Wide
  <2> QED BY <1>1, <1>3, <2>1, CellsWithin DEF Serve
<1>6. \A x \in {s, t, u} : Serve(Wherever, x, K, FALSE)
    BY <1>4, <1>5
<1> QED BY <1>2, <1>6, OneServes
-----------------------------------------------------------------------------
\* The faces around an edge, as far as the stores go.
LEMMA EdgeServe ==
    ASSUME Setting, NEW e, NEW a, NEW b, Crossing(e, a, b), NEW n \in 1..perpExtension, NEW K,
           NEW name \in {Et[a], Eb[a], SV[a], Fan[a]}, name \in K, NEW moved
    PROVE Okay(AllEdges, K, moved, <<name, Along(b, -n, n - 1)>>)
<1>0. n \in Int /\ -n \in Int /\ n - 1 \in Int /\ n <= perpExtension /\ 1 <= n /\ perpExtension \in Int
    BY IsBoxOf
<1>1. Need(name, moved) = [d \in Dirs |-> IF d = a THEN <<0, 1>> ELSE Region(perpExtension, perpExtension)[d]]
    BY NeedSide DEF Crossing
<1>2. IsBox(Along(b, -n, n - 1))
    BY <1>0, AlongBox DEF Crossing
<1>3. \A d \in Dirs : /\ AllEdges[d] = IF d \in Active THEN <<0, 1>> ELSE <<0, 0>>
                      /\ Along(b, -n, n - 1)[d] = IF d = b /\ d \in Active THEN <<-n, n - 1>> ELSE <<0, 0>>
                      /\ Need(name, moved)[d] = IF d = a THEN <<0, 1>>
                                                ELSE IF d \in Active THEN <<perpExtension, perpExtension>>
                                                ELSE <<0, 0>>
    BY <1>1 DEF AllEdges, Region, Along
<1>4. a # b /\ a \in Active /\ b \in Active
    BY DEF Crossing
<1>5. Within(Touch(AllEdges, Along(b, -n, n - 1)), Need(name, moved))
  <2> SUFFICES ASSUME NEW d \in Dirs
               PROVE /\ AllEdges[d][1] - Along(b, -n, n - 1)[d][1] <= Need(name, moved)[d][1]
                     /\ AllEdges[d][2] + Along(b, -n, n - 1)[d][2] <= Need(name, moved)[d][2]
      BY DEF Within, Touch
  <2>1. CASE d = a
      BY <1>3, <1>4, <2>1
  <2>2. CASE d = b
      BY <1>0, <1>3, <1>4, <2>2
  <2>3. CASE d # a /\ d # b
      BY <1>0, <1>3, <2>3
  <2> QED BY <2>1, <2>2, <2>3
<1> QED BY <1>2, <1>5, IsBoxOf, OkayIn

LEMMA OnFacesIn ==
    ASSUME Setting, NEW e, NEW a, NEW b, Crossing(e, a, b), NEW K, UNION {Stored(d) : d \in Active} \subseteq K
    PROVE OnFaces(e, a) \in {Et[a], Eb[a]} /\ OnFaces(e, a) \in K
<1>0. e # 3 => conf.dims = 3
    BY DEF Crossing, Edges, KDIR
<1>1. Stored(a) \subseteq K
    BY DEF Crossing
<1>2. Et[a] \in K /\ (conf.dims = 3 => Eb[a] \in K)
    BY <1>1 DEF Stored, If
<1>3. OnFaces(e, a) \in {Et[a], Eb[a]}
    BY OnFacesOf
<1>4. CASE e = 3
    BY <1>2, <1>4, Tuples DEF Crossing, OnFaces, Dirs, IDIR, JDIR, KDIR
<1> QED BY <1>0, <1>2, <1>3, <1>4

LEMMA EdgesServe ==
    ASSUME Setting, NEW does, NEW K, NEW moved,
           \A s \in does : \E e \in Edges :
              /\ s.out = Edge[e] /\ (s.add => s.out \in K)
              /\ \A r \in s.ins : Okay(AllEdges, K, moved, r),
           \A e \in Edges : \E s \in does : s.out = Edge[e]
    PROVE Serves(<<Loop(AllEdges, does)>>, K, Names(Edge, Edges), moved)
<1>1. ASSUME NEW s \in does PROVE Serve(AllEdges, s, K, moved)
  <2>1. PICK e \in Edges : /\ s.out = Edge[e] /\ (s.add => s.out \in K)
                           /\ \A r \in s.ins : Okay(AllEdges, K, moved, r)
      OBVIOUS
  <2>2. e \in Dirs /\ Edge[e] \in {Edge[e], dA[e]}
      BY OnEdgesOf
  <2>3. Need(Edge[e], moved) = AllEdges
      BY <2>2, NeedEdge
  <2> QED BY <2>1, <2>3, CellsWithin DEF Serve
<1>2. Names(Edge, Edges) \subseteq {s.out : s \in does}
    BY DEF Names
<1> QED BY <1>1, <1>2, OneServes

LEMMA ArithmeticServe ==
    ASSUME Setting, conf.dims >= 2, NEW K, UNION {Stored(d) : d \in Active} \subseteq K, NEW moved,
           NEW e \in Edges, NEW r \in Arithmetic(e)
    PROVE Okay(AllEdges, K, moved, r)
<1>1. PICK x \in Across(e) : r = <<OnFaces(e, x[1]), Along(x[2], -1, 0)>>
    BY DEF Arithmetic
<1>2. Crossing(e, x[1], x[2])
    BY AcrossOf
<1>3. OnFaces(e, x[1]) \in {Et[x[1]], Eb[x[1]], SV[x[1]], Fan[x[1]]} /\ OnFaces(e, x[1]) \in K
    BY <1>2, OnFacesIn
<1>4. 1 \in 1..perpExtension /\ 1 - 1 = 0
    BY PerpOf, IsBoxOf
<1>5. Okay(AllEdges, K, moved, <<OnFaces(e, x[1]), Along(x[2], -1, 1 - 1)>>)
    BY <1>2, <1>3, <1>4, EdgeServe
<1> QED BY <1>1, <1>4, <1>5

LEMMA ArithmeticServes ==
    ASSUME Setting, conf.dims >= 2, NEW K, UNION {Stored(d) : d \in Active} \subseteq K, NEW moved
    PROVE Serves(CalcArithmeticAverage, K, Names(Edge, Edges), moved)
<1> DEFINE does == {Set(Edge[e], Arithmetic(e), Hyperbolic) : e \in Edges}
<1>1. \A s \in does : \E e \in Edges : s.out = Edge[e] /\ ~s.add /\ s.ins = Arithmetic(e)
    BY Fields, Kinds
<1>2. \A e \in Edges : \E s \in does : s.out = Edge[e]
    BY Fields
<1>3. CalcArithmeticAverage = <<Loop(AllEdges, does)>>
    BY DEF CalcArithmeticAverage
<1> HIDE DEF does
<1>4. \A e \in Edges : \A r \in Arithmetic(e) : Okay(AllEdges, K, moved, r)
    BY ArithmeticServe
<1>5. \A s \in does : \E e \in Edges : /\ s.out = Edge[e] /\ (s.add => s.out \in K)
                                       /\ \A r \in s.ins : Okay(AllEdges, K, moved, r)
    BY <1>1, <1>4
<1> QED BY <1>2, <1>3, <1>5, EdgesServe

\* The electric field at the centres.
LEMMA CentresServe ==
    ASSUME Setting, NEW K, "Vc" \in K, NEW moved
    PROVE Serves(CalcCellCenteredEMF, K, Names(Cell, Edges), moved)
<1> DEFINE does == {Set(Cell[e], {<<"Vc", Here>>}, {}) : e \in Edges}
<1>1. \A s \in does : \E e \in Edges : s.out = Cell[e] /\ ~s.add /\ s.ins = {<<"Vc", Here>>}
    BY Fields, Kinds
<1>2. Names(Cell, Edges) \subseteq {s.out : s \in does}
  <2> SUFFICES ASSUME NEW e \in Edges PROVE \E s \in does : s.out = Cell[e]
      BY DEF Names
  <2>1. Set(Cell[e], {<<"Vc", Here>>}, {}) \in does
      OBVIOUS
  <2>2. Set(Cell[e], {<<"Vc", Here>>}, {}).out = Cell[e]
      BY Fields
  <2> HIDE DEF does
  <2> QED BY <2>1, <2>2
<1>3. CalcCellCenteredEMF = <<Loop(Wherever, does)>>
    BY DEF CalcCellCenteredEMF, Wherever
<1> HIDE DEF does
<1>4. \A e \in Edges : Cell[e] \in Wide
    BY OnEdgesOf, Tuples DEF Wide, Dirs
<1>5. Okay(Wherever, K, moved, <<"Vc", Here>>)
    BY HereBox, OkayVc
<1>6. ASSUME NEW s \in does PROVE Serve(Wherever, s, K, moved)
  <2>1. PICK e \in Edges : s.out = Cell[e] /\ ~s.add /\ s.ins = {<<"Vc", Here>>}
      BY <1>1
  <2>2. Need(s.out, moved) = Wherever
      BY <1>4, <2>1, NeedWide
  <2> QED BY <1>5, <2>1, <2>2, CellsWithin DEF Serve
<1> QED BY <1>2, <1>3, <1>6, OneServes

LEMMA CornerServe ==
    ASSUME Setting, NEW e, NEW a, NEW b, Crossing(e, a, b), NEW K, Names(Cell, Edges) \subseteq K,
           NEW need, NEW moved
    PROVE Okay(need, K, moved, <<Cell[e], Corner(a, b)>>)
<1>1. IsBox(Corner(a, b))
    BY DEF Corner, Along, IsBox
<1>2. Cell[e] \in Wide /\ Cell[e] \in K
    BY Tuples DEF Wide, Crossing, Dirs, Names
<1> QED BY <1>1, <1>2, OkayWide

LEMMA ContactServes ==
    ASSUME Setting, conf.dims >= 2, conf.emf = "uct_contact", NEW K,
           UNION {Stored(d) : d \in Active} \subseteq K, Names(Cell, Edges) \subseteq K, NEW moved
    PROVE Serves(CalcContactAverage, K, Names(Edge, Edges), moved)
<1> DEFINE ins(e) == Arithmetic(e) \cup {<<SV[x[1]], Along(x[2], -1, 0)>> : x \in Across(e)}
                              \cup {<<Cell[e], Corner(x[1], x[2])>> : x \in Across(e)}
           does == {Set(Edge[e], ins(e), Hyperbolic) : e \in Edges}
<1>1. \A e \in Edges : \A r \in ins(e) : Okay(AllEdges, K, moved, r)
  <2> SUFFICES ASSUME NEW e \in Edges, NEW r \in ins(e) PROVE Okay(AllEdges, K, moved, r)
      OBVIOUS
  <2>1. CASE r \in Arithmetic(e)
      BY <2>1, ArithmeticServe
  <2>2. ASSUME NEW x \in Across(e), r = <<SV[x[1]], Along(x[2], -1, 0)>>
        PROVE Okay(AllEdges, K, moved, r)
    <3>1. Crossing(e, x[1], x[2])
        BY AcrossOf
    <3>2. SV[x[1]] \in {Et[x[1]], Eb[x[1]], SV[x[1]], Fan[x[1]]} /\ SV[x[1]] \in K
        BY <3>1 DEF Crossing, Stored, If
    <3>3. 1 \in 1..perpExtension /\ 1 - 1 = 0
        BY PerpOf, IsBoxOf
    <3>4. Okay(AllEdges, K, moved, <<SV[x[1]], Along(x[2], -1, 1 - 1)>>)
        BY <3>1, <3>2, <3>3, EdgeServe
    <3> QED BY <2>2, <3>3, <3>4
  <2>3. ASSUME NEW x \in Across(e), r = <<Cell[e], Corner(x[1], x[2])>>
        PROVE Okay(AllEdges, K, moved, r)
    <3>1. Crossing(e, x[1], x[2])
        BY AcrossOf
    <3> QED BY <2>3, <3>1, CornerServe
  <2> QED BY <2>1, <2>2, <2>3
<1> HIDE DEF ins
<1>2. \A s \in does : \E e \in Edges : s.out = Edge[e] /\ ~s.add /\ s.ins = ins(e)
    BY Fields, Kinds
<1>3. \A e \in Edges : \E s \in does : s.out = Edge[e]
  <2> SUFFICES ASSUME NEW e \in Edges PROVE \E s \in does : s.out = Edge[e]
      OBVIOUS
  <2>1. Set(Edge[e], ins(e), Hyperbolic) \in does
      OBVIOUS
  <2>2. Set(Edge[e], ins(e), Hyperbolic).out = Edge[e]
      BY Fields
  <2> HIDE DEF does
  <2> QED BY <2>1, <2>2
<1>4. CalcContactAverage = <<Loop(AllEdges, does)>>
    BY DEF CalcContactAverage, ins
<1> HIDE DEF does
<1>5. \A s \in does : \E e \in Edges : /\ s.out = Edge[e] /\ (s.add => s.out \in K)
                                       /\ \A r \in s.ins : Okay(AllEdges, K, moved, r)
    BY <1>1, <1>2
<1> QED BY <1>3, <1>4, <1>5, EdgesServe

LEMMA FanServe ==
    ASSUME Setting, conf.emf \in {"uct_hll", "uct_hlld"}, NEW K,
           UNION {Stored(d) : d \in Active} \subseteq K, Names(BXs, Dirs) \subseteq K,
           NEW e, NEW a, NEW b, Crossing(e, a, b), NEW r \in FromFan(e, a, b)
    PROVE Okay(AllEdges, K, FALSE, r)
<1>0. PICK moved \in BOOLEAN : moved = FALSE
    OBVIOUS
<1>1. PICK n \in 1..nghost : ToEdge(a) = Along(a, -n, n - 1)
    BY Ghosts DEF ToEdge
<1>2. Crossing(e, b, a) /\ perpExtension = nghost /\ 1 \in 1..perpExtension /\ 1 - 1 = 0
    BY Ghosts DEF Crossing, perpExtension
<1>3. CASE r = <<Fan[a], Along(b, -1, 0)>>
  <2>1. Fan[a] \in {Et[a], Eb[a], SV[a], Fan[a]} /\ Fan[a] \in K
      BY DEF Stored, If, Crossing
  <2>2. Okay(AllEdges, K, moved, <<Fan[a], Along(b, -1, 1 - 1)>>)
      BY <1>2, <2>1, EdgeServe
  <2> QED BY <1>0, <1>2, <1>3, <2>2
<1>4. CASE r = <<BXs[b], ToEdge(a)>>
  <2>0. n \in Int /\ -n \in Int /\ n - 1 \in Int /\ n <= nghost /\ 1 <= n /\ nghost \in Int
      BY Ghosts
  <2>1. IsBox(Along(a, -n, n - 1))
      BY <2>0, AlongBox DEF Crossing
  <2>2. Inside(AllEdges, Along(a, -n, n - 1))
    <3>1. \A d \in Dirs : /\ AllEdges[d] = IF d \in Active THEN <<0, 1>> ELSE <<0, 0>>
                          /\ Wherever[d] = IF d \in Active THEN <<nghost, nghost>> ELSE <<0, 0>>
                          /\ Along(a, -n, n - 1)[d] = IF d = a /\ d \in Active THEN <<-n, n - 1>> ELSE <<0, 0>>
        BY DEF AllEdges, Wherever, Region, Along
    <3> SUFFICES ASSUME NEW d \in Dirs
                 PROVE /\ AllEdges[d][1] - Along(a, -n, n - 1)[d][1] <= Wherever[d][1]
                       /\ AllEdges[d][2] + Along(a, -n, n - 1)[d][2] <= Wherever[d][2]
        BY DEF Inside, Within, Touch
    <3>2. CASE d \in Active /\ d = a
        BY <2>0, <3>1, <3>2
    <3>3. CASE d \in Active /\ d # a
        BY <2>0, <3>1, <3>3
    <3>4. CASE d \notin Active
        BY <3>1, <3>4
    <3> QED BY <3>2, <3>3, <3>4
  <2>3. b \in Dirs /\ BXs[b] \in K
      BY DEF Crossing, Names
  <2>4. Okay(AllEdges, K, FALSE, <<BXs[b], Along(a, -n, n - 1)>>)
      BY <2>1, <2>2, <2>3, IsBoxOf, OkayField
  <2> QED BY <1>1, <1>4, <2>4
<1>5. CASE r = <<OnFaces(e, b), ToEdge(a)>>
  <2>1. OnFaces(e, b) \in {Et[b], Eb[b], SV[b], Fan[b]} /\ OnFaces(e, b) \in K
      BY <1>2, OnFacesIn
  <2>2. Okay(AllEdges, K, moved, <<OnFaces(e, b), Along(a, -n, n - 1)>>)
      BY <1>2, <2>1, EdgeServe
  <2> QED BY <1>0, <1>1, <1>5, <2>2
<1> QED BY <1>3, <1>4, <1>5 DEF FromFan

LEMMA RiemannAverageServes ==
    ASSUME Setting, conf.dims >= 2, conf.emf \in {"uct_hll", "uct_hlld"}, NEW K,
           UNION {Stored(d) : d \in Active} \subseteq K, Names(BXs, Dirs) \subseteq K
    PROVE Serves(CalcRiemannAverage, K, Names(Edge, Edges), FALSE)
<1> DEFINE ins(e) == <<ExFromX2 \cup ExFromX3, EyFromX1 \cup EyFromX3, EzFromX1 \cup EzFromX2>>[e]
           does == {Set(Edge[e], ins(e), Hyperbolic) : e \in Edges}
<1>0. /\ conf.dims = 3 => Crossing(1, 2, 3) /\ Crossing(1, 3, 2) /\ Crossing(2, 1, 3) /\ Crossing(2, 3, 1)
      /\ Crossing(3, 1, 2) /\ Crossing(3, 2, 1)
    BY ConfType DEF Crossing, Edges, Active, Dirs, KDIR
<1>1. \A e \in Edges : \A r \in ins(e) : Okay(AllEdges, K, FALSE, r)
  <2> SUFFICES ASSUME NEW e \in Edges, NEW r \in ins(e) PROVE Okay(AllEdges, K, FALSE, r)
      OBVIOUS
  <2>0. e \in Dirs /\ (e # 3 => conf.dims = 3)
      BY DEF Edges, KDIR, Dirs
  <2>1. CASE e = 1
    <3>1. r \in FromFan(1, 2, 3) \/ r \in FromFan(1, 3, 2)
        BY <2>1 DEF ExFromX2, ExFromX3, IDIR, JDIR, KDIR
    <3> QED BY <1>0, <2>0, <2>1, <3>1, FanServe
  <2>2. CASE e = 2
    <3>1. r \in FromFan(2, 1, 3) \/ r \in FromFan(2, 3, 1)
        BY <2>2 DEF EyFromX1, EyFromX3, IDIR, JDIR, KDIR
    <3> QED BY <1>0, <2>0, <2>2, <3>1, FanServe
  <2>3. CASE e = 3
    <3>1. r \in FromFan(3, 1, 2) \/ r \in FromFan(3, 2, 1)
        BY <2>3 DEF EzFromX1, EzFromX2, IDIR, JDIR, KDIR
    <3> QED BY <1>0, <2>3, <3>1, FanServe
  <2>4. e = 1 \/ e = 2 \/ e = 3
      BY <2>0 DEF Dirs
  <2> QED BY <2>1, <2>2, <2>3, <2>4
<1> HIDE DEF ins
<1>2. \A s \in does : \E e \in Edges : s.out = Edge[e] /\ ~s.add /\ s.ins = ins(e)
    BY Fields, Kinds
<1>3. \A e \in Edges : \E s \in does : s.out = Edge[e]
  <2> SUFFICES ASSUME NEW e \in Edges PROVE \E s \in does : s.out = Edge[e]
      OBVIOUS
  <2>1. Set(Edge[e], ins(e), Hyperbolic) \in does
      OBVIOUS
  <2>2. Set(Edge[e], ins(e), Hyperbolic).out = Edge[e]
      BY Fields
  <2> HIDE DEF does
  <2> QED BY <2>1, <2>2
<1>4. CalcRiemannAverage = <<Loop(AllEdges, does)>>
    BY DEF CalcRiemannAverage, ins
<1> HIDE DEF does
<1>5. \A s \in does : \E e \in Edges : /\ s.out = Edge[e] /\ (s.add => s.out \in K)
                                       /\ \A r \in s.ins : Okay(AllEdges, K, FALSE, r)
    BY <1>1, <1>2
<1> QED BY <1>3, <1>4, <1>5, EdgesServe

LEMMA CorrectedServe ==
    ASSUME Setting, conf.dims >= 2, conf.emf = "uct0", NEW K, NEW moved,
           UNION {Stored(d) : d \in Active} \subseteq K, Names(Cell, Edges) \subseteq K,
           NEW s \in Corrected
    PROVE Serve(Region(1, 1), s, K, moved)
<1>1. PICK p \in {p \in Edges \X Dirs : p[1] # p[2]} :
         s = Add(OnFaces(p[1], p[2]), {<<Cell[p[1]], Along(p[2], -1, 0)>>}, {})
    BY DEF Corrected
<1>2. PICK e, d : e = p[1] /\ d = p[2] /\ e \in Edges /\ d \in Dirs /\ e # d /\ e \in Dirs
    BY OnEdgesOf
<1>3. s.out = OnFaces(e, d) /\ s.ins = {<<Cell[e], Along(d, -1, 0)>>}
    BY <1>1, <1>2, Fields
<1>4. PICK b \in Dirs : Crossing(e, d, b)
  <2>1. PICK b \in Dirs : b # e /\ b # d
      BY <1>2 DEF Dirs
  <2>2. <<d, b>> \in Across(e)
      BY <1>2, <2>1 DEF Across
  <2> QED BY <1>2, <2>1, <2>2, AcrossOf
<1>5. s.out \in {Et[d], Eb[d], SV[d], Fan[d]} /\ s.out \in K
    BY <1>3, <1>4, OnFacesIn
<1>6. Need(s.out, moved) = [i \in Dirs |-> IF i = d THEN <<0, 1>> ELSE Region(perpExtension, perpExtension)[i]]
    BY <1>2, <1>5, NeedSide
<1>7. Within(Need(s.out, moved), Region(1, 1)) /\ IsBox(Region(1, 1))
  <2>1. perpExtension = 1 /\ d \in Active
      BY <1>4 DEF perpExtension, Crossing
  <2> QED BY <1>6, <2>1, IsBoxOf DEF Within, Region
<1>8. Okay(Need(s.out, moved), K, moved, <<Cell[e], Along(d, -1, 0)>>)
  <2>1. Cell[e] \in Wide /\ Cell[e] \in K
      BY <1>2, Tuples DEF Wide, Dirs, Names
  <2>2. IsBox(Along(d, -1, 0))
      BY <1>2, AlongBox
  <2> QED BY <2>1, <2>2, OkayWide
<1> QED BY <1>3, <1>5, <1>7, <1>8 DEF Serve

LEMMA CornersServe ==
    ASSUME Setting, Corners, NEW K, "Vc" \in K,
           UNION {Stored(d) : d \in Active} \subseteq K, Names(BXs, Dirs) \subseteq K
    PROVE Serves(CalcCornerEMF, K, Names(Edge, Edges), FALSE)
<1>0. conf.dims >= 2
    BY DEF Corners
<1>1. conf.emf \in {"arithmetic", "uct0", "uct_contact", "uct_hll", "uct_hlld"}
    BY DEF Setting, Options
<1>2. PICK moved \in BOOLEAN : moved = FALSE
    OBVIOUS
<1>3. PICK L : L = K \cup Names(Cell, Edges)
    OBVIOUS
<1>4. UNION {Stored(d) : d \in Active} \subseteq L /\ Names(Cell, Edges) \subseteq L
    BY <1>3
<1>5. Serves(CalcCellCenteredEMF, K, Names(Cell, Edges), moved)
    BY CentresServe
<1>6. CASE conf.emf = "arithmetic"
  <2>1. Serves(CalcArithmeticAverage, K, Names(Edge, Edges), moved)
      BY <1>0, ArithmeticServes
  <2> QED BY <1>2, <1>6, <2>1 DEF CalcCornerEMF
<1>7. CASE conf.emf = "uct0"
  <2>1. Serves(<<Loop(Region(1, 1), Corrected)>>, L, {}, moved)
      BY <1>0, <1>4, <1>7, CorrectedServe, OneServes
  <2>2. Serves(CalcArithmeticAverage, L \cup {}, Names(Edge, Edges), moved)
      BY <1>0, <1>4, ArithmeticServes
  <2>3. Serves(CalcUCT0Average, L, {} \cup Names(Edge, Edges), moved)
      BY <2>1, <2>2, JoinServes DEF CalcUCT0Average
  <2>4. Serves(CalcCellCenteredEMF \o CalcUCT0Average, K, Names(Cell, Edges) \cup ({} \cup Names(Edge, Edges)), moved)
      BY <1>3, <1>5, <2>3, JoinServes
  <2>5. Serves(CalcCellCenteredEMF \o CalcUCT0Average, K, Names(Edge, Edges), moved)
      BY <2>4, ServesLess
  <2> QED BY <1>2, <1>7, <2>5 DEF CalcCornerEMF
<1>8. CASE conf.emf = "uct_contact"
  <2>1. Serves(CalcContactAverage, L, Names(Edge, Edges), moved)
      BY <1>0, <1>4, <1>8, ContactServes
  <2>2. Serves(CalcCellCenteredEMF \o CalcContactAverage, K, Names(Cell, Edges) \cup Names(Edge, Edges), moved)
      BY <1>3, <1>5, <2>1, JoinServes
  <2>3. Serves(CalcCellCenteredEMF \o CalcContactAverage, K, Names(Edge, Edges), moved)
      BY <2>2, ServesLess
  <2> QED BY <1>2, <1>8, <2>3 DEF CalcCornerEMF
<1>9. CASE conf.emf \in {"uct_hll", "uct_hlld"}
  <2>1. Serves(CalcRiemannAverage, K, Names(Edge, Edges), FALSE)
      BY <1>0, <1>9, RiemannAverageServes
  <2> QED BY <1>9, <2>1 DEF CalcCornerEMF
<1> QED BY <1>1, <1>6, <1>7, <1>8, <1>9
-----------------------------------------------------------------------------
\* The electric field of the diffusive terms.
LEMMA EdgeFieldBoxes ==
    ASSUME Setting, NEW e \in Edges, NEW r \in EdgeField(e)
    PROVE /\ r = <<r[1], r[2]>> /\ IsBox(r[2]) /\ Small(r[2])
          /\ r[1] \in {"BX1s", "BX2s", "BX3s", "J1", "J2", "J3", "Vc"}
<1>0. e \in Dirs /\ -1 \in Int /\ 0 \in Int
    BY OnEdgesOf
<1>1. \A d \in Dirs : IsBox(Along(d, -1, 0)) /\ Small(Along(d, -1, 0))
    BY <1>0, AlongBox
<1>2. 1 \in Dirs /\ 2 \in Dirs /\ 3 \in Dirs
    BY DEF Dirs
<1>3. CASE e = 1
  <2>1. /\ IsBox(Box(<<0, 1>>, <<-1, 0>>, <<-1, 0>>)) /\ Small(Box(<<0, 1>>, <<-1, 0>>, <<-1, 0>>))
        /\ IsBox(Box(<<0, 1>>, <<-1, 0>>, <<0, 0>>)) /\ Small(Box(<<0, 1>>, <<-1, 0>>, <<0, 0>>))
        /\ IsBox(Box(<<0, 1>>, <<0, 0>>, <<-1, 0>>)) /\ Small(Box(<<0, 1>>, <<0, 0>>, <<-1, 0>>))
      BY BoxBox
  <2>2. r \in {<<"BX1s", Box(<<0, 1>>, <<-1, 0>>, <<-1, 0>>)>>,
               <<"BX2s", Along(3, -1, 0)>>, <<"BX3s", Along(2, -1, 0)>>,
               <<"J2", Box(<<0, 1>>, <<-1, 0>>, <<0, 0>>)>>,
               <<"J3", Box(<<0, 1>>, <<0, 0>>, <<-1, 0>>)>>}
      BY <1>3 DEF EdgeField, IDIR, JDIR, KDIR
  <2> QED BY <1>1, <1>2, <2>1, <2>2
<1>4. CASE e = 2
  <2>1. /\ IsBox(Box(<<-1, 0>>, <<0, 1>>, <<-1, 0>>)) /\ Small(Box(<<-1, 0>>, <<0, 1>>, <<-1, 0>>))
        /\ IsBox(Box(<<-1, 0>>, <<0, 1>>, <<0, 0>>)) /\ Small(Box(<<-1, 0>>, <<0, 1>>, <<0, 0>>))
        /\ IsBox(Box(<<0, 0>>, <<0, 1>>, <<-1, 0>>)) /\ Small(Box(<<0, 0>>, <<0, 1>>, <<-1, 0>>))
      BY BoxBox
  <2>2. r \in {<<"BX1s", Along(3, -1, 0)>>,
               <<"BX2s", Box(<<-1, 0>>, <<0, 1>>, <<-1, 0>>)>>,
               <<"BX3s", Along(1, -1, 0)>>,
               <<"J1", Box(<<-1, 0>>, <<0, 1>>, <<0, 0>>)>>,
               <<"J3", Box(<<0, 0>>, <<0, 1>>, <<-1, 0>>)>>}
      BY <1>4 DEF EdgeField, IDIR, JDIR, KDIR
  <2> QED BY <1>1, <1>2, <2>1, <2>2
<1>5. CASE e = 3
  <2>1. /\ IsBox(Box(<<-1, 0>>, <<-1, 0>>, <<0, 1>>)) /\ Small(Box(<<-1, 0>>, <<-1, 0>>, <<0, 1>>))
        /\ IsBox(Box(<<-1, 0>>, <<0, 0>>, <<0, 1>>)) /\ Small(Box(<<-1, 0>>, <<0, 0>>, <<0, 1>>))
        /\ IsBox(Box(<<0, 0>>, <<-1, 0>>, <<0, 1>>)) /\ Small(Box(<<0, 0>>, <<-1, 0>>, <<0, 1>>))
        /\ IsBox(Box(<<-1, 0>>, <<-1, 0>>, <<0, 0>>)) /\ Small(Box(<<-1, 0>>, <<-1, 0>>, <<0, 0>>))
      BY BoxBox
  <2>2. r \in {<<"BX1s", Along(2, -1, 0)>>, <<"BX2s", Along(1, -1, 0)>>,
               <<"BX3s", Box(<<-1, 0>>, <<-1, 0>>, <<0, 1>>)>>,
               <<"J1", Box(<<-1, 0>>, <<0, 0>>, <<0, 1>>)>>,
               <<"J2", Box(<<0, 0>>, <<-1, 0>>, <<0, 1>>)>>,
               <<"J1", Along(1, -1, 0)>>, <<"J2", Along(2, -1, 0)>>,
               <<"Vc", Box(<<-1, 0>>, <<-1, 0>>, <<0, 0>>)>>}
      BY <1>5 DEF EdgeField, IDIR, JDIR, KDIR
  <2> QED BY <1>1, <1>2, <2>1, <2>2
<1> QED BY <1>0, <1>3, <1>4, <1>5 DEF Dirs

LEMMA EdgeFieldServe ==
    ASSUME Setting, NEW K, {"J1", "J2", "J3"} \subseteq K, Names(BXs, Dirs) \subseteq K, "Vc" \in K,
           NEW e \in Edges, NEW r \in EdgeField(e)
    PROVE Okay(AllEdges, K, FALSE, r)
<1>0. PICK moved \in BOOLEAN : moved = FALSE
    OBVIOUS
<1>1. /\ r = <<r[1], r[2]>> /\ IsBox(r[2]) /\ Small(r[2])
      /\ r[1] \in {"BX1s", "BX2s", "BX3s", "J1", "J2", "J3", "Vc"}
    BY EdgeFieldBoxes
<1>2. CASE r[1] \in {"J1", "J2", "J3"}
  <2>1. \A d \in Dirs : IF d \in Active THEN AllEdges[d][1] <= 0 /\ AllEdges[d][2] <= 1
                        ELSE AllEdges[d][1] = 0 /\ AllEdges[d][2] = 0
      BY DEF AllEdges, Region
  <2>2. r[1] \in K
      BY <1>2
  <2>3. Okay(AllEdges, K, moved, <<r[1], r[2]>>)
      BY <1>1, <1>2, <2>1, <2>2, IsBoxOf, SmallCurrent
  <2> QED BY <1>0, <1>1, <2>3
<1>3. CASE r[1] \notin {"J1", "J2", "J3"}
  <2>1. r[1] \in K /\ (r[1] \in Wide \/ \E d \in Dirs : r[1] = BXs[d])
    <3>1. CASE r[1] = "Vc"
        BY <3>1 DEF Wide
    <3>2. CASE r[1] \in {"BX1s", "BX2s", "BX3s"}
      <4>1. r[1] \in Names(BXs, Dirs)
          BY <3>2, NamesOf
      <4> QED BY <4>1 DEF Names
    <3> QED BY <1>1, <1>3, <3>1, <3>2
  <2>2. Near(AllEdges)
      BY Places
  <2>3. Okay(AllEdges, K, FALSE, <<r[1], r[2]>>)
      BY <1>1, <2>1, <2>2, OkayNear
  <2> QED BY <1>1, <2>3
<1> QED BY <1>2, <1>3

LEMMA DiffusivityServe ==
    ASSUME NEW e, NEW a \in Wide, NEW status, NEW K, status = "userdef" => a \in K, NEW need, NEW moved,
           NEW r \in EdgeDiffusivity(a, status, e)
    PROVE Okay(need, K, moved, r)
<1> DEFINE box == [d \in Dirs |-> IF d = e THEN <<0, 0>> ELSE Along(d, -1, 0)[d]]
<1>1. r = <<a, box>> /\ a \in K
    BY DEF EdgeDiffusivity
<1>2. IsBox(box)
    BY DEF IsBox, Along
<1> HIDE DEF box
<1> QED BY <1>1, <1>2, OkayWide

LEMMA NonidealServes ==
    ASSUME Setting, NEW ohmic, NEW ambipolar, NEW K, {"J1", "J2", "J3"} \subseteq K,
           Names(BXs, Dirs) \subseteq K, "Vc" \in K, Names(Edge, Edges) \subseteq K,
           ohmic /\ conf.terms["ohmic"] = "userdef" => "etaOhmic" \in K,
           ambipolar /\ conf.terms["ambipolar"] = "userdef" => "xAmbipolar" \in K
    PROVE Serves(CalcNonidealEMF(ohmic, ambipolar), K, Names(Edge, Edges), FALSE)
<1> DEFINE
      ins(e) == {<<Current[e], Here>>}
                \cup (IF ohmic THEN EdgeDiffusivity("etaOhmic", conf.terms["ohmic"], e) ELSE {})
                \cup IF ambipolar
                     THEN EdgeField(e) \cup EdgeDiffusivity("xAmbipolar", conf.terms["ambipolar"], e) ELSE {}
      parts == (IF ohmic THEN {<<"ohmic", 0>>} ELSE {})
               \cup IF ambipolar THEN {<<"ambipolar", 0>>} ELSE {}
      does == {Add(Edge[e], ins(e), parts) : e \in Edges}
<1>0. PICK moved \in BOOLEAN : moved = FALSE
    OBVIOUS
<1>1. \A e \in Edges : \A r \in ins(e) : Okay(AllEdges, K, FALSE, r)
  <2> SUFFICES ASSUME NEW e \in Edges, NEW r \in ins(e) PROVE Okay(AllEdges, K, FALSE, r)
      OBVIOUS
  <2>0. \/ r = <<Current[e], Here>>
        \/ ohmic /\ r \in EdgeDiffusivity("etaOhmic", conf.terms["ohmic"], e)
        \/ ambipolar /\ r \in EdgeDiffusivity("xAmbipolar", conf.terms["ambipolar"], e)
        \/ r \in EdgeField(e)
      OBVIOUS
  <2> HIDE DEF ins
  <2>1. CASE r = <<Current[e], Here>>
    <3>1. Current[e] \in {"J1", "J2", "J3"} /\ Current[e] \in K
        BY OnEdgesOf, Tuples DEF Dirs
    <3>2. \A d \in Dirs : IF d \in Active THEN AllEdges[d][1] <= 0 /\ AllEdges[d][2] <= 1
                          ELSE AllEdges[d][1] = 0 /\ AllEdges[d][2] = 0
        BY DEF AllEdges, Region
    <3>3. Okay(AllEdges, K, moved, <<Current[e], Here>>)
        BY <3>1, <3>2, IsBoxOf, HereBox, SmallCurrent
    <3> QED BY <1>0, <2>1, <3>3
  <2>2. CASE ohmic /\ r \in EdgeDiffusivity("etaOhmic", conf.terms["ohmic"], e)
    <3>1. "etaOhmic" \in Wide
        BY DEF Wide
    <3> QED BY <2>2, <3>1, DiffusivityServe
  <2>3. CASE ambipolar /\ r \in EdgeDiffusivity("xAmbipolar", conf.terms["ambipolar"], e)
    <3>1. "xAmbipolar" \in Wide
        BY DEF Wide
    <3> QED BY <2>3, <3>1, DiffusivityServe
  <2>4. CASE r \in EdgeField(e)
      BY <2>4, EdgeFieldServe
  <2> QED BY <2>0, <2>1, <2>2, <2>3, <2>4
<1> HIDE DEF ins, parts
<1>2. \A s \in does : \E e \in Edges : s.out = Edge[e] /\ s.ins = ins(e)
    BY Fields
<1>3. \A e \in Edges : \E s \in does : s.out = Edge[e]
  <2> SUFFICES ASSUME NEW e \in Edges PROVE \E s \in does : s.out = Edge[e]
      OBVIOUS
  <2>1. Add(Edge[e], ins(e), parts) \in does
      OBVIOUS
  <2>2. Add(Edge[e], ins(e), parts).out = Edge[e]
      BY Fields
  <2> HIDE DEF does
  <2> QED BY <2>1, <2>2
<1>4. CalcNonidealEMF(ohmic, ambipolar) = <<Loop(AllEdges, does)>>
    BY DEF CalcNonidealEMF, ins, parts
<1> HIDE DEF does
<1>5. \A e \in Edges : Edge[e] \in K
    BY DEF Names
<1>6. \A s \in does : \E e \in Edges : /\ s.out = Edge[e] /\ (s.add => s.out \in K)
                                       /\ \A r \in s.ins : Okay(AllEdges, K, FALSE, r)
    BY <1>1, <1>2, <1>5
<1> QED BY <1>3, <1>4, <1>6, EdgesServe

\* The field on the faces.
LEMMA MovedNeed ==
    ASSUME Setting, NEW moved \in BOOLEAN, moved, NEW d \in Active, NEW f, f = BXs \/ f = dB
    PROVE \A i \in Dirs : Need(f[d], moved)[i] = IF i = d THEN <<0, 1>> ELSE <<0, 0>>
<1>1. d \in Dirs
    BY ActiveDirs
<1>2. Along(d, 0, 1)[d] = <<0, 1>>
    BY <1>1 DEF Along
<1>3. CASE f = BXs
  <2>1. Need(BXs[d], moved) =
            [i \in Dirs |-> IF i = d
                            THEN IF moved THEN Along(i, 0, 1)[i] ELSE Along(i, nghost, nghost + 1)[i]
                            ELSE IF moved THEN <<0, 0>> ELSE Wherever[i]]
      BY <1>1, NeedField
  <2>2. \A i \in Dirs : Need(BXs[d], moved)[i] = IF i = d THEN Along(i, 0, 1)[i] ELSE <<0, 0>>
      BY <2>1
  <2> QED BY <1>2, <1>3, <2>2
<1>4. CASE f = dB
  <2>1. Need(dB[d], moved) = [i \in Dirs |-> IF i = d THEN Along(i, 0, 1)[i] ELSE <<0, 0>>]
      BY <1>1, NeedRate
  <2>2. \A i \in Dirs : Need(dB[d], moved)[i] = IF i = d THEN Along(i, 0, 1)[i] ELSE <<0, 0>>
      BY <2>1
  <2> QED BY <1>2, <1>4, <2>2
<1> QED BY <1>3, <1>4

LEMMA CurlServe ==
    ASSUME Setting, NEW moved \in BOOLEAN, moved, NEW d \in Active, NEW f, f = BXs \/ f = dB,
           NEW at, at = Edge \/ at = Ve,
           NEW K, Names(at, Edges) \subseteq K, NEW r \in Curl(d, at)
    PROVE Okay(Need(f[d], moved), K, moved, r)
<1>1. PICK x \in Across(d) : x[1] \in Edges /\ r = <<at[x[1]], Along(x[2], 0, 1)>>
    BY DEF Curl
<1>2. PICK e \in Dirs, b \in Dirs : e = x[1] /\ b = x[2] /\ e # d /\ b # d /\ e # b
    BY DEF Across
<1>5. Need(at[e], moved) = AllEdges /\ at[e] \in K
  <2>1. at[e] \in K
      BY <1>1, <1>2 DEF Names
  <2>2. CASE at = Edge
    <3>1. Edge[e] \in {Edge[e], dA[e]}
        OBVIOUS
    <3> QED BY <1>2, <2>1, <2>2, <3>1, NeedEdge
  <2>3. CASE at = Ve
      BY <1>2, <2>1, <2>3, NeedPotential
  <2> QED BY <2>2, <2>3
<1>6. PICK need : need = Need(f[d], moved)
    OBVIOUS
<1>7. IsBox(need)
    BY <1>6, NeedBox
<1>8. IsBox(Along(b, 0, 1))
    BY <1>2, AlongBox
<1>9. \A i \in Dirs : need[i] = IF i = d THEN <<0, 1>> ELSE <<0, 0>>
    BY <1>6, MovedNeed
<1>10. \A i \in Dirs : /\ AllEdges[i] = IF i \in Active THEN <<0, 1>> ELSE <<0, 0>>
                       /\ Along(b, 0, 1)[i] = IF i = b /\ i \in Active THEN <<0, 1>> ELSE <<0, 0>>
    BY DEF AllEdges, Region, Along
<1>11. Within(Touch(need, Along(b, 0, 1)), AllEdges)
  <2> SUFFICES ASSUME NEW i \in Dirs
               PROVE /\ need[i][1] - Along(b, 0, 1)[i][1] <= AllEdges[i][1]
                     /\ need[i][2] + Along(b, 0, 1)[i][2] <= AllEdges[i][2]
      BY DEF Within, Touch
  <2>1. CASE i = d
      BY <1>2, <1>9, <1>10, <2>1
  <2>2. CASE i # d
      BY <1>2, <1>9, <1>10, <2>2
  <2> QED BY <2>1, <2>2
<1>12. Okay(need, K, moved, <<at[e], Along(b, 0, 1)>>)
    BY <1>5, <1>7, <1>8, <1>11, OkayIn
<1> QED BY <1>1, <1>2, <1>6, <1>12

LEMMA CurlServes ==
    ASSUME Setting, NEW moved \in BOOLEAN, moved, NEW f, f = BXs \/ f = dB, NEW at, at = Edge \/ at = Ve,
           NEW K, Names(at, Edges) \subseteq K, Names(f, Active) \subseteq K, NEW does,
           \A s \in does : \E d \in Active : s.out = f[d] /\ s.ins = Curl(d, at)
    PROVE Serves(<<Loop(AllEdges, does)>>, K, {}, moved)
<1>1. ASSUME NEW s \in does PROVE Serve(AllEdges, s, K, moved)
  <2>1. PICK d \in Active : s.out = f[d] /\ s.ins = Curl(d, at)
      OBVIOUS
  <2>2. d \in Dirs /\ f[d] \in K
      BY ActiveDirs DEF Names
  <2>3. \A r \in Curl(d, at) : Okay(Need(f[d], moved), K, moved, r)
      BY CurlServe
  <2>4. PICK need : need = Need(f[d], moved)
      OBVIOUS
  <2>5. Within(need, AllEdges)
    <3>0. \A i \in Dirs : Need(f[d], moved)[i] = IF i = d THEN <<0, 1>> ELSE <<0, 0>>
        BY MovedNeed, ZenonT(30)
    <3>1. \A i \in Dirs : need[i] = IF i = d THEN <<0, 1>> ELSE <<0, 0>>
        BY <2>4, <3>0
    <3>2. \A i \in Dirs : AllEdges[i] = IF i \in Active THEN <<0, 1>> ELSE <<0, 0>>
        BY DEF AllEdges, Region
    <3> SUFFICES ASSUME NEW i \in Dirs
                 PROVE need[i][1] <= AllEdges[i][1] /\ need[i][2] <= AllEdges[i][2]
        BY DEF Within
    <3>3. CASE i = d
        BY <3>1, <3>2, <3>3
    <3>4. CASE i # d
        BY <3>1, <3>2, <3>4
    <3> QED BY <3>3, <3>4
  <2> QED BY <2>1, <2>2, <2>3, <2>4, <2>5, IsBoxOf DEF Serve
<1> QED BY <1>1, OneServes

LEMMA MagFieldServes ==
    ASSUME Setting, NEW moved \in BOOLEAN, moved, NEW f, f = BXs \/ f = dB,
           NEW K, Names(Edge, Edges) \subseteq K, Names(f, Active) \subseteq K
    PROVE Serves(EvolveMagField(f), K, {}, moved)
<1> DEFINE does == {Add(f[d], Curl(d, Edge), EdgeParts) : d \in Active}
<1>1. \A s \in does : \E d \in Active : s.out = f[d] /\ s.ins = Curl(d, Edge)
    BY Fields
<1>2. EvolveMagField(f) = <<Loop(AllEdges, does)>>
    BY DEF EvolveMagField
<1> HIDE DEF does
<1>3. PICK at : at = Edge
    OBVIOUS
<1>4. Serves(<<Loop(AllEdges, does)>>, K, {}, moved)
    BY <1>1, <1>3, CurlServes
<1> QED BY <1>2, <1>4

LEMMA FromPotentialServes ==
    ASSUME Setting, NEW moved \in BOOLEAN, moved,
           NEW K, Names(Ve, Edges) \subseteq K, Names(BXs, Active) \subseteq K
    PROVE Serves(ComputeMagFieldFromA, K, {}, moved)
<1> DEFINE does == {Set(BXs[d], Curl(d, Ve), EdgeParts) : d \in Active}
<1>1. \A s \in does : \E d \in Active : s.out = BXs[d] /\ s.ins = Curl(d, Ve)
    BY Fields
<1>2. ComputeMagFieldFromA = <<Loop(AllEdges, does)>>
    BY DEF ComputeMagFieldFromA
<1> HIDE DEF does
<1>3. PICK f, at : f = BXs /\ at = Ve
    OBVIOUS
<1>4. Serves(<<Loop(AllEdges, does)>>, K, {}, moved)
    BY <1>1, <1>3, CurlServes
<1> QED BY <1>2, <1>4

LEMMA PotentialServes ==
    ASSUME Setting, NEW moved \in BOOLEAN, moved, NEW f, f = Ve \/ f = dA,
           NEW K, Names(Edge, Edges) \subseteq K, Names(f, Edges) \subseteq K
    PROVE Serves(EvolveVectorPotential(f), K, {}, moved)
<1> DEFINE does == {Add(f[e], {<<Edge[e], Here>>}, EdgeParts) : e \in Edges}
<1>1. \A s \in does : \E e \in Edges : s.out = f[e] /\ s.ins = {<<Edge[e], Here>>}
  <2> SUFFICES ASSUME NEW s \in does PROVE \E e \in Edges : s.out = f[e] /\ s.ins = {<<Edge[e], Here>>}
      OBVIOUS
  <2>1. PICK e \in Edges : s = Add(f[e], {<<Edge[e], Here>>}, EdgeParts)
      OBVIOUS
  <2> QED BY <2>1, Fields
<1>2. EvolveVectorPotential(f) = <<Loop(AllEdges, does)>>
    BY DEF EvolveVectorPotential
<1> HIDE DEF does
<1>3. ASSUME NEW s \in does PROVE Serve(AllEdges, s, K, moved)
  <2>1. PICK e \in Edges : s.out = f[e] /\ s.ins = {<<Edge[e], Here>>}
      BY <1>1
  <2>2. e \in Dirs /\ f[e] \in K /\ Edge[e] \in K
      BY OnEdgesOf DEF Names
  <2>3. Need(Edge[e], moved) = AllEdges
    <3>1. Edge[e] \in {Edge[e], dA[e]}
        OBVIOUS
    <3> QED BY <2>2, <3>1, NeedEdge
  <2>4. Need(f[e], moved) = AllEdges
    <3>1. CASE f = Ve
        BY <2>2, <3>1, NeedPotential
    <3>2. CASE f = dA
      <4>1. dA[e] \in {Edge[e], dA[e]}
          OBVIOUS
      <4> QED BY <2>2, <3>2, <4>1, NeedEdge
    <3> QED BY <3>1, <3>2
  <2>5. Okay(AllEdges, K, moved, <<Edge[e], Here>>)
      BY <2>2, <2>3, IsBoxOf, OkayHere
  <2> QED BY <2>1, <2>2, <2>4, <2>5, CellsWithin DEF Serve
<1> QED BY <1>2, <1>3, OneServes

LEMMA MoveServes ==
    ASSUME Setting, NEW moved \in BOOLEAN, moved, NEW K, Names(Edge, Edges) \subseteq K,
           Names(BXs, Dirs) \subseteq K, Names(Ve, Dirs) \subseteq K,
           Rkl => IF conf.vecpot THEN Names(dA, Edges) \subseteq K ELSE Names(dB, Active) \subseteq K
    PROVE Serves(IF Rkl THEN IF conf.vecpot THEN EvolveVectorPotential(dA) ELSE EvolveMagField(dB)
                 ELSE IF conf.vecpot THEN EvolveVectorPotential(Ve) \o ComputeMagFieldFromA
                 ELSE EvolveMagField(BXs), K, {}, moved)
<1>1. Names(BXs, Active) \subseteq K /\ Names(Ve, Edges) \subseteq K
    BY ActiveDirs, OnEdgesOf DEF Names
<1>2. CASE Rkl /\ conf.vecpot
    BY <1>2, PotentialServes
<1>3. CASE Rkl /\ ~conf.vecpot
    BY <1>3, MagFieldServes
<1>4. CASE ~Rkl /\ conf.vecpot
  <2>1. Serves(EvolveVectorPotential(Ve), K, {}, moved)
      BY <1>1, PotentialServes
  <2>2. Serves(ComputeMagFieldFromA, K \cup {}, {}, moved)
      BY <1>1, FromPotentialServes
  <2>3. Serves(EvolveVectorPotential(Ve) \o ComputeMagFieldFromA, K, {} \cup {}, moved)
      BY <2>1, <2>2, JoinServes
  <2> QED BY <1>4, <2>3
<1>5. CASE ~Rkl /\ ~conf.vecpot
    BY <1>1, <1>5, MagFieldServes
<1> QED BY <1>2, <1>3, <1>4, <1>5

LEMMA CentredServes ==
    ASSUME Setting, NEW moved \in BOOLEAN, moved, NEW K, Names(BXs, Dirs) \subseteq K
    PROVE Serves(ReconstructVcField, K, {"UcField"}, moved)
<1> DEFINE ins == {<<BXs[d], Along(d, 0, 1)>> : d \in Active}
           s == Set("UcField", ins, EdgeParts)
<1>1. s.out = "UcField" /\ s.ins = ins /\ ~s.add
    BY Fields, Kinds
<1>2. ReconstructVcField = <<Loop(Wherever, {s})>>
    BY DEF ReconstructVcField, Wherever
<1>3. ASSUME NEW r \in ins PROVE Okay(Interior, K, moved, r)
  <2>1. PICK d \in Active : r = <<BXs[d], Along(d, 0, 1)>>
      OBVIOUS
  <2>2. d \in Dirs /\ BXs[d] \in K
      BY ActiveDirs DEF Names
  <2>3. IsBox(Along(d, 0, 1))
      BY <2>2, AlongBox
  <2>4. PICK need : need = Need(BXs[d], moved)
      OBVIOUS
  <2>5. \A i \in Dirs : need[i] = IF i = d THEN <<0, 1>> ELSE <<0, 0>>
    <3>1. PICK f : f = BXs
        OBVIOUS
    <3>2. \A i \in Dirs : Need(f[d], moved)[i] = IF i = d THEN <<0, 1>> ELSE <<0, 0>>
        BY <3>1, MovedNeed
    <3> QED BY <2>4, <3>1, <3>2
  <2>6. Within(Touch(Interior, Along(d, 0, 1)), need)
    <3>1. \A i \in Dirs : Interior[i] = <<0, 0>>
        BY DEF Interior, Region
    <3>2. \A i \in Dirs : Along(d, 0, 1)[i] = IF i = d THEN <<0, 1>> ELSE <<0, 0>>
        BY <2>2 DEF Along
    <3> SUFFICES ASSUME NEW i \in Dirs
                 PROVE /\ Interior[i][1] - Along(d, 0, 1)[i][1] <= need[i][1]
                       /\ Interior[i][2] + Along(d, 0, 1)[i][2] <= need[i][2]
        BY DEF Within, Touch
    <3>3. CASE i = d
        BY <2>5, <3>1, <3>2, <3>3
    <3>4. CASE i # d
        BY <2>5, <3>1, <3>2, <3>4
    <3> QED BY <3>3, <3>4
  <2> QED BY <2>1, <2>2, <2>3, <2>4, <2>6, IsBoxOf, OkayIn
<1> HIDE DEF ins, s
<1>4. Need("UcField", moved) = Interior
    BY NeedCells DEF InCells
<1>5. Serve(Wherever, s, K, moved)
    BY <1>1, <1>3, <1>4, CellsWithin DEF Serve
<1> QED BY <1>1, <1>2, <1>5, SingleServes
-----------------------------------------------------------------------------
(* What has been computed at each point of a stage.                           *)

Moved == Been("EvolveMagField")

\* The coefficients of a term that the user fills, which the first sweep sets.
Filling(term, call, arrays) == If(Done(call) # {}, UserRead(term, arrays))

Start ==
    {"Vc", "Uc", "InvDt", "phiP", "bodyForce", "UcTracer", "VcGas", "UcGas"}
    \cup Names(BXs, Dirs) \cup Names(Ve, Dirs)
    \cup If(conf.geo = "cartesian", {"viscSrc", "bragViscSrc"})

UserFilled ==
    Filling("ohmic", "AddNonIdealMHDFlux", {"etaOhmic"})
    \cup Filling("ambipolar", "AddNonIdealMHDFlux", {"xAmbipolar"})
    \cup Filling("viscosity", "AddViscousFlux", {"eta1", "eta2"})
    \cup Filling("conduction", "AddDiffusiveFlux", {"kappa"})
    \cup Filling("bragViscosity", "AddBragViscousFlux", {"etaBrag"})
    \cup Filling("bragConduction", "AddBragDiffusiveFlux", BragCoefficients)

Ready ==
    Start \cup UserFilled
    \cup If(Been("ResetStage"), Derivatives)
    \cup If(Been("CalcCurrent"), {"J1", "J2", "J3"})
    \cup If(Been("HallDiffusivity"), {"xHall"})
    \cup If(Been("Refresh"), {"csIso"})
    \cup If(conf.shock /\ ~Rkl /\ Done("CalcFlux") # {}, {"flags"})
    \cup If(Been("CalcFlux"), {"Flux"})
    \cup If(Been("CalcFlux") /\ ~Rkl, {"cMax"})
    \cup If(~Rkl /\ Corners, UNION {Stored(d) : d \in Done("CalcFlux")})
    \cup If(Been("ResetDiffusion"), {"dMax"})
    \cup If(Been("AddViscousFlux"), {"viscSrc"})
    \cup If(Been("AddBragViscousFlux"), {"bragViscSrc"})
    \cup If(conf.fargo = "userdef" /\ ~Rkl /\ (Done("CorrectFlux") # {} \/ Been("AddVelocityFluid")),
            {"fargoVelocity"})
    \cup If(Been("TracerCalcFlux"), {"FluxTracer"})
    \cup If(Been("CalcCornerEMF"), Names(Edge, Edges))
    \cup If(Been("ReconstructVcField"), {"UcField"})

\* What a call adds to it.
Gain(call) ==
    If(call = "AddNonIdealMHDFlux",
       UserRead("ohmic", {"etaOhmic"}) \cup UserRead("ambipolar", {"xAmbipolar"}))
    \cup If(call = "AddViscousFlux", UserRead("viscosity", {"eta1", "eta2"}))
    \cup If(call = "AddDiffusiveFlux", UserRead("conduction", {"kappa"}))
    \cup If(call = "AddBragViscousFlux", UserRead("bragViscosity", {"etaBrag"}))
    \cup If(call = "AddBragDiffusiveFlux", UserRead("bragConduction", BragCoefficients))
    \cup If(call = "ResetStage", Derivatives)
    \cup If(call = "CalcCurrent", {"J1", "J2", "J3"})
    \cup If(call = "HallDiffusivity", {"xHall"})
    \cup If(call = "Refresh", {"csIso"})
    \cup If(call = "CalcFlux" /\ conf.shock /\ ~Rkl /\ dir = IDIR, {"flags"})
    \cup If(call = "CalcFlux", {"Flux"})
    \cup If(call = "CalcFlux" /\ ~Rkl, {"cMax"})
    \cup If(call = "CalcFlux" /\ ~Rkl /\ Corners, Stored(dir))
    \cup If(call = "ResetDiffusion", {"dMax"})
    \cup If(call = "AddViscousFlux", {"viscSrc"})
    \cup If(call = "AddBragViscousFlux", {"bragViscSrc"})
    \cup If(conf.fargo = "userdef" /\ ~Rkl /\ (call = "CorrectFlux" \/ call = "AddVelocityFluid"),
            {"fargoVelocity"})
    \cup If(call = "TracerCalcFlux", {"FluxTracer"})
    \cup If(call = "CalcCornerEMF", Names(Edge, Edges))
    \cup If(call = "ReconstructVcField", {"UcField"})

Covered ==
    ~Starved => \A moved \in BOOLEAN : (moved <=> Moved) =>
                    \A a \in Ready \cap DOMAIN mem : Covers(mem, a, Need(a, moved))

LEMMA ConfSame ==
    ASSUME conf' = conf
    PROVE /\ (Starved' <=> Starved) /\ Start' = Start /\ (Corners' <=> Corners)
          /\ \A d : (Stored(d))' = Stored(d)
          /\ \A term, arrays : (UserRead(term, arrays))' = UserRead(term, arrays)
          /\ BragCoefficients' = BragCoefficients
<1>1. Starved' <=> Starved
    BY DEF Starved, Overreach, EdgesOverreach, BragOverreach, ComponentOverreach, Wants, HaveRKL, haveVc, haveVs, MixedFrames, Rkl, Evolved, OffMean, HaveMean
<1>2. Start' = Start
    BY DEF Start, If
<1>3. Corners' <=> Corners
    BY DEF Corners, Mhd
<1>4. \A d : (Stored(d))' = Stored(d)
    BY DEF Stored, If
<1>5. \A term, arrays : (UserRead(term, arrays))' = UserRead(term, arrays)
    BY DEF UserRead, If, Evolved
<1>6. BragCoefficients' = BragCoefficients
    BY DEF BragCoefficients
<1> QED BY <1>1, <1>2, <1>3, <1>4, <1>5, <1>6

LEMMA UserFilledStep ==
    ASSUME StageInv, NEW call, NEW loops, Posted(call, loops)
    PROVE UserFilled' \subseteq UserFilled \cup Gain(call)
<1>1. conf' = conf
    BY AfterPosted DEF SteadyConf
<1>2. \A other \in Named : (Done(other))' # {} => Done(other) # {} \/ call = other
    BY DoneStep
<1>3. \A term, arrays : (UserRead(term, arrays))' = UserRead(term, arrays)
    BY <1>1, ConfSame
<1>4. ASSUME NEW term, NEW other \in Named, NEW arrays
      PROVE (Filling(term, other, arrays))' \subseteq
                Filling(term, other, arrays) \cup If(call = other, UserRead(term, arrays))
    BY <1>2, <1>3 DEF Filling, If
<1>5. PICK brag : brag = BragCoefficients
    OBVIOUS
<1>6. BragCoefficients' = brag
    BY <1>1, <1>5, ConfSame
<1>7. (Filling("bragConduction", "AddBragDiffusiveFlux", BragCoefficients))' =
      (Filling("bragConduction", "AddBragDiffusiveFlux", brag))'
    BY <1>6 DEF Filling, UserRead, If
<1>8. {"AddNonIdealMHDFlux", "AddViscousFlux", "AddDiffusiveFlux", "AddBragViscousFlux",
       "AddBragDiffusiveFlux"} \subseteq Named
    BY AllNamed
<1>9. (Filling("ohmic", "AddNonIdealMHDFlux", {"etaOhmic"}))' \subseteq UserFilled \cup Gain(call)
  <2>1. (Filling("ohmic", "AddNonIdealMHDFlux", {"etaOhmic"}))' \subseteq
          Filling("ohmic", "AddNonIdealMHDFlux", {"etaOhmic"})
          \cup If(call = "AddNonIdealMHDFlux", UserRead("ohmic", {"etaOhmic"}))
      BY <1>4, <1>8
  <2> QED BY <2>1 DEF UserFilled, Gain, If
<1>10. (Filling("ambipolar", "AddNonIdealMHDFlux", {"xAmbipolar"}))' \subseteq UserFilled \cup Gain(call)
  <2>1. (Filling("ambipolar", "AddNonIdealMHDFlux", {"xAmbipolar"}))' \subseteq
          Filling("ambipolar", "AddNonIdealMHDFlux", {"xAmbipolar"})
          \cup If(call = "AddNonIdealMHDFlux", UserRead("ambipolar", {"xAmbipolar"}))
      BY <1>4, <1>8
  <2> QED BY <2>1 DEF UserFilled, Gain, If
<1>11. (Filling("viscosity", "AddViscousFlux", {"eta1", "eta2"}))' \subseteq UserFilled \cup Gain(call)
  <2>1. (Filling("viscosity", "AddViscousFlux", {"eta1", "eta2"}))' \subseteq
          Filling("viscosity", "AddViscousFlux", {"eta1", "eta2"})
          \cup If(call = "AddViscousFlux", UserRead("viscosity", {"eta1", "eta2"}))
      BY <1>4, <1>8
  <2> QED BY <2>1 DEF UserFilled, Gain
<1>12. (Filling("conduction", "AddDiffusiveFlux", {"kappa"}))' \subseteq UserFilled \cup Gain(call)
  <2>1. (Filling("conduction", "AddDiffusiveFlux", {"kappa"}))' \subseteq
          Filling("conduction", "AddDiffusiveFlux", {"kappa"})
          \cup If(call = "AddDiffusiveFlux", UserRead("conduction", {"kappa"}))
      BY <1>4, <1>8
  <2> QED BY <2>1 DEF UserFilled, Gain
<1>13. (Filling("bragViscosity", "AddBragViscousFlux", {"etaBrag"}))' \subseteq UserFilled \cup Gain(call)
  <2>1. (Filling("bragViscosity", "AddBragViscousFlux", {"etaBrag"}))' \subseteq
          Filling("bragViscosity", "AddBragViscousFlux", {"etaBrag"})
          \cup If(call = "AddBragViscousFlux", UserRead("bragViscosity", {"etaBrag"}))
      BY <1>4, <1>8
  <2> QED BY <2>1 DEF UserFilled, Gain
<1>14. (Filling("bragConduction", "AddBragDiffusiveFlux", BragCoefficients))' \subseteq UserFilled \cup Gain(call)
  <2>1. (Filling("bragConduction", "AddBragDiffusiveFlux", brag))' \subseteq
          Filling("bragConduction", "AddBragDiffusiveFlux", brag)
          \cup If(call = "AddBragDiffusiveFlux", UserRead("bragConduction", brag))
      BY <1>4, <1>8
  <2> QED BY <1>5, <1>7, <2>1 DEF UserFilled, Gain
<1> QED BY <1>9, <1>10, <1>11, <1>12, <1>13, <1>14 DEF UserFilled

LEMMA StoredStep ==
    ASSUME NEW S, NEW d
    PROVE (UNION {Stored(e) : e \in S \cup {d}}) = (UNION {Stored(e) : e \in S}) \cup Stored(d)
<1>1. PICK f : f = [e \in S \cup {d} |-> Stored(e)]
    OBVIOUS
<1>2. {Stored(e) : e \in S \cup {d}} = {Stored(e) : e \in S} \cup {Stored(d)}
    OBVIOUS
<1> QED BY <1>2, UnionWith

LEMMA ReadyStep ==
    ASSUME StageInv, NEW call, NEW loops, Posted(call, loops)
    PROVE Ready' \subseteq Ready \cup Gain(call)
<1>1. SteadyConf /\ conf' = conf /\ dir' = dir
    BY AfterPosted DEF SteadyConf
<1>2. \A other \in Named : (Been(other))' <=> Been(other) \/ call = other
    BY AfterPosted
<1>3. /\ (Been("ResetStage"))' <=> Been("ResetStage") \/ call = "ResetStage"
      /\ (Been("CalcCurrent"))' <=> Been("CalcCurrent") \/ call = "CalcCurrent"
      /\ (Been("HallDiffusivity"))' <=> Been("HallDiffusivity") \/ call = "HallDiffusivity"
      /\ (Been("Refresh"))' <=> Been("Refresh") \/ call = "Refresh"
      /\ (Been("CalcFlux"))' <=> Been("CalcFlux") \/ call = "CalcFlux"
      /\ (Been("ResetDiffusion"))' <=> Been("ResetDiffusion") \/ call = "ResetDiffusion"
      /\ (Been("AddViscousFlux"))' <=> Been("AddViscousFlux") \/ call = "AddViscousFlux"
      /\ (Been("AddBragViscousFlux"))' <=> Been("AddBragViscousFlux") \/ call = "AddBragViscousFlux"
      /\ (Been("AddVelocityFluid"))' <=> Been("AddVelocityFluid") \/ call = "AddVelocityFluid"
      /\ (Been("TracerCalcFlux"))' <=> Been("TracerCalcFlux") \/ call = "TracerCalcFlux"
      /\ (Been("CalcCornerEMF"))' <=> Been("CalcCornerEMF") \/ call = "CalcCornerEMF"
      /\ (Been("ReconstructVcField"))' <=> Been("ReconstructVcField") \/ call = "ReconstructVcField"
    BY <1>2, AllNamed
<1>4. (Rkl' <=> Rkl) /\ (Corners' <=> Corners) /\ Derivatives' = Derivatives /\ Edges' = Edges /\ Start' = Start
      /\ \A d : (Stored(d))' = Stored(d)
    BY <1>1, ConfSame, PartsSame
<1>5. PICK S : S = Done("CalcFlux")
    OBVIOUS
<1>6. /\ (Done("CalcFlux"))' = IF call = "CalcFlux" THEN S \cup {dir} ELSE S
      /\ (call = "CalcFlux" => S = 1..(dir - 1))
      /\ ((Done("CorrectFlux"))' # {} => Done("CorrectFlux") # {} \/ call = "CorrectFlux")
    BY <1>5, DoneStep, AllNamed
<1>7. (If(conf.shock /\ ~Rkl /\ Done("CalcFlux") # {}, {"flags"}))' \subseteq Ready \cup Gain(call)
  <2>1. call = "CalcFlux" /\ S = {} => dir = IDIR
    <3>1. dir \in 1..conf.dims /\ conf.dims \in 1..3
        BY ConfType DEF StageInv
    <3>2. call = "CalcFlux" /\ dir # 1 => 1 \in S
        BY <1>6, <3>1
    <3> QED BY <3>2 DEF IDIR
  <2> QED BY <1>1, <1>4, <1>5, <1>6, <2>1 DEF Ready, Gain, If
<1>8. (If(~Rkl /\ Corners, UNION {Stored(d) : d \in Done("CalcFlux")}))' \subseteq Ready \cup Gain(call)
  <2>1. (UNION {Stored(d) : d \in Done("CalcFlux")})' = UNION {Stored(d) : d \in (Done("CalcFlux"))'}
      BY <1>4
  <2>2. CASE call # "CalcFlux"
      BY <1>4, <1>5, <1>6, <2>1, <2>2 DEF Ready, If
  <2>3. CASE call = "CalcFlux"
    <3>1. PICK d : d = dir
        OBVIOUS
    <3>2. (UNION {Stored(e) : e \in S \cup {d}}) = (UNION {Stored(e) : e \in S}) \cup Stored(d)
        BY StoredStep
    <3>3. (UNION {Stored(e) : e \in Done("CalcFlux")})' = (UNION {Stored(e) : e \in S}) \cup Stored(d)
        BY <1>6, <2>1, <2>3, <3>1, <3>2
    <3> QED BY <1>4, <1>5, <2>3, <3>1, <3>3 DEF Ready, Gain, If
  <2> QED BY <2>2, <2>3
<1>9. Start' \subseteq Ready /\ UserFilled' \subseteq Ready \cup Gain(call)
    BY <1>4, UserFilledStep DEF Ready
<1>10. /\ (If(Been("ResetStage"), Derivatives))' \subseteq Ready \cup Gain(call)
       /\ (If(Been("CalcCurrent"), {"J1", "J2", "J3"}))' \subseteq Ready \cup Gain(call)
       /\ (If(Been("HallDiffusivity"), {"xHall"}))' \subseteq Ready \cup Gain(call)
       /\ (If(Been("Refresh"), {"csIso"}))' \subseteq Ready \cup Gain(call)
    BY <1>3, <1>4 DEF Ready, Gain, If
<1>11. /\ (If(Been("CalcFlux"), {"Flux"}))' \subseteq Ready \cup Gain(call)
       /\ (If(Been("CalcFlux") /\ ~Rkl, {"cMax"}))' \subseteq Ready \cup Gain(call)
       /\ (If(Been("ResetDiffusion"), {"dMax"}))' \subseteq Ready \cup Gain(call)
       /\ (If(Been("AddViscousFlux"), {"viscSrc"}))' \subseteq Ready \cup Gain(call)
       /\ (If(Been("AddBragViscousFlux"), {"bragViscSrc"}))' \subseteq Ready \cup Gain(call)
    BY <1>3, <1>4 DEF Ready, Gain, If
<1>12. (If(conf.fargo = "userdef" /\ ~Rkl /\ (Done("CorrectFlux") # {} \/ Been("AddVelocityFluid")),
            {"fargoVelocity"}))' \subseteq Ready \cup Gain(call)
    BY <1>1, <1>3, <1>4, <1>6 DEF Ready, Gain, If
<1>13. /\ (If(Been("TracerCalcFlux"), {"FluxTracer"}))' \subseteq Ready \cup Gain(call)
       /\ (If(Been("CalcCornerEMF"), Names(Edge, Edges)))' \subseteq Ready \cup Gain(call)
       /\ (If(Been("ReconstructVcField"), {"UcField"}))' \subseteq Ready \cup Gain(call)
    BY <1>3, <1>4 DEF Ready, Gain, If, Names
<1> HIDE DEF Gain
<1> QED BY <1>7, <1>8, <1>9, <1>10, <1>11, <1>12, <1>13 DEF Ready
-----------------------------------------------------------------------------
(* Each call finds what it reads.                                             *)

LEMMA ReadyOf ==
    /\ Start \subseteq Ready /\ UserFilled \subseteq Ready
    /\ Been("ResetStage") => Derivatives \subseteq Ready
    /\ Been("CalcCurrent") => {"J1", "J2", "J3"} \subseteq Ready
    /\ Been("HallDiffusivity") => "xHall" \in Ready
    /\ Been("Refresh") => "csIso" \in Ready
    /\ conf.shock /\ ~Rkl /\ Done("CalcFlux") # {} => "flags" \in Ready
    /\ Been("CalcFlux") => "Flux" \in Ready /\ (~Rkl => "cMax" \in Ready)
    /\ Been("ResetDiffusion") => "dMax" \in Ready
    /\ Been("AddViscousFlux") => "viscSrc" \in Ready
    /\ Been("AddBragViscousFlux") => "bragViscSrc" \in Ready
    /\ conf.fargo = "userdef" /\ ~Rkl /\ (Done("CorrectFlux") # {} \/ Been("AddVelocityFluid")) =>
          "fargoVelocity" \in Ready
    /\ Been("TracerCalcFlux") => "FluxTracer" \in Ready
    /\ Been("CalcCornerEMF") => Names(Edge, Edges) \subseteq Ready
    /\ Been("ReconstructVcField") => "UcField" \in Ready
    /\ ~Rkl /\ Corners => (UNION {Stored(d) : d \in Done("CalcFlux")}) \subseteq Ready
BY DEF Ready, If

LEMMA StartReady ==
    /\ {"Vc", "Uc", "InvDt", "phiP", "bodyForce", "UcTracer", "VcGas", "UcGas"} \subseteq Ready
    /\ Names(BXs, Dirs) \subseteq Ready /\ Names(Ve, Dirs) \subseteq Ready
    /\ conf.geo = "cartesian" => {"viscSrc", "bragViscSrc"} \subseteq Ready
<1>1. /\ {"Vc", "Uc", "InvDt", "phiP", "bodyForce", "UcTracer", "VcGas", "UcGas"} \subseteq Start
      /\ Names(BXs, Dirs) \subseteq Start /\ Names(Ve, Dirs) \subseteq Start
      /\ conf.geo = "cartesian" => {"viscSrc", "bragViscSrc"} \subseteq Start
    BY DEF Start, If
<1> QED BY <1>1, ReadyOf

LEMMA UserFilledReady ==
    /\ Done("AddNonIdealMHDFlux") # {} =>
          UserRead("ohmic", {"etaOhmic"}) \subseteq Ready /\ UserRead("ambipolar", {"xAmbipolar"}) \subseteq Ready
    /\ Done("AddViscousFlux") # {} => UserRead("viscosity", {"eta1", "eta2"}) \subseteq Ready
    /\ Done("AddDiffusiveFlux") # {} => UserRead("conduction", {"kappa"}) \subseteq Ready
    /\ Done("AddBragViscousFlux") # {} => UserRead("bragViscosity", {"etaBrag"}) \subseteq Ready
    /\ Done("AddBragDiffusiveFlux") # {} => UserRead("bragConduction", BragCoefficients) \subseteq Ready
<1>1. ASSUME NEW term, NEW call, NEW arrays, Done(call) # {}, Filling(term, call, arrays) \subseteq UserFilled
      PROVE UserRead(term, arrays) \subseteq Ready
  <2>1. Filling(term, call, arrays) = UserRead(term, arrays)
      BY <1>1 DEF Filling, If
  <2> QED BY <1>1, <2>1, ReadyOf
<1>2. /\ Filling("ohmic", "AddNonIdealMHDFlux", {"etaOhmic"}) \subseteq UserFilled
      /\ Filling("ambipolar", "AddNonIdealMHDFlux", {"xAmbipolar"}) \subseteq UserFilled
      /\ Filling("viscosity", "AddViscousFlux", {"eta1", "eta2"}) \subseteq UserFilled
      /\ Filling("conduction", "AddDiffusiveFlux", {"kappa"}) \subseteq UserFilled
      /\ Filling("bragViscosity", "AddBragViscousFlux", {"etaBrag"}) \subseteq UserFilled
    BY DEF UserFilled
<1>3. PICK brag : brag = BragCoefficients
    OBVIOUS
<1>4. Filling("bragConduction", "AddBragDiffusiveFlux", brag) \subseteq UserFilled
    BY <1>3 DEF UserFilled
<1>5. Done("AddBragDiffusiveFlux") # {} => UserRead("bragConduction", brag) \subseteq Ready
    BY <1>1, <1>4
<1>6. UserRead("bragConduction", brag) = UserRead("bragConduction", BragCoefficients)
    BY <1>3
<1>7. Done("AddNonIdealMHDFlux") # {} =>
          UserRead("ohmic", {"etaOhmic"}) \subseteq Ready /\ UserRead("ambipolar", {"xAmbipolar"}) \subseteq Ready
    BY <1>1, <1>2
<1>8. /\ Done("AddViscousFlux") # {} => UserRead("viscosity", {"eta1", "eta2"}) \subseteq Ready
      /\ Done("AddDiffusiveFlux") # {} => UserRead("conduction", {"kappa"}) \subseteq Ready
      /\ Done("AddBragViscousFlux") # {} => UserRead("bragViscosity", {"etaBrag"}) \subseteq Ready
    BY <1>1, <1>2
<1> QED BY <1>5, <1>6, <1>7, <1>8

LEMMA OutsideWanted ==
    /\ Wanted("ResetStage") <=> Rkl
    /\ Wanted("CalcCurrent") <=> IF Rkl THEN haveVs ELSE needExplicitCurrent
    /\ Wanted("HallDiffusivity") <=> ~Rkl /\ conf.hall = "userdef"
    /\ Wanted("Refresh") <=> ~Rkl /\ conf.eos = "userdef"
    /\ Wanted("AddSourceTerms") <=> ~Rkl /\ haveSourceTerms
    /\ Wanted("AddDragForce") <=> ~Rkl /\ conf.drag
    /\ Wanted("CalcCornerEMF") <=> ~Rkl /\ Corners
    /\ Wanted("CalcNonidealEMF") <=> IF Rkl THEN haveVs ELSE Corners /\ (Evolved("ohmic") \/ Evolved("ambipolar"))
    /\ Wanted("EvolveMagField") <=> IF Rkl THEN haveVs ELSE Corners
    /\ Wanted("ReconstructVcField") <=> ~Rkl /\ Corners
<1>1. \A c \in {"ResetStage", "CalcCurrent", "HallDiffusivity", "Refresh", "AddSourceTerms", "AddDragForce",
                "CalcCornerEMF", "CalcNonidealEMF", "EvolveMagField", "ReconstructVcField"} : ~Sweep(c)
    BY DEF Sweep, Calls
<1> QED BY <1>1 DEF Wanted

\* The calls of a sweep, which come after its fluxes.
SweepCalls ==
    {"ResetDiffusion", "AddNonIdealMHDFlux", "AddVelocityFluid", "AddViscousFlux", "SubstractVelocityFluid",
     "AddDiffusiveFlux", "AddBragViscousFlux", "AddBragDiffusiveFlux", "TracerCalcFlux", "CorrectFlux",
     "CalcRightHandSide", "TracerCalcRightHandSide"}

LEMMA Later == ASSUME Setting, dir # IDIR, NEW call PROVE Done(call) # {}
<1>1. dir \in 1..conf.dims /\ conf.dims \in 1..3 /\ dir # 1
    BY ConfType DEF IDIR
<1>2. 1 \in 1..(dir - 1)
    BY <1>1
<1> QED BY <1>2 DEF Done

LEMMA SweepsWanted ==
    ASSUME StageInv, NEW call \in SweepCalls \cup {"CalcFlux"}, NEW loops, Posted(call, loops)
    PROVE LoopDirs
<1>1. Place(call) \in 5..18 /\ call \in Named
    BY PlaceOf, AllNamed DEF SweepCalls
<1>2. Wanted(call)
    BY DEF Posted
<1> QED BY <1>1, <1>2, InSweep

LEMMA SweepReady ==
    ASSUME StageInv, NEW call \in SweepCalls, NEW loops, Posted(call, loops)
    PROVE /\ "Flux" \in Ready /\ (~Rkl => "cMax" \in Ready)
          /\ call # "ResetDiffusion" /\ (Rkl \/ ParabolicTerms) => "dMax" \in Ready
<1>1. LoopDirs
    BY SweepsWanted
<1>3. Been("CalcFlux")
  <2>1. Place("CalcFlux") < Place(call)
      BY PlaceOf DEF SweepCalls
  <2> QED BY <1>1, <2>1, HasBeen, WantedOf, AllNamed
<1>4. call # "ResetDiffusion" /\ (Rkl \/ ParabolicTerms) => Been("ResetDiffusion")
  <2>1. call # "ResetDiffusion" => Place("ResetDiffusion") < Place(call)
      BY PlaceOf DEF SweepCalls
  <2> QED BY <1>1, <2>1, HasBeen, WantedOf, AllNamed
<1> QED BY <1>3, <1>4, ReadyOf

\* What has been called when a stage leaves its sweeps.
AfterSweeps ==
    {"AddSourceTerms", "AddDragForce", "CalcCornerEMF", "CalcNonidealEMF", "EvolveMagField", "ReconstructVcField"}

LEMMA OutsideSweep ==
    ASSUME StageInv, OrderInv, NEW call \in AfterSweeps, NEW loops, Posted(call, loops), LoopDirs
    PROVE /\ \A other \in SweepCalls \cup {"CalcFlux"} : Wanted(other) => Done(other) = Active
          /\ Active # {}
<1>1. Place(call) > 18 /\ pc = call
    BY PlaceOf, AfterPosted DEF AfterSweeps
<1>2. dir = conf.dims /\ conf.dims \in 1..3
    BY <1>1, ConfType DEF OrderInv, StageInv
<1>3. \A other \in SweepCalls \cup {"CalcFlux"} : other \in Named /\ Place(other) < 18
    BY PlaceOf, AllNamed DEF SweepCalls
<1>4. \A other \in SweepCalls \cup {"CalcFlux"} : Wanted(other) => Been(other)
  <2>1. Place(call) \in Nat
      BY PlaceOf DEF AfterSweeps
  <2>2. \A other \in Named : Place(other) \in 1..25
      BY PlaceNamed
  <2>3. \A other \in SweepCalls \cup {"CalcFlux"} : Place(other) < Place(call)
      BY <1>1, <1>3, <2>1, <2>2
  <2> QED BY <1>3, <2>3, HasBeen
<1>5. Active = 1..(dir - 1) \cup {dir} /\ Active # {}
    BY <1>2 DEF Active
<1> QED BY <1>4, <1>5 DEF Done, If
-----------------------------------------------------------------------------
LEMMA GainOf ==
    /\ Gain("ResetStage") \subseteq Derivatives
    /\ Gain("CalcCurrent") \subseteq {"J1", "J2", "J3"}
    /\ Gain("HallDiffusivity") \subseteq {"xHall"} /\ Gain("Refresh") \subseteq {"csIso"}
    /\ Rkl => Gain("CalcFlux") \subseteq {"Flux"}
    /\ Gain("CalcFlux") \subseteq {"Flux", "cMax"} \cup If(conf.shock /\ dir = IDIR, {"flags"})
                                  \cup If(Corners, Stored(dir))
    /\ Gain("ResetDiffusion") \subseteq {"dMax"}
    /\ Gain("AddNonIdealMHDFlux") \subseteq
          UserRead("ohmic", {"etaOhmic"}) \cup UserRead("ambipolar", {"xAmbipolar"})
    /\ Gain("AddVelocityFluid") \subseteq If(conf.fargo = "userdef", {"fargoVelocity"})
    /\ Gain("AddViscousFlux") \subseteq UserRead("viscosity", {"eta1", "eta2"}) \cup {"viscSrc"}
    /\ Gain("SubstractVelocityFluid") = {}
    /\ Gain("AddDiffusiveFlux") \subseteq UserRead("conduction", {"kappa"})
    /\ Gain("AddBragViscousFlux") \subseteq UserRead("bragViscosity", {"etaBrag"}) \cup {"bragViscSrc"}
    /\ Gain("AddBragDiffusiveFlux") \subseteq UserRead("bragConduction", BragCoefficients)
    /\ Gain("TracerCalcFlux") \subseteq {"FluxTracer"}
    /\ Gain("CorrectFlux") \subseteq If(conf.fargo = "userdef", {"fargoVelocity"})
    /\ Gain("CalcRightHandSide") = {} /\ Gain("TracerCalcRightHandSide") = {}
    /\ Gain("AddSourceTerms") = {} /\ Gain("AddDragForce") = {}
    /\ Gain("CalcCornerEMF") \subseteq Names(Edge, Edges)
    /\ Gain("CalcNonidealEMF") = {} /\ Gain("EvolveMagField") = {}
    /\ Gain("ReconstructVcField") \subseteq {"UcField"}
<1>1. /\ Gain("ResetStage") \subseteq Derivatives
      /\ Gain("CalcCurrent") \subseteq {"J1", "J2", "J3"}
      /\ Gain("HallDiffusivity") \subseteq {"xHall"} /\ Gain("Refresh") \subseteq {"csIso"}
    BY DEF Gain, If
<1>2. /\ Rkl => Gain("CalcFlux") \subseteq {"Flux"}
      /\ Gain("CalcFlux") \subseteq {"Flux", "cMax"} \cup If(conf.shock /\ dir = IDIR, {"flags"})
                                    \cup If(Corners, Stored(dir))
      /\ Gain("ResetDiffusion") \subseteq {"dMax"}
    BY DEF Gain, If
<1>3. /\ Gain("AddNonIdealMHDFlux") \subseteq
            UserRead("ohmic", {"etaOhmic"}) \cup UserRead("ambipolar", {"xAmbipolar"})
      /\ Gain("AddVelocityFluid") \subseteq If(conf.fargo = "userdef", {"fargoVelocity"})
      /\ Gain("AddViscousFlux") \subseteq UserRead("viscosity", {"eta1", "eta2"}) \cup {"viscSrc"}
      /\ Gain("SubstractVelocityFluid") = {}
    BY DEF Gain, If
<1>4. /\ Gain("AddDiffusiveFlux") \subseteq UserRead("conduction", {"kappa"})
      /\ Gain("AddBragViscousFlux") \subseteq UserRead("bragViscosity", {"etaBrag"}) \cup {"bragViscSrc"}
      /\ Gain("AddBragDiffusiveFlux") \subseteq UserRead("bragConduction", BragCoefficients)
      /\ Gain("TracerCalcFlux") \subseteq {"FluxTracer"}
      /\ Gain("CorrectFlux") \subseteq If(conf.fargo = "userdef", {"fargoVelocity"})
    BY DEF Gain, If
<1>5. /\ Gain("CalcRightHandSide") = {} /\ Gain("TracerCalcRightHandSide") = {}
      /\ Gain("AddSourceTerms") = {} /\ Gain("AddDragForce") = {}
    BY DEF Gain, If
<1>6. /\ Gain("CalcCornerEMF") \subseteq Names(Edge, Edges)
      /\ Gain("CalcNonidealEMF") = {} /\ Gain("EvolveMagField") = {}
      /\ Gain("ReconstructVcField") \subseteq {"UcField"}
    BY DEF Gain, If
<1> QED BY <1>1, <1>2, <1>3, <1>4, <1>5, <1>6

\* What a call leaves, of what the function gives.
LEMMA Gives ==
    ASSUME NEW loops, NEW O, NEW moved, Serves(loops, Ready, O, moved), NEW call, Gain(call) \subseteq Ready \cup O
    PROVE Serves(loops, Ready, Gain(call), moved)
<1>1. PICK K, P : K = Ready /\ P = Gain(call)
    OBVIOUS
<1>2. Serves(loops, K, O, moved) /\ P \subseteq K \cup O
    BY <1>1
<1>3. Serves(loops, K, P, moved)
    BY ONLY <1>2, ServesLess
<1> QED BY <1>1, <1>3

\* The functions before the sweeps.
LEMMA FirstFed ==
    ASSUME StageInv, NEW loops
    PROVE /\ loops = <<Loop(Wherever, {Set(a, {}, {}) : a \in Derivatives})>> =>
                Serves(loops, Ready, Gain("ResetStage"), FALSE)
          /\ loops = CalcCurrent => Serves(loops, Ready, Gain("CalcCurrent"), FALSE)
          /\ loops = <<Loop(Wherever, {Set("xHall", {<<"Vc", Here>>}, {})})>> =>
                Serves(loops, Ready, Gain("HallDiffusivity"), FALSE)
          /\ loops = <<Loop(Wherever, {Set("csIso", {}, {})})>> =>
                Serves(loops, Ready, Gain("Refresh"), FALSE)
<1>0. Setting
    BY DEF StageInv
<1>1. PICK K : K = Ready
    OBVIOUS
<1>2. "Vc" \in K /\ Names(BXs, Dirs) \subseteq K
    BY <1>1, StartReady
<1>3. ASSUME loops = <<Loop(Wherever, {Set(a, {}, {}) : a \in Derivatives})>>
      PROVE Serves(loops, Ready, Gain("ResetStage"), FALSE)
  <2>1. PICK O : O = Derivatives
      OBVIOUS
  <2>2. Serves(loops, K, O, FALSE)
      BY <1>0, <1>3, <2>1, ResetStageServes
  <2> QED BY <1>1, <2>1, <2>2, GainOf, Gives
<1>4. ASSUME loops = CalcCurrent PROVE Serves(loops, Ready, Gain("CalcCurrent"), FALSE)
  <2>1. Serves(loops, K, {"J1", "J2", "J3"}, FALSE)
      BY <1>0, <1>2, <1>4, CurrentServes
  <2> QED BY <1>1, <2>1, GainOf, Gives
<1>5. ASSUME loops = <<Loop(Wherever, {Set("xHall", {<<"Vc", Here>>}, {})})>>
      PROVE Serves(loops, Ready, Gain("HallDiffusivity"), FALSE)
  <2>1. Serves(loops, K, {"xHall"}, FALSE)
      BY <1>0, <1>2, <1>5, LocalServes
  <2> QED BY <1>1, <2>1, GainOf, Gives
<1>6. ASSUME loops = <<Loop(Wherever, {Set("csIso", {}, {})})>>
      PROVE Serves(loops, Ready, Gain("Refresh"), FALSE)
  <2>1. Serves(loops, K, {"csIso"}, FALSE)
      BY <1>0, <1>6, LocalServes
  <2> QED BY <1>1, <2>1, GainOf, Gives
<1> QED BY <1>3, <1>4, <1>5, <1>6

LEMMA RklConf == ASSUME StageInv PROVE (Rkl <=> conf.cycle # "explicit") /\ (~Rkl => LoopDirs)
BY DEF Rkl, LoopDirs

\* The solver, and the fluxes of RKL.
LEMMA FluxFed ==
    ASSUME StageInv, ~Starved, NEW loops, Posted("CalcFlux", loops), loops = IF Rkl THEN ResetFlux ELSE CalcFlux
    PROVE Serves(loops, Ready, Gain("CalcFlux"), FALSE)
<1>0. Setting
    BY DEF StageInv
<1>1. PICK K : K = Ready
    OBVIOUS
<1>2. CASE Rkl
  <2>1. loops = <<Loop(Wherever, {Set("Flux", {}, {})})>>
      BY <1>2 DEF ResetFlux
  <2>2. Serves(loops, K, {"Flux"}, FALSE)
      BY <1>0, <2>1, LocalServes
  <2>3. Gain("CalcFlux") \subseteq {"Flux"}
      BY <1>2, GainOf
  <2> QED BY <1>1, <2>2, <2>3, Gives
<1>3. CASE ~Rkl
  <2>1. PICK L : L = K \cup If(conf.shock /\ dir = IDIR, {"flags"})
      OBVIOUS
  <2>2. \A other \in Named : Place(other) < 5 /\ Wanted(other) => Been(other)
      BY HasBeen, PlaceOf
  <2>3. conf.eos = "userdef" => "csIso" \in K
      BY <1>1, <1>3, <2>2, OutsideWanted, PlaceOf, AllNamed, ReadyOf
  <2>4. conf.hall # "no" => {"J1", "J2", "J3"} \subseteq K
    <3>1. conf.hall # "no" => Wanted("CalcCurrent")
        BY <1>3, OutsideWanted DEF needExplicitCurrent
    <3> QED BY <1>1, <2>2, <3>1, PlaceOf, AllNamed, ReadyOf
  <2>5. conf.hall = "userdef" => "xHall" \in K
      BY <1>1, <1>3, <2>2, OutsideWanted, PlaceOf, AllNamed, ReadyOf
  <2>6. conf.shock => "flags" \in L
    <3>1. dir # IDIR => Done("CalcFlux") # {}
        BY <1>0, Later
    <3>2. conf.shock /\ dir # IDIR => "flags" \in K
        BY <1>1, <1>3, <3>1, ReadyOf
    <3> QED BY <2>1, <3>2 DEF If
  <2>7. "Vc" \in K /\ Names(BXs, Dirs) \subseteq K
      BY <1>1, StartReady
  <2>8. K \subseteq L
      BY <2>1
  <2>9. SolverReads(L)
      BY <2>3, <2>4, <2>5, <2>6, <2>7, <2>8 DEF SolverReads
  <2>10. SolverReads(K \cup If(conf.shock /\ dir = IDIR, {"flags"}))
      BY <2>1, <2>9
  <2>11. PICK O : O = {"Flux", "cMax"} \cup If(conf.shock /\ dir = IDIR, {"flags"})
                              \cup If(Corners, Stored(dir))
      OBVIOUS
  <2>12. Serves(loops, K, O, FALSE)
      BY <1>0, <1>3, <2>10, <2>11, CalcFluxServes
  <2>13. Gain("CalcFlux") \subseteq O
      BY <2>11, GainOf
  <2> QED BY <1>1, <2>12, <2>13, Gives
<1> QED BY <1>2, <1>3
-----------------------------------------------------------------------------
\* What the terms of a sweep find.
LEMMA TermReady ==
    ASSUME StageInv, NEW call \in SweepCalls, call # "ResetDiffusion", NEW loops, Posted(call, loops),
           NEW term \in Terms, Evolved(term)
    PROVE {"Vc", "Flux", "dMax"} \subseteq Ready /\ Names(BXs, Dirs) \subseteq Ready
<1>1. Rkl \/ ParabolicTerms
  <2>1. DOMAIN conf.terms = Terms
      BY ConfType DEF StageInv
  <2>2. ~Rkl => conf.cycle = "explicit"
      BY RklConf
  <2>3. ~Rkl => ~(term \in conf.rkl) /\ conf.terms[term] # "no"
      BY <2>2 DEF Evolved
  <2> QED BY <2>1, <2>3 DEF ParabolicTerms
<1> QED BY <1>1, SweepReady, StartReady

LEMMA DiffusionFed ==
    ASSUME StageInv, NEW loops, Posted("ResetDiffusion", loops), loops = ResetDiffusion
    PROVE Serves(loops, Ready, Gain("ResetDiffusion"), FALSE)
<1>0. Setting
    BY DEF StageInv
<1>1. PICK K : K = Ready
    OBVIOUS
<1>2. loops = <<Loop(Wherever, {Set("dMax", {}, {})})>>
    BY DEF ResetDiffusion
<1>3. Serves(loops, K, {"dMax"}, FALSE)
    BY <1>0, <1>2, LocalServes
<1> QED BY <1>1, <1>3, GainOf, Gives

LEMMA VelocityFed ==
    ASSUME StageInv, NEW loops
    PROVE /\ loops = AddVelocityLoops => Serves(loops, Ready, Gain("AddVelocityFluid"), FALSE)
          /\ loops = SubstractVelocityLoops => Serves(loops, Ready, Gain("SubstractVelocityFluid"), FALSE)
<1>0. Setting
    BY DEF StageInv
<1>1. PICK K : K = Ready
    OBVIOUS
<1>2. "Vc" \in K
    BY <1>1, StartReady
<1>3. PICK O : O = If(conf.fargo = "userdef", {"fargoVelocity"})
    OBVIOUS
<1>4. ASSUME loops = AddVelocityLoops PROVE Serves(loops, Ready, Gain("AddVelocityFluid"), FALSE)
  <2>1. Serves(loops, K, O, FALSE)
      BY <1>0, <1>2, <1>3, <1>4, VelocityServes
  <2> QED BY <1>1, <1>3, <2>1, GainOf, Gives
<1>5. ASSUME loops = SubstractVelocityLoops
      PROVE Serves(loops, Ready, Gain("SubstractVelocityFluid"), FALSE)
  <2>1. Serves(loops, K, O, FALSE)
      BY <1>0, <1>2, <1>3, <1>5, VelocityServes
  <2> QED BY <1>1, <1>3, <2>1, GainOf, Gives
<1> QED BY <1>4, <1>5

LEMMA CurrentReady ==
    ASSUME StageInv, NEW call, NEW loops, Posted(call, loops), Place(call) > 2,
           Evolved("ohmic") \/ Evolved("ambipolar")
    PROVE {"J1", "J2", "J3"} \subseteq Ready
<1>1. Rkl => haveVs
    BY RklConf DEF haveVs, HaveRKL, Evolved
<1>2. Wanted("CalcCurrent")
    BY <1>1, OutsideWanted DEF needExplicitCurrent
<1>3. Been("CalcCurrent")
    BY <1>2, HasBeen, PlaceOf, AllNamed
<1> QED BY <1>3, ReadyOf

LEMMA NonIdealFed ==
    ASSUME StageInv, NEW loops, Posted("AddNonIdealMHDFlux", loops), loops = AddNonIdealMHDFlux
    PROVE Serves(loops, Ready, Gain("AddNonIdealMHDFlux"), FALSE)
<1>0. Setting
    BY DEF StageInv
<1>1. LoopDirs
    BY SweepsWanted DEF SweepCalls
<1>2. PICK term \in {"ohmic", "ambipolar"} : Evolved(term)
    BY <1>1, WantedOf DEF Posted
<1>3. PICK K : K = Ready
    OBVIOUS
<1>4. {"Vc", "Flux", "dMax"} \subseteq K /\ Names(BXs, Dirs) \subseteq K
  <2>1. term \in Terms /\ "AddNonIdealMHDFlux" \in SweepCalls
      BY DEF Terms, SweepCalls
  <2> QED BY <1>2, <1>3, <2>1, TermReady
<1>5. {"J1", "J2", "J3"} \subseteq K
  <2>1. Place("AddNonIdealMHDFlux") > 2
      BY PlaceOf
  <2> QED BY <1>2, <1>3, <2>1, CurrentReady
<1>6. dir # IDIR => UserRead("ohmic", {"etaOhmic"}) \subseteq K
                    /\ UserRead("ambipolar", {"xAmbipolar"}) \subseteq K
    BY <1>0, <1>3, Later, UserFilledReady
<1>7. PICK O : O = UserRead("ohmic", {"etaOhmic"}) \cup UserRead("ambipolar", {"xAmbipolar"})
    OBVIOUS
<1>8. Serves(loops, K, O, FALSE)
    BY <1>0, <1>4, <1>5, <1>6, <1>7, NonIdealFluxServes
<1> QED BY <1>3, <1>7, <1>8, GainOf, Gives

LEMMA ViscousFed ==
    ASSUME StageInv, ~Starved, NEW loops, Posted("AddViscousFlux", loops), loops = AddViscousFlux
    PROVE Serves(loops, Ready, Gain("AddViscousFlux"), FALSE)
<1>0. Setting
    BY DEF StageInv
<1>1. LoopDirs
    BY SweepsWanted DEF SweepCalls
<1>2. Evolved("viscosity")
    BY <1>1, WantedOf DEF Posted
<1>3. PICK K : K = Ready
    OBVIOUS
<1>4. {"Vc", "Flux", "dMax"} \subseteq K
  <2>1. "viscosity" \in Terms /\ "AddViscousFlux" \in SweepCalls
      BY DEF Terms, SweepCalls
  <2> QED BY <1>2, <1>3, <2>1, TermReady
<1>5. OffMean /\ conf.fargo = "userdef" => "fargoVelocity" \in K
  <2>1. SUFFICES ASSUME OffMean, conf.fargo = "userdef" PROVE "fargoVelocity" \in K
      OBVIOUS
  <2>2. ~Rkl
      BY <1>2, <2>1 DEF Starved, MixedFrames
  <2>3. Wanted("AddVelocityFluid")
      BY <1>1, <1>2, <2>1, <2>2 DEF Wanted, AddsMean
  <2>4. Been("AddVelocityFluid")
      BY <2>3, HasBeen, PlaceOf, AllNamed
  <2> QED BY <1>3, <2>1, <2>2, <2>4, ReadyOf
<1>6. dir # IDIR => UserRead("viscosity", {"eta1", "eta2"}) \subseteq K
    BY <1>0, <1>3, Later, UserFilledReady
<1>7. PICK O : O = UserRead("viscosity", {"eta1", "eta2"}) \cup If(conf.geo # "cartesian", {"viscSrc"})
    OBVIOUS
<1>8. Serves(loops, K, O, FALSE)
    BY <1>0, <1>2, <1>4, <1>5, <1>6, <1>7, ViscousServes DEF Starved
<1>9. Gain("AddViscousFlux") \subseteq K \cup O
  <2>1. {"viscSrc"} \subseteq K \cup If(conf.geo # "cartesian", {"viscSrc"})
      BY <1>3, StartReady DEF If
  <2> QED BY <1>7, <2>1, GainOf
<1> QED BY <1>3, <1>8, <1>9, Gives

LEMMA HeatFed ==
    ASSUME StageInv, ~Starved, NEW loops, Posted("AddDiffusiveFlux", loops), loops = AddDiffusiveFlux
    PROVE Serves(loops, Ready, Gain("AddDiffusiveFlux"), FALSE)
<1>0. Setting
    BY DEF StageInv
<1>1. LoopDirs
    BY SweepsWanted DEF SweepCalls
<1>2. Evolved("conduction")
    BY <1>1, WantedOf DEF Posted
<1>3. PICK K : K = Ready
    OBVIOUS
<1>4. {"Vc", "Flux", "dMax"} \subseteq K
  <2>1. "conduction" \in Terms /\ "AddDiffusiveFlux" \in SweepCalls
      BY DEF Terms, SweepCalls
  <2> QED BY <1>2, <1>3, <2>1, TermReady
<1>5. dir # IDIR => UserRead("conduction", {"kappa"}) \subseteq K
    BY <1>0, <1>3, Later, UserFilledReady
<1>6. PICK O : O = UserRead("conduction", {"kappa"})
    OBVIOUS
<1>7. Serves(loops, K, O, FALSE)
    BY <1>0, <1>2, <1>4, <1>5, <1>6, HeatServes DEF Starved
<1> QED BY <1>3, <1>6, <1>7, GainOf, Gives

LEMMA BragViscousFed ==
    ASSUME StageInv, ~Starved, NEW loops, Posted("AddBragViscousFlux", loops), loops = AddBragViscousFlux
    PROVE Serves(loops, Ready, Gain("AddBragViscousFlux"), FALSE)
<1>0. Setting
    BY DEF StageInv
<1>1. LoopDirs
    BY SweepsWanted DEF SweepCalls
<1>2. Evolved("bragViscosity")
    BY <1>1, WantedOf DEF Posted
<1>3. PICK K : K = Ready
    OBVIOUS
<1>4. {"Vc", "Flux", "dMax"} \subseteq K /\ Names(BXs, Dirs) \subseteq K
  <2>1. "bragViscosity" \in Terms /\ "AddBragViscousFlux" \in SweepCalls
      BY DEF Terms, SweepCalls
  <2> QED BY <1>2, <1>3, <2>1, TermReady
<1>5. dir # IDIR => UserRead("bragViscosity", {"etaBrag"}) \subseteq K
    BY <1>0, <1>3, Later, UserFilledReady
<1>6. PICK O : O = UserRead("bragViscosity", {"etaBrag"}) \cup If(conf.geo # "cartesian", {"bragViscSrc"})
    OBVIOUS
<1>7. Serves(loops, K, O, FALSE)
    BY <1>0, <1>2, <1>4, <1>5, <1>6, BragViscousServes DEF Starved
<1>8. Gain("AddBragViscousFlux") \subseteq K \cup O
  <2>1. {"bragViscSrc"} \subseteq K \cup If(conf.geo # "cartesian", {"bragViscSrc"})
      BY <1>3, StartReady DEF If
  <2> QED BY <1>6, <2>1, GainOf
<1> QED BY <1>3, <1>7, <1>8, Gives

LEMMA BragHeatFed ==
    ASSUME StageInv, ~Starved, NEW loops, Posted("AddBragDiffusiveFlux", loops), loops = AddBragDiffusiveFlux
    PROVE Serves(loops, Ready, Gain("AddBragDiffusiveFlux"), FALSE)
<1>0. Setting
    BY DEF StageInv
<1>1. LoopDirs
    BY SweepsWanted DEF SweepCalls
<1>2. Evolved("bragConduction")
    BY <1>1, WantedOf DEF Posted
<1>3. PICK K : K = Ready
    OBVIOUS
<1>4. {"Vc", "Flux", "dMax"} \subseteq K /\ Names(BXs, Dirs) \subseteq K
  <2>1. "bragConduction" \in Terms /\ "AddBragDiffusiveFlux" \in SweepCalls
      BY DEF Terms, SweepCalls
  <2> QED BY <1>2, <1>3, <2>1, TermReady
<1>5. dir # IDIR => UserRead("bragConduction", BragCoefficients) \subseteq K
    BY <1>0, <1>3, Later, UserFilledReady
<1>6. PICK O : O = UserRead("bragConduction", BragCoefficients)
    OBVIOUS
<1>7. Serves(loops, K, O, FALSE)
    BY <1>0, <1>2, <1>4, <1>5, <1>6, BragHeatServes DEF Starved
<1> QED BY <1>3, <1>6, <1>7, GainOf, Gives
-----------------------------------------------------------------------------
LEMMA TracerFluxFed ==
    ASSUME StageInv, NEW loops, Posted("TracerCalcFlux", loops), loops = TracerCalcFlux
    PROVE Serves(loops, Ready, Gain("TracerCalcFlux"), FALSE)
<1>0. Setting
    BY DEF StageInv
<1>1. PICK K : K = Ready
    OBVIOUS
<1>2. {"Vc", "Flux"} \subseteq K
    BY <1>1, SweepReady, StartReady DEF SweepCalls
<1>3. Serves(loops, K, {"FluxTracer"}, FALSE)
    BY <1>0, <1>2, TracerFluxServes
<1> QED BY <1>1, <1>3, GainOf, Gives

LEMMA CorrectFed ==
    ASSUME StageInv, NEW loops, Posted("CorrectFlux", loops), loops = CorrectFlux
    PROVE Serves(loops, Ready, Gain("CorrectFlux"), FALSE)
<1>0. Setting
    BY DEF StageInv
<1>1. PICK K : K = Ready
    OBVIOUS
<1>2. "Flux" \in K
    BY <1>1, SweepReady DEF SweepCalls
<1>3. PICK O : O = If(conf.fargo = "userdef", {"fargoVelocity"})
    OBVIOUS
<1>4. Serves(loops, K, O, FALSE)
    BY <1>0, <1>2, <1>3, CorrectServes
<1> QED BY <1>1, <1>3, <1>4, GainOf, Gives

\* The sources of the curvature, in the sweep that the cells take them.
LEMMA SourcesReady ==
    ASSUME StageInv, NEW loops, Posted("CalcRightHandSide", loops)
    PROVE /\ Evolved("viscosity") => "viscSrc" \in Ready
          /\ Evolved("bragViscosity") => "bragViscSrc" \in Ready
          /\ CurvatureSource \subseteq Ready /\ RKLSources \subseteq Ready
<1>1. Evolved("viscosity") => "viscSrc" \in Ready
    BY BeforeRHS, ReadyOf
<1>2. Evolved("bragViscosity") => "bragViscSrc" \in Ready
    BY BeforeRHS, ReadyOf
<1>3. CurvatureSource \subseteq Ready
    BY <1>1, <1>2 DEF CurvatureSource
<1>4. RKLSources \subseteq Ready
    BY <1>1, <1>2 DEF RKLSources
<1> QED BY <1>1, <1>2, <1>3, <1>4

LEMMA CellsFed ==
    ASSUME StageInv, NEW loops, Posted("CalcRightHandSide", loops), loops = IF Rkl THEN CalcParabolicRHS ELSE CalcRHS
    PROVE Serves(loops, Ready, Gain("CalcRightHandSide"), FALSE)
<1>0. Setting /\ LoopDirs
    BY BeforeRHS DEF StageInv
<1>1. PICK K : K = Ready
    OBVIOUS
<1>2. {"Vc", "Uc", "InvDt", "phiP", "bodyForce", "Flux"} \subseteq K /\ (~Rkl => "cMax" \in K)
      /\ (Rkl \/ ParabolicTerms => "dMax" \in K)
  <2>1. "CalcRightHandSide" \in SweepCalls
      BY DEF SweepCalls
  <2> QED BY <1>1, <2>1, SweepReady, StartReady
<1>3. CurvatureSource \subseteq K /\ RKLSources \subseteq K
    BY <1>1, SourcesReady
<1>4. CASE Rkl
  <2>1. "dU" \in K
    <3>1. Been("ResetStage")
        BY <1>4, OutsideWanted, HasBeen, PlaceOf, AllNamed
    <3>2. "dU" \in Derivatives
        BY <1>0 DEF Derivatives
    <3> QED BY <1>1, <3>1, <3>2, ReadyOf
  <2>2. Serves(loops, K, {}, FALSE)
      BY <1>0, <1>2, <1>3, <1>4, <2>1, ParabolicServes
  <2> QED BY <1>1, <2>2, GainOf, Gives
<1>5. CASE ~Rkl
  <2>1. conf.fargo = "userdef" => "fargoVelocity" \in K
    <3>1. Been("CorrectFlux")
        BY <1>5, BeforeRHS
    <3>2. Done("CorrectFlux") # {}
        BY <3>1 DEF Done, If
    <3> QED BY <1>1, <1>5, <3>2, ReadyOf
  <2>2. Serves(loops, K, {}, FALSE)
      BY <1>0, <1>2, <1>3, <1>5, <2>1, RHSServes
  <2> QED BY <1>1, <2>2, GainOf, Gives
<1> QED BY <1>4, <1>5

LEMMA TracerFed ==
    ASSUME StageInv, NEW loops, Posted("TracerCalcRightHandSide", loops), loops = TracerCalcRightHandSide
    PROVE Serves(loops, Ready, Gain("TracerCalcRightHandSide"), FALSE)
<1>0. Setting
    BY DEF StageInv
<1>1. PICK K : K = Ready
    OBVIOUS
<1>2. {"UcTracer", "FluxTracer"} \subseteq K
  <2>1. LoopDirs
      BY SweepsWanted DEF SweepCalls
  <2>2. Wanted("TracerCalcRightHandSide") /\ Wanted("TracerCalcFlux")
      BY <2>1, WantedOf DEF Posted
  <2>3. Been("TracerCalcFlux")
      BY <2>2, HasBeen, PlaceOf, AllNamed
  <2> QED BY <1>1, <2>3, ReadyOf, StartReady
<1>3. Serves(loops, K, {}, FALSE)
    BY <1>0, <1>2, TracerServes
<1> QED BY <1>1, <1>3, GainOf, Gives

LEMMA SourcesFed ==
    ASSUME StageInv, OrderInv, ~Starved, NEW loops
    PROVE /\ Posted("AddSourceTerms", loops) /\ loops = AddSourceTerms =>
                Serves(loops, Ready, Gain("AddSourceTerms"), FALSE)
          /\ Posted("AddDragForce", loops) /\ loops = AddDragForce =>
                Serves(loops, Ready, Gain("AddDragForce"), FALSE)
<1>0. Setting
    BY DEF StageInv
<1>1. PICK K : K = Ready
    OBVIOUS
<1>2. {"Vc", "Uc", "VcGas", "UcGas", "InvDt"} \subseteq K
    BY <1>1, StartReady
<1>3. ASSUME Posted("AddSourceTerms", loops), loops = AddSourceTerms
      PROVE Serves(loops, Ready, Gain("AddSourceTerms"), FALSE)
  <2>1. ~Rkl
      BY <1>3, OutsideWanted DEF Posted
  <2>2. LoopDirs
      BY <2>1, RklConf
  <2>3. conf.eos = "userdef" => "csIso" \in K
    <3>1. conf.eos = "userdef" => Been("Refresh")
        BY <1>3, <2>1, OutsideWanted, HasBeen, PlaceOf, AllNamed
    <3> QED BY <1>1, <3>1, ReadyOf
  <2>4. conf.fargo = "userdef" => "fargoVelocity" \in K
    <3>1. Wanted("CorrectFlux")
        BY <2>1, <2>2, WantedOf
    <3>2. Been("CorrectFlux")
        BY <1>3, <3>1, HasBeen, PlaceOf, AllNamed
    <3>3. Done("CorrectFlux") # {}
        BY <3>2 DEF Done, If
    <3> QED BY <1>1, <2>1, <3>3, ReadyOf
  <2>5. Serves(loops, K, {}, FALSE)
      BY <1>0, <1>2, <1>3, <2>3, <2>4, SourcesServes DEF Starved
  <2> QED BY <1>1, <2>5, GainOf, Gives
<1>4. ASSUME Posted("AddDragForce", loops), loops = AddDragForce
      PROVE Serves(loops, Ready, Gain("AddDragForce"), FALSE)
  <2>1. Serves(loops, K, {}, FALSE)
      BY <1>0, <1>2, <1>4, DragServes
  <2> QED BY <1>1, <2>1, GainOf, Gives
<1> QED BY <1>3, <1>4

LEMMA CornersFed ==
    ASSUME StageInv, OrderInv, NEW loops, Posted("CalcCornerEMF", loops), loops = CalcCornerEMF
    PROVE Serves(loops, Ready, Gain("CalcCornerEMF"), FALSE)
<1>0. Setting
    BY DEF StageInv
<1>1. PICK K : K = Ready
    OBVIOUS
<1>2. ~Rkl /\ Corners /\ LoopDirs
    BY OutsideWanted, RklConf DEF Posted
<1>3. "Vc" \in K /\ Names(BXs, Dirs) \subseteq K
    BY <1>1, StartReady
<1>4. Done("CalcFlux") = Active
  <2>1. "CalcCornerEMF" \in AfterSweeps
      BY DEF AfterSweeps
  <2> QED BY <1>2, <2>1, OutsideSweep, WantedOf
<1>5. UNION {Stored(d) : d \in Active} \subseteq K
  <2>1. PICK S : S = Active
      OBVIOUS
  <2>2. (UNION {Stored(d) : d \in Done("CalcFlux")}) \subseteq K
      BY <1>1, <1>2, ReadyOf
  <2> QED BY <1>4, <2>2
<1>6. PICK O : O = Names(Edge, Edges)
    OBVIOUS
<1>7. Serves(loops, K, O, FALSE)
    BY <1>0, <1>2, <1>3, <1>5, <1>6, CornersServe
<1> QED BY <1>1, <1>6, <1>7, GainOf, Gives

\* The edges, and what RKL resets with them.
LEMMA EdgesReady ==
    ASSUME StageInv, NEW call, NEW loops, Posted(call, loops), Place(call) > 21, IF Rkl THEN haveVs ELSE Corners
    PROVE /\ Names(Edge, Edges) \subseteq Ready
          /\ Rkl => IF conf.vecpot THEN Names(dA, Edges) \subseteq Ready ELSE Names(dB, Active) \subseteq Ready
<1>1. CASE Rkl
  <2>1. Been("ResetStage")
    <3>1. Place("ResetStage") < Place(call)
        BY PlaceOf, AfterPosted, PlaceNamed
    <3> QED BY <1>1, <3>1, OutsideWanted, HasBeen, AllNamed
  <2>2. /\ Names(Edge, Edges) \subseteq Derivatives
        /\ IF conf.vecpot THEN Names(dA, Edges) \subseteq Derivatives ELSE Names(dB, Active) \subseteq Derivatives
      BY <1>1 DEF Derivatives
  <2> QED BY <2>1, <2>2, ReadyOf
<1>2. CASE ~Rkl
  <2>1. Been("CalcCornerEMF")
      BY <1>2, OutsideWanted, HasBeen, PlaceOf, AllNamed
  <2> QED BY <1>2, <2>1, ReadyOf
<1> QED BY <1>1, <1>2

LEMMA NonidealFed ==
    ASSUME StageInv, OrderInv, ~Starved, NEW loops, Posted("CalcNonidealEMF", loops),
           loops = CalcNonidealEMF(Evolved("ohmic"), Evolved("ambipolar"))
    PROVE Serves(loops, Ready, Gain("CalcNonidealEMF"), FALSE)
<1>0. Setting
    BY DEF StageInv
<1>1. PICK K : K = Ready
    OBVIOUS
<1>2. /\ IF Rkl THEN haveVs ELSE Corners
      /\ Evolved("ohmic") \/ Evolved("ambipolar")
  <2>1. IF Rkl THEN haveVs ELSE Corners /\ (Evolved("ohmic") \/ Evolved("ambipolar"))
      BY OutsideWanted DEF Posted
  <2>2. Rkl /\ haveVs => Evolved("ohmic") \/ Evolved("ambipolar")
      BY RklConf DEF haveVs, HaveRKL, Evolved
  <2> QED BY <2>1, <2>2
<1>3. "Vc" \in K /\ Names(BXs, Dirs) \subseteq K
    BY <1>1, StartReady
<1>4. {"J1", "J2", "J3"} \subseteq K
  <2>1. Place("CalcNonidealEMF") > 2
      BY PlaceOf
  <2> QED BY <1>1, <1>2, <2>1, CurrentReady
<1>5. Names(Edge, Edges) \subseteq K
  <2>1. Place("CalcNonidealEMF") > 21
      BY PlaceOf
  <2> QED BY <1>1, <1>2, <2>1, EdgesReady
<1>6. ASSUME NEW t \in {"ohmic", "ambipolar"}, Evolved(t), conf.terms[t] = "userdef"
      PROVE Done("AddNonIdealMHDFlux") # {}
  <2>1. Rkl => haveVc
    <3>1. Rkl => HaveRKL(t)
        BY <1>6, RklConf DEF HaveRKL, Evolved
    <3> QED BY <1>6, <3>1 DEF Starved
  <2>2. LoopDirs
      BY <2>1 DEF LoopDirs
  <2>3. Wanted("AddNonIdealMHDFlux")
      BY <1>6, <2>2, WantedOf
  <2>4. "CalcNonidealEMF" \in AfterSweeps /\ "AddNonIdealMHDFlux" \in SweepCalls
      BY DEF AfterSweeps, SweepCalls
  <2> QED BY <2>2, <2>3, <2>4, OutsideSweep
<1>7. /\ Evolved("ohmic") /\ conf.terms["ohmic"] = "userdef" => "etaOhmic" \in K
      /\ Evolved("ambipolar") /\ conf.terms["ambipolar"] = "userdef" => "xAmbipolar" \in K
  <2>1. Evolved("ohmic") /\ conf.terms["ohmic"] = "userdef" => UserRead("ohmic", {"etaOhmic"}) \subseteq K
      BY <1>1, <1>6, UserFilledReady
  <2>2. Evolved("ambipolar") /\ conf.terms["ambipolar"] = "userdef" => UserRead("ambipolar", {"xAmbipolar"}) \subseteq K
      BY <1>1, <1>6, UserFilledReady
  <2> QED BY <2>1, <2>2 DEF UserRead, If
<1>8. Serves(loops, K, {}, FALSE)
  <2>1. PICK ohmic, ambipolar : ohmic = Evolved("ohmic") /\ ambipolar = Evolved("ambipolar")
      OBVIOUS
  <2>2. PICK O : O = Names(Edge, Edges)
      OBVIOUS
  <2>3. Serves(loops, K, O, FALSE)
      BY <1>0, <1>3, <1>4, <1>5, <1>7, <2>1, <2>2, NonidealServes
  <2>4. {} \subseteq K \cup O
      OBVIOUS
  <2> QED BY <2>3, <2>4, ServesLess
<1> QED BY <1>1, <1>8, GainOf, Gives

LEMMA FacesFed ==
    ASSUME StageInv, NEW loops, NEW moved \in BOOLEAN, moved
    PROVE /\ Posted("EvolveMagField", loops) /\ loops = FaceLoops =>
                Serves(loops, Ready, Gain("EvolveMagField"), moved)
          /\ Posted("ReconstructVcField", loops) /\ loops = ReconstructVcField =>
                Serves(loops, Ready, Gain("ReconstructVcField"), moved)
<1>0. Setting
    BY DEF StageInv
<1>1. PICK K : K = Ready
    OBVIOUS
<1>2. Names(BXs, Dirs) \subseteq K /\ Names(Ve, Dirs) \subseteq K
    BY <1>1, StartReady
<1>3. ASSUME Posted("EvolveMagField", loops), loops = FaceLoops
      PROVE Serves(loops, Ready, Gain("EvolveMagField"), moved)
  <2>1. IF Rkl THEN haveVs ELSE Corners
      BY <1>3, OutsideWanted DEF Posted
  <2>2. Place("EvolveMagField") > 21
      BY PlaceOf
  <2>3. /\ Names(Edge, Edges) \subseteq K
        /\ Rkl => IF conf.vecpot THEN Names(dA, Edges) \subseteq K ELSE Names(dB, Active) \subseteq K
      BY <1>1, <1>3, <2>1, <2>2, EdgesReady
  <2>4. Serves(loops, K, {}, moved)
      BY <1>0, <1>2, <1>3, <2>3, MoveServes DEF FaceLoops
  <2> QED BY <1>1, <2>4, GainOf, Gives
<1>4. ASSUME Posted("ReconstructVcField", loops), loops = ReconstructVcField
      PROVE Serves(loops, Ready, Gain("ReconstructVcField"), moved)
  <2>1. Serves(loops, K, {"UcField"}, moved)
      BY <1>0, <1>2, <1>4, CentredServes
  <2> QED BY <1>1, <2>1, GainOf, Gives
<1> QED BY <1>3, <1>4
-----------------------------------------------------------------------------
LEMMA LoopsOf ==
    ASSUME NEW call, NEW loops, Posted(call, loops), NEW c, NEW l, Call(c, l)
    PROVE c = call /\ l = loops
<1>1. Call(call, loops)
    BY DEF Posted
<1> QED BY <1>1 DEF Call, Launch

LEMMA CallsFed ==
    ASSUME StageInv, OrderInv, ~Starved, Next, ~NextDir, ~NextStage,
           NEW call, NEW loops, Posted(call, loops),
           NEW moved \in BOOLEAN, moved <=> call \in {"EvolveMagField", "ReconstructVcField"}
    PROVE Serves(loops, Ready, Gain(call), moved)
<1>0. call \notin {"EvolveMagField", "ReconstructVcField"} => moved = FALSE
    OBVIOUS
<1>1. CASE ResetStage
  <2>1. PICK l : l = <<Loop(Wherever, {Set(a, {}, {}) : a \in Derivatives})>>
      OBVIOUS
  <2>2. Call("ResetStage", l)
      BY <1>1, <2>1 DEF ResetStage
  <2>3. call = "ResetStage" /\ loops = l
      BY <2>2, LoopsOf
  <2> QED BY <1>0, <2>1, <2>3, FirstFed
<1>2. CASE Currents
  <2>1. PICK l : l = CalcCurrent
      OBVIOUS
  <2>2. Call("CalcCurrent", l)
      BY <1>2, <2>1 DEF Currents
  <2>3. call = "CalcCurrent" /\ loops = l
      BY <2>2, LoopsOf
  <2> QED BY <1>0, <2>1, <2>3, FirstFed
<1>3. CASE HallDiffusivity
  <2>1. PICK l : l = <<Loop(Wherever, {Set("xHall", {<<"Vc", Here>>}, {})})>>
      OBVIOUS
  <2>2. Call("HallDiffusivity", l)
      BY <1>3, <2>1 DEF HallDiffusivity
  <2>3. call = "HallDiffusivity" /\ loops = l
      BY <2>2, LoopsOf
  <2> QED BY <1>0, <2>1, <2>3, FirstFed
<1>4. CASE Refresh
  <2>1. PICK l : l = <<Loop(Wherever, {Set("csIso", {}, {})})>>
      OBVIOUS
  <2>2. Call("Refresh", l)
      BY <1>4, <2>1 DEF Refresh
  <2>3. call = "Refresh" /\ loops = l
      BY <2>2, LoopsOf
  <2> QED BY <1>0, <2>1, <2>3, FirstFed
<1>5. CASE RiemannFlux
  <2>1. PICK l : l = IF Rkl THEN ResetFlux ELSE CalcFlux
      OBVIOUS
  <2>2. Call("CalcFlux", l)
      BY <1>5, <2>1 DEF RiemannFlux
  <2>3. call = "CalcFlux" /\ loops = l
      BY <2>2, LoopsOf
  <2> QED BY <1>0, <2>1, <2>3, FluxFed
<1>6. CASE Diffusion
  <2>1. PICK l : l = ResetDiffusion
      OBVIOUS
  <2>2. Call("ResetDiffusion", l)
      BY <1>6, <2>1 DEF Diffusion
  <2>3. call = "ResetDiffusion" /\ loops = l
      BY <2>2, LoopsOf
  <2> QED BY <1>0, <2>1, <2>3, DiffusionFed
<1>7. CASE NonIdealFlux
  <2>1. PICK l : l = AddNonIdealMHDFlux
      OBVIOUS
  <2>2. Call("AddNonIdealMHDFlux", l)
      BY <1>7, <2>1 DEF NonIdealFlux
  <2>3. call = "AddNonIdealMHDFlux" /\ loops = l
      BY <2>2, LoopsOf
  <2> QED BY <1>0, <2>1, <2>3, NonIdealFed
<1>8. CASE AddVelocityFluid
  <2>1. PICK l : l = AddVelocityLoops
      OBVIOUS
  <2>2. Call("AddVelocityFluid", l)
      BY <1>8, <2>1 DEF AddVelocityFluid, AddVelocityLoops
  <2>3. call = "AddVelocityFluid" /\ loops = l
      BY <2>2, LoopsOf
  <2> QED BY <1>0, <2>1, <2>3, VelocityFed
<1>9. CASE ViscousFluxes
  <2>1. PICK l : l = AddViscousFlux
      OBVIOUS
  <2>2. Call("AddViscousFlux", l)
      BY <1>9, <2>1 DEF ViscousFluxes
  <2>3. call = "AddViscousFlux" /\ loops = l
      BY <2>2, LoopsOf
  <2> QED BY <1>0, <2>1, <2>3, ViscousFed
<1>10. CASE SubstractVelocityFluid
  <2>1. PICK l : l = SubstractVelocityLoops
      OBVIOUS
  <2>2. Call("SubstractVelocityFluid", l)
      BY <1>10, <2>1 DEF SubstractVelocityFluid, SubstractVelocityLoops
  <2>3. call = "SubstractVelocityFluid" /\ loops = l
      BY <2>2, LoopsOf
  <2> QED BY <1>0, <2>1, <2>3, VelocityFed
<1>11. CASE HeatFlux
  <2>1. PICK l : l = AddDiffusiveFlux
      OBVIOUS
  <2>2. Call("AddDiffusiveFlux", l)
      BY <1>11, <2>1 DEF HeatFlux
  <2>3. call = "AddDiffusiveFlux" /\ loops = l
      BY <2>2, LoopsOf
  <2> QED BY <1>0, <2>1, <2>3, HeatFed
<1>12. CASE BragViscousFlux
  <2>1. PICK l : l = AddBragViscousFlux
      OBVIOUS
  <2>2. Call("AddBragViscousFlux", l)
      BY <1>12, <2>1 DEF BragViscousFlux
  <2>3. call = "AddBragViscousFlux" /\ loops = l
      BY <2>2, LoopsOf
  <2> QED BY <1>0, <2>1, <2>3, BragViscousFed
<1>13. CASE BragHeatFlux
  <2>1. PICK l : l = AddBragDiffusiveFlux
      OBVIOUS
  <2>2. Call("AddBragDiffusiveFlux", l)
      BY <1>13, <2>1 DEF BragHeatFlux
  <2>3. call = "AddBragDiffusiveFlux" /\ loops = l
      BY <2>2, LoopsOf
  <2> QED BY <1>0, <2>1, <2>3, BragHeatFed
<1>14. CASE TracerFlux
  <2>1. PICK l : l = TracerCalcFlux
      OBVIOUS
  <2>2. Call("TracerCalcFlux", l)
      BY <1>14, <2>1 DEF TracerFlux
  <2>3. call = "TracerCalcFlux" /\ loops = l
      BY <2>2, LoopsOf
  <2> QED BY <1>0, <2>1, <2>3, TracerFluxFed
<1>15. CASE TotalFlux
  <2>1. PICK l : l = CorrectFlux
      OBVIOUS
  <2>2. Call("CorrectFlux", l)
      BY <1>15, <2>1 DEF TotalFlux
  <2>3. call = "CorrectFlux" /\ loops = l
      BY <2>2, LoopsOf
  <2> QED BY <1>0, <2>1, <2>3, CorrectFed
<1>16. CASE CalcRightHandSide
  <2>1. PICK l : l = IF Rkl THEN CalcParabolicRHS ELSE CalcRHS
      OBVIOUS
  <2>2. Call("CalcRightHandSide", l)
      BY <1>16, <2>1 DEF CalcRightHandSide
  <2>3. call = "CalcRightHandSide" /\ loops = l
      BY <2>2, LoopsOf
  <2> QED BY <1>0, <2>1, <2>3, CellsFed
<1>17. CASE TracerRightHandSide
  <2>1. PICK l : l = TracerCalcRightHandSide
      OBVIOUS
  <2>2. Call("TracerCalcRightHandSide", l)
      BY <1>17, <2>1 DEF TracerRightHandSide
  <2>3. call = "TracerCalcRightHandSide" /\ loops = l
      BY <2>2, LoopsOf
  <2> QED BY <1>0, <2>1, <2>3, TracerFed
<1>18. CASE SourceTerms
  <2>1. PICK l : l = AddSourceTerms
      OBVIOUS
  <2>2. Call("AddSourceTerms", l)
      BY <1>18, <2>1 DEF SourceTerms
  <2>3. call = "AddSourceTerms" /\ loops = l
      BY <2>2, LoopsOf
  <2> QED BY <1>0, <2>1, <2>3, SourcesFed
<1>19. CASE DragForce
  <2>1. PICK l : l = AddDragForce
      OBVIOUS
  <2>2. Call("AddDragForce", l)
      BY <1>19, <2>1 DEF DragForce
  <2>3. call = "AddDragForce" /\ loops = l
      BY <2>2, LoopsOf
  <2> QED BY <1>0, <2>1, <2>3, SourcesFed
<1>20. CASE CornerEMF
  <2>1. PICK l : l = CalcCornerEMF
      OBVIOUS
  <2>2. Call("CalcCornerEMF", l)
      BY <1>20, <2>1 DEF CornerEMF
  <2>3. call = "CalcCornerEMF" /\ loops = l
      BY <2>2, LoopsOf
  <2> QED BY <1>0, <2>1, <2>3, CornersFed
<1>21. CASE NonidealEMF
  <2>1. PICK l : l = CalcNonidealEMF(Evolved("ohmic"), Evolved("ambipolar"))
      OBVIOUS
  <2>2. Call("CalcNonidealEMF", l)
      BY <1>21, <2>1 DEF NonidealEMF
  <2>3. call = "CalcNonidealEMF" /\ loops = l
      BY <2>2, LoopsOf
  <2> QED BY <1>0, <2>1, <2>3, NonidealFed
<1>22. CASE MagField
  <2>1. PICK l : l = FaceLoops
      OBVIOUS
  <2>2. Call("EvolveMagField", l)
      BY <1>22, <2>1 DEF MagField, FaceLoops
  <2>3. call = "EvolveMagField" /\ loops = l
      BY <2>2, LoopsOf
  <2> QED BY <1>0, <2>1, <2>3, FacesFed
<1>23. CASE CentredField
  <2>1. PICK l : l = ReconstructVcField
      OBVIOUS
  <2>2. Call("ReconstructVcField", l)
      BY <1>23, <2>1 DEF CentredField
  <2>3. call = "ReconstructVcField" /\ loops = l
      BY <2>2, LoopsOf
  <2> QED BY <1>0, <2>1, <2>3, FacesFed
<1> QED BY <1>1, <1>2, <1>3, <1>4, <1>5, <1>6, <1>7, <1>8, <1>9, <1>10, <1>11, <1>12,
           <1>13, <1>14, <1>15, <1>16, <1>17, <1>18, <1>19, <1>20, <1>21, <1>22, <1>23 DEF Next

\* Whether the faces have moved, before a call and after it.
LEMMA MovedStep ==
    ASSUME StageInv, NEW call, NEW loops, Posted(call, loops)
    PROVE /\ Moved' <=> call \in {"EvolveMagField", "ReconstructVcField"}
          /\ Moved => call = "ReconstructVcField"
          /\ call = "ReconstructVcField" => Moved
<1>1. Moved' <=> Moved \/ call = "EvolveMagField"
    BY AfterPosted, AllNamed DEF Moved
<1>2. call = "ReconstructVcField" => Moved
  <2>1. SUFFICES ASSUME call = "ReconstructVcField" PROVE Been("EvolveMagField")
      BY DEF Moved
  <2>2. ~Rkl /\ Corners
      BY <2>1, OutsideWanted DEF Posted
  <2>3. Wanted("EvolveMagField")
      BY <2>2, OutsideWanted
  <2> QED BY <2>1, <2>3, HasBeen, PlaceOf, AllNamed
<1>3. call # "ReconstructVcField" => ~Moved
  <2>1. SUFFICES ASSUME call # "ReconstructVcField" PROVE ~Been("EvolveMagField")
      BY DEF Moved
  <2>2. call \in Named /\ call # "done"
      BY DEF Posted
  <2>3. Place(call) \in 1..25 /\ Calls[Place(call)] = call
      BY <2>2, PlaceNamed
  <2>4. Calls[24] = "ReconstructVcField" /\ Calls[25] = "done"
      BY DEF Calls
  <2>5. Place(call) <= 23
      BY <2>1, <2>2, <2>3, <2>4
  <2> QED BY <2>5, NotBeen, PlaceOf, AllNamed
<1> QED BY <1>1, <1>2, <1>3
-----------------------------------------------------------------------------
(* The cover of a stage, from call to call.                                   *)

LEMMA NeedSame ==
    ASSUME conf' = conf, NEW a, NEW moved, a \in OnSweep => dir' = dir
    PROVE (Need(a, moved))' = Need(a, moved)
<1>1. Active' = Active /\ nghost' = nghost /\ perpExtension' = perpExtension
    BY DEF Active, nghost, perpExtension
<1>2. \A l, r : (Region(l, r))' = Region(l, r)
    BY <1>1 DEF Region
<1>3. Interior' = Interior /\ AllEdges' = AllEdges /\ Wherever' = Wherever
    BY <1>1, <1>2 DEF Interior, AllEdges, Wherever
<1>4. \A d, lo, hi : (Along(d, lo, hi))' = Along(d, lo, hi)
    BY <1>1 DEF Along
<1>5. (Side(perpExtension, a))' = Side(perpExtension, a)
    BY <1>1, <1>2 DEF Side
<1>6. a \in OnSweep => (Faces(dir))' = Faces(dir)
    BY <1>3 DEF Faces
<1>7. CASE a \in OnSweep
  <2>1. /\ a \in OnSweep /\ a \notin InCells /\ a # "flags" /\ a \notin Names(Current, Dirs)
        /\ a \notin AtFaces /\ a \notin Names(Edge, Dirs) \cup Names(dA, Dirs) /\ a \notin Names(Ve, Dirs)
        /\ a \notin Names(BXs, Dirs) /\ a \notin Names(dB, Dirs)
      BY <1>7, NamesOf DEF InCells, OnSweep
  <2>2. (Need(a, moved))' = (Faces(dir))'
      BY <2>1 DEF Need
  <2> QED BY <1>6, <1>7, <2>2, NeedSweep
<1>8. CASE a \notin OnSweep
  <2>1. (Region(nghost - 1, nghost))' = Region(nghost - 1, nghost)
        /\ (Region(nghost, nghost + 1))' = Region(nghost, nghost + 1)
        /\ (Region(1, 1))' = Region(1, 1)
      BY <1>1 DEF Region
  <2> QED BY <1>1, <1>3, <1>4, <1>5, <1>8, <2>1 DEF Need
<1> QED BY <1>7, <1>8

LEMMA PairLess ==
    ASSUME NEW i \in Int, NEW j \in Int, NEW k \in Int, NEW l \in Int, i <= k, j <= l,
           NEW p, p = <<i, j>>, NEW q, q = <<k, l>>
    PROVE p[1] <= q[1] /\ p[2] <= q[2]
<1>1. p[1] = i /\ p[2] = j /\ q[1] = k /\ q[2] = l
    OBVIOUS
<1> QED BY <1>1

LEMMA NeedLess ==
    ASSUME Setting, NEW a, NEW moved \in BOOLEAN, moved, NEW still \in BOOLEAN, ~still
    PROVE Within(Need(a, moved), Need(a, still))
<1>1. CASE a \in Names(Ve, Dirs)
  <2>1. PICK e \in Dirs : a = Ve[e]
      BY <1>1 DEF Names
  <2>2. Need(a, moved) = Region(0, 1) /\ Need(a, still) = Region(nghost, nghost + 1)
      BY <2>1, NeedPotential DEF AllEdges
  <2>3. nghost \in {2, 3}
      BY Ghosts
  <2>4. Within(Region(0, 1), Region(nghost, nghost + 1))
      BY <2>3 DEF Within, Region
  <2> QED BY <2>2, <2>4
<1>2. CASE a \in Names(BXs, Dirs)
  <2>1. PICK e \in Dirs : a = BXs[e]
      BY <1>2 DEF Names
  <2>2. \A n \in BOOLEAN : Need(a, n) =
            [d \in Dirs |-> IF d = e
                            THEN IF n THEN Along(d, 0, 1)[d] ELSE Along(d, nghost, nghost + 1)[d]
                            ELSE IF n THEN <<0, 0>> ELSE Wherever[d]]
      BY <2>1, NeedField
  <2>3. nghost \in {2, 3}
      BY Ghosts
  <2>4. SUFFICES ASSUME NEW d \in Dirs, NEW p, p = Need(a, moved)[d], NEW q, q = Need(a, still)[d]
                 PROVE p[1] <= q[1] /\ p[2] <= q[2]
    <3>1. SUFFICES ASSUME NEW d \in Dirs
                   PROVE /\ Need(a, moved)[d][1] <= Need(a, still)[d][1]
                         /\ Need(a, moved)[d][2] <= Need(a, still)[d][2]
        BY DEF Within
    <3>2. PICK p : p = Need(a, moved)[d]
        OBVIOUS
    <3>3. PICK q : q = Need(a, still)[d]
        OBVIOUS
    <3>4. p[1] <= q[1] /\ p[2] <= q[2]
        BY <3>2, <3>3
    <3> QED BY <3>2, <3>3, <3>4
  <2>5. Need(a, moved)[d] = IF d = e THEN Along(d, 0, 1)[d] ELSE <<0, 0>>
    <3>1. \A x \in Dirs : Need(a, moved)[x] = IF x = e
                            THEN IF moved THEN Along(x, 0, 1)[x] ELSE Along(x, nghost, nghost + 1)[x]
                            ELSE IF moved THEN <<0, 0>> ELSE Wherever[x]
        BY <2>2
    <3> QED BY <3>1
  <2>6. Need(a, still)[d] = IF d = e THEN Along(d, nghost, nghost + 1)[d] ELSE Wherever[d]
    <3>1. \A x \in Dirs : Need(a, still)[x] = IF x = e
                            THEN IF still THEN Along(x, 0, 1)[x] ELSE Along(x, nghost, nghost + 1)[x]
                            ELSE IF still THEN <<0, 0>> ELSE Wherever[x]
        BY <2>2
    <3> QED BY <3>1
  <2>7. CASE d = e /\ d \in Active
    <3>1. Along(d, 0, 1)[d] = <<0, 1>>
        BY <2>7 DEF Along
    <3>2. Along(d, nghost, nghost + 1)[d] = <<nghost, nghost + 1>>
        BY <2>7 DEF Along
    <3>3. p = <<0, 1>>
        BY <2>4, <2>5, <2>7, <3>1
    <3>4. q = <<nghost, nghost + 1>>
        BY <2>4, <2>6, <2>7, <3>2
    <3>5. 0 <= nghost /\ 1 <= nghost + 1
        BY <2>3
    <3> QED BY <3>3, <3>4, <3>5, <2>3, PairLess
  <2>8. CASE d = e /\ d \notin Active
    <3>1. Along(d, 0, 1)[d] = <<0, 0>>
        BY <2>8 DEF Along
    <3>2. Along(d, nghost, nghost + 1)[d] = <<0, 0>>
        BY <2>8 DEF Along
    <3>3. p = <<0, 0>>
        BY <2>4, <2>5, <2>8, <3>1
    <3>4. q = <<0, 0>>
        BY <2>4, <2>6, <2>8, <3>2
    <3> QED BY <3>3, <3>4, PairLess
  <2>9. CASE d # e
    <3>1. Wherever[d] = IF d \in Active THEN <<nghost, nghost>> ELSE <<0, 0>>
        BY DEF Wherever, Region
    <3>2. p = <<0, 0>>
        BY <2>4, <2>5, <2>9
    <3>3. q = Wherever[d]
        BY <2>4, <2>6, <2>9
    <3>4. CASE d \in Active
      <4>1. q = <<nghost, nghost>>
          BY <3>1, <3>3, <3>4
      <4> QED BY <2>3, <3>2, <4>1, PairLess
    <3>5. CASE d \notin Active
      <4>1. q = <<0, 0>>
          BY <3>1, <3>3, <3>5
      <4> QED BY <3>2, <4>1, PairLess
    <3> QED BY <3>4, <3>5
  <2> QED BY <2>7, <2>8, <2>9
<1>3. CASE a \notin Names(Ve, Dirs) /\ a \notin Names(BXs, Dirs)
  <2>1. Need(a, moved) = Need(a, still)
      BY <1>3 DEF Need
  <2> QED BY <2>1, NeedBox, SelfWithin
<1> QED BY <1>1, <1>2, <1>3

LEMMA CoveredStep ==
    ASSUME StageInv, OrderInv, Covered, Next, ~NextDir, ~NextStage PROVE Covered'
<1>1. PICK call, loops : Posted(call, loops)
    BY CallsArePosted
<1>2. Setting /\ DOMAIN mem = Allocated
    BY DEF StageInv
<1>3. SteadyConf /\ conf' = conf /\ dir' = dir /\ DOMAIN mem' = DOMAIN mem
    BY <1>1, AfterPosted DEF SteadyConf
<1>4. Starved' <=> Starved
    BY <1>3, ConfSame
<1>5. SUFFICES ASSUME ~Starved, NEW moved \in BOOLEAN, moved <=> Moved'
               PROVE \A a \in Ready' \cap DOMAIN mem : Covers(mem', a, (Need(a, moved))')
    BY <1>3, <1>4 DEF Covered, Covers
<1>6. PICK still \in BOOLEAN : still <=> Moved
    OBVIOUS
<1>7. \A a \in Ready \cap DOMAIN mem : Covers(mem, a, Need(a, still))
    BY <1>5, <1>6 DEF Covered
<1>8. \A a \in Ready \cap DOMAIN mem : Covers(mem, a, Need(a, moved))
  <2>1. still => moved
      BY <1>1, <1>5, <1>6, MovedStep
  <2>2. CASE moved = still
      BY <1>7, <2>2
  <2>3. CASE moved /\ ~still
    <3>1. ASSUME NEW a \in Ready \cap DOMAIN mem PROVE Covers(mem, a, Need(a, moved))
      <4>1. Within(Need(a, moved), Need(a, still))
          BY <1>2, <2>3, NeedLess
      <4>2. IsBox(mem[a].valid) /\ Within(Need(a, still), mem[a].valid)
          BY <1>7 DEF Covers
      <4>3. IsBox(Need(a, moved)) /\ IsBox(Need(a, still))
          BY <1>2, NeedBox
      <4>4. Within(Need(a, moved), mem[a].valid)
          BY <4>1, <4>2, <4>3, WithinWithin
      <4> QED BY <4>2, <4>4 DEF Covers
    <3> QED BY <3>1
  <2> QED BY <2>1, <2>2, <2>3
<1>9. moved <=> call \in {"EvolveMagField", "ReconstructVcField"}
    BY <1>1, <1>5, MovedStep
<1>10. Serves(loops, Ready, Gain(call), moved)
    BY <1>1, <1>5, <1>9, CallsFed
<1>11. PICK K, O : K = Ready /\ O = Gain(call)
    OBVIOUS
<1>12. Call(call, loops) /\ Launch(loops) /\ Kernels(loops)
    BY <1>1 DEF Posted, Call
<1>13. ~Overreach
    BY <1>5 DEF Starved
<1>14. \A a \in (K \cup O) \cap Allocated : Covers(After(mem, loops), a, Need(a, moved))
  <2>1. \A a \in K \cap Allocated : Covers(mem, a, Need(a, moved))
      BY <1>2, <1>8, <1>11
  <2> QED BY <1>2, <1>10, <1>11, <1>12, <1>13, <2>1, AfterCovers
<1>15. \A a \in DOMAIN mem : mem'[a] = After(mem, loops)[a]
    BY <1>12 DEF Launch
<1>16. Ready' \subseteq K \cup O
    BY <1>1, <1>11, ReadyStep
<1>17. \A a : (Need(a, moved))' = Need(a, moved)
    BY <1>3, NeedSame
<1> QED BY <1>2, <1>14, <1>15, <1>16, <1>17 DEF Covers
-----------------------------------------------------------------------------
(* The cover of a stage, from its start and from sweep to sweep.              *)

LEMMA WantedTurn ==
    ASSUME conf' = conf, NEW call, call # "NextDir" PROVE (Wanted(call))' <=> Wanted(call)
BY DEF Wanted, Sweep, LoopDirs, Rkl, haveVc, haveVs, HaveRKL, needExplicitCurrent, Evolved, Parabolic,
       ParabolicTerms, AddsMean, Corners, Mhd, haveSourceTerms

\* What the sweeps do not forget.
Kept ==
    Names(BXs, Dirs) \cup Names(Ve, Dirs) \cup AtFaces \cup Rate
    \cup {"Vc", "Uc", "InvDt", "phiP", "bodyForce", "UcTracer", "VcGas", "UcGas",
          "etaOhmic", "xAmbipolar", "eta1", "eta2", "kappa", "etaBrag", "kpar", "knor", "clessAlpha",
          "clessBeta", "J1", "J2", "J3", "xHall", "csIso", "flags", "fargoVelocity"}

LEMMA KeptAcross == Kept \cap (OnSweep \cup {"viscSrc", "bragViscSrc"}) = {}
BY NamesOf DEF Kept, OnSweep, Rate

LEMMA TurnDone ==
    ASSUME StageInv, NextDir, NEW call \in Named, Place(call) >= 5, Place(call) < 18, Wanted(call)
    PROVE (Done(call))' = Done(call) /\ Done(call) # {}
<1>1. Been(call) /\ ~(Been(call))' /\ dir' = dir + 1 /\ dir \in Nat /\ dir >= 1
    BY Turn, ConfType DEF StageInv
<1>2. Done(call) = 1..dir
    BY <1>1 DEF Done, If
<1>3. (Done(call))' = 1..(dir' - 1) \cup If((Been(call))', {dir'})
    BY DEF Done, If
<1>4. dir' - 1 = dir
    BY <1>1
<1>5. (Done(call))' = 1..dir
    BY <1>1, <1>3, <1>4 DEF If
<1>6. dir \in 1..dir
    BY <1>1
<1> QED BY <1>2, <1>5, <1>6

LEMMA TurnReady == ASSUME StageInv, NextDir PROVE Ready' \subseteq Ready \ PerSweep
<1>1. conf' = conf /\ LoopDirs /\ pc = "NextDir" /\ pc' = "CalcFlux"
    BY Turn DEF NextDir
<1>2. Place(pc) = 18 /\ (Place(pc))' = 5
    BY <1>1, PlaceOf DEF Place, Calls
<1>3. \A call \in Named : Place(call) >= 5 => ~(Been(call))'
    BY Turn
<1>4. \A call \in Named : Place(call) < 5 => ((Been(call))' => Been(call))
  <2>1. SUFFICES ASSUME NEW call \in Named, Place(call) < 5, (Been(call))' PROVE Been(call)
      OBVIOUS
  <2>2. call # "NextDir"
      BY <2>1, PlaceOf
  <2>3. Wanted(call)
      BY <1>1, <2>1, <2>2, WantedTurn DEF Been
  <2>4. Place(call) \in 1..25
      BY PlaceNamed
  <2> QED BY <1>2, <2>1, <2>3, <2>4 DEF Been
<1>5. (Rkl' <=> Rkl) /\ (Corners' <=> Corners) /\ Derivatives' = Derivatives /\ Start' = Start
      /\ \A d : (Stored(d))' = Stored(d)
    BY <1>1, ConfSame, PartsSame
<1>6. \A term, arrays : (UserRead(term, arrays))' = UserRead(term, arrays)
    BY <1>1, ConfSame
<1>7. PerSweep \subseteq OnSweep \cup {"viscSrc", "bragViscSrc"}
    BY DEF PerSweep, OnSweep
<1>8. Kept \cap PerSweep = {}
    BY <1>7, KeptAcross
<1>9. Start' \subseteq Ready \ PerSweep
  <2>1. Start \ Kept \subseteq {"viscSrc", "bragViscSrc"} /\ (conf.geo # "cartesian" => Start \subseteq Kept)
      BY DEF Start, Kept, If
  <2>2. conf.geo = "cartesian" => {"viscSrc", "bragViscSrc"} \cap PerSweep = {}
      BY DEF PerSweep
  <2> QED BY <1>5, <1>8, <2>1, <2>2, ReadyOf
<1>10. ASSUME NEW term, NEW call \in Named, Place(call) >= 5, Place(call) < 18, NEW arrays, arrays \subseteq Kept,
              Evolved(term) => Wanted(call), Filling(term, call, arrays) \subseteq UserFilled
       PROVE (Filling(term, call, arrays))' \subseteq Ready \ PerSweep
  <2>1. (Filling(term, call, arrays))' \subseteq UserRead(term, arrays)
      BY <1>6 DEF Filling, If
  <2>2. UserRead(term, arrays) \subseteq arrays
      BY DEF UserRead, If
  <2>3. CASE ~Evolved(term)
      BY <2>1, <2>3 DEF UserRead, If
  <2>4. CASE Evolved(term)
    <3>1. Done(call) # {}
        BY <1>10, <2>4, TurnDone
    <3>2. UserRead(term, arrays) \subseteq UserFilled
        BY <1>10, <3>1 DEF Filling, If
    <3> QED BY <1>8, <1>10, <2>1, <2>2, <3>2, ReadyOf
  <2> QED BY <2>3, <2>4
<1>11. UserFilled' \subseteq Ready \ PerSweep
  <2>1. PICK brag : brag = BragCoefficients
      OBVIOUS
  <2>2. BragCoefficients' = brag
      BY <1>1, <2>1, ConfSame
  <2>3. brag \subseteq Kept
      BY <2>1 DEF BragCoefficients, Kept
  <2>4. /\ {"etaOhmic"} \subseteq Kept /\ {"xAmbipolar"} \subseteq Kept /\ {"eta1", "eta2"} \subseteq Kept
        /\ {"kappa"} \subseteq Kept /\ {"etaBrag"} \subseteq Kept
      BY DEF Kept
  <2>5. /\ Filling("ohmic", "AddNonIdealMHDFlux", {"etaOhmic"}) \subseteq UserFilled
        /\ Filling("ambipolar", "AddNonIdealMHDFlux", {"xAmbipolar"}) \subseteq UserFilled
        /\ Filling("viscosity", "AddViscousFlux", {"eta1", "eta2"}) \subseteq UserFilled
        /\ Filling("conduction", "AddDiffusiveFlux", {"kappa"}) \subseteq UserFilled
        /\ Filling("bragViscosity", "AddBragViscousFlux", {"etaBrag"}) \subseteq UserFilled
        /\ Filling("bragConduction", "AddBragDiffusiveFlux", BragCoefficients) \subseteq UserFilled
      BY DEF UserFilled
  <2>6. Filling("bragConduction", "AddBragDiffusiveFlux", brag) \subseteq UserFilled
      BY <2>1, <2>5
  <2>7. /\ (Filling("ohmic", "AddNonIdealMHDFlux", {"etaOhmic"}))' \subseteq Ready \ PerSweep
        /\ (Filling("ambipolar", "AddNonIdealMHDFlux", {"xAmbipolar"}))' \subseteq Ready \ PerSweep
      BY <1>1, <1>10, <2>4, <2>5, WantedOf, PlaceOf, AllNamed
  <2>8. /\ (Filling("viscosity", "AddViscousFlux", {"eta1", "eta2"}))' \subseteq Ready \ PerSweep
        /\ (Filling("conduction", "AddDiffusiveFlux", {"kappa"}))' \subseteq Ready \ PerSweep
        /\ (Filling("bragViscosity", "AddBragViscousFlux", {"etaBrag"}))' \subseteq Ready \ PerSweep
      BY <1>1, <1>10, <2>4, <2>5, WantedOf, PlaceOf, AllNamed
  <2>9. (Filling("bragConduction", "AddBragDiffusiveFlux", brag))' \subseteq Ready \ PerSweep
      BY <1>1, <1>10, <2>3, <2>6, WantedOf, PlaceOf, AllNamed
  <2>10. (Filling("bragConduction", "AddBragDiffusiveFlux", BragCoefficients))' =
         (Filling("bragConduction", "AddBragDiffusiveFlux", brag))'
      BY <2>2 DEF Filling, UserRead, If
  <2> QED BY <2>7, <2>8, <2>9, <2>10 DEF UserFilled
<1>12. /\ (If(Been("ResetStage"), Derivatives))' \subseteq Ready \ PerSweep
       /\ (If(Been("CalcCurrent"), {"J1", "J2", "J3"}))' \subseteq Ready \ PerSweep
       /\ (If(Been("HallDiffusivity"), {"xHall"}))' \subseteq Ready \ PerSweep
       /\ (If(Been("Refresh"), {"csIso"}))' \subseteq Ready \ PerSweep
  <2>1. /\ (Been("ResetStage"))' => Been("ResetStage")
        /\ (Been("CalcCurrent"))' => Been("CalcCurrent")
        /\ (Been("HallDiffusivity"))' => Been("HallDiffusivity")
        /\ (Been("Refresh"))' => Been("Refresh")
      BY <1>4, PlaceOf, AllNamed
  <2>2. Derivatives \subseteq Kept
      BY RateNames DEF Kept, StageInv
  <2>3. {"J1", "J2", "J3", "xHall", "csIso"} \subseteq Kept
      BY DEF Kept
  <2>4. (If(Been("ResetStage"), Derivatives))' \subseteq Ready \ PerSweep
      BY <1>5, <1>8, <2>1, <2>2, ReadyOf DEF If
  <2> QED BY <1>8, <2>1, <2>3, <2>4, ReadyOf DEF If
<1>13. (If(conf.shock /\ ~Rkl /\ Done("CalcFlux") # {}, {"flags"}))' \subseteq Ready \ PerSweep
  <2>1. Done("CalcFlux") # {}
      BY <1>1, WantedOf, TurnDone, PlaceOf, AllNamed
  <2>2. "flags" \in Kept
      BY DEF Kept
  <2> QED BY <1>1, <1>5, <1>8, <2>1, <2>2, ReadyOf DEF If
<1>14. (If(~Rkl /\ Corners, UNION {Stored(d) : d \in Done("CalcFlux")}))' \subseteq Ready \ PerSweep
  <2>1. (Done("CalcFlux"))' = Done("CalcFlux")
      BY <1>1, WantedOf, TurnDone, PlaceOf, AllNamed
  <2>2. (UNION {Stored(d) : d \in Done("CalcFlux")})' = UNION {Stored(d) : d \in Done("CalcFlux")}
      BY <1>5, <2>1
  <2>3. Done("CalcFlux") \subseteq Dirs
    <3>1. dir \in 1..3
        BY ConfType DEF StageInv, Dirs
    <3> QED BY <3>1 DEF Done, If, Dirs
  <2>4. \A d \in Dirs : Stored(d) \subseteq AtFaces
      BY DEF Stored, AtFaces, Names, If
  <2>5. UNION {Stored(d) : d \in Done("CalcFlux")} \subseteq Kept
      BY <2>3, <2>4 DEF Kept
  <2> QED BY <1>5, <1>8, <2>2, <2>5, ReadyOf DEF If
<1>15. (If(conf.fargo = "userdef" /\ ~Rkl /\ (Done("CorrectFlux") # {} \/ Been("AddVelocityFluid")),
            {"fargoVelocity"}))' \subseteq Ready \ PerSweep
  <2>1. ~Rkl => Done("CorrectFlux") # {}
      BY <1>1, WantedOf, TurnDone, PlaceOf, AllNamed
  <2>2. "fargoVelocity" \in Kept
      BY DEF Kept
  <2> QED BY <1>1, <1>5, <1>8, <2>1, <2>2, ReadyOf DEF If
<1>16. /\ ~(Been("CalcFlux"))' /\ ~(Been("ResetDiffusion"))' /\ ~(Been("AddViscousFlux"))'
       /\ ~(Been("AddBragViscousFlux"))' /\ ~(Been("TracerCalcFlux"))' /\ ~(Been("CalcCornerEMF"))'
       /\ ~(Been("ReconstructVcField"))'
    BY <1>3, PlaceOf, AllNamed
<1>17. /\ (If(Been("CalcFlux"), {"Flux"}))' = {} /\ (If(Been("CalcFlux") /\ ~Rkl, {"cMax"}))' = {}
       /\ (If(Been("ResetDiffusion"), {"dMax"}))' = {} /\ (If(Been("AddViscousFlux"), {"viscSrc"}))' = {}
       /\ (If(Been("AddBragViscousFlux"), {"bragViscSrc"}))' = {}
       /\ (If(Been("TracerCalcFlux"), {"FluxTracer"}))' = {}
       /\ (If(Been("CalcCornerEMF"), Names(Edge, Edges)))' = {}
       /\ (If(Been("ReconstructVcField"), {"UcField"}))' = {}
    BY <1>16 DEF If
<1>18. PICK T : T = Ready \ PerSweep
    OBVIOUS
<1>19. /\ Start' \subseteq T /\ UserFilled' \subseteq T
       /\ (If(Been("ResetStage"), Derivatives))' \subseteq T
       /\ (If(Been("CalcCurrent"), {"J1", "J2", "J3"}))' \subseteq T
       /\ (If(Been("HallDiffusivity"), {"xHall"}))' \subseteq T
       /\ (If(Been("Refresh"), {"csIso"}))' \subseteq T
    BY <1>9, <1>11, <1>12, <1>18
<1>20. /\ (If(conf.shock /\ ~Rkl /\ Done("CalcFlux") # {}, {"flags"}))' \subseteq T
       /\ (If(~Rkl /\ Corners, UNION {Stored(d) : d \in Done("CalcFlux")}))' \subseteq T
       /\ (If(conf.fargo = "userdef" /\ ~Rkl /\ (Done("CorrectFlux") # {} \/ Been("AddVelocityFluid")),
               {"fargoVelocity"}))' \subseteq T
    BY <1>13, <1>14, <1>15, <1>18
<1>21. Ready' \subseteq T
    BY <1>17, <1>19, <1>20 DEF Ready
<1> QED BY <1>18, <1>21

\* No array has the name of what is outside them.
LEMMA MissingNowhere == ASSUME Setting PROVE "noFlux" \notin Allocated
<1>1. \A t \in Terms : "noFlux" \notin UserArrays[t]
  <2> SUFFICES ASSUME NEW t \in Terms PROVE "noFlux" \notin UserArrays[t]
      OBVIOUS
  <2>1. CASE t = "ohmic" BY <2>1 DEF UserArrays
  <2>2. CASE t = "ambipolar" BY <2>2 DEF UserArrays
  <2>3. CASE t = "viscosity" BY <2>3 DEF UserArrays
  <2>4. CASE t = "conduction" BY <2>4 DEF UserArrays
  <2>5. CASE t = "bragViscosity" BY <2>5 DEF UserArrays
  <2>6. CASE t = "bragConduction" BY <2>6 DEF UserArrays
  <2> QED BY <2>1, <2>2, <2>3, <2>4, <2>5, <2>6 DEF Terms
<1>2. "noFlux" \notin DiffusionArrays
    BY <1>1 DEF DiffusionArrays
<1>3. /\ "noFlux" \notin Names(BXs, Active) /\ "noFlux" \notin Names(Ve, Edges)
      /\ "noFlux" \notin Names(SV, Active) /\ "noFlux" \notin Names(Fan, Active)
      /\ "noFlux" \notin Names(dA, Edges) /\ "noFlux" \notin Names(dB, Active)
  <2>1. Active \subseteq Dirs /\ Edges \subseteq Dirs
      BY DEF Setting, Options, Active, Edges, Dirs, KDIR
  <2>2. \A d \in Dirs : /\ BXs[d] # "noFlux" /\ Ve[d] # "noFlux" /\ SV[d] # "noFlux"
                        /\ Fan[d] # "noFlux" /\ dA[d] # "noFlux" /\ dB[d] # "noFlux"
      BY Tuples DEF Dirs
  <2> QED BY <2>1, <2>2 DEF Names
<1>4. "noFlux" \notin FluidArrays
    BY <1>3 DEF FluidArrays
<1>5. "noFlux" \notin EMFArrays
  <2>1. CASE conf.emf = "uct_contact" BY <1>3, <2>1 DEF EMFArrays
  <2>2. CASE conf.emf \in {"uct_hll", "uct_hlld"} BY <1>3, <2>2 DEF EMFArrays
  <2>3. CASE conf.emf \notin {"uct_contact", "uct_hll", "uct_hlld"} BY <2>3 DEF EMFArrays
  <2> QED BY <2>1, <2>2, <2>3
<1>6. "noFlux" \notin RKLArrays
    BY <1>3 DEF RKLArrays
<1> QED BY <1>2, <1>4, <1>5, <1>6 DEF Allocated

LEMMA CoveredTurn == ASSUME StageInv, Covered, NextDir PROVE Covered'
<1>1. conf' = conf /\ DOMAIN mem' = DOMAIN mem /\ \A a \in DOMAIN mem : a \notin PerSweep => mem'[a] = mem[a]
    BY Turn
<1>2. Starved' <=> Starved
    BY <1>1, ConfSame
<1>3. ~Moved /\ ~Moved'
    BY Turn, PlaceOf, AllNamed DEF Moved
<1>4. SUFFICES ASSUME ~Starved, NEW moved \in BOOLEAN, moved <=> Moved', NEW a \in Ready' \cap DOMAIN mem
               PROVE Covers(mem', a, (Need(a, moved))')
    BY <1>1, <1>2 DEF Covered, Covers
<1>5. a \in Ready /\ a \notin PerSweep
    BY TurnReady
<1>6. Covers(mem, a, Need(a, moved))
    BY <1>3, <1>4, <1>5 DEF Covered
<1>7. a \notin OnSweep
  <2>1. a # "noFlux"
      BY <1>4, MissingNowhere DEF StageInv
  <2> QED BY <1>5, <2>1 DEF PerSweep, OnSweep
<1>8. (Need(a, moved))' = Need(a, moved)
    BY <1>1, <1>7, NeedSame
<1> QED BY <1>1, <1>4, <1>5, <1>6, <1>8 DEF Covers
-----------------------------------------------------------------------------
(* A stage that starts has what it is given, over all cells.                  *)

Blank ==
    /\ \A call \in Named : ~Been(call)
    /\ dir = 1
    /\ \A a \in Start \cap DOMAIN mem : mem[a].valid = Filled(a)

LEMMA AllocatedPotential ==
    ASSUME Setting, NEW a \in Names(Ve, Dirs), a \in Allocated PROVE a \in Names(Ve, Edges)
<1>1. a \in {"AX1e", "AX2e", "AX3e"} /\ Edges \subseteq Dirs /\ Active \subseteq Dirs
    BY NamesOf, AtEdgeNames
<1>2. \A tuple : \A S : S \subseteq Dirs => Names(tuple, S) \subseteq Names(tuple, Dirs)
    BY DEF Names
<1>3. Names(SV, Dirs) = {"svx", "svy", "svz"} /\ Names(Fan, Dirs) = {"ax", "ay", "az"}
    BY Tuples DEF Names, Dirs
<1>4. /\ Names(SV, Active) \subseteq {"svx", "svy", "svz"} /\ Names(Fan, Active) \subseteq {"ax", "ay", "az"}
      /\ Names(dA, Edges) \subseteq {"dA1", "dA2", "dA3"} /\ Names(dB, Active) \subseteq {"dB1", "dB2", "dB3"}
      /\ Names(BXs, Active) \subseteq {"BX1s", "BX2s", "BX3s"}
    BY <1>1, <1>2, <1>3, NamesOf
<1>5. a \notin EMFArrays
    BY <1>1, <1>4 DEF EMFArrays
<1>6. a \notin RKLArrays
    BY <1>1, <1>4 DEF RKLArrays
<1>7. a \notin DiffusionArrays
  <2>1. \A t \in Terms : a \notin UserArrays[t]
      BY <1>1 DEF Terms, UserArrays
  <2> QED BY <1>1, <2>1 DEF DiffusionArrays
<1>8. a \in FluidArrays
    BY <1>5, <1>6, <1>7 DEF Allocated
<1> QED BY <1>1, <1>4, <1>8 DEF FluidArrays

LEMMA FilledCovers ==
    ASSUME Setting, NEW a \in Start, a \in Allocated, NEW moved \in BOOLEAN, ~moved
    PROVE IsBox(Filled(a)) /\ Within(Need(a, moved), Filled(a))
<1>1. nghost \in {2, 3} /\ IsBox(Wherever) /\ IsBox(Interior) /\ IsBox(Region(nghost, nghost + 1))
  <2>1. nghost \in {2, 3}
      BY Ghosts
  <2> QED BY <2>1, IsBoxOf
<1>2. a \in Names(BXs, Dirs) \/ a \in Names(Ve, Dirs) \/ a \in Wide \/ a \in InCells
    BY DEF Start, Wide, InCells, If
<1>3. CASE a \in Names(BXs, Dirs)
  <2>1. PICK e \in Dirs : a = BXs[e]
      BY <1>3 DEF Names
  <2>2. \A d \in Dirs : BXs[d] = a <=> d = e
      BY <2>1, Tuples DEF Dirs
  <2>3. Need(a, moved) = [d \in Dirs |-> IF d = e
                            THEN IF moved THEN Along(d, 0, 1)[d] ELSE Along(d, nghost, nghost + 1)[d]
                            ELSE IF moved THEN <<0, 0>> ELSE Wherever[d]]
      BY <2>1, NeedField
  <2>4. Need(a, moved) = [d \in Dirs |-> IF d = e THEN Along(d, nghost, nghost + 1)[d] ELSE Wherever[d]]
      BY <2>3
  <2>5. IsBox(Need(a, moved))
      BY NeedBox
  <2>6. CASE e \in Active
    <3>1. a \in Names(BXs, Active)
        BY <2>1, <2>6 DEF Names
    <3>2. a \notin Names(Ve, Edges)
      <4>1. Names(Ve, Edges) \subseteq Names(Ve, Dirs)
          BY AtEdgeNames DEF Names
      <4> QED BY <1>3, <4>1, NamesOf
    <3>3. Filled(a) = [d \in Dirs |-> IF BXs[d] = a THEN <<nghost, nghost + 1>> ELSE Wherever[d]]
        BY <3>1, <3>2 DEF Filled
    <3>4. Filled(a) = [d \in Dirs |-> IF d = e THEN <<nghost, nghost + 1>> ELSE Wherever[d]]
        BY <2>2, <3>3
    <3>5. Along(e, nghost, nghost + 1)[e] = <<nghost, nghost + 1>>
        BY <2>6 DEF Along
    <3>6. Filled(a) = Need(a, moved)
        BY <2>4, <3>4, <3>5
    <3> QED BY <2>5, <3>6, SelfWithin
  <2>7. CASE e \notin Active
    <3>1. a \notin Names(BXs, Active)
      <4>1. SUFFICES ASSUME NEW d \in Active PROVE BXs[d] # a
          BY DEF Names
      <4>2. d \in Dirs
          BY AtEdgeNames
      <4> QED BY <2>2, <2>7, <4>2
    <3>2. a \notin Names(Ve, Edges)
      <4>1. Names(Ve, Edges) \subseteq Names(Ve, Dirs)
          BY AtEdgeNames DEF Names
      <4> QED BY <1>3, <4>1, NamesOf
    <3>3. Filled(a) = Wherever
        BY <3>1, <3>2 DEF Filled
    <3>4. Along(e, nghost, nghost + 1)[e] = Wherever[e]
        BY <2>7 DEF Along, Wherever, Region
    <3>5. Wherever = [d \in Dirs |-> Wherever[d]]
        BY DEF Wherever, Region
    <3>6. Need(a, moved) = Wherever
        BY <2>4, <3>4, <3>5
    <3> QED BY <1>1, <3>3, <3>6, SelfWithin
  <2> QED BY <2>6, <2>7
<1>4. CASE a \in Names(Ve, Dirs)
  <2>1. a \in Names(Ve, Edges)
      BY <1>4, AllocatedPotential
  <2>2. a \notin Names(BXs, Active)
    <3>1. Names(BXs, Active) \subseteq Names(BXs, Dirs)
        BY AtEdgeNames DEF Names
    <3> QED BY <1>4, <3>1, NamesOf
  <2>3. Filled(a) = Region(nghost, nghost + 1)
      BY <2>1, <2>2 DEF Filled
  <2>4. PICK e \in Dirs : a = Ve[e]
      BY <1>4 DEF Names
  <2>5. Need(a, moved) = Region(nghost, nghost + 1)
      BY <2>4, NeedPotential
  <2> QED BY <1>1, <2>3, <2>5, SelfWithin
<1>5. CASE a \in Wide \/ a \in InCells
  <2>1. a \notin Names(BXs, Dirs) /\ a \notin Names(Ve, Dirs)
      BY <1>5, NamesOf DEF Wide, InCells
  <2>2. Names(BXs, Active) \subseteq Names(BXs, Dirs) /\ Names(Ve, Edges) \subseteq Names(Ve, Dirs)
      BY AtEdgeNames DEF Names
  <2>3. Filled(a) = Wherever
      BY <2>1, <2>2 DEF Filled
  <2>4. CASE a \in Wide
      BY <1>1, <2>3, <2>4, NeedWide, SelfWithin
  <2>5. CASE a \in InCells
    <3>1. Need(a, moved) = Interior
        BY <2>5, NeedCells
    <3>2. Within(Interior, Wherever)
        BY <1>1 DEF Within, Interior, Wherever, Region
    <3> QED BY <1>1, <2>3, <3>1, <3>2
  <2> QED BY <1>5, <2>4, <2>5
<1> QED BY <1>2, <1>3, <1>4, <1>5

LEMMA BlankCovered == StageInv /\ Blank => Covered
<1> SUFFICES ASSUME StageInv, Blank PROVE Covered
    OBVIOUS
<1>1. \A call \in Named : ~Been(call) /\ Done(call) = {}
    BY DEF Blank, Done, If
<1>3. UserFilled \subseteq Start
  <2>1. /\ Done("AddNonIdealMHDFlux") = {} /\ Done("AddViscousFlux") = {} /\ Done("AddDiffusiveFlux") = {}
        /\ Done("AddBragViscousFlux") = {} /\ Done("AddBragDiffusiveFlux") = {}
      BY <1>1, AllNamed
  <2> QED BY <2>1 DEF UserFilled, Filling, If
<1>4. /\ ~Been("ResetStage") /\ ~Been("CalcCurrent") /\ ~Been("HallDiffusivity") /\ ~Been("Refresh")
      /\ ~Been("CalcFlux") /\ ~Been("ResetDiffusion") /\ ~Been("AddViscousFlux")
      /\ ~Been("AddBragViscousFlux") /\ ~Been("AddVelocityFluid") /\ ~Been("TracerCalcFlux")
      /\ ~Been("CalcCornerEMF") /\ ~Been("ReconstructVcField") /\ ~Been("EvolveMagField")
      /\ Done("CalcFlux") = {} /\ Done("CorrectFlux") = {}
    BY <1>1, AllNamed
<1>5. UNION {Stored(d) : d \in Done("CalcFlux")} = {}
    BY <1>4
<1>6. Ready \subseteq Start
    BY <1>3, <1>4, <1>5 DEF Ready, If
<1>7. ~Moved
    BY <1>4 DEF Moved
<1>8. SUFFICES ASSUME NEW moved \in BOOLEAN, moved <=> Moved, NEW a \in Ready \cap DOMAIN mem
               PROVE Covers(mem, a, Need(a, moved))
    BY DEF Covered
<1>9. a \in Start /\ a \in Allocated /\ ~moved /\ Setting /\ mem[a].valid = Filled(a)
    BY <1>6, <1>7, <1>8 DEF StageInv, Blank
<1>10. IsBox(Filled(a)) /\ Within(Need(a, moved), Filled(a))
    BY <1>9, FilledCovers
<1> QED BY <1>9, <1>10 DEF Covers

LEMMA GivenOf == Start = Given \cup Names(BXs, Dirs) \cup Names(Ve, Dirs)
BY DEF Start, Given, If

LEMMA InitBlank == Init => Blank
<1> SUFFICES ASSUME Init PROVE Blank
    OBVIOUS
<1>1. mem = Fresh /\ dir = 1
    BY DEF Init, IDIR
<1>2. PICK i \in DOMAIN Calls : Calls[i] = pc /\ \A j \in 1..(i - 1) : ~Wanted(Calls[j])
    BY FirstWanted
<1>3. i \in 1..25 /\ Place(pc) = i
    BY <1>2, CallsOf, PlaceCalls
<1>4. \A call \in Named : ~Been(call)
  <2>1. SUFFICES ASSUME NEW call \in Named, Place(call) < i PROVE ~Wanted(call)
      BY <1>3 DEF Been
  <2>2. Place(call) \in 1..25 /\ Calls[Place(call)] = call
      BY PlaceNamed
  <2>3. Place(call) \in 1..(i - 1)
      BY <1>3, <2>1, <2>2
  <2> QED BY <1>2, <2>2, <2>3
<1>5. \A a \in Start \cap DOMAIN mem : mem[a].valid = Filled(a)
    BY <1>1, GivenOf DEF Fresh
<1> QED BY <1>1, <1>4, <1>5 DEF Blank

LEMMA StageBlank == StageInv /\ NextStage => Blank'
<1> SUFFICES ASSUME StageInv, NextStage PROVE Blank'
    OBVIOUS
<1>1. mem' = Fresh /\ dir' = 1 /\ pc' = "ResetStage" /\ conf' = [conf EXCEPT !.cycle = "rklAgain"]
    BY DEF NextStage, IDIR
<1>2. (Place(pc))' = 1 /\ \A call : (Place(call))' = Place(call)
    BY <1>1, PlaceOf DEF Place, Calls
<1>3. \A call \in Named : ~(Been(call))'
  <2>1. \A call \in Named : Place(call) \in 1..25
      BY PlaceNamed
  <2> QED BY <1>2, <2>1 DEF Been
<1>4. conf'.dims = conf.dims /\ conf'.geo = conf.geo /\ conf'.order = conf.order
    BY <1>1 DEF StageInv, Setting, Options
<1>5. Start' = Start
    BY <1>4 DEF Start, If
<1>6. \A a : (Filled(a))' = Filled(a)
  <2>1. Active' = Active /\ Edges' = Edges /\ nghost' = nghost
      BY <1>4 DEF Active, Edges, nghost
  <2>2. Wherever' = Wherever /\ (Region(nghost, nghost + 1))' = Region(nghost, nghost + 1)
      BY <2>1 DEF Wherever, Region
  <2>3. Names(BXs, Active)' = Names(BXs, Active) /\ Names(Ve, Edges)' = Names(Ve, Edges)
      BY <2>1 DEF Names
  <2> QED BY <2>1, <2>2, <2>3 DEF Filled
<1>7. \A a \in Start \cap DOMAIN mem' : mem'[a].valid = Filled(a)
    BY <1>1, GivenOf DEF Fresh
<1> QED BY <1>1, <1>3, <1>5, <1>6, <1>7 DEF Blank
-----------------------------------------------------------------------------
(* What a stage leaves is over all cells, faces and edges of the domain.      *)

LEMMA CoveredAlways == StageInv /\ OrderInv /\ Covered /\ [Next]_vars => Covered'
<1> SUFFICES ASSUME StageInv, OrderInv, Covered, [Next]_vars PROVE Covered'
    OBVIOUS
<1>1. CASE NextDir
    BY <1>1, CoveredTurn
<1>2. CASE NextStage
  <2>1. StageInv'
      BY StepInv
  <2>2. Blank'
      BY <1>2, StageBlank
  <2> QED BY <2>1, <2>2, BlankCovered, PTL
<1>3. CASE Next /\ ~NextDir /\ ~NextStage
    BY <1>3, CoveredStep
<1>4. CASE UNCHANGED vars
  <2>1. conf' = conf /\ dir' = dir /\ mem' = mem /\ pc' = pc
      BY <1>4 DEF vars
  <2>2. \A call : (Been(call))' <=> Been(call)
      BY <2>1, WantedSame DEF Been, Place, Calls
  <2>3. \A call : (Done(call))' = Done(call)
      BY <2>1, <2>2 DEF Done, If
  <2>4. (Starved' <=> Starved) /\ Start' = Start /\ (Corners' <=> Corners)
        /\ (\A d : (Stored(d))' = Stored(d))
        /\ (\A term, arrays : (UserRead(term, arrays))' = UserRead(term, arrays))
        /\ BragCoefficients' = BragCoefficients
        /\ (Rkl' <=> Rkl) /\ Edges' = Edges /\ Derivatives' = Derivatives
      BY <2>1, ConfSame, PartsSame
  <2>5. UserFilled' = UserFilled
    <3>1. \A term, call, arrays : (Filling(term, call, arrays))' = Filling(term, call, arrays)
        BY <2>3, <2>4 DEF Filling, If
    <3>2. (Filling("bragConduction", "AddBragDiffusiveFlux", BragCoefficients))' =
          Filling("bragConduction", "AddBragDiffusiveFlux", BragCoefficients)
        BY <2>3, <2>4 DEF Filling, UserRead, If
    <3> QED BY <3>1, <3>2 DEF UserFilled
  <2>6. (UNION {Stored(d) : d \in Done("CalcFlux")})' = UNION {Stored(d) : d \in Done("CalcFlux")}
      BY <2>3, <2>4
  <2>7. Ready' = Ready
      BY <2>1, <2>2, <2>3, <2>4, <2>5, <2>6 DEF Ready, If, Names
  <2>8. Moved' <=> Moved
      BY <2>2 DEF Moved
  <2>9. \A a, moved : (Need(a, moved))' = Need(a, moved)
      BY <2>1, NeedSame
  <2>10. SUFFICES ASSUME ~Starved, NEW moved \in BOOLEAN, moved <=> Moved, NEW a \in Ready \cap DOMAIN mem
                  PROVE Covers(mem, a, Need(a, moved))
      BY <2>1, <2>4, <2>7, <2>8, <2>9 DEF Covered, Covers
  <2> QED BY <2>10 DEF Covered
<1> QED BY <1>1, <1>2, <1>3, <1>4 DEF Next

LEMMA CoveredInvariant == Spec => [](StageInv /\ OrderInv /\ Covered)
<1>1. Init => Covered
    BY InitInv, InitBlank, BlankCovered
<1>2. Ledger => OrderInv
    BY DEF Ledger
<1>3. StageInv /\ OrderInv /\ Covered /\ [Next]_vars => Covered'
    BY CoveredAlways
<1> QED BY <1>1, <1>2, <1>3, LedgerInvariant, PTL DEF Spec

LEMMA FacesNeed ==
    ASSUME Setting, NEW d \in Active, NEW moved \in BOOLEAN, moved
    PROVE Need(BXs[d], moved) = Faces(d) /\ Need(dB[d], moved) = Faces(d)
<1>1. d \in Dirs /\ Active \subseteq Dirs
    BY AtEdgeNames
<1>2. Faces(d) = [e \in Dirs |-> IF e = d THEN <<0, 1>> ELSE <<0, 0>>]
    BY <1>1 DEF Faces, Interior, Region
<1>3. Along(d, 0, 1)[d] = <<0, 1>>
    BY <1>1 DEF Along
<1>4. Need(BXs[d], moved) = [e \in Dirs |-> IF e = d THEN Along(e, 0, 1)[e] ELSE <<0, 0>>]
  <2>1. Need(BXs[d], moved) =
            [e \in Dirs |-> IF e = d
                            THEN IF moved THEN Along(e, 0, 1)[e] ELSE Along(e, nghost, nghost + 1)[e]
                            ELSE IF moved THEN <<0, 0>> ELSE Wherever[e]]
      BY <1>1, NeedField, ZenonT(30)
  <2> QED BY <2>1
<1>5. Need(dB[d], moved) = [e \in Dirs |-> IF e = d THEN Along(e, 0, 1)[e] ELSE <<0, 0>>]
    BY <1>1, NeedRate
<1> QED BY <1>2, <1>3, <1>4, <1>5

\* The arrays of a complete stage, one after the other.
LEMMA Ended ==
    ASSUME StageInv, OrderInv, Covered, pc = "done", ~Starved, NEW a \in Ready, a \in Allocated,
           NEW moved \in BOOLEAN, moved <=> Moved
    PROVE IsBox(mem[a].valid) /\ Within(Need(a, moved), mem[a].valid)
<1>1. a \in Ready \cap DOMAIN mem
    BY DEF StageInv
<1> QED BY <1>1 DEF Covered, Covers

\* Two ghost cells, three at order 4, are enough for every option that a stage can
\* have: what it ends with is computed in each cell, face and edge of the domain
\* from values that were there when they were read.
THEOREM StagesReachAllCells == Spec => []StageComplete
<1>1. ASSUME StageInv, OrderInv, Covered PROVE StageComplete
  <2>1. SUFFICES ASSUME pc = "done", ~Starved
                 PROVE /\ LoopDirs => Complete(Interior, {IF Rkl THEN "dU" ELSE "Uc"})
                       /\ conf.cycle # "rklAgain" => Complete(Interior, {"InvDt"})
                       /\ conf.tracer /\ ~Rkl => Complete(Interior, {"UcTracer"})
                       /\ Corners /\ ~Rkl =>
                             /\ \A d \in Active : Complete(Faces(d), {BXs[d]})
                             /\ Complete(Interior, {"UcField"})
                       /\ Rkl /\ haveVs =>
                             IF conf.vecpot
                             THEN \A e \in Edges : Complete([AllEdges EXCEPT ![e] = Interior[e]], {dA[e]})
                             ELSE \A d \in Active : Complete(Faces(d), {dB[d]})
      BY DEF StageComplete
  <2>2. Setting /\ DOMAIN mem = Allocated
      BY <1>1 DEF StageInv
  <2>3. PICK moved \in BOOLEAN : moved <=> Moved
      OBVIOUS
  <2>4. \A a \in Ready \cap Allocated : IsBox(mem[a].valid) /\ Within(Need(a, moved), mem[a].valid)
      BY <1>1, <2>1, <2>3, Ended
  <2>5. \A call \in Named \ {"done"} : Been(call) <=> Wanted(call)
      BY <1>1, <2>1, AtDone
  <2>6. \A a \in Ready \cap Allocated \cap InCells : Complete(Interior, {a})
      BY <2>4, NeedCells DEF Complete
  <2>7. Rkl => Derivatives \subseteq Ready \cap Allocated
    <3>1. Rkl => Been("ResetStage")
        BY <2>5, OutsideWanted, AllNamed
    <3> QED BY <2>2, <3>1, DerivativesAllocated, ReadyOf
  <2>8. LoopDirs => Complete(Interior, {IF Rkl THEN "dU" ELSE "Uc"})
    <3>1. CASE Rkl
      <4>1. LoopDirs => "dU" \in Derivatives
          BY DEF Derivatives
      <4> QED BY <2>6, <2>7, <3>1, <4>1 DEF InCells
    <3>2. CASE ~Rkl
        BY <2>6, <3>2, StartReady, AllocatedAlways DEF InCells
    <3> QED BY <3>1, <3>2
  <2>9. Complete(Interior, {"InvDt"})
      BY <2>6, StartReady, AllocatedAlways DEF InCells
  <2>10. conf.tracer => Complete(Interior, {"UcTracer"})
      BY <2>6, StartReady, AllocatedFluid DEF InCells
  <2>11. ASSUME Corners, ~Rkl
         PROVE (\A d \in Active : Complete(Faces(d), {BXs[d]})) /\ Complete(Interior, {"UcField"})
    <3>1. Been("EvolveMagField") /\ Been("ReconstructVcField") /\ conf.phys = "mhd"
      <4>1. Wanted("EvolveMagField") /\ Wanted("ReconstructVcField")
          BY <2>11, OutsideWanted
      <4> QED BY <2>5, <2>11, <4>1, AllNamed DEF Corners, Mhd
    <3>2. moved
        BY <2>3, <3>1 DEF Moved
    <3>3. "UcField" \in Ready \cap Allocated \cap InCells
        BY <3>1, ReadyOf, AllocatedFluid DEF InCells
    <3>4. ASSUME NEW d \in Active PROVE Complete(Faces(d), {BXs[d]})
      <4>1. BXs[d] \in Ready \cap Allocated
        <5>1. d \in Dirs
            BY <2>2, AtEdgeNames
        <5> QED BY <3>1, <5>1, StartReady, AllocatedFluid DEF Names
      <4>2. Need(BXs[d], moved) = Faces(d)
          BY <2>2, <3>2, FacesNeed
      <4> QED BY <2>4, <4>1, <4>2 DEF Complete
    <3> QED BY <2>6, <3>3, <3>4
  <2>12. ASSUME Rkl, haveVs, conf.vecpot, NEW e \in Edges
         PROVE Complete([AllEdges EXCEPT ![e] = Interior[e]], {dA[e]})
    <3>1. dA[e] \in Ready \cap Allocated /\ e \in Dirs
      <4>1. dA[e] \in Derivatives
          BY <2>12 DEF Derivatives, Names
      <4> QED BY <2>2, <2>7, <2>12, <4>1, AtEdgeNames
    <3>2. Need(dA[e], moved) = AllEdges
        BY <3>1, NeedEdge
    <3>3. PICK box : box = mem[dA[e]].valid
        OBVIOUS
    <3>4. IsBox(box) /\ Within(AllEdges, box)
        BY <2>4, <3>1, <3>2, <3>3
    <3>5. Within([AllEdges EXCEPT ![e] = Interior[e]], box)
      <4>1. Within([AllEdges EXCEPT ![e] = Interior[e]], AllEdges)
          BY DEF Within, AllEdges, Interior, Region
      <4>2. IsBox([AllEdges EXCEPT ![e] = Interior[e]]) /\ IsBox(AllEdges)
          BY DEF IsBox, AllEdges, Interior, Region
      <4> QED BY <3>4, <4>1, <4>2, WithinWithin
    <3> QED BY <3>3, <3>5 DEF Complete
  <2>13. ASSUME Rkl, haveVs, ~conf.vecpot, NEW d \in Active PROVE Complete(Faces(d), {dB[d]})
    <3>1. dB[d] \in Ready \cap Allocated /\ d \in Dirs
      <4>1. dB[d] \in Derivatives
          BY <2>13 DEF Derivatives, Names
      <4> QED BY <2>2, <2>7, <2>13, <4>1, AtEdgeNames
    <3>2. Need(dB[d], moved) = Faces(d)
      <4>1. Wanted("EvolveMagField")
          BY <2>13, OutsideWanted
      <4>2. moved
          BY <2>3, <2>5, <4>1, AllNamed DEF Moved
      <4> QED BY <2>2, <4>2, FacesNeed
    <3> QED BY <2>4, <3>1, <3>2 DEF Complete
  <2> QED BY <2>8, <2>9, <2>10, <2>11, <2>12, <2>13
<1> QED BY <1>1, CoveredInvariant, PTL
=============================================================================
