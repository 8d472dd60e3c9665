----------------------------- MODULE HaloProofs -----------------------------
(***************************************************************************)
(* Proof that the ghosts SetBoundaries leaves are those of a single        *)
(* process: GhostsAreSerial of Halo, for all values of its constants.      *)
(*                                                                         *)
(* Exact says which cells and faces of an array hold what a single process *)
(* would have there: the active ones before the first exchange, then those *)
(* beyond each side in turn.  The ghosts of one direction are taken only   *)
(* from what Exact already covers, in the process itself (EnforcedExact),  *)
(* in its neighbour (PackGood) or across the axis (AxisPackGood).  The     *)
(* inductive invariant, IInv, says so of the arrays of each process, of    *)
(* the buffers that are being sent, and of the messages on their way: they *)
(* are counted, as Begun and Got, so that the first of a queue is the one  *)
(* of the stage, and of the side of the axis, the receiver awaits.         *)
(***************************************************************************)
EXTENDS Halo, TLAPS

-----------------------------------------------------------------------------
(* Arithmetic, and what the constants and the indices are *)

LEMMA Quotients ==
  ASSUME NEW C \in Int, C > 0, NEW y \in Int
  PROVE  /\ y \div C \in Int
         /\ y = C * (y \div C) + (y % C)
         /\ y % C \in 0..(C - 1)
OBVIOUS

LEMMA Remainder ==
  ASSUME NEW C \in Int, C > 0, NEW y \in Int, NEW k \in Int, NEW r \in 0..C - 1, y = k * C + r
  PROVE  y % C = r /\ y \div C = k
<1> DEFINE q == y \div C
           z == y % C
<1>1. q \in Int /\ z \in Int /\ 0 <= z /\ z < C /\ y = C * q + z
  OBVIOUS
<1> HIDE DEF q, z
<1>2. C * (k - q) = z - r
  BY <1>1
<1>3. k - q <= 0
  <2>1. SUFFICES ASSUME k - q >= 1 PROVE FALSE
    BY <1>1
  <2>2. C * (k - q) >= C
    BY <2>1, <1>1
  <2> QED BY <2>2, <1>2, <1>1
<1>4. k - q >= 0
  <2>1. SUFFICES ASSUME k - q <= -1 PROVE FALSE
    BY <1>1
  <2>2. C * (k - q) <= -C
    BY <2>1, <1>1
  <2> QED BY <2>2, <1>2, <1>1
<1>5. k = q
  BY <1>3, <1>4, <1>1
<1>6. r = z
  BY <1>2, <1>5, <1>1
<1> QED BY <1>5, <1>6 DEF q, z

LEMMA WholeTurns ==
  ASSUME NEW C \in Int, C > 0, NEW y \in Int, NEW k \in Int, NEW z \in Int, z = y + (k * C)
  PROVE  z % C = y % C
<1> DEFINE q == y \div C
           r == y % C
<1>1. q \in Int /\ r \in 0..C - 1 /\ y = C * q + r
  BY Quotients
<1> HIDE DEF q, r
<1>2. PICK m \in Int : m = q + k
  BY <1>1
<1>3. z = (m * C) + r
  BY <1>1, <1>2
<1>4. r \in 0..C - 1
  BY <1>1
<1>5. z % C = r
  BY <1>3, <1>4, Remainder
<1> QED BY <1>5 DEF r

LEMMA ProcIs ==
  ASSUME NEW r \in Procs
  PROVE  /\ r[1] \in 0..NProc[1] - 1 /\ r[2] \in 0..NProc[2] - 1
         /\ r = <<r[1], r[2]>>
         /\ \A z : [r EXCEPT ![1] = z] = <<z, r[2]>> /\ [r EXCEPT ![2] = z] = <<r[1], z>>
<1>1. PICK a \in 0..NProc[1] - 1, b \in 0..NProc[2] - 1 : r = <<a, b>>
  BY DEF Procs
<1> QED BY <1>1

LEMMA SiteIs ==
  ASSUME NEW s \in Sites
  PROVE  /\ s[1] \in Kinds /\ s[2] \in Int /\ s[3] \in Int
         /\ s = <<s[1], s[2], s[3]>>
         /\ \A z : [s EXCEPT ![2] = z] = <<s[1], z, s[3]>> /\ [s EXCEPT ![3] = z] = <<s[1], s[2], z>>
<1>1. PICK k \in Kinds : \E i \in 0..(NTot(1) - 1 + Extra(k, 1)), j \in 0..(NTot(2) - 1 + Extra(k, 2)) :
         s = <<k, i, j>>
  BY DEF Sites
<1> QED BY <1>1

LEMMA KindIs ==
  ASSUME NEW k \in Kinds
  PROVE  /\ Normal[k] \in {0, 1, 2} /\ k \in {"Vc", "BX1s", "BX2s"}
         /\ Normal["Vc"] = 0 /\ Normal["BX1s"] = 1 /\ Normal["BX2s"] = 2
         /\ Extra(k, 1) = (IF k = "BX1s" THEN 1 ELSE 0)
         /\ Extra(k, 2) = (IF k = "BX2s" THEN 1 ELSE 0)
         /\ Odd(k, 1) <=> k = "BX2s"
         /\ Odd(k, 2) <=> k = "BX1s"
BY DEF Kinds, Normal, Extra, Odd

LEMMA Numbers ==
  ASSUME NEW d \in Dirs
  PROVE  /\ d \in {1, 2} /\ NProc[d] \in Int /\ NProc[d] > 0 /\ NInt[d] \in Int /\ NInt[d] > 0
         /\ NGhost \in Int /\ NGhost >= 0 /\ NGlobal(d) \in Int /\ NGlobal(d) > 0
         /\ NGlobal(d) = NProc[d] * NInt[d]
<1>1. d \in {1, 2} /\ NProc[d] \in Int /\ NProc[d] > 0 /\ NInt[d] \in Int /\ NInt[d] > 0
      /\ NGhost \in Int /\ NGhost >= 0
  BY HaloAssumption DEF Dirs, HaloAssumption
<1>2. \A y, z \in Int : y > 0 /\ z > 0 => y * z \in Int /\ y * z > 0
  OBVIOUS
<1> QED BY <1>1, <1>2 DEF NGlobal

LEMMA Bounds ==
  ASSUME NEW d \in Dirs
  PROVE  /\ Periodic(d) => BoundOf(d, 0) = "periodic" /\ BoundOf(d, 1) = "periodic"
         /\ ~Periodic(d) => \A x \in Sides : BoundOf(d, x) \in {"outflow", "reflective", "axis"}
         /\ d = 2 => \A x \in Sides : BoundOf(d, x) # "axis"
<1> d \in {1, 2} /\ Sides = {0, 1}
  BY DEF Dirs, Sides
<1>1. /\ Bound[d] = <<"periodic", "periodic">> \/ Bound[d] \in {"outflow", "reflective", "axis"} \X {"outflow", "reflective", "axis"}
      /\ Bound[2][1] # "axis" /\ Bound[2][2] # "axis"
  BY HaloAssumption DEF HaloAssumption, Dirs
<1>2. BoundOf(d, 0) = Bound[d][1] /\ BoundOf(d, 1) = Bound[d][2]
  BY DEF BoundOf
<1>3. CASE Bound[d] = <<"periodic", "periodic">>
  BY <1>1, <1>2, <1>3 DEF Periodic
<1>4. CASE Bound[d] \in {"outflow", "reflective", "axis"} \X {"outflow", "reflective", "axis"}
  <2>1. PICK y \in {"outflow", "reflective", "axis"}, z \in {"outflow", "reflective", "axis"} : Bound[d] = <<y, z>>
    BY <1>4
  <2>2. Bound[d][1] = y /\ Bound[d][2] = z
    BY <2>1
  <2> QED BY <2>2, <1>1, <1>2 DEF Periodic
<1> QED BY <1>1, <1>3, <1>4

LEMMA SitesAre ==
  ASSUME NEW k, NEW i, NEW j
  PROVE  <<k, i, j>> \in Sites <=> /\ k \in Kinds
                                   /\ i \in 0..(NTot(1) - 1 + Extra(k, 1))
                                   /\ j \in 0..(NTot(2) - 1 + Extra(k, 2))
<1>1. ASSUME <<k, i, j>> \in Sites
      PROVE  k \in Kinds /\ i \in 0..(NTot(1) - 1 + Extra(k, 1)) /\ j \in 0..(NTot(2) - 1 + Extra(k, 2))
  <2>1. PICK l \in Kinds : \E m \in 0..(NTot(1) - 1 + Extra(l, 1)), n \in 0..(NTot(2) - 1 + Extra(l, 2)) :
          <<k, i, j>> = <<l, m, n>>
    BY <1>1 DEF Sites
  <2> QED BY <2>1
<1>2. ASSUME k \in Kinds, i \in 0..(NTot(1) - 1 + Extra(k, 1)), j \in 0..(NTot(2) - 1 + Extra(k, 2))
      PROVE  <<k, i, j>> \in Sites
  BY <1>2 DEF Sites
<1> QED BY <1>1, <1>2

-----------------------------------------------------------------------------
(* Places *)

\* The coordinate of a site, turned to the opposite meridian beyond an axis.
Half == NGlobal(2) \div 2
Coordinate(r, s, d) == At(r, s, d) + IF d = 2 /\ TwoPi /\ Crosses(r, s) THEN Half ELSE 0

\* What a single process would have there, in stage n.
Right(r, s, n) == Value(Place(r, s), Owner(Place(r, s)), n, Sign(r, s))

LEMMA AtIs ==
  ASSUME NEW r \in Procs, NEW s \in Sites, NEW d \in Dirs
  PROVE  /\ At(r, s, d) \in Int /\ Index(s, d) \in Int /\ r[d] \in Int /\ Coordinate(r, s, d) \in Int
         /\ r[d] * NInt[d] \in Int /\ At(r, s, d) = (r[d] * NInt[d]) + (Index(s, d) - NGhost)
         /\ Half \in Int /\ r[d] >= 0 /\ r[d] < NProc[d]
         /\ 0 <= Index(s, d) /\ Index(s, d) < NTot(d) + Extra(s[1], d)
<1>1. Index(s, d) \in Int /\ r[d] \in Int /\ r[d] >= 0 /\ r[d] < NProc[d]
  BY SiteIs, ProcIs, Numbers DEF Index, Dirs
<1>2. NInt[d] \in Int /\ NGhost \in Int
  BY Numbers
<1>3. r[d] * NInt[d] \in Int
  BY <1>1, <1>2
<1>4. Half \in Int
  BY Numbers, Quotients DEF Half, Dirs
<1>5. 0 <= Index(s, d) /\ Index(s, d) < NTot(d) + Extra(s[1], d)
  <2>1. <<s[1], s[2], s[3]>> \in Sites
    BY SiteIs
  <2>2. s[1] \in Kinds /\ s[2] \in 0..(NTot(1) - 1 + Extra(s[1], 1)) /\ s[3] \in 0..(NTot(2) - 1 + Extra(s[1], 2))
    BY <2>1, SitesAre
  <2>3. \A e \in {1, 2} : NTot(e) \in Int /\ Extra(s[1], e) \in Int
    BY Numbers, KindIs, <2>2 DEF Dirs, NTot
  <2> QED BY <2>2, <2>3 DEF Dirs, Index
<1> QED BY <1>1, <1>2, <1>3, <1>4, <1>5 DEF At, Coordinate

LEMMA PlaceIs ==
  ASSUME NEW r, NEW s
  PROVE  /\ Place(r, s) = [kind |-> s[1], at |-> Place(r, s).at]
         /\ Place(r, s).at = [d \in Dirs |-> Place(r, s).at[d]]
         /\ \A d \in Dirs : Place(r, s).at[d] = IF Extra(s[1], d) = 1 /\ ~Periodic(d) THEN Coordinate(r, s, d)
                                                ELSE Image(d, Coordinate(r, s, d))
<1> DEFINE to == [d \in Dirs |-> IF Extra(s[1], d) = 1 /\ ~Periodic(d) THEN Coordinate(r, s, d)
                                 ELSE Image(d, Coordinate(r, s, d))]
<1>1. Place(r, s) = [kind |-> s[1], at |-> to]
  BY DEF Place, Coordinate, Half
<1>2. to = [d \in Dirs |-> to[d]]
  OBVIOUS
<1>3. \A d \in Dirs : to[d] = IF Extra(s[1], d) = 1 /\ ~Periodic(d) THEN Coordinate(r, s, d)
                                 ELSE Image(d, Coordinate(r, s, d))
  OBVIOUS
<1> HIDE DEF to
<1>4. Place(r, s).at = to
  BY <1>1
<1> QED BY <1>1, <1>2, <1>3, <1>4

LEMMA PlaceAt ==
  ASSUME NEW r, NEW s, NEW d \in Dirs
  PROVE  Place(r, s).at[d] = IF Extra(s[1], d) = 1 /\ ~Periodic(d) THEN Coordinate(r, s, d)
                             ELSE Image(d, Coordinate(r, s, d))
BY PlaceIs

LEMMA SameOnDirs ==
  ASSUME NEW f, NEW g, f = [d \in Dirs |-> f[d]], g = [d \in Dirs |-> g[d]], f[1] = g[1], f[2] = g[2]
  PROVE  f = g
BY DEF Dirs

LEMMA SamePlace ==
  ASSUME NEW r, NEW s, NEW q, NEW t, s[1] = t[1],
         Place(r, s).at[1] = Place(q, t).at[1], Place(r, s).at[2] = Place(q, t).at[2]
  PROVE  Place(r, s) = Place(q, t)
<1> DEFINE f == Place(r, s).at
           g == Place(q, t).at
<1>1. Place(r, s) = [kind |-> s[1], at |-> f] /\ f = [d \in Dirs |-> f[d]]
  BY PlaceIs
<1>2. Place(q, t) = [kind |-> t[1], at |-> g] /\ g = [d \in Dirs |-> g[d]]
  BY PlaceIs
<1>3. f[1] = g[1] /\ f[2] = g[2]
  OBVIOUS
<1> HIDE DEF f, g
<1>4. f = g
  BY <1>1, <1>2, <1>3, SameOnDirs
<1> QED BY <1>1, <1>2, <1>4

LEMMA OwnerIs ==
  ASSUME NEW p, NEW r \in Procs,
         \A d \in Dirs : r[d] = IF p.at[d] = NGlobal(d) THEN NProc[d] - 1 ELSE p.at[d] \div NInt[d]
  PROVE Owner(p) = r
BY ProcIs DEF Owner, Dirs

LEMMA SignedIs ==
  ASSUME NEW p, NEW r, NEW n, NEW g, NEW k, NEW d
  PROVE  Signed(Value(p, r, n, g), k, d) = Value(p, r, n, IF Odd(k, d) THEN -g ELSE g)
BY DEF Value, Signed

LEMMA ImageIs ==
  ASSUME NEW d \in Dirs, NEW g \in Int
  PROVE  /\ Periodic(d) => Image(d, g) = g % NGlobal(d) /\ Beyond(d, g) \in {"periodic", "none"}
         /\ 0 <= g /\ g < NGlobal(d) => Image(d, g) = g /\ Beyond(d, g) = "none"
         /\ ~Periodic(d) /\ g < 0 => /\ Beyond(d, g) = BoundOf(d, 0)
                                     /\ Image(d, g) = IF BoundOf(d, 0) = "outflow" THEN 0 ELSE -1 - g
         /\ ~Periodic(d) /\ g >= NGlobal(d) =>
              /\ Beyond(d, g) = BoundOf(d, 1)
              /\ Image(d, g) = IF BoundOf(d, 1) = "outflow" THEN NGlobal(d) - 1 ELSE 2 * NGlobal(d) - 1 - g
<1>1. NGlobal(d) \in Int /\ NGlobal(d) > 0
  BY Numbers
<1>2. CASE Periodic(d)
  <2>1. Beyond(d, g) \in {"periodic", "none"}
    BY <1>2, Bounds DEF Beyond
  <2>2. Image(d, g) = g % NGlobal(d)
    BY <1>2, <2>1 DEF Image
  <2> QED BY <2>1, <2>2, <1>1, <1>2 DEF Beyond
<1>3. CASE ~Periodic(d)
  <2>1. BoundOf(d, 0) \in {"outflow", "reflective", "axis"} /\ BoundOf(d, 1) \in {"outflow", "reflective", "axis"}
    BY <1>3, Bounds DEF Sides
  <2>2. CASE 0 <= g /\ g < NGlobal(d)
    BY <1>1, <1>3, <2>2 DEF Beyond, Image
  <2>3. CASE g < 0
    BY <1>1, <1>3, <2>1, <2>3 DEF Beyond, Image
  <2>4. CASE g >= NGlobal(d)
    BY <1>1, <1>3, <2>1, <2>4 DEF Beyond, Image
  <2> QED BY <2>2, <2>3, <2>4, <1>1, <1>3
<1> QED BY <1>2, <1>3

\* Only one of the directions changes the sign of a kind.
LEMMA SignIs ==
  ASSUME NEW r \in Procs, NEW s \in Sites
  PROVE  Sign(r, s) = IF \E d \in Dirs : Odd(s[1], d) /\ Beyond(d, At(r, s, d)) \in {"reflective", "axis"}
                      THEN -1 ELSE 1
<1> DEFINE F == Flipped(r, s)
<1>1. \A d : d \in F <=> d \in Dirs /\ Odd(s[1], d) /\ Beyond(d, At(r, s, d)) \in {"reflective", "axis"}
  BY DEF Flipped
<1>2. ~(1 \in F /\ 2 \in F)
  BY <1>1, SiteIs, KindIs
<1>3. Sign(r, s) = IF F \in {{}, {1, 2}} THEN 1 ELSE -1
  BY DEF Sign
<1> HIDE DEF F
<1>4. F \subseteq Dirs
  BY <1>1
<1>5. CASE \E d \in Dirs : d \in F
  <2>1. F # {} /\ F # {1, 2}
    BY <1>5, <1>2
  <2> QED BY <2>1, <1>3, <1>5, <1>1
<1>6. CASE ~\E d \in Dirs : d \in F
  <2>1. F = {}
    BY <1>4, <1>6
  <2> QED BY <2>1, <1>3, <1>6, <1>1
<1> QED BY <1>5, <1>6

LEMMA Shifted ==
  ASSUME NEW C \in Int, C > 0, NEW y \in Int, NEW z \in Int, NEW h \in Int, y % C = z % C
  PROVE  (y + h) % C = (z + h) % C
<1> DEFINE k == (z + h) \div C
           e == (z + h) % C
           a == y \div C
           b == z \div C
<1>1. /\ a \in Int /\ b \in Int /\ k \in Int /\ e \in 0..C - 1 /\ y % C \in Int
      /\ y = C * a + (y % C) /\ z = C * b + (y % C) /\ z + h = C * k + e
  BY Quotients
<1> HIDE DEF a, b, k, e
<1>2. y + h = ((k + a - b) * C) + e
  BY <1>1
<1>3. PICK m \in Int, w \in Int : m = k + a - b /\ w = y + h
  BY <1>1
<1>4. w = (m * C) + e
  BY <1>2, <1>3
<1>5. k \in Int /\ e \in 0..C - 1
  BY <1>1
<1>6. w % C = e
  BY <1>3, <1>4, <1>5, Remainder
<1> QED BY <1>3, <1>6 DEF e

\* That two sites stand for the same coordinate, a whole turn of a periodic grid apart.
Same(r, s, q, t, d) ==
  \/ At(r, s, d) = At(q, t, d)
  \/ Periodic(d) /\ At(r, s, d) % NGlobal(d) = At(q, t, d) % NGlobal(d)

\* They have the same value.
LEMMA Congruent ==
  ASSUME NEW r \in Procs, NEW s \in Sites, NEW q \in Procs, NEW t \in Sites, s[1] = t[1],
         Same(r, s, q, t, 1), Same(r, s, q, t, 2), NEW n
  PROVE  /\ Right(r, s, n) = Right(q, t, n)
         /\ Reconstructed(r, s) <=> Reconstructed(q, t)
<1>0. 1 \in Dirs /\ 2 \in Dirs /\ Dirs = {1, 2}
  BY DEF Dirs
<1>1. ASSUME NEW d \in Dirs, Periodic(d), NEW g \in Int
      PROVE  Beyond(d, g) \in {"periodic", "none"}
  BY <1>1, ImageIs
<1>2. Crosses(r, s) <=> Crosses(q, t)
  BY <1>0, <1>1, AtIs DEF Crosses, Same
<1>3. ASSUME NEW d \in Dirs
      PROVE  Place(r, s).at[d] = Place(q, t).at[d]
  <2> DEFINE h == IF d = 2 /\ TwoPi /\ Crosses(r, s) THEN Half ELSE 0
             C == NGlobal(d)
  <2>1. /\ h \in Int /\ At(r, s, d) \in Int /\ At(q, t, d) \in Int /\ C \in Int /\ C > 0
        /\ Coordinate(r, s, d) = At(r, s, d) + h /\ Coordinate(q, t, d) = At(q, t, d) + h
    BY AtIs, Numbers, <1>2 DEF Coordinate
  <2>2. Same(r, s, q, t, d)
    BY <1>0
  <2> HIDE DEF h
  <2>3. CASE At(r, s, d) = At(q, t, d)
    BY <2>1, <2>3, PlaceAt
  <2>4. CASE Periodic(d) /\ At(r, s, d) % C = At(q, t, d) % C
    <3>1. PICK y \in Int, z \in Int : y = At(r, s, d) /\ z = At(q, t, d)
      BY <2>1
    <3>2. (y + h) % C = (z + h) % C
      <4>1. y % C = z % C /\ C \in Int /\ C > 0 /\ h \in Int
        BY <2>1, <2>4, <3>1
      <4> HIDE DEF C
      <4> QED BY <4>1, Shifted
    <3>3. Image(d, Coordinate(r, s, d)) = (y + h) % C /\ Image(d, Coordinate(q, t, d)) = (z + h) % C
      BY <2>1, <2>4, <3>1, ImageIs
    <3> QED BY <3>2, <3>3, <2>4, PlaceAt
  <2> QED BY <2>2, <2>3, <2>4 DEF Same
<1>4. Place(r, s) = Place(q, t)
  BY <1>0, <1>3, SamePlace
<1>5. ASSUME NEW d \in Dirs
      PROVE  Beyond(d, At(r, s, d)) \in {"reflective", "axis"} <=> Beyond(d, At(q, t, d)) \in {"reflective", "axis"}
  BY <1>0, <1>1, AtIs DEF Same
<1>6. Sign(r, s) = Sign(q, t)
  BY <1>5, SignIs
<1>7. Reconstructed(r, s) <=> Reconstructed(q, t)
  <2>1. \A d \in Dirs : ~Periodic(d) => At(r, s, d) = At(q, t, d)
    BY <1>0 DEF Same
  <2> QED BY <2>1 DEF Reconstructed
<1> QED BY <1>4, <1>6, <1>7 DEF Right

\* A site that a process computes itself, or that has come to it: active, without
\* the last face of a direction where that is its right neighbour's.
OwnIn(r, s, d) ==
  /\ Index(s, d) >= Beg
  /\ \/ Index(s, d) < End(d)
     \/ Index(s, d) = End(d) /\ Extra(s[1], d) = 1 /\ ~Periodic(d) /\ r[d] = NProc[d] - 1

\* Owner gives such a site to the process.
LEMMA OwnAt ==
  ASSUME NEW r \in Procs, NEW s \in Sites, NEW d \in Dirs, OwnIn(r, s, d)
  PROVE  /\ At(r, s, d) >= 0 /\ At(r, s, d) <= NGlobal(d)
         /\ Extra(s[1], d) = 0 \/ Periodic(d) => At(r, s, d) < NGlobal(d)
         /\ r[d] = IF At(r, s, d) = NGlobal(d) THEN NProc[d] - 1 ELSE At(r, s, d) \div NInt[d]
<1> DEFINE a == r[d]
           A == NProc[d]
           C == NInt[d]
           G == NGlobal(d)
           g == At(r, s, d)
           i == Index(s, d) - NGhost
<1>1. /\ a \in Int /\ a >= 0 /\ a < A /\ A \in Int /\ C \in Int /\ C > 0 /\ i \in Int /\ a * C \in Int
      /\ g \in Int /\ g = (a * C) + i /\ G \in Int /\ G = A * C
  BY AtIs, Numbers
<1>2. \/ i \in 0..C - 1
      \/ i = C /\ Extra(s[1], d) = 1 /\ ~Periodic(d) /\ a = A - 1
  BY AtIs, Numbers DEF OwnIn, Beg, End
<1> HIDE DEF a, A, C, G, g, i
<1>3. a * C >= 0 /\ (A - 1 - a) * C >= 0
  BY <1>1
<1>4. (A - 1 - a) * C = G - C - (a * C)
  BY <1>1
<1>5. CASE i \in 0..C - 1
  <2>1. g >= 0 /\ g < G
    BY <1>5, <1>4, <1>3, <1>1
  <2>2. g \div C = a
    BY <1>5, <1>1, Remainder
  <2> QED BY <2>1, <2>2, <1>1 DEF a, A, C, G, g
<1>6. CASE i = C /\ Extra(s[1], d) = 1 /\ ~Periodic(d) /\ a = A - 1
  <2>1. g = G /\ G >= 0
    BY <1>6, <1>4, <1>3, <1>1
  <2> QED BY <2>1, <1>6, <1>1 DEF a, A, C, G, g
<1> QED BY <1>2, <1>5, <1>6

LEMMA OwnRight ==
  ASSUME NEW r \in Procs, NEW s \in Sites, \A d \in Dirs : OwnIn(r, s, d), NEW n
  PROVE  Right(r, s, n) = Value(Place(r, s), r, n, 1)
<1>0. 1 \in Dirs /\ 2 \in Dirs /\ s[1] \in Kinds
  BY SiteIs DEF Dirs
<1>1. ASSUME NEW d \in Dirs, Extra(s[1], d) = 0 \/ Periodic(d)
      PROVE  Image(d, At(r, s, d)) = At(r, s, d) /\ Beyond(d, At(r, s, d)) = "none"
  BY <1>1, OwnAt, AtIs, ImageIs
<1>2. ~Crosses(r, s)
  BY <1>0, <1>1 DEF Crosses
<1>3. ASSUME NEW d \in Dirs
      PROVE  Place(r, s).at[d] = At(r, s, d)
  <2>1. Coordinate(r, s, d) = At(r, s, d)
    BY <1>2, AtIs DEF Coordinate
  <2>2. Extra(s[1], d) \in {0, 1}
    BY DEF Extra
  <2> QED BY <2>1, <2>2, <1>1, PlaceAt
<1>4. Owner(Place(r, s)) = r
  BY <1>3, OwnAt, OwnerIs
<1>5. Sign(r, s) = 1
  <2>1. ASSUME NEW d \in Dirs, Odd(s[1], d)
        PROVE  Extra(s[1], d) = 0
    BY <2>1 DEF Odd, Extra
  <2> QED BY <2>1, <1>1, SignIs
<1> QED BY <1>4, <1>5 DEF Right

\* What is beyond a physical boundary: the value of its image, with its sign.
\* A site beyond a wall, an outflow or an axis has the value of the one whose
\* image it is, with its sign.
LEMMA Mirrored ==
  ASSUME Wide, NEW r \in Procs, NEW s \in Sites, NEW q \in Procs, NEW t \in Sites, s[1] = t[1], NEW n,
         NEW d \in Dirs, NEW e \in Dirs, e # d, NEW x \in Sides, ~Periodic(d), Extra(s[1], d) = 0,
         IF x = 0 THEN At(r, s, d) < 0 ELSE At(r, s, d) >= NGlobal(d),
         At(q, t, d) = Image(d, At(r, s, d)), 0 <= At(q, t, d), At(q, t, d) < NGlobal(d),
         IF BoundOf(d, x) = "axis" /\ TwoPi
           THEN At(q, t, e) % NGlobal(e) = (At(r, s, e) + Half) % NGlobal(e)
           ELSE At(q, t, e) = At(r, s, e)
  PROVE  /\ Right(r, s, n) = IF BoundOf(d, x) \in {"reflective", "axis"}
                               THEN Signed(Right(q, t, n), s[1], d) ELSE Right(q, t, n)
         /\ Reconstructed(r, s) <=> Reconstructed(q, t)
<1> DEFINE b == BoundOf(d, x)
<1>0. /\ Dirs = {1, 2} /\ 1 \in Dirs /\ 2 \in Dirs /\ s[1] \in Kinds /\ x \in {0, 1}
      /\ \A f \in Dirs : At(r, s, f) \in Int /\ At(q, t, f) \in Int
      /\ Half \in Int /\ NGlobal(d) \in Int /\ NGlobal(d) > 0
  BY SiteIs, AtIs, Numbers DEF Dirs, Sides
<1>1. Beyond(d, At(r, s, d)) = b /\ Beyond(d, At(q, t, d)) = "none" /\ b # "none"
      /\ Image(d, At(q, t, d)) = At(q, t, d)
  BY <1>0, ImageIs, Bounds
<1>2. d = 2 => b # "axis"
  BY Bounds
<1>3. ASSUME TwoPi, Crosses(r, s) \/ Crosses(q, t) \/ b = "axis"
      PROVE  d = 1 /\ e = 2 /\ Periodic(2) /\ b = "axis" /\ Crosses(r, s) /\ ~Crosses(q, t)
  <2>1. ASSUME NEW g \in Int, Beyond(1, g) = "axis"
        PROVE  Periodic(2)
    <3>1. BoundOf(1, 0) = "axis" \/ BoundOf(1, 1) = "axis"
      BY <2>1 DEF Beyond
    <3> QED BY <3>1, <1>3 DEF Wide
  <2>2. Periodic(2)
    BY <1>3, <2>1, <1>0, <1>1, <1>2 DEF Crosses
  <2>3. d = 1 /\ e = 2
    BY <2>2, <1>0
  <2> QED BY <2>2, <2>3, <1>1, <1>3 DEF Crosses
<1>4. Place(r, s).at[d] = Place(q, t).at[d]
  <2>1. Coordinate(r, s, d) = At(r, s, d) /\ Coordinate(q, t, d) = At(q, t, d)
    BY <1>3, <1>0 DEF Coordinate
  <2> QED BY <2>1, <1>1, PlaceAt
<1>5. Place(r, s).at[e] = Place(q, t).at[e]
  <2>1. CASE TwoPi /\ b = "axis"
    <3>1. e = 2 /\ Periodic(2) /\ Crosses(r, s) /\ ~Crosses(q, t)
      BY <1>3, <2>1
    <3>2. Coordinate(r, s, e) = At(r, s, e) + Half /\ Coordinate(q, t, e) = At(q, t, e)
      BY <3>1, <2>1, <1>0 DEF Coordinate
    <3>3. Image(e, At(r, s, e) + Half) = (At(r, s, e) + Half) % NGlobal(e)
          /\ Image(e, At(q, t, e)) = At(q, t, e) % NGlobal(e)
      <4>1. At(r, s, e) + Half \in Int /\ At(q, t, e) \in Int
        BY <1>0
      <4> QED BY <4>1, <3>1, ImageIs
    <3> QED BY <3>1, <3>2, <3>3, <2>1, PlaceAt
  <2>2. CASE ~(TwoPi /\ b = "axis")
    <3>1. Coordinate(r, s, e) = At(r, s, e) /\ Coordinate(q, t, e) = At(q, t, e) /\ At(r, s, e) = At(q, t, e)
      BY <1>3, <2>2, <1>0 DEF Coordinate
    <3> QED BY <3>1, PlaceAt
  <2> QED BY <2>1, <2>2
<1>6. Place(r, s) = Place(q, t)
  BY <1>0, <1>4, <1>5, SamePlace
<1>7. /\ Beyond(e, At(r, s, e)) \in {"reflective", "axis"} <=> Beyond(e, At(q, t, e)) \in {"reflective", "axis"}
      /\ Periodic(e) \/ At(r, s, e) = At(q, t, e)
  <2>1. CASE TwoPi /\ b = "axis"
    BY <1>3, <2>1, <1>0, ImageIs
  <2>2. CASE ~(TwoPi /\ b = "axis")
    BY <2>2
  <2> QED BY <2>1, <2>2
<1>8. /\ Sign(q, t) = IF Odd(s[1], e) /\ Beyond(e, At(q, t, e)) \in {"reflective", "axis"} THEN -1 ELSE 1
      /\ Sign(r, s) = IF \/ Odd(s[1], e) /\ Beyond(e, At(q, t, e)) \in {"reflective", "axis"}
                         \/ Odd(s[1], d) /\ b \in {"reflective", "axis"} THEN -1 ELSE 1
  BY <1>0, <1>1, <1>7, SignIs
<1>9. ~(Odd(s[1], d) /\ Odd(s[1], e))
  BY <1>0, KindIs
<1>10. Sign(r, s) = IF Odd(s[1], d) /\ b \in {"reflective", "axis"} THEN -Sign(q, t) ELSE Sign(q, t)
  BY <1>8, <1>9
<1>11. Right(r, s, n) = IF b \in {"reflective", "axis"} THEN Signed(Right(q, t, n), s[1], d) ELSE Right(q, t, n)
  <2>1. Signed(Right(q, t, n), s[1], d)
          = Value(Place(q, t), Owner(Place(q, t)), n, IF Odd(s[1], d) THEN -Sign(q, t) ELSE Sign(q, t))
    BY SignedIs DEF Right
  <2> QED BY <2>1, <1>6, <1>10 DEF Right
<1>12. Reconstructed(r, s) <=> Reconstructed(q, t)
  BY <1>0, <1>7 DEF Reconstructed
<1> QED BY <1>11, <1>12

-----------------------------------------------------------------------------
(* What a process has of the grid: F holds the sides of direction e where  *)
(* its ghosts have been set, and those of the directions before are all.   *)

KnownIn(r, s, d, F) ==
  OwnIn(r, s, d) \/ (0 \in F /\ Index(s, d) < Beg) \/ (1 \in F /\ Index(s, d) >= End(d))

Held(r, s, e, F) == KnownIn(r, s, e, F) /\ (e = 1 => OwnIn(r, s, 2))

\* The array is right wherever the process holds something by now.
Exact(array, r, e, F, n) ==
  \A s \in Sites : Held(r, s, e, F) /\ ~Reconstructed(r, s) => array[s] = Right(r, s, n)

LEMMA ReferenceIs ==
  ASSUME Wide, NEW d \in Dirs, NEW x \in Sides, NEW i \in Int, 0 <= i,
         IF BoundOf(d, x) = "periodic" THEN TRUE
         ELSE IF x = 0 THEN i < Beg ELSE i >= End(d) /\ i < NTot(d),
         NEW y, y = Reference(d, x, i)
  PROVE  /\ y \in Int /\ Beg <= y /\ y < End(d)
         /\ BoundOf(d, x) = "periodic" => (y - NGhost) % NInt[d] = (i - NGhost) % NInt[d]
         /\ BoundOf(d, x) = "outflow" => y = NGhost + x * (NInt[d] - 1)
         /\ BoundOf(d, x) \in {"reflective", "axis"} => y = 2 * (NGhost + x * NInt[d]) - i - 1
<1> DEFINE C == NInt[d]
           g == NGhost
           b == BoundOf(d, x)
<1>1. C \in Int /\ C > 0 /\ g \in Int /\ g >= 0 /\ x \in {0, 1}
  BY Numbers DEF Sides
<1>2. b = "periodic" \/ b = "outflow" \/ b \in {"reflective", "axis"}
  BY <1>1, Bounds DEF Sides
<1>3. CASE b = "periodic"
  <2>1. y = g + ((i + g * (C - 1)) % C)
    BY <1>3 DEF Reference
  <2>2. PICK w \in Int, z \in Int : w = i + g * (C - 1) /\ z = i - g
    BY <1>1
  <2>3. w = z + (g * C)
    BY <1>1, <2>2
  <2> HIDE DEF C, g
  <2>4. w % C \in Int /\ 0 <= w % C /\ w % C < C
    BY <1>1
  <2>5. w % C = z % C
    BY <1>1, <2>3, WholeTurns
  <2>6. (w % C) % C = w % C
    BY <1>1, <2>4
  <2>7. y = g + (w % C)
    BY <2>1, <2>2
  <2>8. y - g = w % C /\ y \in Int
    BY <2>7, <2>4, <1>1
  <2> QED BY <2>8, <2>4, <2>5, <2>6, <2>2, <1>1, <1>3 DEF Beg, End, C, g
<1>4. CASE b = "outflow"
  <2>1. y = g + x * (C - 1)
    BY <1>4 DEF Reference
  <2> QED BY <2>1, <1>1, <1>4 DEF Beg, End
<1>5. CASE b \in {"reflective", "axis"}
  <2>1. y = 2 * (g + x * C) - i - 1
    BY <1>5 DEF Reference
  <2>2. g <= C
    BY <1>5 DEF Wide
  <2>3. IF x = 0 THEN i < g ELSE i >= g + C /\ i < C + 2 * g
    BY <1>5 DEF Beg, End, NTot
  <2> HIDE DEF C, g
  <2>4. CASE x = 0
    <3>1. y = 2 * g - i - 1
      BY <2>1, <2>4, <1>1
    <3>2. y \in Int /\ g <= y /\ y < g + C
      BY <3>1, <2>2, <2>3, <2>4, <1>1
    <3> QED BY <3>2, <2>1, <1>5 DEF Beg, End, C, g
  <2>5. CASE x = 1
    <3>1. y = 2 * (g + C) - i - 1
      BY <2>1, <2>5, <1>1
    <3>2. y \in Int /\ g <= y /\ y < g + C
      BY <3>1, <2>2, <2>3, <2>5, <1>1
    <3> QED BY <3>2, <2>1, <1>5 DEF Beg, End, C, g
  <2> QED BY <2>4, <2>5, <1>1
<1> QED BY <1>2, <1>3, <1>4, <1>5

LEMMA OppositeIs ==
  ASSUME NProc[2] = 1, NEW k \in Int, NGhost <= k, k < NGhost + NInt[2], NEW z, z = Opposite(k)
  PROVE  /\ z \in Int /\ Beg <= z /\ z < End(2)
         /\ (z - NGhost) % NGlobal(2) = (k - NGhost + Half) % NGlobal(2)
<1> DEFINE C == NInt[2]
           g == NGhost
           h == C \div 2
<1>1. C \in Int /\ C > 0 /\ g \in Int /\ NGlobal(2) = C /\ Half = h
  BY Numbers DEF Dirs, Half
<1>2. h \in Int /\ h >= 0
  BY <1>1
<1>3. PICK y \in Int : y = k - g + h
  BY <1>1, <1>2
<1>4. y >= 0
  BY <1>1, <1>2, <1>3
<1>5. z = g + (y % C)
  BY <1>3, <1>4 DEF Opposite
<1> HIDE DEF C, g, h
<1>6. y % C \in Int /\ 0 <= y % C /\ y % C < C
  BY <1>1
<1>7. (y % C) % C = y % C
  BY <1>1, <1>6
<1>8. z \in Int /\ z - g = y % C
  BY <1>5, <1>6, <1>1
<1> QED BY <1>8, <1>6, <1>7, <1>3, <1>1 DEF Beg, End, C, g

LEMMA TripleIs ==
  ASSUME NEW a, NEW b, NEW c, NEW z
  PROVE  /\ [<<a, b, c>> EXCEPT ![2] = z] = <<a, z, c>>
         /\ [<<a, b, c>> EXCEPT ![3] = z] = <<a, b, z>>
OBVIOUS

LEMMA SourceIs ==
  ASSUME NEW s \in Sites, NEW d \in Dirs, NEW x \in Sides
  PROVE  LET y == Reference(d, x, Index(s, d))
         IN  Source(s, d, x) =
               IF d = 1 THEN <<s[1], y, IF BoundOf(d, x) = "axis" /\ TwoPi THEN Opposite(s[3]) ELSE s[3]>>
               ELSE <<s[1], s[2], y>>
<1>1. CASE d = 1
  <2>1. [s EXCEPT ![d + 1] = Reference(d, x, @)] = <<s[1], Reference(d, x, s[2]), s[3]>>
    BY <1>1, SiteIs
  <2> QED BY <2>1, <1>1, TripleIs DEF Source, Index
<1>2. CASE d = 2
  <2>1. [s EXCEPT ![d + 1] = Reference(d, x, @)] = <<s[1], s[2], Reference(d, x, s[3])>>
    BY <1>2, SiteIs
  <2>2. BoundOf(d, x) # "axis"
    BY <1>2, Bounds
  <2> QED BY <2>1, <2>2, <1>2 DEF Source, Index
<1> QED BY <1>1, <1>2 DEF Dirs

\* The cell that a local boundary copies is one that the process has, and that
\* holds the value of the ghost.
LEMMA SourceRight ==
  ASSUME Wide, NEW r \in Procs, NEW s \in Sites, NEW d \in Dirs, NEW x \in Sides, NEW n,
         Local(r, d, x), Ghost(s, d, x), Periodic(d) \/ Extra(s[1], d) = 0,
         d = 1 => OwnIn(r, s, 2), NEW t, t = Source(s, d, x)
  PROVE  /\ t \in Sites /\ t[1] = s[1] /\ OwnIn(r, t, d) /\ (d = 1 => OwnIn(r, t, 2))
         /\ Reconstructed(r, s) <=> Reconstructed(r, t)
         /\ Right(r, s, n) = IF BoundOf(d, x) \in {"reflective", "axis"}
                               THEN Signed(Right(r, t, n), s[1], d) ELSE Right(r, t, n)
<1> DEFINE b == BoundOf(d, x)
           i == Index(s, d)
           j == s[3]
           y == Reference(d, x, i)
           turns == b = "axis" /\ TwoPi
<1>0. /\ Dirs = {1, 2} /\ 1 \in Dirs /\ 2 \in Dirs /\ d \in {1, 2} /\ x \in {0, 1} /\ s[1] \in Kinds
      /\ NGhost \in Int /\ NGhost >= 0 /\ NInt[1] \in Int /\ NInt[1] > 0 /\ NInt[2] \in Int /\ NInt[2] > 0
      /\ Extra(s[1], 1) \in {0, 1} /\ Extra(s[1], 2) \in {0, 1}
      /\ s[2] \in Int /\ j \in Int /\ i \in Int /\ i = s[d + 1]
  BY Numbers, SiteIs, KindIs DEF Dirs, Sides, Index
<1>1. 0 <= i /\ i < NTot(d) + Extra(s[1], d)
  BY AtIs
<1>2. IF b = "periodic" THEN Periodic(d) ELSE ~Periodic(d)
  BY <1>0, Bounds DEF Sides
<1>3. IF b = "periodic" THEN TRUE ELSE IF x = 0 THEN i < Beg ELSE i >= End(d) /\ i < NTot(d)
  BY <1>0, <1>1, <1>2 DEF Ghost, Beg, End, NTot
<1>4. /\ y \in Int /\ Beg <= y /\ y < End(d)
      /\ b = "periodic" => (y - NGhost) % NInt[d] = (i - NGhost) % NInt[d]
      /\ b = "outflow" => y = NGhost + x * (NInt[d] - 1)
      /\ b \in {"reflective", "axis"} => y = 2 * (NGhost + x * NInt[d]) - i - 1
  BY <1>0, <1>1, <1>3, ReferenceIs
<1>5. turns => d = 1 /\ Periodic(2) /\ NProc[2] = 1
  <2>1. ASSUME turns PROVE d = 1 /\ Periodic(2) /\ NProc[2] = 1
    <3>1. d = 1
      BY <2>1, <1>0, Bounds
    <3>2. Periodic(2)
      BY <3>1, <2>1, <1>0 DEF Wide
    <3>3. ~(NProc[2] > 1)
      BY <2>1 DEF Local, AcrossMPI, needMPIExchange
    <3> QED BY <3>1, <3>2, <3>3, Numbers, <1>0
  <2> QED BY <2>1
<1> DEFINE z == IF turns THEN Opposite(j) ELSE j
<1>6. turns => /\ z \in Int /\ Beg <= z /\ z < End(2)
               /\ (z - NGhost) % NGlobal(2) = (j - NGhost + Half) % NGlobal(2)
  <2>1. ASSUME turns PROVE NGhost <= j /\ j < NGhost + NInt[2] /\ NProc[2] = 1
    <3>1. OwnIn(r, s, 2)
      BY <1>5, <2>1
    <3> QED BY <3>1, <1>5, <2>1, <1>0 DEF OwnIn, Index, Beg, End
  <2> QED BY <2>1, <1>0, OppositeIs
<1> HIDE DEF z
<1>7. t = IF d = 1 THEN <<s[1], y, z>> ELSE <<s[1], s[2], y>>
  BY SourceIs DEF z
<1>8. t[1] = s[1] /\ Index(t, d) = y
  BY <1>7, <1>0 DEF Index
<1>9. t \in Sites
  <2>1. s[2] \in 0..(NTot(1) - 1 + Extra(s[1], 1)) /\ j \in 0..(NTot(2) - 1 + Extra(s[1], 2))
    BY SiteIs, SitesAre
  <2>2. NTot(1) = NInt[1] + 2 * NGhost /\ NTot(2) = NInt[2] + 2 * NGhost
        /\ End(1) = NGhost + NInt[1] /\ End(2) = NGhost + NInt[2] /\ Beg = NGhost
    BY DEF NTot, End, Beg
  <2>3. z \in 0..(NTot(2) - 1 + Extra(s[1], 2))
    BY <2>1, <2>2, <1>0, <1>6 DEF z
  <2>4. y \in 0..(NTot(d) - 1 + Extra(s[1], d))
    BY <2>2, <1>0, <1>4
  <2> QED BY <1>7, <2>1, <2>3, <2>4, <1>0, SitesAre
<1>10. OwnIn(r, t, d) /\ (d = 1 => OwnIn(r, t, 2))
  <2>1. OwnIn(r, t, d)
    BY <1>4, <1>8 DEF OwnIn
  <2>2. ASSUME d = 1 PROVE OwnIn(r, t, 2)
    <3>1. Index(t, 2) = z
      BY <1>7, <2>2 DEF Index
    <3>2. CASE turns
      BY <3>1, <3>2, <1>6 DEF OwnIn
    <3>3. CASE ~turns
      <4>1. Index(t, 2) = Index(s, 2)
        BY <3>1, <3>3 DEF z, Index
      <4> QED BY <4>1, <1>8, <2>2 DEF OwnIn
    <3> QED BY <3>2, <3>3
  <2> QED BY <2>1, <2>2
<1>11. PICK e \in Dirs : e # d /\ e = 3 - d
  BY <1>0
<1>12. /\ At(r, s, d) = (r[d] * NInt[d]) + (i - NGhost) /\ At(r, t, d) = (r[d] * NInt[d]) + (y - NGhost)
       /\ r[d] * NInt[d] \in Int /\ r[d] \in Int /\ NGlobal(d) \in Int /\ NGlobal(d) > 0
       /\ NGlobal(d) = NProc[d] * NInt[d] /\ NProc[d] \in Int
  BY <1>8, <1>9, AtIs, Numbers
<1>13. IF turns THEN At(r, t, e) % NGlobal(e) = (At(r, s, e) + Half) % NGlobal(e)
       ELSE At(r, t, e) = At(r, s, e)
  <2>1. CASE turns
    <3>1. d = 1 /\ e = 2 /\ NProc[2] = 1
      BY <2>1, <1>5, <1>11
    <3>2. r[2] = 0
      BY <3>1, ProcIs, <1>0
    <3>3. At(r, s, 2) = j - NGhost /\ At(r, t, 2) = z - NGhost
      BY <3>1, <3>2, <1>0, <1>6, <1>7, <2>1 DEF At, Index
    <3> QED BY <3>1, <3>3, <2>1, <1>6
  <2>2. CASE ~turns
    <3>1. Index(t, e) = Index(s, e)
      BY <1>7, <1>11, <1>0, <2>2 DEF Index, z
    <3> QED BY <3>1, <2>2 DEF At
  <2> QED BY <2>1, <2>2
<1>14. CASE b = "periodic"
  <2>1. NProc[d] = 1 /\ Periodic(d) /\ ~turns
    BY <1>14, <1>2 DEF Local
  <2>2. r[d] = 0
    BY <2>1, AtIs
  <2>3. At(r, s, d) = i - NGhost /\ At(r, t, d) = y - NGhost /\ NGlobal(d) = NInt[d]
    BY <2>1, <2>2, <1>12, <1>0, <1>4
  <2>4. Same(r, s, r, t, d)
    BY <2>1, <2>3, <1>4, <1>14 DEF Same
  <2>5. Same(r, s, r, t, e)
    BY <1>13, <2>1 DEF Same
  <2>6. Same(r, s, r, t, 1) /\ Same(r, s, r, t, 2)
    BY <2>4, <2>5, <1>11, <1>0
  <2> QED BY <2>6, <1>8, <1>9, <1>10, <1>14, Congruent
<1>15. CASE b # "periodic"
  <2>1. ~Periodic(d) /\ Extra(s[1], d) = 0 /\ AtEdge(r, d, x)
    BY <1>15, <1>2 DEF Local
  <2>2. IF x = 0 THEN r[d] = 0 ELSE r[d] = NProc[d] - 1
    BY <2>1, <1>0 DEF AtEdge
  <2>3. r[d] * NInt[d] = IF x = 0 THEN 0 ELSE NGlobal(d) - NInt[d]
    BY <2>2, <1>12, <1>0
  <2>4. IF x = 0 THEN i < NGhost ELSE i >= NGhost + NInt[d]
    BY <1>3, <1>15 DEF Beg, End
  <2>5. NInt[d] \in Int
    BY <1>0
  <2>6. IF x = 0 THEN At(r, s, d) < 0 ELSE At(r, s, d) >= NGlobal(d)
    BY <2>3, <2>4, <2>5, <1>12, <1>0
  <2>7. At(r, s, d) \in Int /\ b \in {"outflow", "reflective", "axis"} /\ (x = 0 => b = BoundOf(d, 0)) /\ (x = 1 => b = BoundOf(d, 1))
    BY AtIs, <2>1, Bounds
  <2>8. Image(d, At(r, s, d)) = IF b = "outflow" THEN (IF x = 0 THEN 0 ELSE NGlobal(d) - 1)
                                ELSE (IF x = 0 THEN -1 - At(r, s, d) ELSE 2 * NGlobal(d) - 1 - At(r, s, d))
    BY <2>1, <2>6, <2>7, <1>0, ImageIs
  <2>9. y = IF b = "outflow" THEN (IF x = 0 THEN NGhost ELSE NGhost + NInt[d] - 1)
            ELSE (IF x = 0 THEN 2 * NGhost - i - 1 ELSE 2 * (NGhost + NInt[d]) - i - 1)
    BY <1>4, <2>5, <2>7, <1>0
  <2>10. At(r, t, d) = Image(d, At(r, s, d))
    BY <2>3, <2>5, <2>8, <2>9, <1>12, <1>0
  <2>11. 0 <= At(r, t, d) /\ At(r, t, d) < NGlobal(d)
    BY <1>9, <1>10, <2>1, <1>8, OwnAt
  <2>12. IF BoundOf(d, x) = "axis" /\ TwoPi
           THEN At(r, t, e) % NGlobal(e) = (At(r, s, e) + Half) % NGlobal(e)
           ELSE At(r, t, e) = At(r, s, e)
    BY <1>13
  <2> HIDE DEF b, i, y, turns, j
  <2>13. /\ Right(r, s, n) = IF BoundOf(d, x) \in {"reflective", "axis"}
                               THEN Signed(Right(r, t, n), s[1], d) ELSE Right(r, t, n)
         /\ Reconstructed(r, s) <=> Reconstructed(r, t)
    BY <1>8, <1>9, <1>11, <2>12, <2>1, <2>6, <2>10, <2>11, Mirrored
  <2> QED BY <2>13, <1>8, <1>9, <1>10 DEF b
<1> QED BY <1>14, <1>15

\* EnforceBoundaryDir sets one side more.
LEMMA EnforcedExact ==
  ASSUME Wide, NEW a, NEW r \in Procs, NEW d \in Dirs, NEW x \in Sides, NEW F, NEW n,
         Exact(a, r, d, F, n), Local(r, d, x)
  PROVE  Exact(Enforced(a, r, d, x), r, d, F \cup {x}, n)
<1> SUFFICES ASSUME NEW s \in Sites, Held(r, s, d, F \cup {x}), ~Reconstructed(r, s)
             PROVE  Enforced(a, r, d, x)[s] = Right(r, s, n)
  BY DEF Exact
<1> DEFINE t == Source(s, d, x)
           left == ~Ghost(s, d, x) \/ (~Periodic(d) /\ Extra(s[1], d) = 1)
<1>0. /\ x \in {0, 1} /\ Extra(s[1], d) \in {0, 1} /\ NGhost \in Int /\ NInt[d] \in Int /\ Index(s, d) \in Int
      /\ d = 1 => OwnIn(r, s, 2)
  BY Numbers, AtIs DEF Sides, Extra, Held
<1>1. Enforced(a, r, d, x)[s] =
        IF left THEN a[s]
        ELSE IF BoundOf(d, x) \in {"reflective", "axis"} THEN Signed(a[t], s[1], d) ELSE a[t]
  BY DEF Enforced
<1>2. CASE left
  <2>1. ~Periodic(d) => IF x = 0 THEN r[d] = 0 ELSE r[d] = NProc[d] - 1
    BY <1>0, Bounds DEF Local, AtEdge
  <2>2. ~Periodic(d) /\ Extra(s[1], d) = 1 => At(r, s, d) >= 0 /\ At(r, s, d) <= NGlobal(d)
    <3>1. ASSUME ~Periodic(d), Extra(s[1], d) = 1, At(r, s, d) < 0 \/ At(r, s, d) > NGlobal(d)
          PROVE  FALSE
      <4>1. At(r, s, d) \notin 0..NGlobal(d)
        BY <3>1, AtIs, Numbers
      <4> QED BY <4>1, <3>1 DEF Reconstructed
    <3> QED BY <3>1, AtIs, Numbers
  <2>3. KnownIn(r, s, d, F)
    <3>1. CASE OwnIn(r, s, d)
      BY <3>1 DEF KnownIn
    <3>2. CASE ~OwnIn(r, s, d) /\ x = 0 /\ Index(s, d) < Beg
      <4>1. ~Periodic(d) /\ Extra(s[1], d) = 1
        BY <1>0, <1>2, <3>2 DEF Ghost, Beg
      <4>2. r[d] = 0 /\ At(r, s, d) = (r[d] * NInt[d]) + (Index(s, d) - NGhost)
        BY <4>1, <2>1, <3>2, AtIs
      <4> QED BY <4>1, <4>2, <2>2, <3>2, <1>0 DEF Beg
    <3>3. CASE ~OwnIn(r, s, d) /\ x = 1 /\ Index(s, d) >= End(d)
      <4>1. ~Periodic(d) /\ Extra(s[1], d) = 1
        BY <1>0, <1>2, <3>3 DEF Ghost, End
      <4>2. r[d] = NProc[d] - 1 /\ At(r, s, d) = (r[d] * NInt[d]) + (Index(s, d) - NGhost)
        BY <4>1, <2>1, <3>3, AtIs
      <4>3. r[d] * NInt[d] = NGlobal(d) - NInt[d] /\ NGlobal(d) \in Int
        BY <4>2, <1>0, Numbers
      <4>4. At(r, s, d) <= NGlobal(d)
        BY <4>1, <2>2
      <4>5. Index(s, d) = End(d)
        BY <4>2, <4>3, <4>4, <3>3, <1>0 DEF End
      <4>6. Index(s, d) >= Beg
        BY <4>5, Numbers DEF Beg, End
      <4> QED BY <4>1, <4>2, <4>5, <4>6, <3>3 DEF OwnIn
    <3>4. KnownIn(r, s, d, F \cup {x})
      BY DEF Held
    <3> QED BY <3>1, <3>2, <3>3, <3>4 DEF KnownIn
  <2>4. Held(r, s, d, F)
    BY <2>3, <1>0 DEF Held
  <2> QED BY <2>4, <1>1, <1>2 DEF Exact
<1>3. CASE ~left
  <2>1. Ghost(s, d, x) /\ (Periodic(d) \/ Extra(s[1], d) = 0)
    BY <1>0, <1>3
  <2> HIDE DEF left, t
  <2>2. /\ t \in Sites /\ t[1] = s[1] /\ OwnIn(r, t, d) /\ (d = 1 => OwnIn(r, t, 2))
        /\ Reconstructed(r, s) <=> Reconstructed(r, t)
        /\ Right(r, s, n) = IF BoundOf(d, x) \in {"reflective", "axis"}
                               THEN Signed(Right(r, t, n), s[1], d) ELSE Right(r, t, n)
    BY <2>1, <1>0, SourceRight DEF t
  <2>3. Held(r, t, d, F)
    BY <2>2 DEF Held, KnownIn
  <2>4. a[t] = Right(r, t, n)
    BY <2>2, <2>3 DEF Exact
  <2> QED BY <2>2, <2>4, <1>1, <1>3
<1> QED BY <1>2, <1>3

-----------------------------------------------------------------------------
(* The exchange of a direction *)

\* A neighbour is one step away, or at the other end of a periodic direction.
LEMMA NeighbourIs ==
  ASSUME NEW r \in Procs, NEW e \in Dirs, NEW x \in Sides, NEW q, q \in Neighbours(r, e, x), NProc[e] > 1
  PROVE  /\ q \in Procs /\ Neighbours(r, e, x) = {q} /\ r \in Neighbours(q, e, 1 - x)
         /\ \A d \in Dirs : d # e => q[d] = r[d]
         /\ \/ q[e] = r[e] + 2 * x - 1
            \/ Periodic(e) /\ x = 0 /\ r[e] = 0 /\ q[e] = NProc[e] - 1
            \/ Periodic(e) /\ x = 1 /\ r[e] = NProc[e] - 1 /\ q[e] = 0
<1> DEFINE A == NProc[e]
           c == r[e]
           y == c + 2 * x - 1
           z == IF Periodic(e) THEN y % A ELSE y
<1>1. /\ A \in Int /\ A > 1 /\ c \in Int /\ 0 <= c /\ c < A /\ x \in {0, 1} /\ e \in {1, 2} /\ 1 - x \in {0, 1}
      /\ e # 3
  BY AtIs, Numbers, ProcIs DEF Dirs, Sides
<1>2. Neighbours(r, e, x) = IF z \in 0..A - 1 THEN {[r EXCEPT ![e] = z]} ELSE {}
  BY <1>1 DEF Neighbours, AXIS
<1>3. z \in 0..A - 1 /\ q = [r EXCEPT ![e] = z]
  BY <1>2
<1>4. q[e] = z /\ q \in Procs /\ \A d \in Dirs : d # e => q[d] = r[d]
  <2>1. CASE e = 1
    <3>1. q = <<z, r[2]>>
      BY <1>3, <2>1, ProcIs
    <3> QED BY <3>1, <1>3, <2>1, ProcIs DEF Procs, Dirs
  <2>2. CASE e = 2
    <3>1. q = <<r[1], z>>
      BY <1>3, <2>2, ProcIs
    <3> QED BY <3>1, <1>3, <2>2, ProcIs DEF Procs, Dirs
  <2> QED BY <2>1, <2>2, <1>1
<1>5. \/ z = y
      \/ Periodic(e) /\ x = 0 /\ c = 0 /\ z = A - 1
      \/ Periodic(e) /\ x = 1 /\ c = A - 1 /\ z = 0
  <2>1. CASE ~Periodic(e)
    BY <2>1
  <2>2. CASE Periodic(e)
    <3>1. z = y % A
      BY <2>2
    <3>2. y \in Int /\ ((0 <= y /\ y < A) \/ (y = -1 /\ x = 0 /\ c = 0) \/ (y = A /\ x = 1 /\ c = A - 1))
      BY <1>1
    <3> HIDE DEF y, A, z, c
    <3>3. CASE 0 <= y /\ y < A
      BY <3>1, <3>3, <3>2, <1>1
    <3>4. CASE y = -1 /\ x = 0 /\ c = 0
      <4>1. y = (-1) * A + (A - 1) /\ A - 1 \in 0..A - 1
        BY <3>4, <1>1
      <4>2. y % A = A - 1
        <5>1. PICK w \in 0..A - 1 : w = A - 1
          BY <4>1
        <5> QED BY <5>1, <4>1, <3>2, <1>1, Remainder
      <4> QED BY <4>2, <3>1, <3>4, <2>2
    <3>5. CASE y = A /\ x = 1 /\ c = A - 1
      <4>1. y = 1 * A + 0 /\ 0 \in 0..A - 1
        BY <3>5, <1>1
      <4>2. y % A = 0
        BY <4>1, <3>2, <1>1, Remainder
      <4> QED BY <4>2, <3>1, <3>5, <2>2
    <3> QED BY <3>2, <3>3, <3>4, <3>5
  <2> QED BY <2>1, <2>2
<1>6. r \in Neighbours(q, e, 1 - x)
  <2> DEFINE u == q[e] + 2 * (1 - x) - 1
             v == IF Periodic(e) THEN u % A ELSE u
  <2>1. Neighbours(q, e, 1 - x) = IF v \in 0..A - 1 THEN {[q EXCEPT ![e] = v]} ELSE {}
    BY <1>1 DEF Neighbours, AXIS
  <2>2. v = c
    <3>1. u \in Int /\ z \in Int /\ u = z + 1 - 2 * x
      BY <1>1, <1>3, <1>4
    <3>2. CASE z = y
      <4>1. u = c
        BY <3>1, <3>2, <1>1
      <4> QED BY <4>1, <1>1
    <3>3. CASE Periodic(e) /\ x = 0 /\ c = 0 /\ z = A - 1
      <4>1. u = A /\ v = u % A
        BY <3>1, <3>3, <1>1
      <4> QED BY <4>1, <3>3, <1>1
    <3>4. CASE Periodic(e) /\ x = 1 /\ c = A - 1 /\ z = 0
      <4>1. u = -1 /\ v = u % A
        BY <3>1, <3>4, <1>1
      <4>2. (-1) % A = A - 1
        <5> HIDE DEF A
        <5>1. -1 = (-1) * A + (A - 1) /\ -1 \in Int
          BY <1>1
        <5>2. PICK w \in 0..A - 1 : w = A - 1
          BY <1>1
        <5>3. PICK k \in Int : k = -1
          OBVIOUS
        <5>4. k = k * A + w
          BY <5>1, <5>2, <5>3
        <5>5. k % A = w
          BY <5>2, <5>4, <1>1, Remainder
        <5> QED BY <5>2, <5>3, <5>5
      <4> QED BY <4>1, <4>2, <3>4
    <3> QED BY <1>5, <3>2, <3>3, <3>4
  <2>3. [q EXCEPT ![e] = c] = r
    <3>1. CASE e = 1
      BY <1>4, <3>1, ProcIs DEF Dirs
    <3>2. CASE e = 2
      BY <1>4, <3>2, ProcIs DEF Dirs
    <3> QED BY <3>1, <3>2, <1>1
  <2> QED BY <2>1, <2>2, <2>3, <1>1
<1>7. Neighbours(r, e, x) = {q}
  BY <1>2, <1>3
<1> QED BY <1>4, <1>5, <1>6, <1>7

LEMMA NoNeighbour ==
  ASSUME NEW r \in Procs, NEW e \in Dirs, NEW x \in Sides, NProc[e] > 1
  PROVE  Neighbours(r, e, x) = {} <=> ~Periodic(e) /\ AtEdge(r, e, x)
<1> DEFINE A == NProc[e]
           c == r[e]
           y == c + 2 * x - 1
           z == IF Periodic(e) THEN y % A ELSE y
<1>1. A \in Int /\ A > 1 /\ c \in Int /\ 0 <= c /\ c < A /\ x \in {0, 1} /\ e # 3
  BY ProcIs, Numbers DEF Dirs, Sides
<1>2. Neighbours(r, e, x) = IF z \in 0..A - 1 THEN {[r EXCEPT ![e] = z]} ELSE {}
  BY <1>1 DEF Neighbours, AXIS
<1>3. CASE Periodic(e)
  <2>1. z \in 0..A - 1
    BY <1>1, <1>3
  <2> QED BY <2>1, <1>2, <1>3
<1>4. CASE ~Periodic(e)
  <2>1. z \in 0..A - 1 <=> ~(c = IF x = 0 THEN 0 ELSE A - 1)
    BY <1>1, <1>4
  <2> QED BY <2>1, <1>2, <1>4 DEF AtEdge
<1> QED BY <1>3, <1>4

LEMMA BoxesAre ==
  ASSUME NEW k \in Kinds, NEW e \in Dirs, NEW d \in Dirs, NEW x \in Sides
  PROVE  /\ RecvBox(k, e, x)[d] =
              IF d < e THEN <<0, NTot(d) + Extra(k, d)>>
              ELSE IF d > e THEN <<Beg, End(d) + Extra(k, d)>>
              ELSE IF x = 0 THEN <<0, NGhost>> ELSE <<End(d), NTot(d) + Extra(k, d)>>
         /\ SendBox(k, e, x)[d] =
              IF d < e THEN <<0, NTot(d) + Extra(k, d)>>
              ELSE IF d > e THEN <<Beg, End(d) + Extra(k, d)>>
              ELSE IF x = 0 THEN <<Beg, Beg + NGhost + Extra(k, d)>> ELSE <<End(d) - NGhost, End(d)>>
<1>1. /\ d \in {1, 2} /\ e \in {1, 2} /\ x \in {0, 1} /\ Normal[k] \in {0, 1, 2}
      /\ k = "Vc" <=> Normal[k] = 0
      /\ NGhost \in Int /\ NInt[d] \in Int /\ NTot(d) \in Int /\ End(d) \in Int /\ Beg \in Int
      /\ Extra(k, d) = IF Normal[k] = d THEN 1 ELSE 0
  BY Numbers, KindIs DEF Dirs, Sides, NTot, End, Beg, Extra
<1>2. ASSUME NEW box, box = [c \in Dirs |-> box[c]], NEW u, NEW v, box[d] = <<u, v>>, NEW w \in Dirs
      PROVE  Widened(box, w)[d] = IF w = d THEN <<u, v + 1>> ELSE box[d]
  BY <1>2 DEF Widened
<1> DEFINE R == RecvCells(e, x)
           S == SendCells(e, x)
<1>3. R = [c \in Dirs |-> R[c]] /\ S = [c \in Dirs |-> S[c]]
  BY DEF RecvCells, SendCells
<1>4. /\ R[d] = IF d # e THEN Across(e, d) ELSE IF x = 0 THEN <<0, NGhost>> ELSE <<End(d), NTot(d)>>
      /\ S[d] = IF d # e THEN Across(e, d) ELSE IF x = 0 THEN <<Beg, Beg + NGhost>> ELSE <<End(d) - NGhost, End(d)>>
  BY DEF RecvCells, SendCells
<1>5. /\ RecvBox(k, e, x) = IF k = "Vc" \/ (Normal[k] = e /\ x = 0) THEN R ELSE Widened(R, Normal[k])
      /\ SendBox(k, e, x) = IF k = "Vc" \/ (Normal[k] = e /\ x = 1) THEN S ELSE Widened(S, Normal[k])
  BY DEF RecvBox, SendBox
<1> HIDE DEF R, S
<1>6. PICK u, v : R[d] = <<u, v>>
  BY <1>4 DEF Across
<1>7. PICK y, z : S[d] = <<y, z>>
  BY <1>4 DEF Across
<1>8. RecvBox(k, e, x)[d] = IF k = "Vc" \/ (Normal[k] = e /\ x = 0) \/ Normal[k] # d THEN <<u, v>> ELSE <<u, v + 1>>
  <2>1. CASE k = "Vc" \/ (Normal[k] = e /\ x = 0)
    BY <2>1, <1>5, <1>6
  <2>2. CASE ~(k = "Vc" \/ (Normal[k] = e /\ x = 0))
    <3>1. Normal[k] \in Dirs
      BY <2>2, <1>1 DEF Dirs
    <3>2. Widened(R, Normal[k])[d] = IF Normal[k] = d THEN <<u, v + 1>> ELSE R[d]
      BY <3>1, <1>2, <1>3, <1>6
    <3> QED BY <3>2, <2>2, <1>5, <1>6
  <2> QED BY <2>1, <2>2
<1>9. SendBox(k, e, x)[d] = IF k = "Vc" \/ (Normal[k] = e /\ x = 1) \/ Normal[k] # d THEN <<y, z>> ELSE <<y, z + 1>>
  <2>1. CASE k = "Vc" \/ (Normal[k] = e /\ x = 1)
    BY <2>1, <1>5, <1>7
  <2>2. CASE ~(k = "Vc" \/ (Normal[k] = e /\ x = 1))
    <3>1. Normal[k] \in Dirs
      BY <2>2, <1>1 DEF Dirs
    <3>2. Widened(S, Normal[k])[d] = IF Normal[k] = d THEN <<y, z + 1>> ELSE S[d]
      BY <3>1, <1>2, <1>3, <1>7
    <3> QED BY <3>2, <2>2, <1>5, <1>7
  <2> QED BY <2>1, <2>2
<1>10. /\ u = IF d < e THEN 0 ELSE IF d > e THEN Beg ELSE IF x = 0 THEN 0 ELSE End(d)
       /\ v = IF d < e THEN NTot(d) ELSE IF d > e THEN End(d) ELSE IF x = 0 THEN NGhost ELSE NTot(d)
       /\ y = IF d < e THEN 0 ELSE IF d > e THEN Beg ELSE IF x = 0 THEN Beg ELSE End(d) - NGhost
       /\ z = IF d < e THEN NTot(d) ELSE IF d > e THEN End(d) ELSE IF x = 0 THEN Beg + NGhost ELSE End(d)
  BY <1>1, <1>4, <1>6, <1>7 DEF Across
<1>11. CASE d # e
  BY <1>1, <1>8, <1>9, <1>10, <1>11
<1>12. CASE d = e
  BY <1>1, <1>8, <1>9, <1>10, <1>12
<1> QED BY <1>11, <1>12

LEMMA BoxBounds ==
  ASSUME NEW k \in Kinds, NEW e \in Dirs, NEW d \in Dirs, NEW x \in Sides
  PROVE  /\ d < e => /\ RecvBox(k, e, x)[d][1] = 0 /\ RecvBox(k, e, x)[d][2] = NTot(d) + Extra(k, d)
                     /\ SendBox(k, e, x)[d][1] = 0 /\ SendBox(k, e, x)[d][2] = NTot(d) + Extra(k, d)
         /\ d > e => /\ RecvBox(k, e, x)[d][1] = Beg /\ RecvBox(k, e, x)[d][2] = End(d) + Extra(k, d)
                     /\ SendBox(k, e, x)[d][1] = Beg /\ SendBox(k, e, x)[d][2] = End(d) + Extra(k, d)
         /\ d = e /\ x = 0 =>
              /\ RecvBox(k, e, x)[d][1] = 0 /\ RecvBox(k, e, x)[d][2] = NGhost
              /\ SendBox(k, e, x)[d][1] = Beg /\ SendBox(k, e, x)[d][2] = Beg + NGhost + Extra(k, d)
         /\ d = e /\ x = 1 =>
              /\ RecvBox(k, e, x)[d][1] = End(d) /\ RecvBox(k, e, x)[d][2] = NTot(d) + Extra(k, d)
              /\ SendBox(k, e, x)[d][1] = End(d) - NGhost /\ SendBox(k, e, x)[d][2] = End(d)
<1> DEFINE R == RecvBox(k, e, x)[d]
           S == SendBox(k, e, x)[d]
           rl == <<0, NTot(d) + Extra(k, d)>>
           ra == <<Beg, End(d) + Extra(k, d)>>
           r0 == <<0, NGhost>>
           r1 == <<End(d), NTot(d) + Extra(k, d)>>
           s0 == <<Beg, Beg + NGhost + Extra(k, d)>>
           s1 == <<End(d) - NGhost, End(d)>>
<1>1. d \in {1, 2} /\ e \in {1, 2} /\ x \in {0, 1}
  BY DEF Dirs, Sides
<1>2. /\ R = IF d < e THEN rl ELSE IF d > e THEN ra ELSE IF x = 0 THEN r0 ELSE r1
      /\ S = IF d < e THEN rl ELSE IF d > e THEN ra ELSE IF x = 0 THEN s0 ELSE s1
  BY BoxesAre
<1>3. /\ rl[1] = 0 /\ rl[2] = NTot(d) + Extra(k, d) /\ ra[1] = Beg /\ ra[2] = End(d) + Extra(k, d)
      /\ r0[1] = 0 /\ r0[2] = NGhost /\ r1[1] = End(d) /\ r1[2] = NTot(d) + Extra(k, d)
      /\ s0[1] = Beg /\ s0[2] = Beg + NGhost + Extra(k, d) /\ s1[1] = End(d) - NGhost /\ s1[2] = End(d)
  OBVIOUS
<1> HIDE DEF rl, ra, r0, r1, s0, s1
<1> QED BY <1>1, <1>2, <1>3

LEMMA PackedIs ==
  ASSUME NEW a, NEW boxes, NEW k \in DOMAIN boxes, NEW i, NEW j,
         i \in 0..(boxes[k][1][2] - boxes[k][1][1] - 1), j \in 0..(boxes[k][2][2] - boxes[k][2][1] - 1)
  PROVE  Packed(a, boxes)[<<k, i, j>>] = a[<<k, i + boxes[k][1][1], j + boxes[k][2][1]>>]
<1> DEFINE D == UNION {Offsets(kind, boxes[kind]) : kind \in DOMAIN boxes}
           o == <<k, i, j>>
<1>1. o \in Offsets(k, boxes[k])
  BY DEF Offsets
<1>2. o \in D
  BY <1>1
<1>3. o[1] = k /\ o[2] = i /\ o[3] = j
  OBVIOUS
<1>4. Packed(a, boxes) = [p \in D |-> a[<<p[1], p[2] + boxes[p[1]][1][1], p[3] + boxes[p[1]][2][1]>>]]
  BY DEF Packed
<1> HIDE DEF o, D
<1>5. Packed(a, boxes)[o] = a[<<o[1], o[2] + boxes[o[1]][1][1], o[3] + boxes[o[1]][2][1]>>]
  BY <1>2, <1>4
<1> QED BY <1>3, <1>5 DEF o

\* What a message that side y of the process q receives in direction e has to hold.
Good(q, e, y, m, n) ==
  \A s \in Sites :
    Within(s, RecvBox(s[1], e, y)) /\ (e = 1 => OwnIn(q, s, 2)) /\ ~Reconstructed(q, s) =>
      m[Offset(s, RecvBox(s[1], e, y))] = Right(q, s, n)

\* Where the element of a message comes from: as far from the end of the sender
\* as it goes beyond that of the receiver.
LEMMA SentFrom ==
  ASSUME Wide, NEW r \in Procs, NEW e \in Dirs, NEW x \in Sides, NEW q, q \in Neighbours(r, e, x), NProc[e] > 1,
         NEW s \in Sites, Within(s, RecvBox(s[1], e, 1 - x)), NEW a
  PROVE  \E t \in Sites :
           /\ t[1] = s[1] /\ OwnIn(r, t, e) /\ (e = 1 /\ OwnIn(q, s, 2) => OwnIn(r, t, 2))
           /\ Same(q, s, r, t, 1) /\ Same(q, s, r, t, 2)
           /\ Packed(a, ToSend(e, x))[Offset(s, RecvBox(s[1], e, 1 - x))] = a[t]
<1> DEFINE k == s[1]
           R == RecvBox(k, e, 1 - x)
           S == SendBox(k, e, x)
           w == IF x = 1 THEN NInt[e] ELSE -NInt[e]
           i == IF e = 1 THEN s[2] + w ELSE s[2]
           j == IF e = 2 THEN s[3] + w ELSE s[3]
           t == <<k, i, j>>
<1>0. /\ x \in {0, 1} /\ 1 - x \in Sides /\ e \in {1, 2} /\ 1 \in Dirs /\ 2 \in Dirs /\ k \in Kinds
      /\ NGhost \in Int /\ NGhost >= 0 /\ NInt[1] \in Int /\ NInt[1] > 0 /\ NInt[2] \in Int /\ NInt[2] > 0
      /\ Extra(k, 1) \in {0, 1} /\ Extra(k, 2) \in {0, 1}
      /\ s[2] \in Int /\ s[3] \in Int /\ s = <<k, s[2], s[3]>> /\ NGhost < NInt[e]
  BY Numbers, SiteIs DEF Dirs, Sides, Extra, Wide
<1>1. /\ s[2] >= R[1][1] /\ s[2] < R[1][2] /\ s[3] >= R[2][1] /\ s[3] < R[2][2]
      /\ Offset(s, R) = <<k, s[2] - R[1][1], s[3] - R[2][1]>>
  BY <1>0 DEF Within, Offset, Index, Dirs
<1>2. /\ s[2] \in 0..(NTot(1) - 1 + Extra(k, 1)) /\ s[3] \in 0..(NTot(2) - 1 + Extra(k, 2))
      /\ NTot(1) = NInt[1] + 2 * NGhost /\ NTot(2) = NInt[2] + 2 * NGhost
      /\ End(1) = NGhost + NInt[1] /\ End(2) = NGhost + NInt[2] /\ Beg = NGhost
  BY <1>0, SitesAre DEF NTot, End, Beg
<1>3. PICK y \in Sides : y = 1 - x
  BY <1>0
<1>4. ASSUME NEW d \in Dirs
      PROVE  /\ d < e => /\ R[d][1] = 0 /\ R[d][2] = NTot(d) + Extra(k, d)
                         /\ S[d][1] = 0 /\ S[d][2] = NTot(d) + Extra(k, d)
             /\ d > e => /\ R[d][1] = Beg /\ R[d][2] = End(d) + Extra(k, d)
                         /\ S[d][1] = Beg /\ S[d][2] = End(d) + Extra(k, d)
             /\ d = e /\ x = 1 => /\ R[d][1] = 0 /\ R[d][2] = NGhost
                                  /\ S[d][1] = End(d) - NGhost /\ S[d][2] = End(d)
             /\ d = e /\ x = 0 => /\ R[d][1] = End(d) /\ R[d][2] = NTot(d) + Extra(k, d)
                                  /\ S[d][1] = Beg /\ S[d][2] = Beg + NGhost + Extra(k, d)
  <2> DEFINE T == RecvBox(k, e, y)
  <2>1. R = T
    BY <1>3
  <2>2. /\ d < e => T[d][1] = 0 /\ T[d][2] = NTot(d) + Extra(k, d)
        /\ d > e => T[d][1] = Beg /\ T[d][2] = End(d) + Extra(k, d)
        /\ d = e /\ y = 0 => T[d][1] = 0 /\ T[d][2] = NGhost
        /\ d = e /\ y = 1 => T[d][1] = End(d) /\ T[d][2] = NTot(d) + Extra(k, d)
    BY <1>0, BoxBounds
  <2>3. /\ d < e => S[d][1] = 0 /\ S[d][2] = NTot(d) + Extra(k, d)
        /\ d > e => S[d][1] = Beg /\ S[d][2] = End(d) + Extra(k, d)
        /\ d = e /\ x = 1 => S[d][1] = End(d) - NGhost /\ S[d][2] = End(d)
        /\ d = e /\ x = 0 => S[d][1] = Beg /\ S[d][2] = Beg + NGhost + Extra(k, d)
    BY <1>0, BoxBounds
  <2> HIDE DEF T, R, S
  <2> QED BY <2>1, <2>2, <2>3, <1>0, <1>3
<1> HIDE DEF R, S, k
<1>5. /\ e = 1 => R[2][1] = Beg /\ R[2][2] = End(2) + Extra(k, 2) /\ S[2][1] = Beg /\ S[2][2] = End(2) + Extra(k, 2)
      /\ e = 2 => R[1][1] = 0 /\ R[1][2] = NTot(1) + Extra(k, 1) /\ S[1][1] = 0 /\ S[1][2] = NTot(1) + Extra(k, 1)
      /\ x = 1 => R[e][1] = 0 /\ R[e][2] = NGhost /\ S[e][1] = End(e) - NGhost /\ S[e][2] = End(e)
      /\ x = 0 => R[e][1] = End(e) /\ R[e][2] = NTot(e) + Extra(k, e)
                  /\ S[e][1] = Beg /\ S[e][2] = Beg + NGhost + Extra(k, e)
  BY <1>4, <1>0
<1>6. /\ i = s[2] - R[1][1] + S[1][1] /\ s[2] - R[1][1] \in 0..(S[1][2] - S[1][1] - 1)
      /\ j = s[3] - R[2][1] + S[2][1] /\ s[3] - R[2][1] \in 0..(S[2][2] - S[2][1] - 1)
      /\ i \in Int /\ j \in Int /\ R[1][1] \in Int /\ R[2][1] \in Int /\ S[1][1] \in Int /\ S[2][1] \in Int
  <2>1. CASE e = 1 /\ x = 1
    BY <2>1, <1>0, <1>1, <1>2, <1>5
  <2>2. CASE e = 1 /\ x = 0
    BY <2>2, <1>0, <1>1, <1>2, <1>5
  <2>3. CASE e = 2 /\ x = 1
    BY <2>3, <1>0, <1>1, <1>2, <1>5
  <2>4. CASE e = 2 /\ x = 0
    <3>1. /\ R[1][1] = 0 /\ S[1][1] = 0 /\ R[1][2] = S[1][2] /\ R[1][2] \in Int
          /\ R[2][1] = NGhost + NInt[2] /\ R[2][2] = NInt[2] + 2 * NGhost + Extra(k, 2)
          /\ S[2][1] = NGhost /\ S[2][2] = 2 * NGhost + Extra(k, 2)
      BY <2>4, <1>0, <1>2, <1>5
    <3>2. i = s[2] /\ j = s[3] - NInt[2]
      BY <2>4, <1>0
    <3> HIDE DEF i, j
    <3> QED BY <3>1, <3>2, <1>0, <1>1
  <2> QED BY <2>1, <2>2, <2>3, <2>4, <1>0
<1>7. t[1] = k /\ Index(t, 1) = i /\ Index(t, 2) = j /\ Index(s, 1) = s[2] /\ Index(s, 2) = s[3]
  BY DEF Index
<1>8. Beg <= Index(t, e) /\ Index(t, e) < End(e) /\ Index(t, e) = Index(s, e) + w
      /\ \A d \in Dirs : d # e => Index(t, d) = Index(s, d)
  <2>1. CASE e = 1
    BY <2>1, <1>0, <1>1, <1>2, <1>5, <1>7 DEF Dirs
  <2>2. CASE e = 2
    BY <2>2, <1>0, <1>1, <1>2, <1>5, <1>7 DEF Dirs
  <2> QED BY <2>1, <2>2, <1>0
<1>9. t \in Sites
  <2>1. i \in 0..(NTot(1) - 1 + Extra(k, 1)) /\ j \in 0..(NTot(2) - 1 + Extra(k, 2))
    BY <1>0, <1>2, <1>6, <1>7, <1>8
  <2> QED BY <2>1, <1>0, SitesAre DEF k
<1> HIDE DEF i, j, t
<1>10. OwnIn(r, t, e)
  BY <1>8 DEF OwnIn
<1>11. /\ q \in Procs /\ \A d \in Dirs : d # e => q[d] = r[d]
       /\ \/ q[e] = r[e] + 2 * x - 1
          \/ Periodic(e) /\ x = 0 /\ r[e] = 0 /\ q[e] = NProc[e] - 1
          \/ Periodic(e) /\ x = 1 /\ r[e] = NProc[e] - 1 /\ q[e] = 0
  BY NeighbourIs
<1>12. e = 1 /\ OwnIn(q, s, 2) => OwnIn(r, t, 2)
  <2>1. ASSUME e = 1, OwnIn(q, s, 2) PROVE OwnIn(r, t, 2)
    <3>1. Index(t, 2) = Index(s, 2) /\ q[2] = r[2]
      BY <2>1, <1>0, <1>8, <1>11
    <3> QED BY <3>1, <2>1, <1>7 DEF OwnIn, k
  <2> QED BY <2>1
<1>13. ASSUME NEW d \in Dirs, d # e PROVE Same(q, s, r, t, d)
  BY <1>13, <1>8, <1>11 DEF Same, At
<1>14. Same(q, s, r, t, e)
  <2> DEFINE C == NInt[e]
             A == NProc[e]
             G == NGlobal(e)
             u == r[e]
             v == q[e]
             g == At(q, s, e)
             h == At(r, t, e)
             l == Index(s, e) - NGhost
  <2>1. /\ C \in Int /\ A \in Int /\ u \in Int /\ v \in Int /\ g \in Int /\ h \in Int /\ l \in Int
        /\ G \in Int /\ G > 0 /\ G = A * C /\ g = (v * C) + l
    BY <1>9, <1>11, AtIs, Numbers, <1>0
  <2>2. h = (u * C) + l + w /\ w = IF x = 1 THEN C ELSE -C
    BY <1>9, <1>8, <1>0, AtIs
  <2> HIDE DEF C, A, G, u, v, g, h, l, w
  <2>6. G \in Int /\ G > 0 /\ g \in Int /\ h \in Int
    BY <2>1
  <2>3. CASE v = u + 2 * x - 1
    <3>1. CASE x = 1
      <4>1. v * C = (u * C) + C
        BY <2>3, <3>1, <2>1
      <4> QED BY <4>1, <2>1, <2>2, <3>1 DEF Same, g, h
    <3>2. CASE x = 0
      <4>1. v * C = (u * C) - C
        BY <2>3, <3>2, <2>1
      <4> QED BY <4>1, <2>1, <2>2, <3>2 DEF Same, g, h
    <3> QED BY <3>1, <3>2, <1>0
  <2>4. CASE Periodic(e) /\ x = 0 /\ u = 0 /\ v = A - 1
    <3>1. v * C = G - C
      BY <2>4, <2>1
    <3>2. h = g + ((-1) * G)
      BY <3>1, <2>1, <2>2, <2>4
    <3>3. h % G = g % G
      <4>1. PICK m \in Int : m = -1
        OBVIOUS
      <4>2. h = g + (m * G)
        BY <4>1, <3>2
      <4> QED BY <4>2, <2>6, WholeTurns
    <3> QED BY <3>3, <2>4 DEF Same, g, h, G
  <2>5. CASE Periodic(e) /\ x = 1 /\ u = A - 1 /\ v = 0
    <3>1. u * C = G - C
      BY <2>5, <2>1
    <3>2. h = g + (1 * G)
      BY <3>1, <2>1, <2>2, <2>5
    <3>3. h % G = g % G
      <4>1. PICK m \in Int : m = 1
        OBVIOUS
      <4>2. h = g + (m * G)
        BY <4>1, <3>2
      <4> QED BY <4>2, <2>6, WholeTurns
    <3> QED BY <3>3, <2>5 DEF Same, g, h, G
  <2> QED BY <1>11, <2>3, <2>4, <2>5 DEF u, v, A
<1>15. Same(q, s, r, t, 1) /\ Same(q, s, r, t, 2)
  BY <1>0, <1>13, <1>14
<1>16. Packed(a, ToSend(e, x))[Offset(s, R)] = a[t]
  <2> DEFINE boxes == ToSend(e, x)
             o == s[2] - R[1][1]
             p == s[3] - R[2][1]
  <2>1. k \in DOMAIN boxes /\ boxes[k] = S
    BY <1>0 DEF ToSend, S
  <2>2. o \in 0..(boxes[k][1][2] - boxes[k][1][1] - 1) /\ p \in 0..(boxes[k][2][2] - boxes[k][2][1] - 1)
    BY <2>1, <1>6
  <2>3. o + boxes[k][1][1] = i /\ p + boxes[k][2][1] = j
    BY <2>1, <1>6
  <2> HIDE DEF boxes, o, p
  <2>4. Packed(a, boxes)[<<k, o, p>>] = a[<<k, o + boxes[k][1][1], p + boxes[k][2][1]>>]
    BY <2>1, <2>2, PackedIs
  <2> QED BY <2>3, <2>4, <1>1 DEF t, boxes, o, p
<1> QED BY <1>7, <1>9, <1>10, <1>12, <1>15, <1>16 DEF k, R

\* What a process packs is good for its neighbour.
LEMMA PackGood ==
  ASSUME Wide, NEW r \in Procs, NEW e \in Dirs, NEW x \in Sides, NEW q, q \in Neighbours(r, e, x), NProc[e] > 1,
         NEW a, NEW n, Exact(a, r, e, {}, n)
  PROVE  Good(q, e, 1 - x, Packed(a, ToSend(e, x)), n)
<1> SUFFICES ASSUME NEW s \in Sites, Within(s, RecvBox(s[1], e, 1 - x)), e = 1 => OwnIn(q, s, 2), ~Reconstructed(q, s)
             PROVE  Packed(a, ToSend(e, x))[Offset(s, RecvBox(s[1], e, 1 - x))] = Right(q, s, n)
  BY DEF Good
<1>1. PICK t \in Sites :
        /\ t[1] = s[1] /\ OwnIn(r, t, e) /\ (e = 1 /\ OwnIn(q, s, 2) => OwnIn(r, t, 2))
        /\ Same(q, s, r, t, 1) /\ Same(q, s, r, t, 2)
        /\ Packed(a, ToSend(e, x))[Offset(s, RecvBox(s[1], e, 1 - x))] = a[t]
  BY SentFrom
<1>2. q \in Procs
  BY NeighbourIs
<1>3. Right(q, s, n) = Right(r, t, n) /\ ~Reconstructed(r, t)
  BY <1>1, <1>2, Congruent
<1>4. a[t] = Right(r, t, n)
  BY <1>1, <1>3 DEF Exact, Held, KnownIn
<1> QED BY <1>1, <1>3, <1>4

\* ...as does a message that is good.
LEMMA UnpackedExact ==
  ASSUME NEW a, NEW r \in Procs, NEW e \in Dirs, NEW x \in Sides, NEW F \in SUBSET Sides, x \notin F, NEW n, NEW m,
         Exact(a, r, e, F, n), Good(r, e, x, m, n), NProc[e] > 1, Neighbours(r, e, x) # {}
  PROVE  Exact(Unpacked(a, m, ToReceive(e, x)), r, e, F \cup {x}, n)
<1> SUFFICES ASSUME NEW s \in Sites, Held(r, s, e, F \cup {x}), ~Reconstructed(r, s)
             PROVE  Unpacked(a, m, ToReceive(e, x))[s] = Right(r, s, n)
  BY DEF Exact
<1> DEFINE R == RecvBox(s[1], e, x)
<1>1. Unpacked(a, m, ToReceive(e, x))[s] = IF Within(s, R) THEN m[Offset(s, R)] ELSE a[s]
  <2>1. ToReceive(e, x)[s[1]] = R
    BY SiteIs DEF ToReceive
  <2> QED BY <2>1 DEF Unpacked
<1>2. e = 1 => OwnIn(r, s, 2)
  BY DEF Held
<1>3. CASE Within(s, R)
  BY <1>1, <1>2, <1>3 DEF Good
<1>4. CASE ~Within(s, R)
  <2>1. KnownIn(r, s, e, F)
    <3>0. /\ x \in {0, 1} /\ Index(s, e) \in Int /\ 0 <= Index(s, e) /\ Index(s, e) < NTot(e) + Extra(s[1], e)
          /\ NGhost \in Int /\ NInt[e] \in Int /\ NInt[e] > 0 /\ s[1] \in Kinds /\ e \in {1, 2}
      BY AtIs, Numbers, SiteIs DEF Sides
    <3>1. /\ x = 0 => R[e][1] = 0 /\ R[e][2] = NGhost
          /\ x = 1 => R[e][1] = End(e) /\ R[e][2] = NTot(e) + Extra(s[1], e)
      BY <3>0, BoxBounds
    <3>2. ASSUME NEW d \in Dirs, d # e
          PROVE  Index(s, d) >= R[d][1] /\ Index(s, d) < R[d][2]
      <4>1. /\ Index(s, d) \in Int /\ 0 <= Index(s, d) /\ Index(s, d) < NTot(d) + Extra(s[1], d)
            /\ Extra(s[1], d) \in {0, 1} /\ NGhost \in Int /\ NInt[d] \in Int
        BY AtIs, Numbers DEF Extra
      <4>2. CASE d < e
        <5>1. R[d][1] = 0 /\ R[d][2] = NTot(d) + Extra(s[1], d)
          BY <4>2, <3>0, BoxBounds
        <5> QED BY <5>1, <4>1
      <4>3. CASE d > e
        <5>1. R[d][1] = Beg /\ R[d][2] = End(d) + Extra(s[1], d)
          BY <4>3, <3>0, BoxBounds
        <5>2. OwnIn(r, s, d)
          BY <4>3, <3>0, <1>2 DEF Dirs
        <5> QED BY <5>1, <5>2, <4>1 DEF OwnIn, Beg, End
      <4> QED BY <4>2, <4>3, <3>2, <3>0 DEF Dirs
    <3>3. ~(Index(s, e) >= R[e][1] /\ Index(s, e) < R[e][2])
      BY <1>4, <3>2 DEF Within
    <3>4. x = 0 => ~(Index(s, e) < Beg)
      BY <3>0, <3>1, <3>3 DEF Beg
    <3>5. x = 1 => ~(Index(s, e) >= End(e))
      BY <3>0, <3>1, <3>3
    <3> QED BY <3>0, <3>4, <3>5 DEF Held, KnownIn
  <2>2. Held(r, s, e, F)
    BY <2>1, <1>2 DEF Held
  <2> QED BY <2>2, <1>1, <1>4 DEF Exact
<1> QED BY <1>3, <1>4

-----------------------------------------------------------------------------
(* The exchange across the axis *)

LEMMA AxisIs ==
  ASSUME Wide, NEW r \in Procs, NEW x \in Sides, AcrossMPI(r, 1, x)
  PROVE  /\ BoundOf(1, x) = "axis" /\ TwoPi /\ ~Periodic(1) /\ Periodic(2) /\ NProc[2] > 1
         /\ NGhost <= NInt[1] /\ NProc[2] % 2 = 0
         /\ r[1] = IF x = 0 THEN 0 ELSE NProc[1] - 1
<1>0. x \in {0, 1} /\ 1 \in Dirs
  BY DEF Sides, Dirs
<1>1. BoundOf(1, x) = "axis" /\ TwoPi /\ NProc[2] > 1 /\ r[1] = IF x = 0 THEN 0 ELSE NProc[1] - 1
  BY DEF AcrossMPI, needMPIExchange, AtEdge
<1>2. ~Periodic(1)
  BY <1>0, <1>1, Bounds
<1>3. Periodic(2)
  BY <1>0, <1>1 DEF Wide
<1>4. NGhost <= NInt[1]
  BY <1>0, <1>1 DEF Wide
<1>5. "axis" \in {Bound[1][1], Bound[1][2]}
  BY <1>0, <1>1 DEF BoundOf
<1>6. NProc[2] % 2 = 0
  BY <1>1, <1>5, HaloAssumption DEF HaloAssumption
<1> QED BY <1>1, <1>2, <1>3, <1>4, <1>6

\* Half a turn twice is a whole one.
LEMMA HalfTurnIs ==
  ASSUME NEW r \in Procs, NProc[2] > 1, NProc[2] % 2 = 0
  PROVE  /\ HalfTurn(r) \in Procs /\ HalfTurn(r)[1] = r[1] /\ HalfTurn(HalfTurn(r)) = r
         /\ \E c \in Int : HalfTurn(r)[2] + (NProc[2] \div 2) = r[2] + c * NProc[2]
<1> DEFINE P == NProc[2]
           h == P \div 2
           u == r[2]
           v == (u + h) % P
<1>1. P \in Int /\ P > 1 /\ u \in Int /\ 0 <= u /\ u < P /\ r = <<r[1], u>> /\ r[1] \in 0..NProc[1] - 1
  BY ProcIs, Numbers DEF Dirs
<1>2. h \in Int /\ P = 2 * h
  BY <1>1
<1>3. HalfTurn(r) = <<r[1], v>>
  BY ProcIs DEF HalfTurn
<1> HIDE DEF P, u
<1>4. v \in Int /\ 0 <= v /\ v < P /\ v = IF u + h < P THEN u + h ELSE u + h - P
  <2>1. CASE u + h < P
    BY <2>1, <1>1, <1>2
  <2>2. CASE u + h >= P
    <3>1. PICK w \in Int, z \in 0..P - 1 : w = u + h /\ z = w - P
      BY <2>2, <1>1, <1>2
    <3>2. w = 1 * P + z
      BY <3>1, <1>1
    <3>3. w % P = z
      <4>1. PICK m \in Int : m = 1
        OBVIOUS
      <4>2. w = m * P + z
        BY <4>1, <3>2
      <4>3. P > 0
        BY <1>1
      <4> QED BY <4>2, <4>3, <3>1, <1>1, Remainder
    <3> QED BY <3>1, <3>3, <2>2, <1>1, <1>2
  <2> HIDE DEF h
  <2> QED BY <2>1, <2>2, <1>1, <1>2
<1> HIDE DEF v, h
<1>5. <<r[1], v>> \in Procs
  BY <1>1, <1>4 DEF Procs, P
<1>6. HalfTurn(<<r[1], v>>) = <<r[1], (v + h) % P>>
  BY <1>5, ProcIs DEF HalfTurn, P, h
<1>7. (v + h) % P = u
  <2>1. CASE u + h < P
    <3>1. PICK w \in Int : w = v + h
      BY <1>2, <1>4
    <3>2. PICK m \in Int : m = 1
      OBVIOUS
    <3>3. w = m * P + u /\ u \in 0..P - 1 /\ P > 0
      BY <3>1, <3>2, <2>1, <1>1, <1>2, <1>4
    <3>4. w % P = u
      BY <3>3, <1>1, Remainder
    <3> QED BY <3>1, <3>4
  <2>2. CASE u + h >= P
    <3>1. v + h = u
      BY <2>2, <1>1, <1>2, <1>4
    <3> QED BY <3>1, <1>1
  <2> QED BY <2>1, <2>2, <1>1, <1>2
<1>8. \E c \in Int : v + h = u + c * P
  <2>1. CASE u + h < P
    <3>1. v + h = u + 1 * P
      BY <2>1, <1>1, <1>2, <1>4
    <3> QED BY <3>1
  <2>2. CASE u + h >= P
    <3>1. v + h = u + 0 * P
      BY <2>2, <1>1, <1>2, <1>4
    <3> QED BY <3>1
  <2> QED BY <2>1, <2>2, <1>1, <1>2
<1>9. <<r[1], v>>[1] = r[1] /\ <<r[1], v>>[2] = v
  OBVIOUS
<1> QED BY <1>1, <1>3, <1>5, <1>6, <1>7, <1>8, <1>9 DEF P, h, u

LEMMA AxisBox ==
  ASSUME NEW k \in {"Vc", "BX2s"}, NEW x \in Sides
  PROVE  /\ k \in DOMAIN AxisBoxes(x)
         /\ x = 0 => AxisBoxes(x)[k][1][1] = Beg /\ AxisBoxes(x)[k][1][2] = Beg + NGhost
         /\ x = 1 => AxisBoxes(x)[k][1][1] = End(1) - NGhost /\ AxisBoxes(x)[k][1][2] = End(1)
         /\ AxisBoxes(x)[k][2][1] = Beg /\ AxisBoxes(x)[k][2][2] = End(2) + Extra(k, 2)
<1> DEFINE S == SendCells(1, x)
           A == AxisBoxes(x)
<1>1. S[1] = (IF x = 0 THEN <<Beg, Beg + NGhost>> ELSE <<End(1) - NGhost, End(1)>>) /\ S[2] = <<Beg, End(2)>>
      /\ S = [d \in Dirs |-> S[d]]
  BY DEF SendCells, Across, Dirs
<1>2. k \in DOMAIN A /\ A[k] = IF k = "BX2s" THEN Widened(S, 2) ELSE S
  BY DEF AxisBoxes
<1>3. Extra(k, 2) = IF k = "BX2s" THEN 1 ELSE 0
  BY KindIs DEF Kinds
<1>4. End(2) \in Int /\ Beg \in Int
  BY Numbers DEF Dirs, End, Beg
<1> HIDE DEF S, A
<1>5. /\ x = 0 => S[1][1] = Beg /\ S[1][2] = Beg + NGhost
      /\ x = 1 => S[1][1] = End(1) - NGhost /\ S[1][2] = End(1)
      /\ S[2][1] = Beg /\ S[2][2] = End(2)
  BY <1>1
<1>6. Widened(S, 2)[1] = S[1] /\ Widened(S, 2)[2] = <<Beg, End(2) + 1>>
  BY <1>1 DEF Widened, Dirs
<1>7. Widened(S, 2)[2][1] = Beg /\ Widened(S, 2)[2][2] = End(2) + 1
  BY <1>6
<1> QED BY <1>2, <1>3, <1>4, <1>5, <1>6, <1>7 DEF A

\* Where in a message across the axis what goes to a site is.
AxisOffset(s, x) == <<s[1], NGhost - 1 - (s[2] - (IF x = 0 THEN 0 ELSE End(1))), s[3] - Beg>>

\* What a message across the axis of side x has to hold for the process q.
GoodAxis(q, x, m, n) ==
  \A s \in Sites :
    s[1] # "BX1s" /\ Ghost(s, 1, x) /\ OwnIn(q, s, 2) /\ ~Reconstructed(q, s) =>
      Signed(m[AxisOffset(s, x)], s[1], 1) = Right(q, s, n)

\* What a process packs is good for the opposite meridian.
LEMMA AxisPackGood ==
  ASSUME Wide, NEW r \in Procs, NEW x \in Sides, AcrossMPI(r, 1, x), NEW q, q = HalfTurn(r),
         NEW a, NEW F, NEW n, Exact(a, r, 1, F, n)
  PROVE  GoodAxis(q, x, Packed(a, AxisBoxes(x)), n)
<1> SUFFICES ASSUME NEW s \in Sites, s[1] # "BX1s", Ghost(s, 1, x), OwnIn(q, s, 2), ~Reconstructed(q, s)
             PROVE  Signed(Packed(a, AxisBoxes(x))[AxisOffset(s, x)], s[1], 1) = Right(q, s, n)
  BY DEF GoodAxis
<1> DEFINE k == s[1]
           j == s[3]
           g == NGhost
           C == NInt[1]
           i == IF x = 0 THEN 2 * g - 1 - s[2] ELSE 2 * (g + C) - 1 - s[2]
           t == <<k, i, j>>
           P == NProc[2]
           I == NInt[2]
           h == P \div 2
<1>0. /\ x \in {0, 1} /\ 1 \in Dirs /\ 2 \in Dirs /\ g \in Int /\ g >= 0 /\ C \in Int /\ C > 0 /\ I \in Int /\ I > 0
      /\ s[2] \in Int /\ j \in Int /\ s = <<k, s[2], j>> /\ P \in Int
      /\ k \in Kinds /\ k \in {"Vc", "BX2s"} /\ Extra(k, 1) = 0 /\ Extra(k, 2) \in {0, 1}
  BY Numbers, SiteIs, KindIs DEF Dirs, Sides, Kinds
<1>1. /\ BoundOf(1, x) = "axis" /\ TwoPi /\ ~Periodic(1) /\ Periodic(2) /\ P > 1
      /\ g <= C /\ P % 2 = 0 /\ r[1] = IF x = 0 THEN 0 ELSE NProc[1] - 1
  BY AxisIs
<1>2. q \in Procs /\ q[1] = r[1] /\ \E c \in Int : q[2] + h = r[2] + c * P
  BY <1>1, HalfTurnIs
<1>3. s[2] \in 0..(C + 2 * g - 1) /\ j \in 0..(I + 2 * g - 1 + Extra(k, 2))
  BY <1>0, SitesAre DEF NTot
<1>4. IF x = 0 THEN s[2] < g ELSE s[2] >= g + C
  BY <1>0 DEF Ghost, Index, Beg, End
<1>5. j >= g /\ j < g + I
  BY <1>0, <1>1 DEF OwnIn, Index, Beg, End
<1>6. i \in Int /\ g <= i /\ i < g + C
  BY <1>0, <1>1, <1>3, <1>4
<1> HIDE DEF i
<1>7. t[1] = k /\ t[2] = i /\ t[3] = j /\ Index(t, 1) = i /\ Index(t, 2) = j /\ Index(s, 1) = s[2] /\ Index(s, 2) = j
  BY DEF Index
<1>8. t \in Sites
  <2>1. i \in 0..(NTot(1) - 1 + Extra(k, 1)) /\ j \in 0..(NTot(2) - 1 + Extra(k, 2))
    BY <1>0, <1>3, <1>6 DEF NTot
  <2> QED BY <2>1, <1>0, SitesAre
<1>9. OwnIn(r, t, 1) /\ OwnIn(r, t, 2)
  BY <1>5, <1>6, <1>7 DEF OwnIn, Beg, End
<1>10. Packed(a, AxisBoxes(x))[AxisOffset(s, x)] = a[t]
  <2> DEFINE boxes == AxisBoxes(x)
             o == g - 1 - (s[2] - (IF x = 0 THEN 0 ELSE End(1)))
             p == j - Beg
  <2>1. /\ k \in DOMAIN boxes
        /\ x = 0 => boxes[k][1][1] = Beg /\ boxes[k][1][2] = Beg + NGhost
        /\ x = 1 => boxes[k][1][1] = End(1) - NGhost /\ boxes[k][1][2] = End(1)
        /\ boxes[k][2][1] = Beg /\ boxes[k][2][2] = End(2) + Extra(k, 2)
    BY <1>0, AxisBox
  <2>2. AxisOffset(s, x) = <<k, o, p>>
    BY DEF AxisOffset
  <2> HIDE DEF boxes
  <2>3. /\ boxes[k][1][1] \in Int /\ boxes[k][1][2] \in Int /\ boxes[k][1][2] - boxes[k][1][1] = g
        /\ boxes[k][2][1] = g /\ boxes[k][2][2] = g + I + Extra(k, 2)
        /\ o + boxes[k][1][1] = i /\ o \in 0..g - 1
    BY <2>1, <1>0, <1>3, <1>4 DEF Beg, End, i
  <2>4. p + boxes[k][2][1] = j /\ p \in 0..I - 1
    BY <2>3, <1>0, <1>5 DEF Beg
  <2>5. o \in 0..(boxes[k][1][2] - boxes[k][1][1] - 1) /\ p \in 0..(boxes[k][2][2] - boxes[k][2][1] - 1)
    BY <2>3, <2>4, <1>0
  <2> HIDE DEF o, p
  <2>6. Packed(a, boxes)[<<k, o, p>>] = a[<<k, o + boxes[k][1][1], p + boxes[k][2][1]>>]
    BY <2>1, <2>5, PackedIs
  <2> QED BY <2>2, <2>3, <2>4, <2>6 DEF boxes
<1> HIDE DEF t
<1>11. /\ At(q, s, 1) = (r[1] * C) + (s[2] - g) /\ At(r, t, 1) = (r[1] * C) + (i - g)
       /\ r[1] * C \in Int /\ NGlobal(1) = NProc[1] * C /\ NGlobal(1) \in Int /\ NGlobal(1) > 0 /\ NProc[1] \in Int
       /\ At(q, s, 1) \in Int
  BY <1>0, <1>2, <1>7, <1>8, AtIs, Numbers
<1>12. r[1] * C = IF x = 0 THEN 0 ELSE NGlobal(1) - C
  BY <1>1, <1>11, <1>0
<1>13. IF x = 0 THEN At(q, s, 1) < 0 ELSE At(q, s, 1) >= NGlobal(1)
  BY <1>11, <1>12, <1>4, <1>0
<1>14. Image(1, At(q, s, 1)) = IF x = 0 THEN -1 - At(q, s, 1) ELSE 2 * NGlobal(1) - 1 - At(q, s, 1)
  <2>1. CASE x = 0
    BY <2>1, <1>13, <1>11, <1>1, <1>0, ImageIs
  <2>2. CASE x = 1
    BY <2>2, <1>13, <1>11, <1>1, <1>0, ImageIs
  <2> QED BY <2>1, <2>2, <1>0
<1>15. At(r, t, 1) = Image(1, At(q, s, 1))
  BY <1>11, <1>12, <1>14, <1>0 DEF i
<1>16. 0 <= At(r, t, 1) /\ At(r, t, 1) < NGlobal(1)
  BY <1>7, <1>8, <1>9, <1>0, OwnAt
<1>17. At(r, t, 2) % NGlobal(2) = (At(q, s, 2) + Half) % NGlobal(2)
  <2> DEFINE G == NGlobal(2)
             u == r[2]
             v == q[2]
             l == j - g
  <2>1. /\ At(q, s, 2) = (v * I) + l /\ At(r, t, 2) = (u * I) + l /\ u \in Int /\ v \in Int /\ l \in Int
        /\ At(q, s, 2) \in Int /\ At(r, t, 2) \in Int /\ G \in Int /\ G > 0 /\ G = P * I
    BY <1>0, <1>2, <1>7, <1>8, AtIs, Numbers
  <2>2. h \in Int /\ P = 2 * h
    BY <1>0, <1>1
  <2>3. PICK c \in Int : v + h = u + c * P
    BY <1>2
  <2> HIDE DEF P, I, h, u, v, l, G
  <2>4. PICK H \in Int : H = h * I
    BY <2>2, <1>0
  <2>5. Half = H
    <3>1. G = 2 * H
      BY <2>1, <2>2, <2>4, <1>0
    <3> QED BY <3>1, <2>4 DEF Half, G
  <2>6. (v * I) + H = (u * I) + (c * G)
    <3>1. (v + h) * I = (u + c * P) * I
      BY <2>3
    <3>2. (v + h) * I = (v * I) + H
      BY <2>1, <2>2, <2>4, <1>0
    <3>3. (u + c * P) * I = (u * I) + (c * (P * I))
      BY <2>1, <2>3, <1>0
    <3> QED BY <3>1, <3>2, <3>3, <2>1
  <2>7. PICK y \in Int, z \in Int : y = At(r, t, 2) /\ z = At(q, s, 2) + H
    BY <2>1, <2>4
  <2>8. z = y + (c * G)
    <3>1. PICK A \in Int, B \in Int, D \in Int : A = u * I /\ B = v * I /\ D = c * G
      BY <2>1, <2>3, <1>0
    <3>2. B + H = A + D /\ y = A + l /\ z = B + l + H /\ l \in Int
      BY <3>1, <2>1, <2>6, <2>7
    <3>3. z = y + D
      BY <3>2
    <3> QED BY <3>1, <3>3
  <2>9. G \in Int /\ G > 0
    BY <2>1
  <2>10. z % G = y % G
    BY <2>8, <2>9, WholeTurns
  <2> QED BY <2>5, <2>7, <2>10 DEF G
<1>18. /\ Right(q, s, n) = Signed(Right(r, t, n), s[1], 1)
       /\ Reconstructed(q, s) <=> Reconstructed(r, t)
  <2>1. IF BoundOf(1, x) = "axis" /\ TwoPi THEN At(r, t, 2) % NGlobal(2) = (At(q, s, 2) + Half) % NGlobal(2)
        ELSE At(r, t, 2) = At(q, s, 2)
    BY <1>1, <1>17
  <2>2. /\ Right(q, s, n) = IF BoundOf(1, x) \in {"reflective", "axis"} THEN Signed(Right(r, t, n), s[1], 1) ELSE Right(r, t, n)
        /\ Reconstructed(q, s) <=> Reconstructed(r, t)
    <3>1. s[1] = t[1] /\ ~Periodic(1) /\ Extra(s[1], 1) = 0 /\ 1 \in Dirs /\ 2 \in Dirs
      BY <1>0, <1>1, <1>7
    <3> HIDE DEF k, j, g, C, P, I, h
    <3> QED BY <3>1, <2>1, <1>2, <1>8, <1>13, <1>15, <1>16, Mirrored
  <2> QED BY <2>2, <1>1
<1>19. a[t] = Right(r, t, n)
  BY <1>8, <1>9, <1>18 DEF Exact, Held, KnownIn
<1> QED BY <1>10, <1>18, <1>19

\* ...and sets the ghosts beyond the axis.
LEMMA FoldedExact ==
  ASSUME Wide, NEW q \in Procs, NEW x \in Sides, AcrossMPI(q, 1, x), NEW a, NEW m, NEW F, NEW n,
         Exact(a, q, 1, F, n), GoodAxis(q, x, m, n)
  PROVE  Exact(Folded(a, m, x), q, 1, F \cup {x}, n)
<1> SUFFICES ASSUME NEW s \in Sites, Held(q, s, 1, F \cup {x}), ~Reconstructed(q, s)
             PROVE  Folded(a, m, x)[s] = Right(q, s, n)
  BY DEF Exact
<1> DEFINE left == s[1] = "BX1s" \/ ~Ghost(s, 1, x) \/ Index(s, 2) < Beg \/ Index(s, 2) >= End(2) + Extra(s[1], 2)
<1>0. /\ x \in {0, 1} /\ s[1] \in Kinds /\ NGhost \in Int /\ NGhost >= 0 /\ NInt[1] \in Int /\ NInt[1] > 0 /\ NInt[2] \in Int
      /\ Extra(s[1], 1) = (IF s[1] = "BX1s" THEN 1 ELSE 0) /\ Extra(s[1], 2) \in {0, 1}
      /\ Index(s, 1) \in Int /\ Index(s, 2) \in Int /\ NProc[1] \in Int
      /\ At(q, s, 1) = (q[1] * NInt[1]) + (Index(s, 1) - NGhost)
      /\ NGlobal(1) = NProc[1] * NInt[1] /\ NGlobal(1) \in Int
  BY Numbers, AtIs, SiteIs, KindIs DEF Dirs, Sides
<1>1. Folded(a, m, x)[s] = IF left THEN a[s] ELSE Signed(m[AxisOffset(s, x)], s[1], 1)
  BY DEF Folded, AxisOffset
<1>2. OwnIn(q, s, 2)
  BY DEF Held
<1>3. BoundOf(1, x) = "axis" /\ ~Periodic(1) /\ Periodic(2) /\ q[1] = IF x = 0 THEN 0 ELSE NProc[1] - 1
  BY AxisIs
<1>4. CASE ~left
  BY <1>1, <1>2, <1>4 DEF GoodAxis
<1>5. CASE left
  <2>1. s[1] = "BX1s" \/ ~Ghost(s, 1, x)
    BY <1>5, <1>2, <1>0 DEF OwnIn, Beg, End
  <2>2. ~(x = 0 /\ Index(s, 1) < Beg) /\ ~(x = 1 /\ Index(s, 1) >= End(1))
    <3>1. CASE s[1] = "BX1s"
      <4>1. At(q, s, 1) \in 1..NGlobal(1) - 1 \/ (x = 0 /\ At(q, s, 1) = NGlobal(1)) \/ (x = 1 /\ At(q, s, 1) = 0)
        <5>1. At(q, s, 1) \in 0..NGlobal(1) /\ ~(x = 0 /\ At(q, s, 1) = 0) /\ ~(x = 1 /\ At(q, s, 1) = NGlobal(1))
          BY <3>1, <1>0, <1>3 DEF Reconstructed, Dirs
        <5> QED BY <5>1, <1>0
      <4>2. q[1] * NInt[1] = IF x = 0 THEN 0 ELSE NGlobal(1) - NInt[1]
        BY <1>0, <1>3
      <4>3. NGlobal(1) > 0
        BY Numbers DEF Dirs
      <4> QED BY <4>1, <4>2, <4>3, <1>0 DEF Beg, End
    <3>2. CASE s[1] # "BX1s"
      BY <3>2, <2>1, <1>0 DEF Ghost, Beg, End
    <3> QED BY <3>1, <3>2
  <2>3. Held(q, s, 1, F)
    BY <2>2, <1>0, <1>2 DEF Held, KnownIn
  <2> QED BY <2>3, <1>1, <1>5 DEF Exact
<1> QED BY <1>4, <1>5

-----------------------------------------------------------------------------
(* The inductive invariant *)

\* A process uses the channel of a direction that is shared, and the one across
\* the axis if it has one and its opposite meridian is another process's.
Used(r, e) == IF e = AXIS THEN \E x \in Sides : AcrossMPI(r, 1, x) ELSE NProc[e] > 1

\* The exchanges across the axis, counted from the first stage on: there are
\* one or two in each.
PerStage(r) == IF AcrossMPI(r, 1, 0) /\ AcrossMPI(r, 1, 1) THEN 2 ELSE 1
Ticket(r, n, x) == PerStage(r) * (n - 1) + (IF PerStage(r) = 2 THEN x ELSE 0) + 1

\* How many exchanges of a channel a process has started, and received.
Begun(r, e) ==
  IF e = AXIS THEN IF pc[r] = "set" \/ dir[r] = 2 THEN PerStage(r) * stage[r]
                   ELSE IF pc[r] \in {"axis", "axisSent"} THEN Ticket(r, stage[r], side[r])
                   ELSE PerStage(r) * (stage[r] - 1)
  ELSE IF pc[r] = "set" \/ dir[r] > e \/ (dir[r] = e /\ pc[r] # "enter") THEN stage[r] ELSE stage[r] - 1

Got(r, e) ==
  IF \/ e = AXIS /\ pc[r] = "axis"
     \/ e # AXIS /\ dir[r] = e /\ pc[r] = "recv"
    THEN Begun(r, e) - 1 ELSE Begun(r, e)

\* How many messages of a channel have left.
Gone(r, e, x) == IF <<e, x>> \in send[r] THEN Begun(r, e) - 1 ELSE Begun(r, e)

\* What the k-th message of a channel to side x of the process q has to hold.
Valid(q, e, x, m, k) ==
  IF e = AXIS THEN \A n \in Nat, y \in Sides : AcrossMPI(q, 1, y) /\ k = Ticket(q, n, y) => GoodAxis(q, y, m, n)
  ELSE Good(q, e, x, m, k)

\* The types, as far as they are needed.
IsQueue(f) == \E M : f \in Seq(M)

Shape ==
  /\ pc \in [Procs -> {"enter", "recv", "sent", "axis", "axisSent", "set"}]
  /\ stage \in [Procs -> Nat] /\ dir \in [Procs -> Dirs] /\ side \in [Procs -> Sides]
  /\ send \in [Procs -> SUBSET (Channels \X Sides)]
  /\ DOMAIN field = Procs /\ DOMAIN buffer = Procs /\ DOMAIN flight = Procs
  /\ \A r \in Procs : DOMAIN buffer[r] = Channels /\ DOMAIN flight[r] = Channels
  /\ \A r \in Procs, e \in Channels : DOMAIN buffer[r][e] = Sides /\ DOMAIN flight[r][e] = Sides
  /\ \A r \in Procs, e \in Channels, x \in Sides : IsQueue(flight[r][e][x])

\* Only a direction that is shared is exchanged, and only the axis of the first.
Where(r) ==
  /\ pc[r] \in {"recv", "sent"} => NProc[dir[r]] > 1
  /\ pc[r] \in {"axis", "axisSent"} => dir[r] = 1 /\ AcrossMPI(r, 1, side[r])
  /\ pc[r] = "set" => dir[r] = 1

\* The sides whose ghosts come from neighbours, and those that have been set.
FromOthers(r, e) == IF NProc[e] > 1 THEN {x \in Sides : Neighbours(r, e, x) # {}} ELSE {}

Finished(r) ==
  IF pc[r] = "sent" THEN FromOthers(r, dir[r])
  ELSE IF pc[r] = "axis" THEN FromOthers(r, dir[r]) \cup {x \in Sides : x < side[r]}
  ELSE IF pc[r] = "axisSent" THEN FromOthers(r, dir[r]) \cup {x \in Sides : x <= side[r]}
  ELSE {}

\* The array of a process is right as far as it has come.
Fine(r) ==
  IF pc[r] = "set" THEN Exact(field[r], r, 2, Sides, stage[r])
  ELSE Exact(field[r], r, dir[r], Finished(r), stage[r])

\* A send is under way only in the exchange that started it, whose message is
\* still in the buffer.
Sending(r, e, x) ==
  <<e, x>> \in send[r] =>
    /\ IF e = AXIS THEN x = 0 /\ pc[r] \in {"axis", "axisSent"} ELSE dir[r] = e /\ pc[r] \in {"recv", "sent"}
    /\ \A q \in Neighbours(r, e, x) : Valid(q, e, 1 - x, buffer[r][e][x], Begun(r, e))

\* What has left and has not been received is on its way, in order.
Flying(r, e, x, q) ==
  /\ Len(flight[q][e][1 - x]) = Gone(r, e, x) - Got(q, e)
  /\ \A k \in 1..Len(flight[q][e][1 - x]) : Valid(q, e, 1 - x, flight[q][e][1 - x][k], Got(q, e) + k)

\* The inductive invariant.
IInv ==
  /\ Shape
  /\ \A r \in Procs : Where(r) /\ Fine(r)
  /\ \A r \in Procs, e \in Channels, x \in Sides : Sending(r, e, x)
  /\ \A r \in Procs, e \in Channels, x \in Sides :
       Used(r, e) => \A q \in Neighbours(r, e, x) : Flying(r, e, x, q)

-----------------------------------------------------------------------------

LEMMA AxisSame ==
  ASSUME NEW r, NEW q, r[1] = q[1], NEW x
  PROVE  AcrossMPI(r, 1, x) <=> AcrossMPI(q, 1, x)
BY DEF AcrossMPI, AtEdge

LEMMA ChannelIs ==
  ASSUME Wide, NEW r \in Procs, NEW e \in Channels, NEW x \in Sides, NEW q, q \in Neighbours(r, e, x), Used(r, e)
  PROVE  /\ q \in Procs /\ Used(q, e) /\ Neighbours(r, e, x) = {q}
         /\ e # AXIS => r \in Neighbours(q, e, 1 - x)
         /\ e = AXIS => x = 0 /\ q = HalfTurn(r) /\ \A y : AcrossMPI(r, 1, y) <=> AcrossMPI(q, 1, y)
<1>0. e \in Dirs \/ e = AXIS
  BY DEF Channels
<1>1. CASE e \in Dirs
  <2>1. e # AXIS
    BY <1>1 DEF Dirs, AXIS
  <2>2. NProc[e] > 1
    BY <2>1 DEF Used
  <2> QED BY <1>1, <2>1, <2>2, NeighbourIs DEF Used
<1>2. CASE e = AXIS
  <2>1. PICK y \in Sides : AcrossMPI(r, 1, y)
    BY <1>2 DEF Used
  <2>2. NProc[2] > 1 /\ NProc[2] % 2 = 0
    BY <2>1, AxisIs
  <2>3. HalfTurn(r) \in Procs /\ HalfTurn(r)[1] = r[1] /\ HalfTurn(HalfTurn(r)) = r
    BY <2>2, HalfTurnIs
  <2>4. x = 0 /\ q = HalfTurn(r) /\ Neighbours(r, e, x) = {q}
    BY <1>2 DEF Neighbours, Sides
  <2>5. \A z : AcrossMPI(r, 1, z) <=> AcrossMPI(q, 1, z)
    BY <2>3, <2>4, AxisSame
  <2>6. Used(q, e)
    BY <1>2, <2>1, <2>5 DEF Used
  <2> QED BY <2>3, <2>4, <2>5, <2>6, <1>2
<1> QED BY <1>0, <1>1, <1>2

\* A message to one side of a process has one sender.
LEMMA SameSender ==
  ASSUME Wide, NEW r \in Procs, NEW p \in Procs, NEW e \in Channels, NEW x \in Sides, NEW q,
         q \in Neighbours(r, e, x), q \in Neighbours(p, e, x), Used(r, e), Used(p, e)
  PROVE  p = r
<1>1. CASE e = AXIS
  <2>1. q = HalfTurn(r) /\ q = HalfTurn(p) /\ x = 0
    BY <1>1, ChannelIs
  <2>2. PICK y \in Sides, z \in Sides : AcrossMPI(r, 1, y) /\ AcrossMPI(p, 1, z)
    BY <1>1 DEF Used
  <2>3. NProc[2] > 1 /\ NProc[2] % 2 = 0
    BY <2>2, AxisIs
  <2>4. HalfTurn(HalfTurn(r)) = r /\ HalfTurn(HalfTurn(p)) = p
    BY <2>3, HalfTurnIs
  <2> QED BY <2>1, <2>4
<1>2. CASE e # AXIS
  <2>1. e \in Dirs /\ NProc[e] > 1
    BY <1>2 DEF Channels, Used
  <2>2. q \in Procs /\ r \in Neighbours(q, e, 1 - x) /\ p \in Neighbours(q, e, 1 - x)
    BY <2>1, NeighbourIs
  <2>3. PICK y \in Sides : y = 1 - x
    BY DEF Sides
  <2>4. Neighbours(q, e, y) = {r} /\ Neighbours(q, e, y) = {p}
    BY <2>1, <2>2, <2>3, NeighbourIs
  <2> QED BY <2>4
<1> QED BY <1>1, <1>2

LEMMA TicketIs ==
  ASSUME NEW r, NEW n \in Int, NEW x \in Sides
  PROVE  /\ PerStage(r) \in {1, 2} /\ Ticket(r, n, x) \in Int
         /\ PerStage(r) = 1 => Ticket(r, n, x) = n
         /\ PerStage(r) = 2 => Ticket(r, n, x) = 2 * n - 1 + x
         /\ PerStage(r) = 2 <=> AcrossMPI(r, 1, 0) /\ AcrossMPI(r, 1, 1)
<1>1. x \in {0, 1} /\ PerStage(r) \in {1, 2} /\ (PerStage(r) = 2 <=> AcrossMPI(r, 1, 0) /\ AcrossMPI(r, 1, 1))
  BY DEF Sides, PerStage
<1>2. CASE PerStage(r) = 1
  BY <1>1, <1>2 DEF Ticket
<1>3. CASE PerStage(r) = 2
  BY <1>1, <1>3 DEF Ticket
<1> QED BY <1>1, <1>2, <1>3

LEMMA TicketOnce ==
  ASSUME NEW r, NEW n \in Int, NEW x \in Sides, NEW k \in Int, NEW y \in Sides,
         AcrossMPI(r, 1, x), AcrossMPI(r, 1, y), Ticket(r, n, x) = Ticket(r, k, y)
  PROVE  n = k /\ x = y
<1>1. x \in {0, 1} /\ y \in {0, 1}
  BY DEF Sides
<1>2. CASE PerStage(r) = 1
  <2>1. n = k /\ (x = y \/ (AcrossMPI(r, 1, 0) /\ AcrossMPI(r, 1, 1)))
    BY <1>1, <1>2, TicketIs
  <2> QED BY <2>1, <1>2, TicketIs
<1>3. CASE PerStage(r) = 2
  BY <1>1, <1>3, TicketIs
<1> QED BY <1>2, <1>3, TicketIs

LEMMA CountsAre ==
  ASSUME Shape, NEW r \in Procs, NEW e \in Channels, NEW x
  PROVE  Begun(r, e) \in Int /\ Got(r, e) \in Int /\ Gone(r, e, x) \in Int
<1>1. Begun(r, e) \in Int
  <2>1. stage[r] \in Int /\ side[r] \in Sides
    BY DEF Shape
  <2>2. PerStage(r) \in Int /\ Ticket(r, stage[r], side[r]) \in Int
    BY <2>1, TicketIs
  <2>3. PerStage(r) * stage[r] \in Int /\ PerStage(r) * (stage[r] - 1) \in Int
    BY <2>1, <2>2
  <2> QED BY <2>1, <2>2, <2>3 DEF Begun
<1> QED BY <1>1 DEF Got, Gone

\* What is said of a process depends on its own variables alone.
LEMMA SameProcess ==
  ASSUME NEW p, pc'[p] = pc[p], stage'[p] = stage[p], dir'[p] = dir[p], side'[p] = side[p]
  PROVE  /\ \A e : Begun(p, e)' = Begun(p, e) /\ Got(p, e)' = Got(p, e)
         /\ Where(p)' <=> Where(p)
         /\ Finished(p)' = Finished(p)
         /\ field'[p] = field[p] => (Fine(p)' <=> Fine(p))
<1>1. \A e : Begun(p, e)' = Begun(p, e)
  BY DEF Begun
<1>2. \A e : Got(p, e)' = Got(p, e)
  BY <1>1 DEF Got
<1>3. Where(p)' <=> Where(p)
  BY DEF Where
<1>4. Finished(p)' = Finished(p)
  BY DEF Finished
<1>5. field'[p] = field[p] => (Fine(p)' <=> Fine(p))
  BY <1>4 DEF Fine
<1> QED BY <1>1, <1>2, <1>3, <1>4, <1>5

LEMMA SameSending ==
  ASSUME NEW p, NEW e, NEW x, pc'[p] = pc[p], stage'[p] = stage[p], dir'[p] = dir[p], side'[p] = side[p],
         buffer'[p][e][x] = buffer[p][e][x], <<e, x>> \in send'[p] => <<e, x>> \in send[p], Sending(p, e, x)
  PROVE  Sending(p, e, x)'
<1>1. Begun(p, e)' = Begun(p, e)
  BY SameProcess
<1> QED BY <1>1 DEF Sending

\* A step that leaves the messages alone, and the counts.
LEMMA SameFlying ==
  ASSUME NEW r, NEW e, NEW x, NEW q, flight'[q][e][1 - x] = flight[q][e][1 - x],
         Gone(r, e, x)' = Gone(r, e, x), Got(q, e)' = Got(q, e), Flying(r, e, x, q)
  PROVE  Flying(r, e, x, q)'
BY DEF Flying

LEMMA ExactLess ==
  ASSUME NEW a, NEW r, NEW e, NEW F, NEW G, NEW n, Exact(a, r, e, F, n), G \subseteq F
  PROVE  Exact(a, r, e, G, n)
BY DEF Exact, Held, KnownIn

\* A direction whose two sides are set gives the next one all its indices.
LEMMA ExactNext ==
  ASSUME NEW a, NEW r \in Procs, NEW n, Exact(a, r, 1, Sides, n)
  PROVE  Exact(a, r, 2, {}, n)
<1> SUFFICES ASSUME NEW s \in Sites, Held(r, s, 2, {}), ~Reconstructed(r, s)
             PROVE  a[s] = Right(r, s, n)
  BY DEF Exact
<1>1. OwnIn(r, s, 2)
  BY DEF Held, KnownIn
<1>2. Index(s, 1) \in Int /\ NGhost \in Int /\ NInt[1] \in Int
  BY AtIs, Numbers DEF Dirs
<1>3. KnownIn(r, s, 1, Sides)
  BY <1>2 DEF KnownIn, OwnIn, Sides, Beg, End
<1> QED BY <1>1, <1>3 DEF Exact, Held

-----------------------------------------------------------------------------
(* EnforceBoundaryDir *)

LEMMA EnforcedOrNot ==
  ASSUME Wide, NEW a, NEW r \in Procs, NEW d \in Dirs, NEW x \in Sides, NEW F, NEW n,
         Exact(a, r, d, F, n)
  PROVE  /\ Exact(Enforced(a, r, d, x), r, d, F, n)
         /\ Local(r, d, x) => Exact(Enforced(a, r, d, x), r, d, F \cup {x}, n)
<1>1. CASE Local(r, d, x)
  <2>1. Exact(Enforced(a, r, d, x), r, d, F \cup {x}, n)
    BY <1>1, EnforcedExact
  <2> QED BY <2>1, ExactLess
<1>2. CASE ~Local(r, d, x)
  BY <1>2 DEF Enforced
<1> QED BY <1>1, <1>2

LEMMA Enforcing ==
  ASSUME Wide, Shape, NEW r \in Procs, NEW sides \in SUBSET Sides, NEW F \in SUBSET Sides,
         Exact(field[r], r, dir[r], F, stage[r]),
         \A y \in Sides : y \in F \/ (y \in sides /\ (Local(r, dir[r], y) \/ AcrossMPI(r, dir[r], y))),
         EnforceBoundaryDir(r, sides)
  PROVE  \E b :
    /\ field' = [field EXCEPT ![r] = b]
    /\ \/ /\ \A y \in sides : ~AcrossMPI(r, dir[r], y)
          /\ Exact(b, r, dir[r], Sides, stage[r])
          /\ NextDir(r) /\ UNCHANGED <<side, buffer, send, recv>>
       \/ \E x \in sides :
            /\ AcrossMPI(r, dir[r], x)
            /\ \A y \in sides : AcrossMPI(r, dir[r], y) => x <= y
            /\ \A G \in SUBSET Sides : (\A y \in G : y \in F \/ y < x) => Exact(b, r, dir[r], G, stage[r])
            /\ side' = [side EXCEPT ![r] = x]
            /\ buffer' = [buffer EXCEPT ![r][AXIS][0] = Packed(b, AxisBoxes(x))]
            /\ send' = [send EXCEPT ![r] = @ \cup {<<AXIS, 0>>}]
            /\ pc' = [pc EXCEPT ![r] = "axis"]
            /\ dir' = dir
<1> DEFINE d == dir[r]
           n == stage[r]
           across == {x \in sides : AcrossMPI(r, d, x)}
           now == {x \in sides : \A y \in across : x < y}
           left == IF 0 \in now THEN Enforced(field[r], r, d, 0) ELSE field[r]
           b == IF 1 \in now THEN Enforced(left, r, d, 1) ELSE left
           Y(y) == y \in now /\ Local(r, d, y)
           E == {y \in Sides : y \in F \/ Y(y)}
<1>0. d \in Dirs /\ Sides = {0, 1} /\ 0 \in Sides /\ 1 \in Sides
  BY DEF Shape, Sides
<1>1. Exact(left, r, d, F, n) /\ (Y(0) => Exact(left, r, d, F \cup {0}, n))
  <2>1. CASE 0 \in now
    <3>1. Exact(Enforced(field[r], r, d, 0), r, d, F, n)
          /\ (Local(r, d, 0) => Exact(Enforced(field[r], r, d, 0), r, d, F \cup {0}, n))
      BY <1>0, EnforcedOrNot
    <3> QED BY <3>1, <2>1
  <2>2. CASE 0 \notin now
    BY <2>2
  <2> QED BY <2>1, <2>2
<1>2. \A G : Exact(left, r, d, G, n) => Exact(b, r, d, G, n) /\ (Y(1) => Exact(b, r, d, G \cup {1}, n))
  <2>1. CASE 1 \in now
    <3> HIDE DEF left, now
    <3>1. ASSUME NEW G, Exact(left, r, d, G, n)
          PROVE  /\ Exact(Enforced(left, r, d, 1), r, d, G, n)
                 /\ (Local(r, d, 1) => Exact(Enforced(left, r, d, 1), r, d, G \cup {1}, n))
      BY <1>0, <3>1, EnforcedOrNot
    <3> QED BY <3>1, <2>1
  <2>2. CASE 1 \notin now
    BY <2>2
  <2> QED BY <2>1, <2>2
<1>3. Exact(b, r, d, E, n)
  <2> DEFINE G == IF Y(0) THEN F \cup {0} ELSE F
             H == IF Y(1) THEN G \cup {1} ELSE G
  <2> HIDE DEF left, b, Y
  <2>1. Exact(left, r, d, G, n)
    BY <1>1
  <2>2. Exact(b, r, d, H, n)
    BY <2>1, <1>2
  <2>3. E \subseteq H
    BY <1>0
  <2> HIDE DEF H, E
  <2> QED BY <2>2, <2>3, ExactLess
<1>4. /\ field' = [field EXCEPT ![r] = b]
      /\ \/ /\ across = {}
            /\ NextDir(r)
            /\ UNCHANGED <<side, buffer, send, recv>>
         \/ \E x \in across:
              /\ \A y \in across: x <= y
              /\ side' = [side EXCEPT ![r] = x]
              /\ recv' = [recv EXCEPT ![r] = @ \cup {AXIS}]
              /\ buffer' = [buffer EXCEPT ![r][AXIS][0] = Packed(b, AxisBoxes(x))]
              /\ send' = [send EXCEPT ![r] = @ \cup {<<AXIS, 0>>}]
              /\ pc' = [pc EXCEPT ![r] = "axis"]
              /\ dir' = dir
  BY DEF EnforceBoundaryDir
<1> HIDE DEF b, left
<1>5. CASE /\ across = {}
           /\ NextDir(r)
           /\ UNCHANGED <<side, buffer, send, recv>>
  <2>1. \A y \in sides : ~AcrossMPI(r, d, y) /\ y \in now
    BY <1>5
  <2>2. Sides \subseteq E
    BY <2>1
  <2> HIDE DEF E, now, Y
  <2>3. Exact(b, r, d, Sides, n)
    BY <2>2, <1>3, ExactLess
  <2> QED BY <1>4, <1>5, <2>1, <2>3
<1>6. ASSUME NEW x \in across,
             \A y \in across: x <= y,
             side' = [side EXCEPT ![r] = x],
             buffer' = [buffer EXCEPT ![r][AXIS][0] = Packed(b, AxisBoxes(x))],
             send' = [send EXCEPT ![r] = @ \cup {<<AXIS, 0>>}],
             pc' = [pc EXCEPT ![r] = "axis"],
             dir' = dir
      PROVE  \E z \in sides :
            /\ AcrossMPI(r, d, z)
            /\ \A y \in sides : AcrossMPI(r, d, y) => z <= y
            /\ \A G \in SUBSET Sides : (\A y \in G : y \in F \/ y < z) => Exact(b, r, d, G, n)
            /\ side' = [side EXCEPT ![r] = z]
            /\ buffer' = [buffer EXCEPT ![r][AXIS][0] = Packed(b, AxisBoxes(z))]
            /\ send' = [send EXCEPT ![r] = @ \cup {<<AXIS, 0>>}]
            /\ pc' = [pc EXCEPT ![r] = "axis"]
            /\ dir' = dir
  <2>1. x \in sides /\ AcrossMPI(r, d, x) /\ \A y \in sides : AcrossMPI(r, d, y) => x <= y
    BY <1>6
  <2>2. ASSUME NEW G \in SUBSET Sides, \A y \in G : y \in F \/ y < x
        PROVE  Exact(b, r, d, G, n)
    <3>1. ASSUME NEW y \in G PROVE y \in E
      <4>1. y \in Sides
        OBVIOUS
      <4>2. CASE y \in F
        BY <4>1, <4>2
      <4>3. CASE y \notin F
        <5>1. y < x /\ y \in sides /\ (Local(r, d, y) \/ AcrossMPI(r, d, y))
          BY <4>1, <4>3, <3>1, <2>2
        <5>2. y \in Int /\ x \in Int
          BY <4>1, <1>0, <2>1
        <5>3. \A z \in across : z \in Int
          BY <1>0
        <5>4. ~AcrossMPI(r, d, y)
          BY <5>1, <5>2, <2>1
        <5>5. y \in now
          BY <5>1, <5>2, <5>3, <1>6
        <5> QED BY <5>1, <5>4, <5>5, <4>1
      <4> QED BY <4>2, <4>3
    <3> HIDE DEF E
    <3>2. G \subseteq E
      BY <3>1
    <3> QED BY <3>2, <1>3, ExactLess
  <2> QED BY <1>6, <2>1, <2>2
<1>7. field' = [field EXCEPT ![r] = b]
  BY <1>4
<1> HIDE DEF across, now, E
<1> QED BY <1>4, <1>5, <1>6, <1>7

\* Whence EnforceBoundaryDir is called, with the sides that are left.
Enters(r, sides) ==
  \/ pc[r] = "enter" /\ NProc[dir[r]] = 1 /\ sides = Sides
  \/ pc[r] = "sent" /\ sides = Sides
  \/ pc[r] = "axisSent" /\ sides = {x \in Sides : x > side[r]}

\* Its end is no exchange: the counts are those of before.
LEMMA CountsNext ==
  ASSUME Wide, Shape, NEW r \in Procs, Where(r), NEW sides, Enters(r, sides),
         \A y \in sides : ~AcrossMPI(r, dir[r], y), NextDir(r), UNCHANGED <<side, stage>>
  PROVE  \A e \in Channels : Used(r, e) => Begun(r, e)' = Begun(r, e) /\ Got(r, e)' = Got(r, e) /\ Begun(r, e) = Got(r, e)
<1> SUFFICES ASSUME NEW e \in Channels, Used(r, e)
             PROVE  Begun(r, e)' = Begun(r, e) /\ Got(r, e)' = Got(r, e) /\ Begun(r, e) = Got(r, e)
  OBVIOUS
<1>1. /\ pc[r] \in {"enter", "sent", "axisSent"} /\ dir[r] \in {1, 2} /\ side[r] \in {0, 1} /\ stage[r] \in Nat
      /\ Sides = {0, 1}
  BY DEF Enters, Shape, Dirs, Sides
<1>2. /\ stage'[r] = stage[r] /\ side'[r] = side[r]
      /\ \/ dir[r] = 1 /\ dir'[r] = 2 /\ pc'[r] = "enter"
         \/ dir[r] = 2 /\ dir'[r] = 1 /\ pc'[r] = "set"
  BY <1>1 DEF NextDir, Shape
<1>3. Got(r, e) = Begun(r, e) /\ Got(r, e)' = Begun(r, e)'
  BY <1>1, <1>2 DEF Got
<1>4. CASE e = AXIS
  <2>1. Begun(r, e)' = PerStage(r) * stage[r]
    BY <1>4, <1>2 DEF Begun
  <2>2. CASE dir[r] = 2
    <3>1. Begun(r, e) = PerStage(r) * stage[r]
      BY <1>4, <2>2 DEF Begun
    <3> QED BY <3>1, <2>1, <1>3
  <2>3. CASE dir[r] = 1
    <3>1. PICK y \in Sides : AcrossMPI(r, 1, y)
      BY <1>4 DEF Used
    <3>2. y \notin sides
      BY <3>1, <2>3
    <3>3. pc[r] = "axisSent" /\ sides = {x \in Sides : x > side[r]}
      BY <3>2 DEF Enters
    <3>4. Begun(r, e) = Ticket(r, stage[r], side[r])
      BY <1>4, <2>3, <3>3 DEF Begun
    <3>5. AcrossMPI(r, 1, side[r])
      BY <3>3 DEF Where
    <3>6. PerStage(r) = 2 => side[r] = 1
      <4>1. PerStage(r) = 2 => AcrossMPI(r, 1, 1)
        BY <1>1, TicketIs DEF PerStage
      <4>2. AcrossMPI(r, 1, 1) => 1 \notin sides
        BY <2>3
      <4> QED BY <4>1, <4>2, <3>3, <1>1
    <3>7. Ticket(r, stage[r], side[r]) = PerStage(r) * stage[r]
      <4>0. stage[r] \in Int /\ side[r] \in Sides
        BY <1>1
      <4>1. PerStage(r) \in {1, 2} /\ (PerStage(r) = 1 => Ticket(r, stage[r], side[r]) = stage[r])
            /\ (PerStage(r) = 2 => Ticket(r, stage[r], side[r]) = 2 * stage[r] - 1 + side[r])
        BY <4>0, TicketIs
      <4> QED BY <4>1, <3>6, <1>1
    <3> QED BY <3>4, <3>7, <2>1, <1>3
  <2> QED BY <2>2, <2>3, <1>1
<1>5. CASE e # AXIS
  <2>1. e \in {1, 2} /\ NProc[e] > 1
    BY <1>5 DEF Channels, Dirs, Used
  <2>2. pc[r] = "enter" => dir[r] # e
    BY <2>1 DEF Enters
  <2>3. Begun(r, e)' = IF dir[r] = 1 /\ e = 2 THEN stage[r] - 1 ELSE stage[r]
    BY <1>1, <1>2, <1>5, <2>1 DEF Begun
  <2>4. Begun(r, e) = IF dir[r] = 1 /\ e = 2 THEN stage[r] - 1 ELSE stage[r]
    BY <1>1, <1>5, <2>1, <2>2 DEF Begun
  <2> QED BY <2>3, <2>4, <1>3
<1> QED BY <1>4, <1>5

\* The exchange across an axis is the next one: one more is begun.
LEMMA CountsAxis ==
  ASSUME Wide, Shape, NEW r \in Procs, Where(r), NEW sides, Enters(r, sides), NEW x \in sides,
         AcrossMPI(r, dir[r], x), \A y \in sides : AcrossMPI(r, dir[r], y) => x <= y,
         pc' = [pc EXCEPT ![r] = "axis"], side' = [side EXCEPT ![r] = x], UNCHANGED <<dir, stage>>
  PROVE  /\ dir[r] = 1 /\ x \in Sides /\ AcrossMPI(r, 1, x)
         /\ Begun(r, AXIS)' = Ticket(r, stage[r], x) /\ Begun(r, AXIS) \in Int
         /\ Begun(r, AXIS)' = Begun(r, AXIS) + 1 /\ Got(r, AXIS) = Begun(r, AXIS) /\ Got(r, AXIS)' = Begun(r, AXIS)
         /\ \A e \in Dirs : Used(r, e) => Begun(r, e)' = Begun(r, e) /\ Got(r, e)' = Got(r, e) /\ Got(r, e) = Begun(r, e)
<1>1. /\ pc[r] \in {"enter", "sent", "axisSent"} /\ dir[r] \in Dirs /\ side[r] \in {0, 1} /\ stage[r] \in Nat
      /\ Sides = {0, 1} /\ x \in Sides /\ Dirs = {1, 2} /\ AXIS = 3
  BY DEF Enters, Shape, Dirs, Sides, AXIS
<1>2. dir[r] = 1
  <2>1. BoundOf(dir[r], x) = "axis"
    BY DEF AcrossMPI
  <2> QED BY <2>1, <1>1, Bounds
<1>3. AcrossMPI(r, 1, x)
  BY <1>2
<1>4. stage'[r] = stage[r] /\ side'[r] = x /\ dir'[r] = 1 /\ pc'[r] = "axis"
  BY <1>2 DEF Shape
<1>5. Begun(r, AXIS)' = Ticket(r, stage[r], x)
  BY <1>4 DEF Begun
<1>6. Ticket(r, stage[r], x) = Begun(r, AXIS) + 1 /\ Begun(r, AXIS) \in Int
  <2>1. /\ PerStage(r) \in {1, 2}
        /\ PerStage(r) = 1 => Ticket(r, stage[r], x) = stage[r]
        /\ PerStage(r) = 2 => Ticket(r, stage[r], x) = 2 * stage[r] - 1 + x
        /\ PerStage(r) = 1 => Ticket(r, stage[r], side[r]) = stage[r]
        /\ PerStage(r) = 2 => Ticket(r, stage[r], side[r]) = 2 * stage[r] - 1 + side[r]
        /\ PerStage(r) = 2 <=> AcrossMPI(r, 1, 0) /\ AcrossMPI(r, 1, 1)
    BY <1>1, TicketIs
  <2>2. CASE pc[r] # "axisSent"
    <3>1. Begun(r, AXIS) = PerStage(r) * (stage[r] - 1)
      BY <2>2, <1>1, <1>2 DEF Begun
    <3>2. sides = Sides
      BY <2>2 DEF Enters
    <3>3. PerStage(r) = 2 => x = 0
      BY <3>2, <2>1, <1>1, <1>2
    <3> QED BY <3>1, <3>3, <2>1, <1>1
  <2>3. CASE pc[r] = "axisSent"
    <3>1. Begun(r, AXIS) = Ticket(r, stage[r], side[r])
      BY <2>3, <1>2, <1>1 DEF Begun
    <3>2. sides = {y \in Sides : y > side[r]}
      BY <2>3 DEF Enters
    <3>3. x = 1 /\ side[r] = 0
      BY <3>2, <1>1
    <3>4. AcrossMPI(r, 1, 0)
      BY <2>3, <3>3 DEF Where
    <3> QED BY <3>1, <3>3, <3>4, <2>1, <1>1, <1>3
  <2> QED BY <2>2, <2>3
<1>7. Got(r, AXIS) = Begun(r, AXIS) /\ Got(r, AXIS)' = Begun(r, AXIS)' - 1
  BY <1>1, <1>4 DEF Got
<1>8. ASSUME NEW e \in Dirs, Used(r, e)
      PROVE  Begun(r, e)' = Begun(r, e) /\ Got(r, e)' = Got(r, e) /\ Got(r, e) = Begun(r, e)
  <2>1. e # AXIS /\ NProc[e] > 1 /\ e \in {1, 2}
    BY <1>1, <1>8 DEF Used
  <2>2. pc[r] = "enter" => e # 1
    BY <2>1, <1>2 DEF Enters
  <2>3. Begun(r, e)' = IF e = 1 THEN stage[r] ELSE stage[r] - 1
    BY <2>1, <1>4 DEF Begun
  <2>4. Begun(r, e) = IF e = 1 THEN stage[r] ELSE stage[r] - 1
    BY <2>1, <2>2, <1>1, <1>2 DEF Begun
  <2>5. Got(r, e) = Begun(r, e) /\ Got(r, e)' = Begun(r, e)'
    BY <2>1, <1>1, <1>4 DEF Got
  <2> QED BY <2>3, <2>4, <2>5
<1> QED BY <1>1, <1>2, <1>3, <1>5, <1>6, <1>7, <1>8

\* The rest of the processes, and of the messages.
LEMMA OthersKept ==
  ASSUME IInv, NEW r \in Procs, \A p \in Procs : p # r =>
           /\ pc'[p] = pc[p] /\ stage'[p] = stage[p] /\ dir'[p] = dir[p] /\ side'[p] = side[p]
           /\ field'[p] = field[p] /\ buffer'[p] = buffer[p] /\ send'[p] = send[p],
         NEW p \in Procs, p # r
  PROVE  /\ Where(p)' /\ Fine(p)'
         /\ \A e \in Channels, x \in Sides : Sending(p, e, x)'
         /\ \A e : Begun(p, e)' = Begun(p, e) /\ Got(p, e)' = Got(p, e)
         /\ \A e, x : Gone(p, e, x)' = Gone(p, e, x)
<1>1. /\ \A e : Begun(p, e)' = Begun(p, e) /\ Got(p, e)' = Got(p, e)
      /\ Where(p)' <=> Where(p)
      /\ Fine(p)' <=> Fine(p)
  BY SameProcess
<1>2. \A e, x : Gone(p, e, x)' = Gone(p, e, x)
  BY <1>1 DEF Gone
<1>3. \A e \in Channels, x \in Sides : Sending(p, e, x)'
  BY SameSending DEF IInv
<1> QED BY <1>1, <1>2, <1>3 DEF IInv

\* A step that sends and receives nothing, and keeps the counts.
LEMMA FlyingKept ==
  ASSUME Wide, IInv, NEW r \in Procs, flight' = flight,
         \A p \in Procs : p # r => \A e : Got(p, e)' = Got(p, e) /\ \A x : Gone(p, e, x)' = Gone(p, e, x),
         \A e \in Channels : Used(r, e) => Got(r, e)' = Got(r, e),
         \A e \in Channels, x \in Sides : Used(r, e) /\ Neighbours(r, e, x) # {} => Gone(r, e, x)' = Gone(r, e, x)
  PROVE  \A p \in Procs, e \in Channels, x \in Sides :
           Used(p, e) => \A q \in Neighbours(p, e, x) : Flying(p, e, x, q)'
<1> SUFFICES ASSUME NEW p \in Procs, NEW e \in Channels, NEW x \in Sides, Used(p, e), NEW q \in Neighbours(p, e, x)
             PROVE  Flying(p, e, x, q)'
  OBVIOUS
<1>1. q \in Procs /\ Used(q, e)
  BY ChannelIs
<1>2. Got(q, e)' = Got(q, e)
  BY <1>1
<1>3. Gone(p, e, x)' = Gone(p, e, x)
  OBVIOUS
<1>4. Flying(p, e, x, q)
  BY DEF IInv
<1> QED BY <1>2, <1>3, <1>4, SameFlying

\* EnforceBoundaryDir, from wherever it is called, keeps the invariant.
LEMMA EnforcingKeeps ==
  ASSUME Wide, IInv, NEW r \in Procs, NEW sides \in SUBSET Sides, NEW F \in SUBSET Sides,
         Enters(r, sides), send[r] = {}, FromOthers(r, dir[r]) \subseteq F,
         Exact(field[r], r, dir[r], F, stage[r]),
         \A y \in Sides : y \in F \/ (y \in sides /\ (Local(r, dir[r], y) \/ AcrossMPI(r, dir[r], y))),
         EnforceBoundaryDir(r, sides), UNCHANGED <<stage, flight>>
  PROVE  IInv'
<1>0. Shape /\ Where(r) /\ Where(r)
  BY DEF IInv
<1>1. PICK b :
    /\ field' = [field EXCEPT ![r] = b]
    /\ \/ /\ \A y \in sides : ~AcrossMPI(r, dir[r], y)
          /\ Exact(b, r, dir[r], Sides, stage[r])
          /\ NextDir(r) /\ UNCHANGED <<side, buffer, send, recv>>
       \/ \E x \in sides :
            /\ AcrossMPI(r, dir[r], x)
            /\ \A y \in sides : AcrossMPI(r, dir[r], y) => x <= y
            /\ \A G \in SUBSET Sides : (\A y \in G : y \in F \/ y < x) => Exact(b, r, dir[r], G, stage[r])
            /\ side' = [side EXCEPT ![r] = x]
            /\ buffer' = [buffer EXCEPT ![r][AXIS][0] = Packed(b, AxisBoxes(x))]
            /\ send' = [send EXCEPT ![r] = @ \cup {<<AXIS, 0>>}]
            /\ pc' = [pc EXCEPT ![r] = "axis"]
            /\ dir' = dir
  BY <1>0, Enforcing
<1>2. /\ field'[r] = b /\ DOMAIN field' = Procs /\ \A p \in Procs : p # r => field'[p] = field[p]
      /\ stage'[r] = stage[r] /\ stage' = stage /\ flight' = flight
  BY <1>0, <1>1 DEF Shape
<1>3. CASE /\ \A y \in sides : ~AcrossMPI(r, dir[r], y)
           /\ Exact(b, r, dir[r], Sides, stage[r])
           /\ NextDir(r) /\ UNCHANGED <<side, buffer, send, recv>>
  <2>1. /\ pc' \in [Procs -> {"enter", "recv", "sent", "axis", "axisSent", "set"}] /\ dir' \in [Procs -> Dirs]
        /\ \A p \in Procs : p # r => pc'[p] = pc[p] /\ dir'[p] = dir[p]
        /\ \/ dir[r] = 1 /\ dir'[r] = 2 /\ pc'[r] = "enter"
           \/ dir[r] = 2 /\ dir'[r] = 1 /\ pc'[r] = "set"
    BY <1>0, <1>3 DEF NextDir, Shape, Dirs
  <2>2. Shape'
    BY <1>0, <1>2, <1>3, <2>1 DEF Shape
  <2>3. ASSUME NEW p \in Procs, p # r
        PROVE  /\ Where(p)' /\ Fine(p)'
               /\ \A e \in Channels, x \in Sides : Sending(p, e, x)'
               /\ \A e : Begun(p, e)' = Begun(p, e) /\ Got(p, e)' = Got(p, e)
               /\ \A e, x : Gone(p, e, x)' = Gone(p, e, x)
    BY <1>2, <1>3, <2>1, <2>3, OthersKept
  <2>4. Where(r)' /\ Fine(r)'
    <3>1. CASE dir[r] = 1 /\ dir'[r] = 2 /\ pc'[r] = "enter"
      <4>1. Exact(b, r, 2, {}, stage[r])
        BY <3>1, <1>3, ExactNext
      <4>2. Finished(r)' = {}
        BY <3>1 DEF Finished
      <4> QED BY <3>1, <4>1, <4>2, <1>2 DEF Where, Fine
    <3>2. CASE dir[r] = 2 /\ dir'[r] = 1 /\ pc'[r] = "set"
      BY <3>2, <1>2, <1>3 DEF Where, Fine
    <3> QED BY <2>1, <3>1, <3>2
  <2>5. \A e \in Channels, x \in Sides : Sending(r, e, x)'
    BY <1>3 DEF Sending
  <2>6. \A e \in Channels : Used(r, e) => Begun(r, e)' = Begun(r, e) /\ Got(r, e)' = Got(r, e)
    BY <1>0, <1>3, CountsNext
  <2>7. \A e \in Channels, x \in Sides : Used(r, e) => Gone(r, e, x)' = Gone(r, e, x)
    BY <1>3, <2>6 DEF Gone
  <2>8. \A p \in Procs, e \in Channels, x \in Sides :
           Used(p, e) => \A q \in Neighbours(p, e, x) : Flying(p, e, x, q)'
    BY <1>2, <2>3, <2>6, <2>7, FlyingKept
  <2> QED BY <2>2, <2>3, <2>4, <2>5, <2>8 DEF IInv
<1>4. ASSUME NEW x \in sides,
             AcrossMPI(r, dir[r], x),
             \A y \in sides : AcrossMPI(r, dir[r], y) => x <= y,
             \A G \in SUBSET Sides : (\A y \in G : y \in F \/ y < x) => Exact(b, r, dir[r], G, stage[r]),
             side' = [side EXCEPT ![r] = x],
             buffer' = [buffer EXCEPT ![r][AXIS][0] = Packed(b, AxisBoxes(x))],
             send' = [send EXCEPT ![r] = @ \cup {<<AXIS, 0>>}],
             pc' = [pc EXCEPT ![r] = "axis"],
             dir' = dir
      PROVE  IInv'
  <2>0. x \in Sides /\ AXIS \in Channels /\ 0 \in Sides
    BY DEF Channels, Sides
  <2>1. /\ dir[r] = 1 /\ AcrossMPI(r, 1, x)
        /\ Begun(r, AXIS)' = Ticket(r, stage[r], x) /\ Begun(r, AXIS) \in Int
        /\ Begun(r, AXIS)' = Begun(r, AXIS) + 1 /\ Got(r, AXIS) = Begun(r, AXIS) /\ Got(r, AXIS)' = Begun(r, AXIS)
        /\ \A e \in Dirs : Used(r, e) => Begun(r, e)' = Begun(r, e) /\ Got(r, e)' = Got(r, e) /\ Got(r, e) = Begun(r, e)
    BY <1>0, <1>2, <1>4, CountsAxis
  <2>2. /\ pc'[r] = "axis" /\ dir'[r] = 1 /\ side'[r] = x /\ send'[r] = {<<AXIS, 0>>}
        /\ buffer'[r][AXIS][0] = Packed(b, AxisBoxes(x))
        /\ pc' \in [Procs -> {"enter", "recv", "sent", "axis", "axisSent", "set"}] /\ side' \in [Procs -> Sides]
        /\ send' \in [Procs -> SUBSET (Channels \X Sides)]
        /\ DOMAIN buffer' = Procs
        /\ \A p \in Procs : /\ DOMAIN buffer'[p] = Channels
                            /\ \A e \in Channels : DOMAIN buffer'[p][e] = Sides
        /\ \A p \in Procs : p # r => /\ pc'[p] = pc[p] /\ dir'[p] = dir[p] /\ side'[p] = side[p]
                                     /\ send'[p] = send[p] /\ buffer'[p] = buffer[p]
    BY <1>0, <1>4, <2>0, <2>1 DEF Shape
  <2>3. Shape'
    BY <1>0, <1>2, <1>4, <2>2 DEF Shape
  <2>4. ASSUME NEW p \in Procs, p # r
        PROVE  /\ Where(p)' /\ Fine(p)'
               /\ \A e \in Channels, y \in Sides : Sending(p, e, y)'
               /\ \A e : Begun(p, e)' = Begun(p, e) /\ Got(p, e)' = Got(p, e)
               /\ \A e, y : Gone(p, e, y)' = Gone(p, e, y)
    BY <1>2, <2>2, <2>4, OthersKept
  <2>5. Where(r)'
    BY <2>1, <2>2 DEF Where
  <2>6. Fine(r)'
    <3>1. Finished(r)' = FromOthers(r, 1) \cup {y \in Sides : y < x}
      BY <2>2 DEF Finished
    <3>2. Exact(b, r, 1, FromOthers(r, 1) \cup {y \in Sides : y < x}, stage[r])
      <4> DEFINE G == FromOthers(r, 1) \cup {y \in Sides : y < x}
      <4>1. G \in SUBSET Sides /\ \A y \in G : y \in F \/ y < x
        BY <2>1
      <4> HIDE DEF G
      <4>2. Exact(b, r, dir[r], G, stage[r])
        BY <4>1, <1>4
      <4> QED BY <4>2, <2>1 DEF G
    <3> QED BY <3>1, <3>2, <2>2, <1>2 DEF Fine
  <2>7. ASSUME NEW q, q = HalfTurn(r)
        PROVE  Valid(q, AXIS, 1, Packed(b, AxisBoxes(x)), Begun(r, AXIS)')
    <3>1. q[1] = r[1]
      <4>1. NProc[2] > 1 /\ NProc[2] % 2 = 0
        BY <2>0, <2>1, AxisIs
      <4> QED BY <4>1, <2>7, HalfTurnIs
    <3>2. \A y : AcrossMPI(q, 1, y) <=> AcrossMPI(r, 1, y)
      BY <3>1, AxisSame
    <3>3. \A n, y : Ticket(q, n, y) = Ticket(r, n, y)
      BY <3>2 DEF Ticket, PerStage
    <3>4. SUFFICES ASSUME NEW n \in Nat, NEW y \in Sides, AcrossMPI(q, 1, y), Begun(r, AXIS)' = Ticket(q, n, y)
                   PROVE  GoodAxis(q, y, Packed(b, AxisBoxes(x)), n)
      BY DEF Valid
    <3>5. AcrossMPI(r, 1, y) /\ Ticket(r, stage[r], x) = Ticket(r, n, y)
      BY <3>2, <3>3, <3>4, <2>1
    <3>6. stage[r] \in Int /\ n \in Int /\ x \in Sides /\ AcrossMPI(r, 1, x)
      BY <1>0, <2>0, <2>1 DEF Shape
    <3>7. stage[r] = n /\ x = y
      BY <3>5, <3>6, TicketOnce
    <3>8. PICK G : Exact(b, r, 1, G, stage[r])
      BY <1>4, <2>1
    <3> QED BY <3>7, <3>8, <2>0, <2>1, <2>7, AxisPackGood
  <2>8. ASSUME NEW e \in Channels, NEW y \in Sides
        PROVE  Sending(r, e, y)'
    <3>1. SUFFICES ASSUME e = AXIS, y = 0 PROVE Sending(r, e, y)'
      BY <2>2 DEF Sending
    <3>2. Neighbours(r, AXIS, 0) = {HalfTurn(r)}
      BY DEF Neighbours
    <3>3. Valid(HalfTurn(r), AXIS, 1 - 0, buffer'[r][AXIS][0], Begun(r, AXIS)')
      BY <2>2, <2>7
    <3> QED BY <3>1, <3>2, <3>3, <2>2 DEF Sending
  <2>9. \A e \in Channels : Used(r, e) => Got(r, e)' = Got(r, e)
    BY <2>1 DEF Channels
  <2>10. ASSUME NEW e \in Channels, NEW y \in Sides, Used(r, e), Neighbours(r, e, y) # {}
         PROVE  Gone(r, e, y)' = Gone(r, e, y)
    <3>1. <<e, y>> \notin send[r]
      OBVIOUS
    <3>2. CASE e = AXIS
      <4>1. y = 0
        BY <3>2, <2>10 DEF Neighbours
      <4>2. Gone(r, e, y)' = Begun(r, AXIS)' - 1 /\ Gone(r, e, y) = Begun(r, AXIS)
        BY <3>1, <3>2, <4>1, <2>2 DEF Gone
      <4> QED BY <4>2, <2>1
    <3>3. CASE e # AXIS
      <4>1. <<e, y>> \notin send'[r] /\ e \in Dirs
        BY <3>3, <2>2 DEF Channels
      <4> QED BY <3>1, <4>1, <2>1, <2>10 DEF Gone
    <3> QED BY <3>2, <3>3
  <2>11. \A p \in Procs, e \in Channels, y \in Sides :
           Used(p, e) => \A q \in Neighbours(p, e, y) : Flying(p, e, y, q)'
    BY <1>2, <2>4, <2>9, <2>10, FlyingKept
  <2> QED BY <2>3, <2>4, <2>5, <2>6, <2>8, <2>11 DEF IInv
<1> QED BY <1>1, <1>3, <1>4

-----------------------------------------------------------------------------
(* The steps *)

LEMMA Covered ==
  ASSUME NEW r \in Procs, NEW d \in Dirs, NEW y \in Sides, NProc[d] = 1 \/ Neighbours(r, d, y) = {}
  PROVE  Local(r, d, y) \/ AcrossMPI(r, d, y)
<1>1. CASE NProc[d] = 1
  <2>1. AtEdge(r, d, y)
    <3>1. r[d] = 0
      BY <1>1, ProcIs DEF Dirs
    <3> QED BY <3>1, <1>1 DEF AtEdge
  <2> QED BY <2>1, <1>1 DEF Local
<1>2. CASE NProc[d] # 1 /\ Neighbours(r, d, y) = {}
  <2>1. NProc[d] > 1
    BY <1>2, Numbers
  <2>2. ~Periodic(d) /\ AtEdge(r, d, y)
    BY <1>2, <2>1, NoNeighbour
  <2>3. BoundOf(d, y) # "periodic"
    BY <2>2, Bounds
  <2> QED BY <2>2, <2>3 DEF Local
<1> QED BY <1>1, <1>2

\* No send is under way where none is started.
LEMMA NoneSending ==
  ASSUME IInv, NEW r \in Procs,
         \A e \in Channels, x \in Sides : <<e, x>> \in send[r] =>
           ~IF e = AXIS THEN x = 0 /\ pc[r] \in {"axis", "axisSent"} ELSE dir[r] = e /\ pc[r] \in {"recv", "sent"}
  PROVE  send[r] = {}
<1>1. \A e \in Channels, x \in Sides : <<e, x>> \notin send[r]
  BY DEF IInv, Sending
<1>2. send[r] \subseteq Channels \X Sides
  BY DEF IInv, Shape
<1> QED BY <1>1, <1>2

LEMMA BoundOnlyKeeps ==
  ASSUME Wide, IInv, NEW r \in Procs, BoundOnly(r)
  PROVE  IInv'
<1>0. dir[r] \in Dirs /\ pc[r] = "enter" /\ NProc[dir[r]] = 1
  BY DEF IInv, Shape, BoundOnly
<1>1. send[r] = {}
  BY <1>0, NoneSending
<1>2. Exact(field[r], r, dir[r], {}, stage[r])
  BY <1>0 DEF IInv, Fine, Finished
<1>3. FromOthers(r, dir[r]) = {}
  BY <1>0 DEF FromOthers
<1>4. \A y \in Sides : Local(r, dir[r], y) \/ AcrossMPI(r, dir[r], y)
  BY <1>0, Covered
<1>5. Enters(r, Sides)
  BY <1>0 DEF Enters
<1>6. EnforceBoundaryDir(r, Sides) /\ UNCHANGED <<stage, flight>>
  BY DEF BoundOnly
<1> QED BY <1>1, <1>2, <1>3, <1>4, <1>5, <1>6, EnforcingKeeps

LEMMA WaitForSendsKeeps ==
  ASSUME Wide, IInv, NEW r \in Procs, WaitForSends(r)
  PROVE  IInv'
<1>0. dir[r] \in Dirs /\ pc[r] = "sent" /\ send[r] \cap ({dir[r]} \X Sides) = {}
  BY DEF IInv, Shape, WaitForSends
<1>1. send[r] = {}
  <2>1. \A e \in Channels, x \in Sides : <<e, x>> \in send[r] => e # dir[r]
    BY <1>0
  <2> QED BY <1>0, <2>1, NoneSending
<1> DEFINE F == FromOthers(r, dir[r])
<1>2. Exact(field[r], r, dir[r], F, stage[r])
  BY <1>0 DEF IInv, Fine, Finished
<1>3. F \in SUBSET Sides
  BY DEF FromOthers
<1>4. \A y \in Sides : y \in F \/ Local(r, dir[r], y) \/ AcrossMPI(r, dir[r], y)
  <2>1. NProc[dir[r]] > 1
    BY <1>0 DEF IInv, Where
  <2>2. \A y \in Sides : y \in F \/ Neighbours(r, dir[r], y) = {}
    BY <2>1 DEF FromOthers
  <2> QED BY <2>2, <1>0, Covered
<1>5. Enters(r, Sides)
  BY <1>0 DEF Enters
<1>6. EnforceBoundaryDir(r, Sides) /\ UNCHANGED <<stage, flight>>
  BY DEF WaitForSends
<1> HIDE DEF F
<1>7. FromOthers(r, dir[r]) \subseteq F
  BY DEF F
<1> QED BY <1>1, <1>2, <1>3, <1>4, <1>5, <1>6, <1>7, EnforcingKeeps

LEMMA AxisSentKeeps ==
  ASSUME Wide, IInv, NEW r \in Procs, AxisSent(r)
  PROVE  IInv'
<1>0. dir[r] \in Dirs /\ pc[r] = "axisSent" /\ <<AXIS, 0>> \notin send[r] /\ side[r] \in Sides
  BY DEF IInv, Shape, AxisSent
<1>1. send[r] = {}
  BY <1>0, NoneSending
<1> DEFINE F == FromOthers(r, dir[r]) \cup {x \in Sides : x <= side[r]}
           sides == {x \in Sides : x > side[r]}
<1>2. Exact(field[r], r, dir[r], F, stage[r])
  BY <1>0 DEF IInv, Fine, Finished
<1>3. F \in SUBSET Sides /\ sides \in SUBSET Sides
  BY DEF FromOthers
<1>4. \A y \in Sides : y \in F \/ (y \in sides /\ (Local(r, dir[r], y) \/ AcrossMPI(r, dir[r], y)))
  <2>1. ASSUME NEW y \in Sides, y \notin F
        PROVE  y \in sides /\ (Local(r, dir[r], y) \/ AcrossMPI(r, dir[r], y))
    <3>1. y \in Int /\ side[r] \in Int
      BY <1>0 DEF Sides
    <3>2. y \in sides
      BY <2>1, <3>1
    <3>3. NProc[dir[r]] = 1 \/ Neighbours(r, dir[r], y) = {}
      BY <2>1, <1>0, Numbers DEF FromOthers
    <3> QED BY <3>2, <3>3, <1>0, Covered
  <2> QED BY <2>1
<1>5. Enters(r, sides)
  BY <1>0 DEF Enters
<1>6. EnforceBoundaryDir(r, sides) /\ UNCHANGED <<stage, flight>>
  BY DEF AxisSent
<1>7. FromOthers(r, dir[r]) \subseteq F
  OBVIOUS
<1> HIDE DEF F, sides
<1> QED BY <1>1, <1>2, <1>3, <1>4, <1>5, <1>6, <1>7, EnforcingKeeps

LEMMA StartKeeps ==
  ASSUME Wide, IInv, NEW r \in Procs, Start(r)
  PROVE  IInv'
<1>e. PICK e \in Dirs : e = dir[r]
  BY DEF IInv, Shape
<1> DEFINE sides == {x \in Sides: Neighbours(r, e, x) # {}}
           pack == [x \in Sides |-> Packed(field[r], ToSend(e, x))]
<1>0. /\ Shape /\ e \in Dirs /\ e = dir[r] /\ e \in Channels /\ e # AXIS /\ e \in {1, 2} /\ stage[r] \in Nat /\ pc[r] = "enter" /\ NProc[e] > 1
  BY <1>e DEF IInv, Shape, Start, Channels, Dirs, AXIS
<1>1. send[r] = {}
  BY <1>0, NoneSending
<1>2. /\ buffer' = [buffer EXCEPT ![r][e] = pack] /\ send' = [send EXCEPT ![r] = @ \cup ({e} \X sides)]
      /\ pc' = [pc EXCEPT ![r] = "recv"] /\ UNCHANGED <<stage, dir, side, field, flight>>
  BY <1>e DEF Start
<1>3. /\ pc'[r] = "recv" /\ dir'[r] = e /\ stage'[r] = stage[r] /\ field'[r] = field[r] /\ send'[r] = {e} \X sides
      /\ buffer'[r][e] = pack
      /\ pc' \in [Procs -> {"enter", "recv", "sent", "axis", "axisSent", "set"}]
      /\ send' \in [Procs -> SUBSET (Channels \X Sides)]
      /\ DOMAIN buffer' = Procs
      /\ \A p \in Procs : DOMAIN buffer'[p] = Channels /\ \A c \in Channels : DOMAIN buffer'[p][c] = Sides
      /\ \A p \in Procs : p # r => pc'[p] = pc[p] /\ send'[p] = send[p] /\ buffer'[p] = buffer[p]
  BY <1>0, <1>1, <1>2 DEF Shape
<1>4. Shape'
  BY <1>0, <1>2, <1>3 DEF Shape
<1>5. ASSUME NEW p \in Procs, p # r
      PROVE  /\ Where(p)' /\ Fine(p)'
             /\ \A c \in Channels, x \in Sides : Sending(p, c, x)'
             /\ \A c : Begun(p, c)' = Begun(p, c) /\ Got(p, c)' = Got(p, c)
             /\ \A c, x : Gone(p, c, x)' = Gone(p, c, x)
  BY <1>2, <1>3, <1>5, OthersKept
<1>6. Exact(field[r], r, e, {}, stage[r])
  BY <1>0 DEF IInv, Fine, Finished
<1>7. Where(r)' /\ Fine(r)'
  <2>1. Finished(r)' = {}
    BY <1>3 DEF Finished
  <2> QED BY <2>1, <1>0, <1>3, <1>6 DEF Where, Fine
<1>8. Begun(r, e)' = stage[r] /\ Begun(r, e) = stage[r] - 1
  BY <1>0, <1>3 DEF Begun
<1>9. Got(r, e)' = stage[r] - 1 /\ Got(r, e) = stage[r] - 1
  BY <1>0, <1>3, <1>8 DEF Got
<1>10. ASSUME NEW c \in Channels, c # e
       PROVE  Begun(r, c)' = Begun(r, c) /\ Got(r, c)' = Got(r, c)
  <2>1. Begun(r, c)' = Begun(r, c)
    BY <1>0, <1>3, <1>10 DEF Begun
  <2> QED BY <2>1, <1>0, <1>3, <1>10 DEF Got
<1>11. ASSUME NEW c \in Channels, NEW x \in Sides
       PROVE  Sending(r, c, x)'
  <2>1. SUFFICES ASSUME c = e, x \in sides PROVE Sending(r, c, x)'
    BY <1>3 DEF Sending
  <2>2. ASSUME NEW q \in Neighbours(r, e, x)
        PROVE  Valid(q, e, 1 - x, pack[x], stage[r])
    <3>1. Good(q, e, 1 - x, Packed(field[r], ToSend(e, x)), stage[r])
      BY <1>0, <1>6, PackGood
    <3> QED BY <3>1, <1>0 DEF Valid
  <2> QED BY <2>1, <2>2, <1>0, <1>3, <1>8 DEF Sending
<1>12. ASSUME NEW c \in Channels, NEW x \in Sides, Used(r, c), Neighbours(r, c, x) # {}
       PROVE  Gone(r, c, x)' = Gone(r, c, x)
  <2>1. CASE c = e
    <3>1. <<c, x>> \in send'[r] /\ <<c, x>> \notin send[r]
      BY <2>1, <1>1, <1>3, <1>12
    <3>2. Begun(r, c)' = stage[r] /\ Begun(r, c) = stage[r] - 1
      BY <2>1, <1>8
    <3> QED BY <3>1, <3>2 DEF Gone
  <2>2. CASE c # e
    <3>1. <<c, x>> \notin send'[r] /\ <<c, x>> \notin send[r]
      BY <2>2, <1>1, <1>3
    <3> QED BY <3>1, <2>2, <1>10 DEF Gone
  <2> QED BY <2>1, <2>2
<1>13. ASSUME NEW c \in Channels PROVE Got(r, c)' = Got(r, c)
  <2>1. CASE c = e
    BY <2>1, <1>9
  <2>2. CASE c # e
    BY <2>2, <1>10
  <2> QED BY <2>1, <2>2
<1>14. flight' = flight
  BY <1>2
<1> HIDE DEF sides, pack
<1>15. \A p \in Procs, c \in Channels, x \in Sides :
           Used(p, c) => \A q \in Neighbours(p, c, x) : Flying(p, c, x, q)'
  BY <1>5, <1>12, <1>13, <1>14, FlyingKept
<1> QED BY <1>4, <1>5, <1>7, <1>11, <1>15 DEF IInv

LEMMA QueueGrows ==
  ASSUME NEW f, IsQueue(f), NEW b
  PROVE  /\ IsQueue(Append(f, b)) /\ Len(f) \in Nat /\ Len(Append(f, b)) = Len(f) + 1
         /\ \A k \in 1..Len(f) : Append(f, b)[k] = f[k]
         /\ Append(f, b)[Len(f) + 1] = b
<1>1. PICK M : f \in Seq(M)
  BY DEF IsQueue
<1>2. PICK N : M \subseteq N /\ b \in N
  <2>1. M \subseteq M \cup {b} /\ b \in M \cup {b}
    OBVIOUS
  <2> QED BY <2>1
<1>3. f \in Seq(N)
  BY <1>1, <1>2
<1>4. Append(f, b) \in Seq(N)
  BY <1>2, <1>3
<1>5. /\ Len(f) \in Nat /\ Len(Append(f, b)) = Len(f) + 1
      /\ \A k \in 1..Len(f) : Append(f, b)[k] = f[k]
      /\ Append(f, b)[Len(f) + 1] = b
  BY <1>2, <1>3
<1> QED BY <1>4, <1>5 DEF IsQueue

LEMMA QueueShrinks ==
  ASSUME NEW f, IsQueue(f), f # <<>>
  PROVE  /\ IsQueue(Tail(f)) /\ Len(f) \in Nat /\ Len(f) >= 1 /\ Len(Tail(f)) = Len(f) - 1
         /\ Head(f) = f[1]
         /\ \A k \in 1..Len(Tail(f)) : Tail(f)[k] = f[k + 1]
<1>1. PICK M : f \in Seq(M)
  BY DEF IsQueue
<1>2. Tail(f) \in Seq(M)
  BY <1>1
<1>3. /\ Len(f) \in Nat /\ Len(f) >= 1 /\ Len(Tail(f)) = Len(f) - 1
      /\ Head(f) = f[1]
      /\ \A k \in 1..Len(Tail(f)) : Tail(f)[k] = f[k + 1]
  BY <1>1
<1> QED BY <1>2, <1>3 DEF IsQueue

LEMMA LeaveKeeps ==
  ASSUME Wide, IInv, NEW r \in Procs, NEW e \in Channels, NEW x \in Sides, Leave(r, e, x)
  PROVE  IInv'
<1>0. Shape /\ Where(r) /\ Sending(r, e, x) /\ <<e, x>> \in send[r] /\ x \in {0, 1} /\ side[r] \in Sides
  BY DEF IInv, Leave, Sides, Shape
<1>1. Used(r, e)
  BY <1>0 DEF Used, Sending, Where
<1>2. PICK q \in Neighbours(r, e, x) : flight' = [flight EXCEPT ![q][e][1 - x] = Append(@, buffer[r][e][x])]
  BY DEF Leave
<1>3. q \in Procs /\ Neighbours(r, e, x) = {q}
  BY <1>1, ChannelIs
<1>4. PICK y \in Sides : y = 1 - x
  BY <1>0 DEF Sides
<1> DEFINE f == flight[q][e][y]
           b == buffer[r][e][x]
<1>5. /\ flight'[q][e][y] = Append(f, b) /\ DOMAIN flight' = Procs
      /\ \A p \in Procs : DOMAIN flight'[p] = Channels
      /\ \A p \in Procs, c \in Channels : DOMAIN flight'[p][c] = Sides
      /\ \A p \in Procs, c \in Channels, z \in Sides : <<p, c, z>> # <<q, e, y>> => flight'[p][c][z] = flight[p][c][z]
  BY <1>0, <1>2, <1>3, <1>4 DEF Shape
<1>6. /\ send' \in [Procs -> SUBSET (Channels \X Sides)]
      /\ send'[r] = send[r] \ {<<e, x>>}
      /\ \A p \in Procs : p # r => send'[p] = send[p]
      /\ UNCHANGED <<pc, stage, dir, side, field, buffer>>
  BY <1>0 DEF Leave, Shape
<1>7. IsQueue(f)
  BY <1>0, <1>3, <1>4 DEF Shape
<1> HIDE DEF f
<1>8. Shape'
  <2>1. \A p \in Procs, c \in Channels, z \in Sides : IsQueue(flight'[p][c][z])
    <3>1. ASSUME NEW p \in Procs, NEW c \in Channels, NEW z \in Sides
          PROVE  IsQueue(flight'[p][c][z])
      <4>1. CASE <<p, c, z>> = <<q, e, y>>
        BY <4>1, <1>5, <1>7, QueueGrows
      <4>2. CASE <<p, c, z>> # <<q, e, y>>
        BY <4>2, <1>0, <1>5 DEF Shape
      <4> QED BY <4>1, <4>2
    <3> QED BY <3>1
  <2> QED BY <2>1, <1>0, <1>5, <1>6 DEF Shape
<1>9. ASSUME NEW p \in Procs
      PROVE  /\ Where(p)' /\ Fine(p)'
             /\ \A c \in Channels, z \in Sides : Sending(p, c, z)'
             /\ \A c : Begun(p, c)' = Begun(p, c) /\ Got(p, c)' = Got(p, c)
  <2>1. /\ \A c : Begun(p, c)' = Begun(p, c) /\ Got(p, c)' = Got(p, c)
        /\ Where(p)' <=> Where(p)
        /\ Fine(p)' <=> Fine(p)
    BY <1>6, SameProcess
  <2>2. ASSUME NEW c \in Channels, NEW z \in Sides
        PROVE  Sending(p, c, z)'
    <3>1. <<c, z>> \in send'[p] => <<c, z>> \in send[p]
      BY <1>6
    <3> QED BY <3>1, <1>6, SameSending DEF IInv
  <2> QED BY <2>1, <2>2 DEF IInv
<1>10. ASSUME NEW p \in Procs, NEW c \in Channels, NEW z \in Sides, Used(p, c), NEW u \in Neighbours(p, c, z)
       PROVE  Flying(p, c, z, u)'
  <2>0. u \in Procs /\ z \in {0, 1} /\ 1 - z \in Sides /\ Flying(p, c, z, u)
    BY <1>10, ChannelIs DEF IInv, Sides
  <2>1. Got(u, c)' = Got(u, c)
    BY <1>9, <2>0
  <2>2. CASE p = r /\ c = e /\ z = x
    <3>1. u = q
      BY <2>2, <1>3
    <3>2. Gone(r, e, x)' = Begun(r, e) /\ Gone(r, e, x) = Begun(r, e) - 1
      BY <1>0, <1>6, <1>9 DEF Gone
    <3>3. /\ Len(f) = Gone(r, e, x) - Got(q, e)
          /\ \A k \in 1..Len(f) : Valid(q, e, y, f[k], Got(q, e) + k)
      BY <2>0, <2>2, <3>1, <1>4 DEF Flying, f
    <3>4. Valid(q, e, y, b, Begun(r, e))
      BY <1>0, <1>4 DEF Sending
    <3>5. Begun(r, e) \in Int /\ Got(q, e) \in Int
      BY <1>0, <1>3, CountsAre
    <3>6. /\ Len(f) \in Nat /\ Len(Append(f, b)) = Len(f) + 1
          /\ \A k \in 1..Len(f) : Append(f, b)[k] = f[k]
          /\ Append(f, b)[Len(f) + 1] = b
      BY <1>7, QueueGrows
    <3>7. Len(Append(f, b)) = Gone(r, e, x)' - Got(q, e)
      BY <3>2, <3>3, <3>5, <3>6
    <3>8. ASSUME NEW k \in 1..Len(Append(f, b))
          PROVE  Valid(q, e, y, Append(f, b)[k], Got(q, e) + k)
      <4>1. CASE k \in 1..Len(f)
        BY <4>1, <3>3, <3>6
      <4>2. CASE k = Len(f) + 1
        <5>1. Got(q, e) + k = Begun(r, e)
          BY <4>2, <3>2, <3>3, <3>5, <3>6
        <5> QED BY <5>1, <4>2, <3>4, <3>6
      <4>3. k \in 1..Len(f) \/ k = Len(f) + 1
        BY <3>6
      <4> QED BY <4>1, <4>2, <4>3
    <3>9. \A m, k : Valid(q, e, y, m, k)' <=> Valid(q, e, y, m, k)
      OBVIOUS
    <3> QED BY <2>1, <2>2, <3>1, <3>7, <3>8, <1>4, <1>5 DEF Flying
  <2>3. CASE ~(p = r /\ c = e /\ z = x)
    <3>1. Gone(p, c, z)' = Gone(p, c, z)
      <4>1. <<c, z>> \in send'[p] <=> <<c, z>> \in send[p]
        BY <2>3, <1>6
      <4> QED BY <4>1, <1>9 DEF Gone
    <3>2. <<u, c, 1 - z>> # <<q, e, y>>
      <4>1. SUFFICES ASSUME u = q, c = e, 1 - z = y PROVE FALSE
        OBVIOUS
      <4>2. z = x
        BY <4>1, <2>0, <1>0, <1>4
      <4>3. p = r
        BY <4>1, <4>2, <1>1, <1>10, SameSender
      <4> QED BY <4>1, <4>2, <4>3, <2>3
    <3>3. flight'[u][c][1 - z] = flight[u][c][1 - z]
      BY <3>2, <2>0, <1>5
    <3> QED BY <3>1, <3>3, <2>0, <2>1, SameFlying
  <2> QED BY <2>2, <2>3
<1> QED BY <1>8, <1>9, <1>10 DEF IInv

\* What is received is what is awaited: the first of the messages on their way.
LEMMA Awaited ==
  ASSUME Wide, IInv, NEW r \in Procs, NEW e \in Channels, NEW y \in Sides, NEW p \in Procs, Used(p, e),
         NEW x \in Sides, y = 1 - x, r \in Neighbours(p, e, x), flight[r][e][y] # <<>>
  PROVE  Valid(r, e, y, Head(flight[r][e][y]), Got(r, e) + 1)
<1> DEFINE f == flight[r][e][y]
<1>1. IsQueue(f)
  BY DEF IInv, Shape
<1>2. Flying(p, e, x, r)
  BY DEF IInv
<1>3. Len(f) \in Nat /\ Len(f) >= 1 /\ Head(f) = f[1]
  BY <1>1, QueueShrinks
<1>4. \A k \in 1..Len(f) : Valid(r, e, y, f[k], Got(r, e) + k)
  BY <1>2 DEF Flying
<1> HIDE DEF f
<1>5. Valid(r, e, y, f[1], Got(r, e) + 1)
  BY <1>3, <1>4
<1> QED BY <1>3, <1>5 DEF f

\* Once it has been received, the next one is awaited.
LEMMA AwaitsNext ==
  ASSUME IInv, NEW r \in Procs, NEW e \in Channels, NEW y \in Sides, NEW p \in Procs,
         NEW x \in Sides, y = 1 - x, Flying(p, e, x, r), flight[r][e][y] # <<>>,
         flight'[r][e][y] = Tail(flight[r][e][y]), Got(r, e)' = Got(r, e) + 1, Gone(p, e, x)' = Gone(p, e, x)
  PROVE  Flying(p, e, x, r)'
<1> DEFINE f == flight[r][e][y]
<1>1. IsQueue(f)
  BY DEF IInv, Shape
<1>2. /\ Len(f) = Gone(p, e, x) - Got(r, e)
      /\ \A k \in 1..Len(f) : Valid(r, e, y, f[k], Got(r, e) + k)
  BY DEF Flying
<1>3. /\ Len(f) \in Nat /\ Len(Tail(f)) = Len(f) - 1
      /\ \A k \in 1..Len(Tail(f)) : Tail(f)[k] = f[k + 1]
  BY <1>1, QueueShrinks
<1>4. Got(r, e) \in Int /\ Gone(p, e, x) \in Int
  BY CountsAre DEF IInv
<1>5. flight'[r][e][y] = Tail(f)
  OBVIOUS
<1> HIDE DEF f
<1>6. Len(Tail(f)) = Gone(p, e, x)' - Got(r, e)'
  BY <1>2, <1>3, <1>4
<1>7. ASSUME NEW k \in 1..Len(Tail(f))
      PROVE  Valid(r, e, y, Tail(f)[k], Got(r, e)' + k)
  <2>1. k + 1 \in 1..Len(f) /\ Got(r, e)' + k = Got(r, e) + (k + 1)
    BY <1>3, <1>4
  <2>2. Valid(r, e, y, f[k + 1], Got(r, e) + (k + 1))
    BY <2>1, <1>2
  <2> QED BY <2>1, <2>2, <1>3
<1> QED BY <1>5, <1>6, <1>7 DEF Flying

LEMMA UnpackedOrNot ==
  ASSUME NEW a, NEW r \in Procs, NEW e \in Dirs, NEW x \in Sides, NEW F \in SUBSET Sides, x \notin F, NEW n, NEW m,
         Exact(a, r, e, F, n), NProc[e] > 1, Neighbours(r, e, x) # {} => Good(r, e, x, m, n),
         NEW b, b = IF Neighbours(r, e, x) # {} THEN Unpacked(a, m, ToReceive(e, x)) ELSE a
  PROVE  Exact(b, r, e, F \cup {z \in {x} : Neighbours(r, e, z) # {}}, n)
<1> DEFINE G == F \cup {z \in {x} : Neighbours(r, e, z) # {}}
<1>1. CASE Neighbours(r, e, x) # {}
  <2>1. Exact(b, r, e, F \cup {x}, n)
    BY <1>1, UnpackedExact
  <2>2. G \subseteq F \cup {x}
    OBVIOUS
  <2> HIDE DEF G
  <2>3. Exact(b, r, e, G, n)
    BY <2>1, <2>2, ExactLess
  <2> QED BY <2>3 DEF G
<1>2. CASE Neighbours(r, e, x) = {}
  <2>1. b = a /\ G \subseteq F
    BY <1>2
  <2> HIDE DEF G
  <2>2. Exact(b, r, e, G, n)
    BY <2>1, ExactLess
  <2> QED BY <2>2 DEF G
<1> QED BY <1>1, <1>2

LEMMA ReceiveKeeps ==
  ASSUME Wide, IInv, NEW r \in Procs, Receive(r)
  PROVE  IInv'
<1>e. PICK e \in Dirs, n \in Nat : e = dir[r] /\ n = stage[r]
  BY DEF IInv, Shape
<1> DEFINE sides == {x \in Sides: Neighbours(r, e, x) # {}}
           m(x) == Head(flight[r][e][x])
           left == IF 0 \in sides THEN Unpacked(field[r], m(0), ToReceive(e, 0)) ELSE field[r]
           both == IF 1 \in sides THEN Unpacked(left, m(1), ToReceive(e, 1)) ELSE left
<1>0. /\ Shape /\ e \in Channels /\ e # AXIS /\ e \in {1, 2} /\ pc[r] = "recv" /\ NProc[e] > 1 /\ Sides = {0, 1}
      /\ Where(r) /\ Fine(r)
  BY <1>e DEF IInv, Shape, Receive, Channels, Dirs, AXIS, Where, Sides
<1>1. /\ \A x \in sides : flight[r][e][x] # <<>>
      /\ field' = [field EXCEPT ![r] = both]
      /\ flight' = [flight EXCEPT ![r][e] = [x \in Sides |-> IF x \in sides THEN Tail(@[x]) ELSE @[x]]]
      /\ pc' = [pc EXCEPT ![r] = "sent"]
      /\ UNCHANGED <<stage, dir, side, buffer, send>>
  BY <1>e DEF Receive
<1>2. Begun(r, e) = n /\ Got(r, e) = n - 1
  BY <1>e, <1>0 DEF Begun, Got
<1>3. ASSUME NEW x \in Sides, Neighbours(r, e, x) # {}
      PROVE  Good(r, e, x, m(x), n)
  <2>1. PICK p \in Neighbours(r, e, x) : TRUE
    BY <1>3
  <2>2. PICK y \in Sides : y = 1 - x /\ x = 1 - y
    BY <1>0
  <2>3. p \in Procs /\ r \in Neighbours(p, e, y)
    BY <2>2, <1>0, NeighbourIs
  <2>4. Used(p, e)
    BY <1>0 DEF Used
  <2>5. flight[r][e][x] # <<>>
    BY <1>1, <1>3
  <2>6. Valid(r, e, x, m(x), Got(r, e) + 1)
    BY <2>2, <2>3, <2>4, <2>5, <1>0, Awaited
  <2>7. (n - 1) + 1 = n
    OBVIOUS
  <2>8. Valid(r, e, x, m(x), n)
    BY <2>6, <2>7, <1>2
  <2> QED BY <2>8, <1>0 DEF Valid
<1>4. Exact(both, r, e, sides, n)
  <2>1. Exact(field[r], r, e, {}, n)
    BY <1>e, <1>0 DEF Fine, Finished
  <2> DEFINE G == {} \cup {z \in {0} : Neighbours(r, e, z) # {}}
             H == G \cup {z \in {1} : Neighbours(r, e, z) # {}}
  <2>2. G \in SUBSET Sides /\ 1 \notin G /\ {} \in SUBSET Sides /\ 0 \notin {}
    BY <1>0
  <2>3. sides \subseteq H /\ (0 \in sides <=> Neighbours(r, e, 0) # {}) /\ (1 \in sides <=> Neighbours(r, e, 1) # {})
    <3>1. ASSUME NEW z \in sides PROVE z \in H
      <4>1. z = 0 \/ z = 1
        BY <1>0
      <4>2. z = 0 => z \in G
        OBVIOUS
      <4> QED BY <4>1, <4>2
    <3>2. (0 \in sides <=> Neighbours(r, e, 0) # {}) /\ (1 \in sides <=> Neighbours(r, e, 1) # {})
      BY <1>0
    <3> HIDE DEF sides, H
    <3> QED BY <3>1, <3>2
  <2> HIDE DEF m, sides
  <2>4. Exact(left, r, e, G, n)
    <3>0. PICK F \in SUBSET Sides : F = {}
      OBVIOUS
    <3>1. PICK x \in Sides : x = 0
      BY <1>0
    <3>2. left = IF Neighbours(r, e, x) # {} THEN Unpacked(field[r], m(x), ToReceive(e, x)) ELSE field[r]
      BY <2>3, <3>1
    <3> HIDE DEF left, G
    <3>4. x \notin F /\ Exact(field[r], r, e, F, n)
      BY <3>0, <2>1
    <3>5. Neighbours(r, e, x) # {} => Good(r, e, x, m(x), n)
      BY <1>3
    <3>6. NProc[e] > 1
      BY <1>0
    <3>3. Exact(left, r, e, F \cup {z \in {x} : Neighbours(r, e, z) # {}}, n)
      <4>1. PICK a, b, w : a = field[r] /\ b = left /\ w = m(x)
        OBVIOUS
      <4>2. Exact(b, r, e, F \cup {z \in {x} : Neighbours(r, e, z) # {}}, n)
        BY <4>1, <3>2, <3>4, <3>5, <3>6, UnpackedOrNot
      <4> QED BY <4>1, <4>2
    <3> QED BY <3>0, <3>1, <3>3 DEF G
  <2> HIDE DEF left, G
  <2>5. Exact(both, r, e, H, n)
    <3>1. PICK x \in Sides : x = 1
      BY <1>0
    <3>2. both = IF Neighbours(r, e, x) # {} THEN Unpacked(left, m(x), ToReceive(e, x)) ELSE left
      BY <2>3, <3>1
    <3> HIDE DEF both, H
    <3>3. Exact(both, r, e, G \cup {z \in {x} : Neighbours(r, e, z) # {}}, n)
      BY <3>1, <3>2, <2>2, <2>4, <1>0, <1>3, UnpackedOrNot
    <3> QED BY <3>1, <3>3 DEF H
  <2> HIDE DEF both, H
  <2> QED BY <2>3, <2>5, ExactLess
<1> HIDE DEF both
<1>5. /\ pc'[r] = "sent" /\ dir'[r] = e /\ stage'[r] = n /\ field'[r] = both /\ DOMAIN field' = Procs
      /\ DOMAIN flight' = Procs
      /\ \A p \in Procs : DOMAIN flight'[p] = Channels
      /\ \A p \in Procs, c \in Channels : DOMAIN flight'[p][c] = Sides
      /\ \A x \in sides : flight'[r][e][x] = Tail(flight[r][e][x])
      /\ \A p \in Procs, c \in Channels, z \in Sides : ~(p = r /\ c = e /\ z \in sides) => flight'[p][c][z] = flight[p][c][z]
      /\ pc' \in [Procs -> {"enter", "recv", "sent", "axis", "axisSent", "set"}]
      /\ \A p \in Procs : p # r => pc'[p] = pc[p] /\ field'[p] = field[p]
  BY <1>e, <1>0, <1>1 DEF Shape
<1>6. Shape'
  <2>1. ASSUME NEW p \in Procs, NEW c \in Channels, NEW z \in Sides
        PROVE  IsQueue(flight'[p][c][z])
    <3>1. IsQueue(flight[p][c][z])
      BY <1>0 DEF Shape
    <3>2. CASE p = r /\ c = e /\ z \in sides
      BY <3>1, <3>2, <1>1, <1>5, QueueShrinks
    <3>3. CASE ~(p = r /\ c = e /\ z \in sides)
      BY <3>1, <3>3, <1>5
    <3> QED BY <3>2, <3>3
  <2> QED BY <2>1, <1>0, <1>1, <1>5 DEF Shape
<1>7. ASSUME NEW p \in Procs, p # r
      PROVE  /\ Where(p)' /\ Fine(p)'
             /\ \A c \in Channels, x \in Sides : Sending(p, c, x)'
             /\ \A c : Begun(p, c)' = Begun(p, c) /\ Got(p, c)' = Got(p, c)
             /\ \A c, x : Gone(p, c, x)' = Gone(p, c, x)
  BY <1>1, <1>5, <1>7, OthersKept
<1>8. Where(r)' /\ Fine(r)'
  <2>1. Finished(r)' = sides
    BY <1>0, <1>5 DEF Finished, FromOthers
  <2> HIDE DEF sides
  <2> QED BY <2>1, <1>0, <1>4, <1>5 DEF Where, Fine
<1>9. \A c \in Channels : Begun(r, c)' = Begun(r, c) /\ (c # e => Got(r, c)' = Got(r, c))
  <2> TAKE c \in Channels
  <2>1. Begun(r, c)' = Begun(r, c)
    BY <1>e, <1>0, <1>1, <1>5 DEF Begun
  <2>2. c # e => Got(r, c)' = Got(r, c)
    BY <2>1, <1>e, <1>0, <1>5 DEF Got
  <2> QED BY <2>1, <2>2
<1>10. Got(r, e)' = n
  BY <1>2, <1>9, <1>0, <1>5 DEF Got
<1>11. \A c \in Channels, x \in Sides : Gone(r, c, x)' = Gone(r, c, x)
  BY <1>1, <1>9 DEF Gone
<1>12. ASSUME NEW c \in Channels, NEW x \in Sides
       PROVE  Sending(r, c, x)'
  <2>1. Sending(r, c, x) /\ Begun(r, c)' = Begun(r, c)
    BY <1>9 DEF IInv
  <2> QED BY <2>1, <1>e, <1>0, <1>1, <1>5 DEF Sending
<1>13. ASSUME NEW p \in Procs, NEW c \in Channels, NEW x \in Sides, Used(p, c), NEW u \in Neighbours(p, c, x)
       PROVE  Flying(p, c, x, u)'
  <2>0. u \in Procs /\ Flying(p, c, x, u) /\ (c # AXIS => p \in Neighbours(u, c, 1 - x))
    BY <1>13, ChannelIs DEF IInv
  <2>1. Gone(p, c, x)' = Gone(p, c, x)
    BY <1>7, <1>11
  <2>2. PICK y \in Sides : y = 1 - x
    BY <1>0
  <2>3. CASE u = r /\ c = e
    <3>1. y \in sides
      BY <2>0, <2>2, <2>3, <1>0
    <3>2. flight[r][e][y] # <<>> /\ flight'[r][e][y] = Tail(flight[r][e][y])
      BY <3>1, <1>1, <1>5
    <3>3. Got(r, e)' = Got(r, e) + 1
      BY <1>2, <1>10
    <3> QED BY <3>2, <3>3, <2>0, <2>1, <2>2, <2>3, AwaitsNext
  <2>4. CASE ~(u = r /\ c = e)
    <3>1. Got(u, c)' = Got(u, c)
      BY <2>4, <2>0, <1>7, <1>9
    <3>2. flight'[u][c][1 - x] = flight[u][c][1 - x]
      BY <2>0, <2>2, <2>4, <1>5
    <3> QED BY <3>1, <3>2, <2>0, <2>1, SameFlying
  <2> QED BY <2>3, <2>4
<1> QED BY <1>6, <1>7, <1>8, <1>12, <1>13 DEF IInv

LEMMA AxisReceiveKeeps ==
  ASSUME Wide, IInv, NEW r \in Procs, AxisReceive(r)
  PROVE  IInv'
<1>e. PICK x \in Sides, n \in Nat : x = side[r] /\ n = stage[r]
  BY DEF IInv, Shape
<1>f. PICK h : h = Folded(field[r], Head(flight[r][AXIS][1]), x)
  OBVIOUS
<1>0. /\ Shape /\ AXIS \in Channels /\ AXIS \notin Dirs /\ pc[r] = "axis" /\ dir[r] = 1 /\ AcrossMPI(r, 1, x)
      /\ Sides = {0, 1} /\ 1 \in Sides /\ 0 \in Sides /\ Where(r) /\ Fine(r)
  BY <1>e DEF IInv, AxisReceive, Channels, Dirs, AXIS, Where, Sides
<1>1. /\ flight[r][AXIS][1] # <<>>
      /\ field' = [field EXCEPT ![r] = h]
      /\ flight' = [flight EXCEPT ![r][AXIS][1] = Tail(@)]
      /\ pc' = [pc EXCEPT ![r] = "axisSent"]
      /\ UNCHANGED <<stage, dir, side, buffer, send>>
  BY <1>e, <1>f, <1>0 DEF AxisReceive, Shape
<1>2. Begun(r, AXIS) = Ticket(r, n, x) /\ Got(r, AXIS) = Ticket(r, n, x) - 1 /\ Ticket(r, n, x) \in Int
  <2>1. n \in Int
    OBVIOUS
  <2>2. Ticket(r, n, x) \in Int
    BY <2>1, TicketIs
  <2> QED BY <2>2, <1>e, <1>0 DEF Begun, Got
<1>3. GoodAxis(r, x, Head(flight[r][AXIS][1]), n)
  <2>1. PICK p : p = HalfTurn(r)
    OBVIOUS
  <2>2. NProc[2] > 1 /\ NProc[2] % 2 = 0
    BY <1>0, AxisIs
  <2>3. p \in Procs /\ p[1] = r[1] /\ HalfTurn(p) = r
    BY <2>1, <2>2, HalfTurnIs
  <2>4. AcrossMPI(p, 1, x)
    BY <2>3, <1>0, AxisSame
  <2>5. Used(p, AXIS)
    BY <2>4 DEF Used
  <2>6. PICK z \in Sides, y \in Sides : z = 0 /\ y = 1 /\ y = 1 - z
    BY <1>0
  <2>7. r \in Neighbours(p, AXIS, z)
    BY <2>3, <2>6 DEF Neighbours
  <2>8. Valid(r, AXIS, y, Head(flight[r][AXIS][y]), Got(r, AXIS) + 1)
    BY <2>3, <2>5, <2>6, <2>7, <1>0, <1>1, Awaited
  <2>9. Got(r, AXIS) + 1 = Ticket(r, n, x)
    BY <1>2
  <2> QED BY <2>6, <2>8, <2>9, <1>0 DEF Valid
<1> DEFINE F == FromOthers(r, 1) \cup {y \in Sides : y < x}
           G == FromOthers(r, 1) \cup {y \in Sides : y <= x}
<1>4. Exact(h, r, 1, G, n)
  <2>1. Exact(field[r], r, 1, F, n)
    BY <1>e, <1>0 DEF Fine, Finished
  <2>2. G \subseteq F \cup {x}
    BY <1>0
  <2> HIDE DEF F, G
  <2>3. Exact(h, r, 1, F \cup {x}, n)
    BY <2>1, <1>f, <1>0, <1>3, FoldedExact
  <2> QED BY <2>2, <2>3, ExactLess
<1>5. /\ pc'[r] = "axisSent" /\ dir'[r] = 1 /\ stage'[r] = n /\ side'[r] = x /\ field'[r] = h /\ DOMAIN field' = Procs
      /\ DOMAIN flight' = Procs
      /\ \A p \in Procs : DOMAIN flight'[p] = Channels
      /\ \A p \in Procs, c \in Channels : DOMAIN flight'[p][c] = Sides
      /\ flight'[r][AXIS][1] = Tail(flight[r][AXIS][1])
      /\ \A p \in Procs, c \in Channels, z \in Sides : ~(p = r /\ c = AXIS /\ z = 1) => flight'[p][c][z] = flight[p][c][z]
      /\ pc' \in [Procs -> {"enter", "recv", "sent", "axis", "axisSent", "set"}]
      /\ \A p \in Procs : p # r => pc'[p] = pc[p] /\ field'[p] = field[p]
  BY <1>e, <1>0, <1>1 DEF Shape
<1>6. Shape'
  <2>1. ASSUME NEW p \in Procs, NEW c \in Channels, NEW z \in Sides
        PROVE  IsQueue(flight'[p][c][z])
    <3>1. IsQueue(flight[p][c][z])
      BY <1>0 DEF Shape
    <3>2. CASE p = r /\ c = AXIS /\ z = 1
      BY <3>1, <3>2, <1>1, <1>5, QueueShrinks
    <3>3. CASE ~(p = r /\ c = AXIS /\ z = 1)
      BY <3>1, <3>3, <1>5
    <3> QED BY <3>2, <3>3
  <2> QED BY <2>1, <1>0, <1>1, <1>5 DEF Shape
<1>7. ASSUME NEW p \in Procs, p # r
      PROVE  /\ Where(p)' /\ Fine(p)'
             /\ \A c \in Channels, y \in Sides : Sending(p, c, y)'
             /\ \A c : Begun(p, c)' = Begun(p, c) /\ Got(p, c)' = Got(p, c)
             /\ \A c, y : Gone(p, c, y)' = Gone(p, c, y)
  BY <1>1, <1>5, <1>7, OthersKept
<1>8. Where(r)' /\ Fine(r)'
  <2>1. Finished(r)' = G
    BY <1>5 DEF Finished, FromOthers
  <2> HIDE DEF G
  <2> QED BY <2>1, <1>0, <1>4, <1>5 DEF Where, Fine
<1>9. \A c \in Channels : Begun(r, c)' = Begun(r, c) /\ (c # AXIS => Got(r, c)' = Got(r, c))
  <2> TAKE c \in Channels
  <2>1. Begun(r, c)' = Begun(r, c)
    BY <1>e, <1>0, <1>1, <1>5 DEF Begun
  <2>2. c # AXIS => Got(r, c)' = Got(r, c)
    BY <2>1, <1>e, <1>0, <1>5 DEF Got
  <2> QED BY <2>1, <2>2
<1>10. Got(r, AXIS)' = Got(r, AXIS) + 1
  <2>1. Got(r, AXIS)' = Begun(r, AXIS)
    BY <1>9, <1>0, <1>5 DEF Got
  <2> QED BY <2>1, <1>2
<1>11. \A c \in Channels, y \in Sides : Gone(r, c, y)' = Gone(r, c, y)
  BY <1>1, <1>9 DEF Gone
<1>12. ASSUME NEW c \in Channels, NEW y \in Sides
       PROVE  Sending(r, c, y)'
  <2>1. Sending(r, c, y) /\ Begun(r, c)' = Begun(r, c)
    BY <1>9 DEF IInv
  <2> QED BY <2>1, <1>e, <1>0, <1>1, <1>5 DEF Sending
<1>13. ASSUME NEW p \in Procs, NEW c \in Channels, NEW y \in Sides, Used(p, c), NEW u \in Neighbours(p, c, y)
       PROVE  Flying(p, c, y, u)'
  <2>0. u \in Procs /\ Flying(p, c, y, u) /\ (c = AXIS => y = 0)
    BY <1>13, ChannelIs DEF IInv
  <2>1. Gone(p, c, y)' = Gone(p, c, y)
    BY <1>7, <1>11
  <2>2. PICK z \in Sides : z = 1 - y
    BY <1>0
  <2>3. CASE u = r /\ c = AXIS
    <3>1. z = 1
      BY <2>0, <2>2, <2>3
    <3>2. flight[r][AXIS][z] # <<>> /\ flight'[r][AXIS][z] = Tail(flight[r][AXIS][z])
      BY <3>1, <1>1, <1>5
    <3> QED BY <3>2, <1>10, <2>0, <2>1, <2>2, <2>3, AwaitsNext
  <2>4. CASE ~(u = r /\ c = AXIS)
    <3>1. Got(u, c)' = Got(u, c)
      BY <2>4, <2>0, <1>7, <1>9
    <3>2. flight'[u][c][1 - y] = flight[u][c][1 - y]
      BY <2>0, <2>2, <2>4, <1>5
    <3> QED BY <3>1, <3>2, <2>0, <2>1, SameFlying
  <2> QED BY <2>3, <2>4
<1> QED BY <1>6, <1>7, <1>8, <1>12, <1>13 DEF IInv

\* What a process computes in a stage is what it has of the grid before any exchange.
LEMMA ComputedExact ==
  ASSUME NEW r \in Procs, NEW a, NEW n
  PROVE  Exact(Computed(r, a, n), r, 1, {}, n)
<1> SUFFICES ASSUME NEW s \in Sites, Held(r, s, 1, {}), ~Reconstructed(r, s)
             PROVE  Computed(r, a, n)[s] = Right(r, s, n)
  BY DEF Exact
<1>1. OwnIn(r, s, 1) /\ OwnIn(r, s, 2)
  BY DEF Held, KnownIn
<1>2. \A d \in Dirs : OwnIn(r, s, d)
  BY <1>1 DEF Dirs
<1>3. Active(s)
  <2>1. ASSUME NEW d \in Dirs
        PROVE  Index(s, d) >= Beg /\ Index(s, d) < End(d) + Extra(s[1], d)
    <3>1. Index(s, d) \in Int /\ NGhost \in Int /\ NInt[d] \in Int /\ Extra(s[1], d) \in {0, 1}
      BY AtIs, Numbers DEF Extra
    <3>2. OwnIn(r, s, d)
      BY <1>2
    <3> QED BY <3>1, <3>2 DEF OwnIn, Beg, End
  <2> QED BY <2>1 DEF Active
<1>4. Computed(r, a, n)[s] = Value(Place(r, s), r, n, 1)
  BY <1>3 DEF Computed
<1> QED BY <1>2, <1>4, OwnRight

LEMMA EvolveKeeps ==
  ASSUME Wide, IInv, NEW r \in Procs, Evolve(r)
  PROVE  IInv'
<1>e. PICK n \in Nat : n = stage[r]
  BY DEF IInv, Shape
<1>0. Shape /\ pc[r] = "set" /\ dir[r] = 1 /\ Where(r)
  BY DEF IInv, Evolve, Where
<1>1. send[r] = {}
  BY <1>0, NoneSending
<1>2. /\ stage' = [stage EXCEPT ![r] = n + 1]
      /\ field' = [field EXCEPT ![r] = Computed(r, field[r], n + 1)]
      /\ pc' = [pc EXCEPT ![r] = "enter"]
      /\ UNCHANGED <<dir, side, buffer, send, flight>>
  BY <1>e, <1>0 DEF Evolve, Shape
<1>3. /\ pc'[r] = "enter" /\ dir'[r] = 1 /\ stage'[r] = n + 1 /\ field'[r] = Computed(r, field[r], n + 1)
      /\ DOMAIN field' = Procs /\ stage' \in [Procs -> Nat]
      /\ pc' \in [Procs -> {"enter", "recv", "sent", "axis", "axisSent", "set"}]
      /\ \A p \in Procs : p # r => pc'[p] = pc[p] /\ field'[p] = field[p] /\ stage'[p] = stage[p]
  BY <1>0, <1>2 DEF Shape
<1>4. Shape'
  BY <1>0, <1>2, <1>3 DEF Shape
<1>5. ASSUME NEW p \in Procs, p # r
      PROVE  /\ Where(p)' /\ Fine(p)'
             /\ \A c \in Channels, x \in Sides : Sending(p, c, x)'
             /\ \A c : Begun(p, c)' = Begun(p, c) /\ Got(p, c)' = Got(p, c)
             /\ \A c, x : Gone(p, c, x)' = Gone(p, c, x)
  BY <1>2, <1>3, <1>5, OthersKept
<1>6. Where(r)' /\ Fine(r)'
  <2>1. Exact(Computed(r, field[r], n + 1), r, 1, {}, n + 1)
    BY ComputedExact
  <2>2. Finished(r)' = {}
    BY <1>3 DEF Finished
  <2> QED BY <2>1, <2>2, <1>3 DEF Where, Fine
<1>7. ASSUME NEW c \in Channels
      PROVE  Begun(r, c)' = Begun(r, c) /\ Got(r, c)' = Got(r, c)
  <2>1. (n + 1) - 1 = n
    OBVIOUS
  <2>2. CASE c = AXIS
    <3>1. Begun(r, c)' = PerStage(r) * ((n + 1) - 1)
      BY <2>2, <1>3 DEF Begun
    <3>2. Begun(r, c) = PerStage(r) * n
      BY <2>2, <1>e, <1>0 DEF Begun
    <3>3. Got(r, c)' = Begun(r, c)' /\ Got(r, c) = Begun(r, c)
      BY <2>2, <1>0, <1>3 DEF Got
    <3> QED BY <3>1, <3>2, <3>3, <2>1
  <2>3. CASE c # AXIS
    <3>0. c \in {1, 2}
      BY <2>3 DEF Channels, Dirs
    <3>1. Begun(r, c)' = (n + 1) - 1
      BY <2>3, <3>0, <1>3 DEF Begun
    <3>2. Begun(r, c) = n
      BY <2>3, <1>e, <1>0 DEF Begun
    <3>3. Got(r, c)' = Begun(r, c)' /\ Got(r, c) = Begun(r, c)
      BY <2>3, <1>0, <1>3 DEF Got
    <3> QED BY <3>1, <3>2, <3>3, <2>1
  <2> QED BY <2>2, <2>3
<1>8. \A c \in Channels, x \in Sides : Gone(r, c, x)' = Gone(r, c, x)
  BY <1>2, <1>7 DEF Gone
<1>9. \A c \in Channels, x \in Sides : Sending(r, c, x)'
  BY <1>1, <1>2 DEF Sending
<1>10. \A p \in Procs, c \in Channels, x \in Sides :
           Used(p, c) => \A q \in Neighbours(p, c, x) : Flying(p, c, x, q)'
  BY <1>2, <1>5, <1>7, <1>8, FlyingKept
<1> QED BY <1>4, <1>5, <1>6, <1>9, <1>10 DEF IInv

LEMMA StepKeeps ==
  ASSUME Wide, IInv, [Next]_vars
  PROVE  IInv'
<1>1. ASSUME NEW r \in Procs, Step(r) PROVE IInv'
  BY <1>1, BoundOnlyKeeps, StartKeeps, ReceiveKeeps, WaitForSendsKeeps, AxisReceiveKeeps, AxisSentKeeps, EvolveKeeps
     DEF Step
<1>2. ASSUME NEW r \in Procs, NEW e \in Channels, NEW x \in Sides, Leave(r, e, x) PROVE IInv'
  BY <1>2, LeaveKeeps
<1>3. CASE UNCHANGED vars
  <2>0. /\ pc' = pc /\ stage' = stage /\ dir' = dir /\ side' = side /\ field' = field
        /\ buffer' = buffer /\ send' = send /\ flight' = flight
    BY <1>3 DEF vars
  <2>1. Shape'
    BY <2>0 DEF IInv, Shape
  <2>2. \A p \in Procs : Where(p)' /\ Fine(p)'
    BY <2>0, SameProcess DEF IInv
  <2>3. \A p, e : Begun(p, e)' = Begun(p, e) /\ Got(p, e)' = Got(p, e)
    BY <2>0, SameProcess
  <2>4. \A p \in Procs, e \in Channels, x \in Sides : Sending(p, e, x)'
    BY <2>0, SameSending DEF IInv
  <2>5. \A p, e, x : Gone(p, e, x)' = Gone(p, e, x)
    BY <2>0, <2>3 DEF Gone
  <2>6. \A p \in Procs, e \in Channels, x \in Sides :
           Used(p, e) => \A q \in Neighbours(p, e, x) : Flying(p, e, x, q)'
    BY <2>0, <2>3, <2>5, SameFlying DEF IInv
  <2> QED BY <2>1, <2>2, <2>4, <2>6 DEF IInv
<1> QED BY <1>1, <1>2, <1>3 DEF Next

LEMMA InitFine ==
  ASSUME Wide, Init
  PROVE  IInv
<1>1. IsQueue(<<>>) /\ Len(<<>>) = 0
  <2>1. <<>> \in Seq({})
    OBVIOUS
  <2> QED BY <2>1 DEF IsQueue
<1>2. Shape
  BY <1>1 DEF Init, Shape, Dirs, Sides
<1>3. ASSUME NEW r \in Procs
      PROVE  /\ pc[r] = "enter" /\ stage[r] = 1 /\ dir[r] = 1 /\ send[r] = {}
             /\ field[r] = Computed(r, [s \in Sites |-> Stale], 1)
             /\ \A e \in Channels, x \in Sides : flight[r][e][x] = <<>>
  BY DEF Init
<1>4. ASSUME NEW r \in Procs
      PROVE  Where(r) /\ Fine(r)
  <2>1. Exact(field[r], r, 1, {}, 1)
    BY <1>3, ComputedExact
  <2> QED BY <2>1, <1>3 DEF Where, Fine, Finished
<1>5. ASSUME NEW r \in Procs, NEW e \in Channels
      PROVE  Begun(r, e) = 0 /\ Got(r, e) = 0
  <2>1. CASE e = AXIS
    <3>1. Begun(r, e) = PerStage(r) * (1 - 1)
      BY <2>1, <1>3 DEF Begun
    <3>2. PerStage(r) \in {1, 2}
      BY DEF PerStage
    <3> QED BY <3>1, <3>2, <2>1, <1>3 DEF Got
  <2>2. CASE e # AXIS
    <3>0. e \in {1, 2}
      BY <2>2 DEF Channels, Dirs
    <3> QED BY <3>0, <2>2, <1>3 DEF Begun, Got
  <2> QED BY <2>1, <2>2
<1>6. \A r \in Procs, e \in Channels, x \in Sides : Sending(r, e, x)
  BY <1>3 DEF Sending
<1>7. ASSUME NEW r \in Procs, NEW e \in Channels, NEW x \in Sides, Used(r, e), NEW q \in Neighbours(r, e, x)
      PROVE  Flying(r, e, x, q)
  <2>1. q \in Procs /\ 1 - x \in Sides
    BY <1>7, ChannelIs DEF Sides
  <2>2. flight[q][e][1 - x] = <<>>
    BY <2>1, <1>3
  <2>3. Gone(r, e, x) = 0 /\ Got(q, e) = 0
    BY <2>1, <1>3, <1>5 DEF Gone
  <2> QED BY <2>2, <2>3, <1>1 DEF Flying
<1> QED BY <1>2, <1>4, <1>6, <1>7 DEF IInv

LEMMA FineIsSerial ==
  ASSUME IInv
  PROVE  GhostsAreSerial
<1> SUFFICES ASSUME NEW r \in Procs, pc[r] = "set", NEW s \in Sites, ~Reconstructed(r, s)
             PROVE  field[r][s] = Right(r, s, stage[r])
  BY DEF GhostsAreSerial, Right
<1>1. Exact(field[r], r, 2, Sides, stage[r])
  BY DEF IInv, Fine
<1>2. Index(s, 2) \in Int /\ NGhost \in Int /\ NInt[2] \in Int
  BY AtIs, Numbers DEF Dirs
<1>3. KnownIn(r, s, 2, Sides)
  BY <1>2 DEF KnownIn, OwnIn, Sides, Beg, End
<1> QED BY <1>1, <1>3 DEF Exact, Held

\* When SetBoundaries returns, all ghost cells and faces of a process, corners
\* and what is beyond the axis included, are those a single process would have,
\* for any grid of processes and any number of cells, ghosts and stages, and
\* wherever MPI delays a message: GhostsAreSerial, for subdomains that are Wide.
THEOREM GhostsSerial == Wide => (Spec => []GhostsAreSerial)
<1>1. Wide /\ Init => IInv
  BY InitFine
<1>2. Wide /\ IInv /\ [Next]_vars => IInv'
  BY StepKeeps
<1>3. IInv => GhostsAreSerial
  BY FineIsSerial
<1>4. ASSUME Wide PROVE Spec => []GhostsAreSerial
  BY <1>1, <1>2, <1>3, <1>4, PTL DEF Spec
<1> QED BY <1>4
=============================================================================
