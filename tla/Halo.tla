-------------------------------- MODULE Halo --------------------------------
(***************************************************************************)
(* Boundary::SetBoundaries over a grid of MPI processes: the exchange of   *)
(* the ghost cells (Mpi, Exchanger, Buffer) in one direction after the     *)
(* other, with persistent requests, and the physical boundaries between    *)
(* them (EnforcePeriodic, EnforceOutflow, EnforceReflective, and the axis  *)
(* of spherical coordinates, Axis::EnforceAxisBoundary), stage after stage. *)
(*                                                                         *)
(* The model is of two successive directions, X1 and X2, or X2 and X3 when *)
(* the first one ends on the axis, with a scalar "Vc" and the components   *)
(* of the magnetic field on the faces across each, "BX1s" and "BX2s".  A   *)
(* value is a symbol: where on the global grid it belongs, which process   *)
(* computed it and in which stage, and whether its sign was changed.       *)
(***************************************************************************)
EXTENDS Integers, Sequences

CONSTANTS
  NProc,    \* nproc: the number of processes in each direction
  NInt,     \* np_int of the subdomains: their active cells in each direction
  NGhost,   \* nghost
  Bound,    \* the left and right boundaries of each direction
  TwoPi,    \* isTwoPi: around the axis, the second direction is a whole turn
  Stages    \* bound on the number of stages

Dirs == {1, 2}
Sides == {0, 1}                    \* faceLeft, faceRight
Kinds == {"Vc", "BX1s", "BX2s"}
Procs == (0..(NProc[1] - 1)) \X (0..(NProc[2] - 1))

ASSUME HaloAssumption ==
  /\ \A d \in Dirs: NProc[d] \in Nat \ {0} /\ NInt[d] \in Nat \ {0}
  /\ \A d \in Dirs: \/ Bound[d] = <<"periodic", "periodic">>
                    \/ Bound[d] \in {"outflow", "reflective", "axis"} \X {"outflow", "reflective", "axis"}
  /\ \A x \in {1, 2}: Bound[2][x] # "axis"
  /\ NGhost \in Nat /\ Stages \in Nat \ {0} /\ TwoPi \in BOOLEAN
  /\ "axis" \in {Bound[1][1], Bound[1][2]} /\ TwoPi /\ NProc[2] > 1 => NProc[2] % 2 = 0

NTot(d) == NInt[d] + 2 * NGhost
Beg == NGhost
End(d) == NGhost + NInt[d]
NGlobal(d) == NProc[d] * NInt[d]
BoundOf(d, side) == Bound[d][side + 1]
Periodic(d) == BoundOf(d, 0) = "periodic"

\* The indices of an array of each kind: there is one more face than cells.
Normal == [Vc |-> 0, BX1s |-> 1, BX2s |-> 2]
Extra(kind, d) == IF Normal[kind] = d THEN 1 ELSE 0
Sites == UNION {{<<kind, i, j>>: i \in 0..(NTot(1) - 1 + Extra(kind, 1)),
                                 j \in 0..(NTot(2) - 1 + Extra(kind, 2))}: kind \in Kinds}
Index(s, d) == s[d + 1]
Active(s) == \A d \in Dirs: Index(s, d) >= Beg /\ Index(s, d) < End(d) + Extra(s[1], d)

\* The messages: those of each direction, and those across the axis.
AXIS == 3
Channels == Dirs \cup {AXIS}

VARIABLES
  pc,     \* where each process is
  stage,  \* the stage it is in
  dir,    \* the direction it exchanges or bounds
  side,   \* the side whose axis it exchanges across
  field,  \* its arrays Vc and Vs
  buffer, \* BufferSend, by channel and side
  send,   \* its persistent sends that were started and have not left yet
  recv,   \* the channels in which its receives were started
  flight  \* the messages on their way to it, by channel and receiving side

vars == <<pc, stage, dir, side, field, buffer, send, recv, flight>>
-----------------------------------------------------------------------------
(* Where things are on the global grid *)

At(r, s, d) == r[d] * NInt[d] + Index(s, d) - NGhost

\* The boundary that an index of a direction is beyond, if any.
Beyond(d, g) == IF g < 0 THEN BoundOf(d, 0)
                ELSE IF g >= NGlobal(d) THEN BoundOf(d, 1) ELSE "none"

Crosses(r, s) == Extra(s[1], 1) = 0 /\ Beyond(1, At(r, s, 1)) = "axis"

\* The coordinate a ghost index stands for.
Image(d, g) ==
  CASE Periodic(d) -> g % NGlobal(d)
    [] Beyond(d, g) = "outflow" -> IF g < 0 THEN 0 ELSE NGlobal(d) - 1
    [] Beyond(d, g) \in {"reflective", "axis"} ->
         IF g < 0 THEN -1 - g ELSE 2 * NGlobal(d) - 1 - g
    [] OTHER -> g

\* What changes sign beyond a wall or an axis across the direction d.
Odd(kind, d) == Normal[kind] \notin {0, d}

Flipped(r, s) ==
  {d \in Dirs: Odd(s[1], d) /\ Beyond(d, At(r, s, d)) \in {"reflective", "axis"}}

\* A face of the right end belongs, when the grid is periodic, to the left one;
\* beyond the axis is the opposite meridian.
Place(r, s) ==
  [kind |-> s[1],
   at |-> [d \in Dirs |->
             LET g == At(r, s, d) + IF d = 2 /\ TwoPi /\ Crosses(r, s)
                                      THEN NGlobal(2) \div 2 ELSE 0
             IN  IF Extra(s[1], d) = 1 /\ ~Periodic(d) THEN g ELSE Image(d, g)]]

Sign(r, s) == IF Flipped(r, s) \in {{}, {1, 2}} THEN 1 ELSE -1

\* The process that owns a place; the face between two is the right one's.
Owner(place) ==
  [d \in Dirs |-> IF place.at[d] = NGlobal(d) THEN NProc[d] - 1
                                              ELSE place.at[d] \div NInt[d]]

Value(place, r, n, sign) == [place |-> place, by |-> r, stage |-> n, sign |-> sign]

\* Axis::InitMPI: the process that r sends to across the axis.
HalfTurn(r) == [r EXCEPT ![2] = (@ + NProc[2] \div 2) % NProc[2]]

\* The neighbour of r in direction d, an empty set beyond a physical boundary;
\* across the axis there is one request, for both sides.
Neighbours(r, d, x) ==
  IF d = AXIS
    THEN IF x = 0 THEN {HalfTurn(r)} ELSE {}
    ELSE LET y == r[d] + 2 * x - 1
             z == IF Periodic(d) THEN y % NProc[d] ELSE y
         IN  IF z \in 0..(NProc[d] - 1) THEN {[r EXCEPT ![d] = z]} ELSE {}
-----------------------------------------------------------------------------
(* Exchanger::Init: the boxes, as <<first, last + 1>> in each direction *)

Across(e, d) == IF d < e THEN <<0, NTot(d)>> ELSE <<Beg, End(d)>>

SendCells(e, x) == [d \in Dirs |->
  IF d # e THEN Across(e, d)
  ELSE IF x = 0 THEN <<Beg, Beg + NGhost>> ELSE <<End(d) - NGhost, End(d)>>]

RecvCells(e, x) == [d \in Dirs |->
  IF d # e THEN Across(e, d)
  ELSE IF x = 0 THEN <<0, NGhost>> ELSE <<End(d), NTot(d)>>]

Widened(box, d) == [box EXCEPT ![d][2] = @ + 1]

\* Mutant: the last active normal face is never overwritten.
RecvBoxGhosts(kind, e, x) ==
  IF kind = "Vc" \/ (Normal[kind] = e /\ x = 0) THEN RecvCells(e, x)
  ELSE IF Normal[kind] = e THEN [Widened(RecvCells(e, x), e) EXCEPT ![e][1] = @ + 1]
  ELSE Widened(RecvCells(e, x), Normal[kind])

\* Faces across the direction of exchange have one more element; the normal
\* ones have it on the left of the sender, the right of the receiver.
SendBox(kind, e, x) ==
  IF kind = "Vc" \/ (Normal[kind] = e /\ x = 1) THEN SendCells(e, x)
                                                ELSE Widened(SendCells(e, x), Normal[kind])
RecvBox(kind, e, x) ==
  IF kind = "Vc" \/ (Normal[kind] = e /\ x = 0) THEN RecvCells(e, x)
                                                ELSE Widened(RecvCells(e, x), Normal[kind])

Within(s, box) == \A d \in Dirs: Index(s, d) >= box[d][1] /\ Index(s, d) < box[d][2]
Offset(s, box) == <<s[1], Index(s, 1) - box[1][1], Index(s, 2) - box[2][1]>>
Offsets(kind, box) == {kind} \X (0..(box[1][2] - box[1][1] - 1)) \X (0..(box[2][2] - box[2][1] - 1))

\* Buffer::Pack and Unpack: the elements of the box of each kind, in the order of the box.
Packed(array, boxes) ==
  [o \in UNION {Offsets(kind, boxes[kind]): kind \in DOMAIN boxes} |->
     array[<<o[1], o[2] + boxes[o[1]][1][1], o[3] + boxes[o[1]][2][1]>>]]

Unpacked(array, buf, boxes) ==
  [s \in Sites |-> IF Within(s, boxes[s[1]]) THEN buf[Offset(s, boxes[s[1]])] ELSE array[s]]

ToSend(e, x) == [kind \in Kinds |-> SendBox(kind, e, x)]
ToReceive(e, x) == [kind \in Kinds |-> RecvBox(kind, e, x)]
-----------------------------------------------------------------------------
(* Boundary::EnforceBoundaryDir *)

AtEdge(r, d, x) == r[d] = IF x = 0 THEN 0 ELSE NProc[d] - 1

Signed(v, kind, d) == IF Odd(kind, d) THEN [v EXCEPT !.sign = -@] ELSE v

\* GhostBoxVs: the last active normal faces are overwritten only by a
\* periodic boundary within one process.
Ghost(s, d, x) ==
  LET own == Extra(s[1], d) = 1 /\ Periodic(d)
  IN  IF x = 0 THEN Index(s, d) < Beg + (IF own THEN 1 ELSE 0)
      ELSE Index(s, d) >= End(d) + (IF Extra(s[1], d) = 1 /\ ~own THEN 1 ELSE 0)

\* The cell a ghost cell is copied from.
Reference(d, x, i) ==
  CASE BoundOf(d, x) = "periodic" -> NGhost + ((i + NGhost * (NInt[d] - 1)) % NInt[d])
    [] BoundOf(d, x) = "outflow" -> NGhost + x * (NInt[d] - 1)
    [] OTHER -> 2 * (NGhost + x * NInt[d]) - i - 1

\* kcomp, with the sign that the remainder of a division has in C.
Opposite(k) ==
  LET y == k - NGhost + NInt[2] \div 2
  IN  NGhost + IF y >= 0 THEN y % NInt[2] ELSE -((-y) % NInt[2])

Source(s, d, x) ==
  LET seen == [s EXCEPT ![d + 1] = Reference(d, x, @)]
  IN  IF BoundOf(d, x) = "axis" /\ TwoPi THEN [seen EXCEPT ![3] = Opposite(@)] ELSE seen

\* The opposite meridian is another process's.
needMPIExchange == TwoPi /\ NProc[2] > 1

AcrossMPI(r, d, x) == needMPIExchange /\ BoundOf(d, x) = "axis" /\ AtEdge(r, d, x)

Local(r, d, x) == IF BoundOf(d, x) = "periodic" THEN NProc[d] = 1
                  ELSE AtEdge(r, d, x) /\ ~AcrossMPI(r, d, x)

\* A boundary that takes nothing from another process.  Those that are not
\* periodic leave the normal field to ReconstructNormalField, which is not modelled.
Enforced(array, r, d, x) ==
  IF ~Local(r, d, x) THEN array
  ELSE [s \in Sites |->
          IF ~Ghost(s, d, x) \/ (~Periodic(d) /\ Extra(s[1], d) = 1) THEN array[s]
          ELSE LET v == array[Source(s, d, x)]
               IN  IF BoundOf(d, x) \in {"reflective", "axis"} THEN Signed(v, s[1], d) ELSE v]

\* Axis::ExchangeMPI: the boxes that are sent, and where what comes goes.
AxisBoxes(x) ==
  [kind \in {"Vc", "BX2s"} |->
     LET box == SendCells(1, x) IN IF kind = "BX2s" THEN Widened(box, 2) ELSE box]

Folded(array, buf, x) ==
  [s \in Sites |->
     IF s[1] = "BX1s" \/ ~Ghost(s, 1, x) \/ Index(s, 2) < Beg
          \/ Index(s, 2) >= End(2) + Extra(s[1], 2)
       THEN array[s]
       ELSE LET first == IF x = 0 THEN 0 ELSE End(1)
            IN  Signed(buf[<<s[1], NGhost - 1 - (s[2] - first), s[3] - Beg>>], s[1], 1)]
-----------------------------------------------------------------------------
Stale == [place |-> "none", by |-> "none", stage |-> 0, sign |-> 1]

Computed(r, array, n) ==
  [s \in Sites |-> IF Active(s) THEN Value(Place(r, s), r, n, 1) ELSE array[s]]

Init ==
  /\ pc = [r \in Procs |-> "enter"]
  /\ stage = [r \in Procs |-> 1] /\ dir = [r \in Procs |-> 1] /\ side = [r \in Procs |-> 0]
  /\ field = [r \in Procs |-> Computed(r, [s \in Sites |-> Stale], 1)]
  /\ buffer = [r \in Procs |-> [e \in Channels |-> [x \in Sides |-> <<>>]]]
  /\ send = [r \in Procs |-> {}] /\ recv = [r \in Procs |-> {}]
  /\ flight = [r \in Procs |-> [e \in Channels |-> [x \in Sides |-> <<>>]]]

\* The end of a direction in SetBoundaries: the next one, or the end.
NextDir(r) ==
  IF dir[r] = 1 THEN dir' = [dir EXCEPT ![r] = 2] /\ pc' = [pc EXCEPT ![r] = "enter"]
                ELSE dir' = [dir EXCEPT ![r] = 1] /\ pc' = [pc EXCEPT ![r] = "set"]

\* The sides that are left, the left one first, up to the exchange across an
\* axis, which is started: MPI_Start of the receive, Pack, MPI_Start of the send.
EnforceBoundaryDir(r, sides) ==
  LET across  == {x \in sides: AcrossMPI(r, dir[r], x)}
      now     == {x \in sides: \A y \in across: x < y}
      left    == IF 0 \in now THEN Enforced(field[r], r, dir[r], 0) ELSE field[r]
      bounded == IF 1 \in now THEN Enforced(left, r, dir[r], 1) ELSE left
  IN  /\ field' = [field EXCEPT ![r] = bounded]
      /\ \/ /\ across = {}
            /\ NextDir(r)
            /\ UNCHANGED <<side, buffer, send, recv>>
         \/ \E x \in across:
              /\ \A y \in across: x <= y
              /\ side' = [side EXCEPT ![r] = x]
              /\ recv' = [recv EXCEPT ![r] = @ \cup {AXIS}]
              /\ buffer' = [buffer EXCEPT ![r][AXIS][0] = Packed(bounded, AxisBoxes(x))]
              /\ send' = [send EXCEPT ![r] = @ \cup {<<AXIS, 0>>}]
              /\ pc' = [pc EXCEPT ![r] = "axis"]
              /\ dir' = dir

\* A direction with one process has nothing to exchange.
BoundOnly(r) ==
  /\ pc[r] = "enter" /\ NProc[dir[r]] = 1
  /\ EnforceBoundaryDir(r, Sides)
  /\ UNCHANGED <<stage, flight>>

\* Mutant: the receives are not started.
StartSendsOnly(r) ==
  LET e == dir[r]
      sides == {x \in Sides: Neighbours(r, e, x) # {}}
  IN  /\ pc[r] = "enter" /\ NProc[e] > 1
      /\ recv' = recv
      /\ buffer' = [buffer EXCEPT ![r][e] = [x \in Sides |-> Packed(field[r], ToSend(e, x))]]
      /\ send' = [send EXCEPT ![r] = @ \cup ({e} \X sides)]
      /\ pc' = [pc EXCEPT ![r] = "recv"]
      /\ UNCHANGED <<stage, dir, side, field, flight>>

\* Exchange: MPI_Startall of the receives, Pack, MPI_Startall of the sends.
Start(r) ==
  LET e == dir[r]
      sides == {x \in Sides: Neighbours(r, e, x) # {}}
  IN  /\ pc[r] = "enter" /\ NProc[e] > 1
      /\ recv' = [recv EXCEPT ![r] = @ \cup {e}]
      /\ buffer' = [buffer EXCEPT ![r][e] = [x \in Sides |-> Packed(field[r], ToSend(e, x))]]
      /\ send' = [send EXCEPT ![r] = @ \cup ({e} \X sides)]
      /\ pc' = [pc EXCEPT ![r] = "recv"]
      /\ UNCHANGED <<stage, dir, side, field, flight>>

\* MPI reads a send buffer, at any time while the send is under way: what it
\* holds leaves for the opposite side of the neighbour, with its own tag.  MPI
\* may do so before the matching receive is started, but does not have to.
Leave(r, e, x) ==
  /\ <<e, x>> \in send[r]
  /\ \E q \in Neighbours(r, e, x):
       /\ flight' = [flight EXCEPT ![q][e][1 - x] = Append(@, buffer[r][e][x])]
  /\ send' = [send EXCEPT ![r] = @ \ {<<e, x>>}]
  /\ UNCHANGED <<pc, stage, dir, side, field, buffer, recv>>

\* MPI_Waitall of the receives, and Unpack, of the left side then the right.
Receive(r) ==
  LET e       == dir[r]
      sides   == {x \in Sides: Neighbours(r, e, x) # {}}
      from(x, array) ==
        IF x \in sides THEN Unpacked(array, Head(flight[r][e][x]), ToReceive(e, x)) ELSE array
  IN  /\ pc[r] = "recv"
      /\ \A x \in sides: flight[r][e][x] # <<>>
      /\ field' = [field EXCEPT ![r] = from(1, from(0, @))]
      /\ flight' = [flight EXCEPT ![r][e] = [x \in Sides |->
                      IF x \in sides THEN Tail(@[x]) ELSE @[x]]]
      /\ recv' = [recv EXCEPT ![r] = @ \ {e}]
      /\ pc' = [pc EXCEPT ![r] = "sent"]
      /\ UNCHANGED <<stage, dir, side, buffer, send>>

\* MPI_Waitall of the sends, the end of Exchange, and EnforceBoundaryDir.
WaitForSends(r) ==
  /\ pc[r] = "sent" /\ send[r] \cap ({dir[r]} \X Sides) = {}
  /\ EnforceBoundaryDir(r, Sides)
  /\ UNCHANGED <<stage, flight>>

\* Axis::ExchangeMPI: MPI_Wait of the receive, and what came goes beyond the axis.
AxisReceive(r) ==
  /\ pc[r] = "axis" /\ flight[r][AXIS][1] # <<>>
  /\ field' = [field EXCEPT ![r] = Folded(@, Head(flight[r][AXIS][1]), side[r])]
  /\ flight' = [flight EXCEPT ![r][AXIS][1] = Tail(@)]
  /\ recv' = [recv EXCEPT ![r] = @ \ {AXIS}]
  /\ pc' = [pc EXCEPT ![r] = "axisSent"]
  /\ UNCHANGED <<stage, dir, side, buffer, send>>

\* MPI_Wait of the send, and the other side.
AxisSent(r) ==
  /\ pc[r] = "axisSent" /\ <<AXIS, 0>> \notin send[r]
  /\ EnforceBoundaryDir(r, {x \in Sides: x > side[r]})
  /\ UNCHANGED <<stage, flight>>

\* The rest of a stage computes the active cells and faces anew, and the next
\* one begins with SetBoundaries.
Evolve(r) ==
  /\ pc[r] = "set" /\ stage[r] < Stages
  /\ stage' = [stage EXCEPT ![r] = @ + 1]
  /\ field' = [field EXCEPT ![r] = Computed(r, @, stage[r] + 1)]
  /\ pc' = [pc EXCEPT ![r] = "enter"]
  /\ UNCHANGED <<dir, side, buffer, send, recv, flight>>

Step(r) ==
  \/ BoundOnly(r) \/ Start(r) \/ Receive(r) \/ WaitForSends(r)
  \/ AxisReceive(r) \/ AxisSent(r) \/ Evolve(r)

Next ==
  \E r \in Procs: Step(r) \/ \E e \in Channels, x \in Sides: Leave(r, e, x)

\* A send whose receive was started.
Matched(r, e, x) ==
  (\E q \in Neighbours(r, e, x): e \in recv[q]) /\ Leave(r, e, x)

Progress == \E r \in Procs:
              Step(r) \/ \E e \in Channels, x \in Sides: Matched(r, e, x)

\* Some process runs while one can, or MPI completes one of the sends whose
\* receive was started; it promises nothing of the others.  A run is finite,
\* so that nothing more is needed for it to end.
Fairness == WF_vars(Progress)

Spec == Init /\ [][Next]_vars /\ Fairness
-----------------------------------------------------------------------------
(* Properties *)

Values == [place: {Place(r, s): r \in Procs, s \in Sites}, by: Procs, stage: 1..Stages,
           sign: {1, -1}]

TypeOK ==
  /\ pc \in [Procs -> {"enter", "recv", "sent", "axis", "axisSent", "set"}]
  /\ stage \in [Procs -> 1..Stages] /\ dir \in [Procs -> Dirs] /\ side \in [Procs -> Sides]
  /\ LET values == Values \cup {[Stale EXCEPT !.sign = g]: g \in {1, -1}}
     IN  field \in [Procs -> [Sites -> values]]
  /\ \A r \in Procs: send[r] \subseteq Channels \X Sides /\ recv[r] \subseteq Channels

\* ReconstructNormalField sets the normal faces beyond a boundary, and
\* RegularizeBX2s those on an axis.
Reconstructed(r, s) ==
  \E d \in Dirs: Extra(s[1], d) = 1 /\ ~Periodic(d) /\
    LET g == At(r, s, d)
    IN  \/ g \notin 0..NGlobal(d)
        \/ g = 0 /\ BoundOf(d, 0) = "axis"
        \/ g = NGlobal(d) /\ BoundOf(d, 1) = "axis"

\* "the MPI routines [...] guarantee reproductibility at machine precision
\* independently of the domain decomposition" (CHANGELOG.md): when
\* SetBoundaries returns, each cell and face of the process, ghosts, corners
\* and what is beyond the axis included, holds the value of the place it stands
\* for, with its sign, in this stage, as computed by its owner: what a single
\* process would read there.
GhostsAreSerial ==
  \A r \in Procs: pc[r] = "set" =>
    \A s \in Sites: ~Reconstructed(r, s) =>
      LET place == Place(r, s)
      IN  field[r][s] = Value(place, Owner(place), stage[r], Sign(r, s))

\* What the input has to provide, and the code does not check: subdomains
\* larger than the ghost region wherever the direction is shared, since a
\* message takes its cells, and one face more, from a single neighbour; as many
\* cells as ghosts at a wall or an axis, which reflects them; and a turn around
\* the axis that is periodic.
Wide ==
  /\ \A d \in Dirs: NProc[d] > 1 => NGhost < NInt[d]
  /\ \A d \in Dirs, x \in Sides: BoundOf(d, x) \in {"reflective", "axis"} => NGhost <= NInt[d]
  /\ "axis" \in {BoundOf(1, 0), BoundOf(1, 1)} /\ TwoPi => Periodic(2)

Done(r) == pc[r] = "set" /\ stage[r] = Stages

\* Every process gets through all its stages, even if MPI sends nothing before
\* the matching receive is started.
AllStagesDone == <>(\A r \in Procs: Done(r))
=============================================================================
