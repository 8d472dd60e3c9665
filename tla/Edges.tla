-------------------------------- MODULE Edges --------------------------------
(***************************************************************************)
(* ConstrainedTransport::EnforceEMFBoundary, and likewise                  *)
(* EnforceVectorPotentialBoundary, over a grid of MPI processes: the       *)
(* electric fields on the edges that several processes or several ends of  *)
(* a periodic grid share, and on the axis of spherical coordinates, are    *)
(* made the same (Axis::RegularizeEMFs, ExchangeAll,                       *)
(* EnforceEMFBoundaryPeriodic, when a vector potential is evolved).        *)
(*                                                                         *)
(* The model is of two successive directions and of the component along    *)
(* the third one, which lives on the nodes of their plane: Ex3 in X1 and   *)
(* X2, or Ex1 in X2 and X3, where the first direction may end on the axis. *)
(* A node is counted from the first active one.  A value is a symbol:      *)
(* which process computed it, at which of its nodes, in which stage.       *)
(***************************************************************************)
EXTENDS Integers, Sequences

CONSTANTS
  NProc,    \* nproc: the number of processes in each direction
  NInt,     \* np_int of the subdomains: their active cells in each direction
  Bound,    \* the left and right boundaries of each direction
  TwoPi,    \* isTwoPi: around the axis, the second direction is a whole turn
  Stages    \* bound on the number of stages

Dirs == {1, 2}
Sides == {0, 1}                    \* faceLeft, faceRight
Procs == (0..(NProc[1] - 1)) \X (0..(NProc[2] - 1))
BoundOf(d, x) == Bound[d][x + 1]
Periodic(d) == BoundOf(d, 0) = "periodic"

\* What the constants may be.
EdgesAssumption ==
  /\ \A d \in Dirs: NProc[d] \in Nat \ {0} /\ NInt[d] \in Nat \ {0}
  /\ \A d \in Dirs: \/ Bound[d] = <<"periodic", "periodic">>
                    \/ Bound[d] \in {"outflow", "axis"} \X {"outflow", "axis"}
  /\ \A x \in Sides: BoundOf(2, x) # "axis"
  /\ TwoPi \in BOOLEAN /\ Stages \in Nat \ {0}

Nodes == (0..NInt[1]) \X (0..NInt[2])

VARIABLES
  pc,     \* where each process is
  stage,  \* the stage it is in
  dir,    \* the direction it exchanges
  side,   \* the end whose axis it averages
  field,  \* its array of the electric field, or of the vector potential
  buffer, \* BufferSendX1, X2 or X3: the right one, the left one is not loaded
  send,   \* its persistent sends that were started and have not left yet
  recv,   \* the directions in which its receives were started
  flight  \* the messages on their way to it, by direction and receiving side

vars == <<pc, stage, dir, side, field, buffer, send, recv, flight>>
-----------------------------------------------------------------------------
AtEdge(r, d, x) == r[d] = IF x = 0 THEN 0 ELSE NProc[d] - 1

Neighbours(r, d, x) ==
  LET y == r[d] + 2 * x - 1
      z == IF Periodic(d) THEN y % NProc[d] ELSE y
  IN  IF z \in 0..(NProc[d] - 1) THEN {[r EXCEPT ![d] = z]} ELSE {}

Value(r, node, n) == [by |-> r, node |-> node, stage |-> n]

\* Mutant: the last node of a line is left out.
LineWithoutEnd(d, x) == {node \in Nodes: node[d] = x * NInt[d] /\ node[3 - d] < NInt[3 - d]}

\* The nodes of the first line across direction d, and of the last one.
Line(d, x) == {node \in Nodes: node[d] = x * NInt[d]}

\* Where the ends of a periodic direction are one line.
Mirror(node, d) == [node EXCEPT ![d] = NInt[d]]
-----------------------------------------------------------------------------
(* Axis::RegularizeEMFs *)

Poles(r) == {x \in Sides: BoundOf(1, x) = "axis" /\ AtEdge(r, 1, x)}

FirstPole(r) == IF 0 \in Poles(r) THEN 0 ELSE 1

needMPIExchange == TwoPi /\ NProc[2] > 1

\* The processes that share the turn of r.
AxisComm(r) == {q \in Procs: q[1] = r[1]}

\* Ex1Avg: what a process adds, each node of the circle once.
Ex1(r, x) == {field[r][<<x * NInt[1], k>>]: k \in 0..(NInt[2] - 1)}

\* SymmetrizeEx1Side: the sum is divided by the cells of the whole turn.
Symmetrized(array, x, sum) ==
  [node \in Nodes |-> IF node[1] = x * NInt[1]
                        THEN [sum |-> sum, over |-> NProc[2] * NInt[2]]
                        ELSE array[node]]

\* The axes of a process that shares its turn with none.
Regularize(r) ==
  /\ pc[r] = "regularize" /\ (Poles(r) = {} \/ ~needMPIExchange)
  /\ LET left == IF 0 \in Poles(r) THEN Symmetrized(field[r], 0, Ex1(r, 0)) ELSE field[r]
     IN  field' = [field EXCEPT ![r] =
                     IF 1 \in Poles(r) THEN Symmetrized(left, 1, Ex1(r, 1)) ELSE left]
  /\ pc' = [pc EXCEPT ![r] = "enter"]
  /\ UNCHANGED <<stage, dir, side, buffer, send, recv, flight>>

\* MPI_Allreduce over AxisComm, once all its processes are there, for the left
\* axis and then for the right one.
Allreduce(r) ==
  LET comm == AxisComm(r)
      x    == side[r]
      sum  == UNION {Ex1(q, x): q \in comm}
      last == x = 1 \/ 1 \notin Poles(r)
  IN  /\ x \in Poles(r) /\ needMPIExchange
      /\ \A q \in comm: pc[q] = "regularize" /\ side[q] = x
      /\ field' = [q \in Procs |-> IF q \in comm THEN Symmetrized(field[q], x, sum) ELSE field[q]]
      /\ side' = [q \in Procs |-> IF q \notin comm THEN side[q]
                                  ELSE IF last THEN FirstPole(q) ELSE 1]
      /\ pc' = [q \in Procs |-> IF q \in comm /\ last THEN "enter" ELSE pc[q]]
      /\ UNCHANGED <<stage, dir, buffer, send, recv, flight>>
-----------------------------------------------------------------------------
(* ExchangeAll and EnforceEMFBoundaryPeriodic *)

\* EnforceEMFBoundaryPeriodic: in a direction with one process, the right end
\* takes the values of the left one, in each direction after the other.
Periodized(array) ==
  LET own(d) == Periodic(d) /\ NProc[d] = 1
      from(a, d) == [node \in Nodes |->
                       IF own(d) /\ node \in Line(d, 1) THEN a[[node EXCEPT ![d] = 0]] ELSE a[node]]
  IN  from(from(array, 1), 2)

\* The end of a direction in ExchangeAll: the next one, or the end.
NextDir(r, array) ==
  /\ dir' = [dir EXCEPT ![r] = 3 - @]
  /\ pc' = [pc EXCEPT ![r] = IF dir[r] = 1 THEN "enter" ELSE "set"]
  /\ field' = [field EXCEPT ![r] = IF dir[r] = 1 THEN array ELSE Periodized(array)]

\* A direction with one process has nothing to exchange.
Skip(r) ==
  /\ pc[r] = "enter" /\ NProc[dir[r]] = 1
  /\ NextDir(r, field[r])
  /\ UNCHANGED <<stage, side, buffer, send, recv, flight>>

\* ExchangeX1, X2 or X3: MPI_Startall of both receives, the last line to the
\* right buffer, MPI_Startall of both sends.
Start(r) ==
  LET e == dir[r]
  IN  /\ pc[r] = "enter" /\ NProc[e] > 1
      /\ recv' = [recv EXCEPT ![r] = @ \cup {e}]
      /\ buffer' = [buffer EXCEPT ![r][e] = [node \in Line(e, 1) |-> field[r][node]]]
      /\ send' = [send EXCEPT ![r] = @ \cup {<<e, x>>: x \in {y \in Sides: Neighbours(r, e, y) # {}}}]
      /\ pc' = [pc EXCEPT ![r] = "recv"]
      /\ UNCHANGED <<stage, dir, side, field, flight>>

\* MPI reads a send buffer, at any time while the send is under way.
Leave(r, e, x) ==
  /\ <<e, x>> \in send[r]
  /\ \E q \in Neighbours(r, e, x):
       flight' = [flight EXCEPT ![q][e][1 - x] = Append(@, IF x = 1 THEN buffer[r][e] ELSE <<>>)]
  /\ send' = [send EXCEPT ![r] = @ \ {<<e, x>>}]
  /\ UNCHANGED <<pc, stage, dir, side, field, buffer, recv>>

\* MPI_Waitall of the receives.
Receive(r) ==
  LET e     == dir[r]
      sides == {x \in Sides: Neighbours(r, e, x) # {}}
  IN  /\ pc[r] = "recv"
      /\ \A x \in sides: flight[r][e][x] # <<>>
      /\ recv' = [recv EXCEPT ![r] = @ \ {e}]
      /\ pc' = [pc EXCEPT ![r] = "sent"]
      /\ UNCHANGED <<stage, dir, side, field, buffer, send, flight>>

\* MPI_Waitall of the sends: the first line, unless it is at the end of the
\* grid, is erased by the one of the left process.
WaitForSends(r) ==
  LET e      == dir[r]
      inside == ~AtEdge(r, e, 0) \/ Periodic(e)
      erased == [node \in Nodes |->
                   IF inside /\ node \in Line(e, 0) THEN Head(flight[r][e][0])[Mirror(node, e)]
                                                    ELSE field[r][node]]
  IN  /\ pc[r] = "sent" /\ send[r] \cap ({e} \X Sides) = {}
      /\ NextDir(r, erased)
      /\ flight' = [flight EXCEPT ![r][e] = [x \in Sides |-> IF @[x] = <<>> THEN <<>> ELSE Tail(@[x])]]
      /\ UNCHANGED <<stage, side, buffer, send, recv>>
-----------------------------------------------------------------------------
Computed(r, n) == [node \in Nodes |-> Value(r, node, n)]

Init ==
  /\ pc = [r \in Procs |-> "regularize"]
  /\ stage = [r \in Procs |-> 1] /\ dir = [r \in Procs |-> 1]
  /\ side = [r \in Procs |-> FirstPole(r)]
  /\ field = [r \in Procs |-> Computed(r, 1)]
  /\ buffer = [r \in Procs |-> [e \in Dirs |-> <<>>]]
  /\ send = [r \in Procs |-> {}] /\ recv = [r \in Procs |-> {}]
  /\ flight = [r \in Procs |-> [e \in Dirs |-> [x \in Sides |-> <<>>]]]

\* The next stage computes the electric field of all its nodes anew.
Evolve(r) ==
  /\ pc[r] = "set" /\ stage[r] < Stages
  /\ stage' = [stage EXCEPT ![r] = @ + 1]
  /\ field' = [field EXCEPT ![r] = Computed(r, stage[r] + 1)]
  /\ pc' = [pc EXCEPT ![r] = "regularize"]
  /\ UNCHANGED <<dir, side, buffer, send, recv, flight>>

Step(r) ==
  Regularize(r) \/ Allreduce(r) \/ Skip(r) \/ Start(r) \/ Receive(r) \/ WaitForSends(r) \/ Evolve(r)

Next == \E r \in Procs: Step(r) \/ \E e \in Dirs, x \in Sides: Leave(r, e, x)

\* A send whose receive was started.
Matched(r, e, x) ==
  (\E q \in Neighbours(r, e, x): e \in recv[q]) /\ Leave(r, e, x)

\* Some process runs while one can, or MPI completes one of the sends whose
\* receive was started.
Progress == \E r \in Procs: Step(r) \/ \E e \in Dirs, x \in Sides: Matched(r, e, x)

Spec == Init /\ [][Next]_vars /\ WF_vars(Progress)
-----------------------------------------------------------------------------
(* Properties *)

TypeOK ==
  /\ pc \in [Procs -> {"regularize", "enter", "recv", "sent", "set"}]
  /\ stage \in [Procs -> 1..Stages] /\ dir \in [Procs -> Dirs] /\ side \in [Procs -> Sides]
  /\ \A r \in Procs: /\ DOMAIN field[r] = Nodes
                      /\ send[r] \subseteq Dirs \X Sides /\ recv[r] \subseteq Dirs

\* The copy of a line that its other copies are taken from, as a process and a
\* node: the right one of the left process, the left one of a single process.
Origin(r, d, i) ==
  CASE i = NInt[d] /\ Periodic(d) /\ NProc[d] = 1 -> <<r[d], 0>>
    [] i = 0 /\ NProc[d] > 1 /\ (r[d] > 0 \/ Periodic(d)) -> <<(r[d] - 1) % NProc[d], NInt[d]>>
    [] OTHER -> <<r[d], i>>

Circle(r, x) ==
  UNION {{Value(q, <<x * NInt[1], k>>, stage[r]) : k \in 0..(NInt[2] - 1)} : q \in AxisComm(r)}

\* "to avoid the divergence of the normal field of cells that should be
\* identical in periodic boundary conditions or with domain decomposition"
\* (enforceEMFBoundary.hpp): when EnforceEMFBoundary returns, all the copies of
\* an edge hold one value of this stage, its corners included, and those of the
\* axis the average over the whole turn, each of its nodes counted once.
EdgesMatch ==
  \A r \in Procs: pc[r] = "set" =>
    \A node \in Nodes:
      LET o == [d \in Dirs |-> Origin(r, d, node[d])]
          pole == {x \in Poles(r): node[1] = x * NInt[1]}
      IN  IF pole = {}
            THEN field[r][node] = Value(<<o[1][1], o[2][1]>>, <<o[1][2], o[2][2]>>, stage[r])
            ELSE \A x \in pole: field[r][node] =
                   [sum |-> Circle(r, x), over |-> NProc[2] * NInt[2]]

Done(r) == pc[r] = "set" /\ stage[r] = Stages
=============================================================================
