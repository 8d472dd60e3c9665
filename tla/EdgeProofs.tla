----------------------------- MODULE EdgeProofs -----------------------------
(***************************************************************************)
(* Proof that all the copies of an edge hold one value when                *)
(* EnforceEMFBoundary returns, on the axis the average over the whole      *)
(* turn: EdgesMatch of Edges, for all values of its constants.             *)
(*                                                                         *)
(* What a process has is a function of the stage alone, whatever the       *)
(* messages do: Regular after the axis, Exchanged after a direction.  IInv *)
(* says that each process has it, that a buffer under way and each message *)
(* of a queue is the line of the stage it is counted for, and that         *)
(* the processes around an axis go from one reduction to the next at once. *)
(***************************************************************************)
EXTENDS Edges, TLAPS

\* A turn around the axis that several processes share is reduced by them: for
\* a wedge the code sums each share alone.
TurnShared == (\E x \in Sides : BoundOf(1, x) = "axis") /\ NProc[2] > 1 => TwoPi

Given == EdgesAssumption /\ TurnShared

\* What is on the axis in stage n: the average of the circle.
Ring(r, x, n) ==
  UNION {{Value(q, <<x * NInt[1], k>>, n) : k \in 0..(NInt[2] - 1)} : q \in AxisComm(r)}

Average(r, x, n) == [sum |-> Ring(r, x, n), over |-> NProc[2] * NInt[2]]

\* The array with the axes of some sides regularized.
Averaged(r, sides, n) ==
  [node \in Nodes |->
     IF \E x \in sides : node[1] = x * NInt[1]
       THEN Average(r, IF node[1] = 0 THEN 0 ELSE 1, n)
       ELSE Value(r, node, n)]

Regular(r, n) == Averaged(r, Poles(r), n)

\* The process before r in direction e, if there is one.
Left(r, e) == [r EXCEPT ![e] = (r[e] - 1) % NProc[e]]

Inside(r, e) == ~AtEdge(r, e, 0) \/ Periodic(e)

\* The array after the first direction, and after both.
Exchanged(r, n) ==
  [node \in Nodes |->
     IF NProc[1] > 1 /\ Inside(r, 1) /\ node \in Line(1, 0)
       THEN Regular(Left(r, 1), n)[Mirror(node, 1)] ELSE Regular(r, n)[node]]

Both(r, n) ==
  [node \in Nodes |->
     IF NProc[2] > 1 /\ Inside(r, 2) /\ node \in Line(2, 0)
       THEN Exchanged(Left(r, 2), n)[Mirror(node, 2)] ELSE Exchanged(r, n)[node]]

\* What is sent in direction e, and the message.
Sent(e, r, n) == IF e = 1 THEN Regular(r, n) ELSE Exchanged(r, n)

Message(e, r, n) == [node \in Line(e, 1) |-> Sent(e, r, n)[node]]

\* The exchanges of direction e that r has begun, and those it has ended.
Begun(r, e) ==
  stage[r] - 1 + IF \/ pc[r] = "set"
                    \/ pc[r] # "regularize" /\ dir[r] > e
                    \/ pc[r] \in {"recv", "sent"} /\ dir[r] = e THEN 1 ELSE 0

Taken(r, e) ==
  stage[r] - 1 + IF pc[r] = "set" \/ (pc[r] # "regularize" /\ dir[r] > e) THEN 1 ELSE 0

\* The messages that have left.
Gone(r, e, x) == Begun(r, e) - IF <<e, x>> \in send[r] THEN 1 ELSE 0

\* The stages in which the axis was passed.
Turned(r) == stage[r] - IF pc[r] = "regularize" THEN 1 ELSE 0

IsQueue(f) == \E M : f \in Seq(M)

Shape ==
  /\ pc \in [Procs -> {"regularize", "enter", "recv", "sent", "set"}]
  /\ stage \in [Procs -> Nat \ {0}] /\ dir \in [Procs -> Dirs] /\ side \in [Procs -> Sides]
  /\ DOMAIN field = Procs
  /\ DOMAIN buffer = Procs /\ \A r \in Procs : DOMAIN buffer[r] = Dirs
  /\ send \in [Procs -> SUBSET (Dirs \X Sides)]
  /\ DOMAIN flight = Procs
  /\ \A r \in Procs : DOMAIN flight[r] = Dirs
  /\ \A r \in Procs, e \in Dirs : DOMAIN flight[r][e] = Sides
  /\ \A r \in Procs, e \in Dirs, x \in Sides : IsQueue(flight[r][e][x])

Where(r) ==
  /\ pc[r] \in {"regularize", "set"} => dir[r] = 1
  /\ pc[r] \in {"recv", "sent"} => NProc[dir[r]] > 1
  /\ pc[r] = "sent" => \A x \in Sides : Neighbours(r, dir[r], x) # {} => flight[r][dir[r]][x] # <<>>
  /\ needMPIExchange /\ Poles(r) # {} =>
       side[r] \in Poles(r) /\ (pc[r] # "regularize" => side[r] = FirstPole(r))

\* Sides whose axis is regularized, before the stage goes on.
SidesDone(r) == IF needMPIExchange /\ side[r] = 1 THEN Poles(r) \cap {0} ELSE {}

Fine(r) ==
  field[r] = CASE pc[r] = "regularize" -> Averaged(r, SidesDone(r), stage[r])
               [] pc[r] = "set" -> Periodized(Both(r, stage[r]))
               [] OTHER -> Sent(dir[r], r, stage[r])

Sending(r, e, x) ==
  <<e, x>> \in send[r] =>
    /\ dir[r] = e /\ pc[r] \in {"recv", "sent"} /\ Neighbours(r, e, x) # {}
    /\ buffer[r][e] = Message(e, r, stage[r])

\* The messages of r to its neighbour q on side x. Those to the left are empty.
Flying(r, e, x, q) ==
  LET f == flight[q][e][1 - x]
  IN  /\ Len(f) = Gone(r, e, x) - Taken(q, e)
      /\ x = 1 => \A k \in 1..Len(f) : f[k] = Message(e, r, Taken(q, e) + k)

\* The processes around an axis.
Together(r, q) == Turned(q) = Turned(r) /\ side[q] = side[r]

IInv ==
  /\ Shape
  /\ \A r \in Procs : Where(r) /\ Fine(r)
  /\ \A r \in Procs, e \in Dirs, x \in Sides : Sending(r, e, x)
  /\ \A r \in Procs, e \in Dirs, x \in Sides :
       NProc[e] > 1 => \A q \in Neighbours(r, e, x) : Flying(r, e, x, q)
  /\ needMPIExchange =>
       \A r \in Procs : Poles(r) # {} => \A q \in AxisComm(r) : Together(r, q)
-----------------------------------------------------------------------------
(* Constants, processes, neighbours *)

LEMMA Quotients ==
  ASSUME NEW C \in Int, C > 0, NEW y \in Int
  PROVE  /\ y \div C \in Int
         /\ y = C * (y \div C) + (y % C)
         /\ y % C \in 0..(C - 1)
OBVIOUS

LEMMA Remainder ==
  ASSUME NEW C \in Int, C > 0, NEW y \in Int, NEW k \in Int, NEW r \in 0..C - 1, y = k * C + r
  PROVE  y % C = r /\ y \div C = k
<1> DEFINE q == y \div C
           z == y % C
<1>1. q \in Int /\ z \in Int /\ 0 <= z /\ z < C /\ y = C * q + z
  OBVIOUS
<1> HIDE DEF q, z
<1>2. C * (k - q) = z - r
  BY <1>1
<1>3. k - q <= 0
  <2>1. SUFFICES ASSUME k - q >= 1 PROVE FALSE
    BY <1>1
  <2>2. C * (k - q) >= C
    BY <2>1, <1>1
  <2> QED BY <2>2, <1>2, <1>1
<1>4. k - q >= 0
  <2>1. SUFFICES ASSUME k - q <= -1 PROVE FALSE
    BY <1>1
  <2>2. C * (k - q) <= -C
    BY <2>1, <1>1
  <2> QED BY <2>2, <1>2, <1>1
<1>5. k = q
  BY <1>3, <1>4, <1>1
<1>6. r = z
  BY <1>2, <1>5, <1>1
<1> QED BY <1>5, <1>6 DEF q, z

LEMMA ProcIs ==
  ASSUME NEW r \in Procs
  PROVE  /\ r[1] \in 0..NProc[1] - 1 /\ r[2] \in 0..NProc[2] - 1
         /\ r = <<r[1], r[2]>>
         /\ \A z : [r EXCEPT ![1] = z] = <<z, r[2]>> /\ [r EXCEPT ![2] = z] = <<r[1], z>>
<1>1. PICK a \in 0..NProc[1] - 1, b \in 0..NProc[2] - 1 : r = <<a, b>>
  BY DEF Procs
<1> QED BY <1>1

LEMMA Numbers ==
  ASSUME Given, NEW d \in Dirs
  PROVE  d \in {1, 2} /\ NProc[d] \in Int /\ NProc[d] > 0 /\ NInt[d] \in Int /\ NInt[d] > 0
BY DEF Given, EdgesAssumption, Dirs

LEMMA NeighbourIs ==
  ASSUME NEW r \in Procs, NEW e \in Dirs, NEW x \in Sides, NEW q, q \in Neighbours(r, e, x), NProc[e] > 1, Given
  PROVE  /\ q \in Procs /\ Neighbours(r, e, x) = {q} /\ r \in Neighbours(q, e, 1 - x)
         /\ \A d \in Dirs : d # e => q[d] = r[d]
         /\ \/ q[e] = r[e] + 2 * x - 1
            \/ Periodic(e) /\ x = 0 /\ r[e] = 0 /\ q[e] = NProc[e] - 1
            \/ Periodic(e) /\ x = 1 /\ r[e] = NProc[e] - 1 /\ q[e] = 0
<1> DEFINE A == NProc[e]
           c == r[e]
           y == c + 2 * x - 1
           z == IF Periodic(e) THEN y % A ELSE y
<1>1. /\ A \in Int /\ A > 1 /\ c \in Int /\ 0 <= c /\ c < A /\ x \in {0, 1} /\ e \in {1, 2} /\ 1 - x \in {0, 1}
     
  BY Numbers, ProcIs DEF Dirs, Sides
<1>2. Neighbours(r, e, x) = IF z \in 0..A - 1 THEN {[r EXCEPT ![e] = z]} ELSE {}
  BY <1>1 DEF Neighbours
<1>3. z \in 0..A - 1 /\ q = [r EXCEPT ![e] = z]
  BY <1>2
<1>4. q[e] = z /\ q \in Procs /\ \A d \in Dirs : d # e => q[d] = r[d]
  <2>1. CASE e = 1
    <3>1. q = <<z, r[2]>>
      BY <1>3, <2>1, ProcIs
    <3> QED BY <3>1, <1>3, <2>1, ProcIs DEF Procs, Dirs
  <2>2. CASE e = 2
    <3>1. q = <<r[1], z>>
      BY <1>3, <2>2, ProcIs
    <3> QED BY <3>1, <1>3, <2>2, ProcIs DEF Procs, Dirs
  <2> QED BY <2>1, <2>2, <1>1
<1>5. \/ z = y
      \/ Periodic(e) /\ x = 0 /\ c = 0 /\ z = A - 1
      \/ Periodic(e) /\ x = 1 /\ c = A - 1 /\ z = 0
  <2>1. CASE ~Periodic(e)
    BY <2>1
  <2>2. CASE Periodic(e)
    <3>1. z = y % A
      BY <2>2
    <3>2. y \in Int /\ ((0 <= y /\ y < A) \/ (y = -1 /\ x = 0 /\ c = 0) \/ (y = A /\ x = 1 /\ c = A - 1))
      BY <1>1
    <3> HIDE DEF y, A, z, c
    <3>3. CASE 0 <= y /\ y < A
      BY <3>1, <3>3, <3>2, <1>1
    <3>4. CASE y = -1 /\ x = 0 /\ c = 0
      <4>1. y = (-1) * A + (A - 1) /\ A - 1 \in 0..A - 1
        BY <3>4, <1>1
      <4>2. y % A = A - 1
        <5>1. PICK w \in 0..A - 1 : w = A - 1
          BY <4>1
        <5> QED BY <5>1, <4>1, <3>2, <1>1, Remainder
      <4> QED BY <4>2, <3>1, <3>4, <2>2
    <3>5. CASE y = A /\ x = 1 /\ c = A - 1
      <4>1. y = 1 * A + 0 /\ 0 \in 0..A - 1
        BY <3>5, <1>1
      <4>2. y % A = 0
        BY <4>1, <3>2, <1>1, Remainder
      <4> QED BY <4>2, <3>1, <3>5, <2>2
    <3> QED BY <3>2, <3>3, <3>4, <3>5
  <2> QED BY <2>1, <2>2
<1>6. r \in Neighbours(q, e, 1 - x)
  <2> DEFINE u == q[e] + 2 * (1 - x) - 1
             v == IF Periodic(e) THEN u % A ELSE u
  <2>1. Neighbours(q, e, 1 - x) = IF v \in 0..A - 1 THEN {[q EXCEPT ![e] = v]} ELSE {}
    BY <1>1 DEF Neighbours
  <2>2. v = c
    <3>1. u \in Int /\ z \in Int /\ u = z + 1 - 2 * x
      BY <1>1, <1>3, <1>4
    <3>2. CASE z = y
      <4>1. u = c
        BY <3>1, <3>2, <1>1
      <4> QED BY <4>1, <1>1
    <3>3. CASE Periodic(e) /\ x = 0 /\ c = 0 /\ z = A - 1
      <4>1. u = A /\ v = u % A
        BY <3>1, <3>3, <1>1
      <4> QED BY <4>1, <3>3, <1>1
    <3>4. CASE Periodic(e) /\ x = 1 /\ c = A - 1 /\ z = 0
      <4>1. u = -1 /\ v = u % A
        BY <3>1, <3>4, <1>1
      <4>2. (-1) % A = A - 1
        <5> HIDE DEF A
        <5>1. -1 = (-1) * A + (A - 1) /\ -1 \in Int
          BY <1>1
        <5>2. PICK w \in 0..A - 1 : w = A - 1
          BY <1>1
        <5>3. PICK k \in Int : k = -1
          OBVIOUS
        <5>4. k = k * A + w
          BY <5>1, <5>2, <5>3
        <5>5. k % A = w
          BY <5>2, <5>4, <1>1, Remainder
        <5> QED BY <5>2, <5>3, <5>5
      <4> QED BY <4>1, <4>2, <3>4
    <3> QED BY <1>5, <3>2, <3>3, <3>4
  <2>3. [q EXCEPT ![e] = c] = r
    <3>1. CASE e = 1
      BY <1>4, <3>1, ProcIs DEF Dirs
    <3>2. CASE e = 2
      BY <1>4, <3>2, ProcIs DEF Dirs
    <3> QED BY <3>1, <3>2, <1>1
  <2> QED BY <2>1, <2>2, <2>3, <1>1
<1>7. Neighbours(r, e, x) = {q}
  BY <1>2, <1>3
<1> QED BY <1>4, <1>5, <1>6, <1>7

LEMMA NoNeighbour ==
  ASSUME NEW r \in Procs, NEW e \in Dirs, NEW x \in Sides, NProc[e] > 1, Given
  PROVE  Neighbours(r, e, x) = {} <=> ~Periodic(e) /\ AtEdge(r, e, x)
<1> DEFINE A == NProc[e]
           c == r[e]
           y == c + 2 * x - 1
           z == IF Periodic(e) THEN y % A ELSE y
<1>1. A \in Int /\ A > 1 /\ c \in Int /\ 0 <= c /\ c < A /\ x \in {0, 1}
  BY ProcIs, Numbers DEF Dirs, Sides
<1>2. Neighbours(r, e, x) = IF z \in 0..A - 1 THEN {[r EXCEPT ![e] = z]} ELSE {}
  BY <1>1 DEF Neighbours
<1>3. CASE Periodic(e)
  <2>1. z \in 0..A - 1
    BY <1>1, <1>3
  <2> QED BY <2>1, <1>2, <1>3
<1>4. CASE ~Periodic(e)
  <2>1. z \in 0..A - 1 <=> ~(c = IF x = 0 THEN 0 ELSE A - 1)
    BY <1>1, <1>4
  <2> QED BY <2>1, <1>2, <1>4 DEF AtEdge
<1> QED BY <1>3, <1>4

LEMMA QueueGrows ==
  ASSUME NEW f, IsQueue(f), NEW b
  PROVE  /\ IsQueue(Append(f, b)) /\ Len(f) \in Nat /\ Len(Append(f, b)) = Len(f) + 1
         /\ \A k \in 1..Len(f) : Append(f, b)[k] = f[k]
         /\ Append(f, b)[Len(f) + 1] = b
<1>1. PICK M : f \in Seq(M)
  BY DEF IsQueue
<1>2. PICK N : M \subseteq N /\ b \in N
  <2>1. M \subseteq M \cup {b} /\ b \in M \cup {b}
    OBVIOUS
  <2> QED BY <2>1
<1>3. f \in Seq(N)
  BY <1>1, <1>2
<1>4. Append(f, b) \in Seq(N)
  BY <1>2, <1>3
<1>5. /\ Len(f) \in Nat /\ Len(Append(f, b)) = Len(f) + 1
      /\ \A k \in 1..Len(f) : Append(f, b)[k] = f[k]
      /\ Append(f, b)[Len(f) + 1] = b
  BY <1>2, <1>3
<1> QED BY <1>4, <1>5 DEF IsQueue

LEMMA QueueShrinks ==
  ASSUME NEW f, IsQueue(f), f # <<>>
  PROVE  /\ IsQueue(Tail(f)) /\ Len(f) \in Nat /\ Len(f) >= 1 /\ Len(Tail(f)) = Len(f) - 1
         /\ Head(f) = f[1]
         /\ \A k \in 1..Len(Tail(f)) : Tail(f)[k] = f[k + 1]
<1>1. PICK M : f \in Seq(M)
  BY DEF IsQueue
<1>2. Tail(f) \in Seq(M)
  BY <1>1
<1>3. /\ Len(f) \in Nat /\ Len(f) >= 1 /\ Len(Tail(f)) = Len(f) - 1
      /\ Head(f) = f[1]
      /\ \A k \in 1..Len(Tail(f)) : Tail(f)[k] = f[k + 1]
  BY <1>1
<1> QED BY <1>2, <1>3 DEF IsQueue

\* The process before r, that its first line is taken from.
LEMMA LeftIs ==
  ASSUME Given, NEW r \in Procs, NEW e \in Dirs, NProc[e] > 1, Inside(r, e)
  PROVE  Left(r, e) \in Procs /\ Neighbours(r, e, 0) = {Left(r, e)} /\ Neighbours(Left(r, e), e, 1) = {r}
<1> DEFINE A == NProc[e]
           c == r[e]
<1>1. A \in Int /\ A > 1 /\ c \in Int /\ 0 <= c /\ c < A
  BY Numbers, ProcIs DEF Dirs
<1>2. 0 \in Sides /\ c + 2 * 0 - 1 = c - 1
  BY <1>1 DEF Sides
<1>3. Neighbours(r, e, 0) = {Left(r, e)}
  <2>1. CASE Periodic(e)
    <3>1. (c - 1) % A \in 0..(A - 1)
      BY <1>1
    <3> QED BY <3>1, <2>1, <1>2 DEF Neighbours, Left
  <2>2. CASE ~Periodic(e)
    <3>1. c # 0
      BY <2>2, <1>2 DEF Inside, AtEdge
    <3>2. (c - 1) % A = c - 1 /\ c - 1 \in 0..(A - 1)
      BY <3>1, <1>1
    <3> QED BY <3>2, <2>2, <1>2 DEF Neighbours, Left
  <2> QED BY <2>1, <2>2
<1>4. Left(r, e) \in Procs /\ r \in Neighbours(Left(r, e), e, 1 - 0)
  BY <1>2, <1>3, NeighbourIs
<1>5. 1 - 0 = 1 /\ 1 \in Sides
  BY DEF Sides
<1>6. r \in Neighbours(Left(r, e), e, 1)
  BY <1>4, <1>5
<1>7. Neighbours(Left(r, e), e, 1) = {r}
  BY <1>4, <1>5, <1>6, NeighbourIs
<1> QED BY <1>3, <1>4, <1>7

LEMMA SameAxis ==
  ASSUME NEW r \in Procs, NEW q \in AxisComm(r)
  PROVE  /\ q \in Procs /\ Poles(q) = Poles(r) /\ AxisComm(q) = AxisComm(r) /\ r \in AxisComm(q)
         /\ r \in AxisComm(r)
         /\ \A x, n : Ring(q, x, n) = Ring(r, x, n)
         /\ FirstPole(q) = FirstPole(r)
<1>1. q \in Procs /\ q[1] = r[1]
  BY DEF AxisComm
<1>2. Poles(q) = Poles(r)
  BY <1>1 DEF Poles, AtEdge
<1>3. AxisComm(q) = AxisComm(r) /\ r \in AxisComm(q) /\ r \in AxisComm(r)
  BY <1>1 DEF AxisComm
<1>4. \A x, n : Ring(q, x, n) = Ring(r, x, n)
  BY <1>3 DEF Ring
<1> QED BY <1>1, <1>2, <1>3, <1>4 DEF FirstPole

LEMMA NodeIs ==
  ASSUME Given, NEW node \in Nodes
  PROVE  /\ node[1] \in 0..NInt[1] /\ node[2] \in 0..NInt[2] /\ node = <<node[1], node[2]>>
         /\ \A i : [node EXCEPT ![1] = i] = <<i, node[2]>> /\ [node EXCEPT ![2] = i] = <<node[1], i>>
<1>1. PICK i \in 0..NInt[1], j \in 0..NInt[2] : node = <<i, j>>
  BY DEF Nodes
<1> QED BY <1>1

\* The ends of a circle are two, and apart.
LEMMA EndIs ==
  ASSUME Given, NEW x \in Sides, NEW z \in Sides, x * NInt[1] = z * NInt[1]
  PROVE  x = z /\ (x = IF x * NInt[1] = 0 THEN 0 ELSE 1)
<1>1. NInt[1] \in Int /\ NInt[1] > 0
  BY Numbers DEF Dirs
<1>2. x \in {0, 1} /\ z \in {0, 1}
  BY DEF Sides
<1> QED BY <1>1, <1>2

\* What the processes of a circle sum is the circle, once each has still the
\* values it computed there.
LEMMA SumIs ==
  ASSUME Given, NEW r \in Procs, NEW x \in Sides, NEW n,
         \A q \in AxisComm(r), k \in 0..(NInt[2] - 1) :
            field[q][<<x * NInt[1], k>>] = Value(q, <<x * NInt[1], k>>, n)
  PROVE  UNION {Ex1(q, x) : q \in AxisComm(r)} = Ring(r, x, n)
<1>1. ASSUME NEW q \in AxisComm(r)
      PROVE  Ex1(q, x) = {Value(q, <<x * NInt[1], k>>, n) : k \in 0..(NInt[2] - 1)}
  BY DEF Ex1
<1>2. ASSUME NEW v \in UNION {Ex1(q, x) : q \in AxisComm(r)} PROVE v \in Ring(r, x, n)
  <2>1. PICK q \in AxisComm(r) : v \in Ex1(q, x)
    BY <1>2
  <2> QED BY <2>1, <1>1 DEF Ring
<1>3. ASSUME NEW v \in Ring(r, x, n) PROVE v \in UNION {Ex1(q, x) : q \in AxisComm(r)}
  <2>1. PICK q \in AxisComm(r) : v \in {Value(q, <<x * NInt[1], k>>, n) : k \in 0..(NInt[2] - 1)}
    BY <1>3 DEF Ring
  <2> QED BY <2>1, <1>1
<1> QED BY <1>2, <1>3

\* Where a process has not averaged yet, it has its values.
LEMMA StillComputed ==
  ASSUME Given, NEW q \in Procs, NEW x \in Sides, NEW done \in SUBSET Sides, x \notin done,
         NEW k \in 0..(NInt[2] - 1), NEW n
  PROVE  Averaged(q, done, n)[<<x * NInt[1], k>>] = Value(q, <<x * NInt[1], k>>, n)
<1>1. NInt[1] \in Int /\ NInt[1] > 0 /\ NInt[2] \in Int /\ NInt[2] > 0 /\ x \in {0, 1}
  BY Numbers DEF Dirs, Sides
<1>2. x * NInt[1] \in 0..NInt[1] /\ k \in 0..NInt[2]
  BY <1>1
<1>3. <<x * NInt[1], k>> \in Nodes
  BY <1>2 DEF Nodes
<1>4. \A z \in done : <<x * NInt[1], k>>[1] # z * NInt[1]
  BY EndIs
<1> QED BY <1>3, <1>4 DEF Averaged

\* One more axis.
LEMMA SymmetrizedIs ==
  ASSUME Given, NEW r \in Procs, NEW x \in Sides, NEW done \in SUBSET Sides, NEW n
  PROVE  Symmetrized(Averaged(r, done, n), x, Ring(r, x, n)) = Averaged(r, done \cup {x}, n)
<1>1. ASSUME NEW node \in Nodes
      PROVE  Symmetrized(Averaged(r, done, n), x, Ring(r, x, n))[node] = Averaged(r, done \cup {x}, n)[node]
  <2>1. CASE node[1] = x * NInt[1]
    <3>1. x = IF node[1] = 0 THEN 0 ELSE 1
      BY <2>1, EndIs
    <3>2. Averaged(r, done \cup {x}, n)[node] = Average(r, x, n)
      BY <2>1, <3>1 DEF Averaged
    <3> QED BY <2>1, <3>2 DEF Symmetrized, Average
  <2>2. CASE node[1] # x * NInt[1]
    BY <2>2 DEF Symmetrized, Averaged
  <2> QED BY <2>1, <2>2
<1> QED BY <1>1 DEF Symmetrized, Averaged
-----------------------------------------------------------------------------
(* What a step does not change *)

LEMMA SameProcess ==
  ASSUME NEW p, pc'[p] = pc[p], stage'[p] = stage[p], dir'[p] = dir[p], side'[p] = side[p], field'[p] = field[p]
  PROVE  /\ \A e : Begun(p, e)' = Begun(p, e) /\ Taken(p, e)' = Taken(p, e)
         /\ Turned(p)' = Turned(p)
         /\ Fine(p)' <=> Fine(p)
<1>1. \A e : Begun(p, e)' = Begun(p, e) /\ Taken(p, e)' = Taken(p, e)
  BY DEF Begun, Taken
<1>2. Turned(p)' = Turned(p)
  BY DEF Turned
<1>3. SidesDone(p)' = SidesDone(p)
  BY DEF SidesDone
<1>4. Fine(p)' <=> Fine(p)
  BY <1>3 DEF Fine
<1> QED BY <1>1, <1>2, <1>4

LEMMA SameWhere ==
  ASSUME NEW p \in Procs, Shape, Where(p), pc'[p] = pc[p], stage'[p] = stage[p], dir'[p] = dir[p], side'[p] = side[p],
         pc[p] = "sent" => \A x \in Sides : flight[p][dir[p]][x] # <<>> => flight'[p][dir[p]][x] # <<>>
  PROVE  Where(p)'
BY DEF Where

LEMMA SameSending ==
  ASSUME NEW p, NEW e, NEW x, Sending(p, e, x), pc'[p] = pc[p], stage'[p] = stage[p], dir'[p] = dir[p],
         buffer'[p] = buffer[p], <<e, x>> \in send'[p] => <<e, x>> \in send[p]
  PROVE  Sending(p, e, x)'
BY DEF Sending

LEMMA SameFlying ==
  ASSUME NEW p, NEW e, NEW x, NEW q, Flying(p, e, x, q), flight'[q][e][1 - x] = flight[q][e][1 - x],
         Gone(p, e, x)' = Gone(p, e, x), Taken(q, e)' = Taken(q, e)
  PROVE  Flying(p, e, x, q)'
BY DEF Flying

LEMMA CountsAre ==
  ASSUME Shape, NEW r \in Procs, NEW e \in Dirs
  PROVE  Begun(r, e) \in Int /\ Taken(r, e) \in Int /\ \A x : Gone(r, e, x) \in Int
<1>1. stage[r] \in Int
  BY DEF Shape
<1> QED BY <1>1 DEF Begun, Taken, Gone

\* Two channels that end at one queue are one.
LEMMA SameSender ==
  ASSUME Given, NEW p \in Procs, NEW r \in Procs, NEW e \in Dirs, NEW x \in Sides, NEW q, NProc[e] > 1,
         q \in Neighbours(p, e, x), q \in Neighbours(r, e, x)
  PROVE  p = r
<1>1. p \in Neighbours(q, e, 1 - x) /\ r \in Neighbours(q, e, 1 - x) /\ q \in Procs /\ 1 - x \in Sides
  BY NeighbourIs DEF Sides
<1> QED BY <1>1, NeighbourIs

\* A step of r alone, as the others see it.
LEMMA OthersKept ==
  ASSUME IInv, NEW p \in Procs,
         pc'[p] = pc[p], stage'[p] = stage[p], dir'[p] = dir[p], side'[p] = side[p],
         field'[p] = field[p], buffer'[p] = buffer[p], send'[p] = send[p], flight'[p] = flight[p]
  PROVE  /\ Where(p)' /\ Fine(p)' /\ \A e \in Dirs, x \in Sides : Sending(p, e, x)'
         /\ \A e : Begun(p, e)' = Begun(p, e) /\ Taken(p, e)' = Taken(p, e)
         /\ \A e, x : Gone(p, e, x)' = Gone(p, e, x)
         /\ Turned(p)' = Turned(p)
<1>1. /\ \A e : Begun(p, e)' = Begun(p, e) /\ Taken(p, e)' = Taken(p, e)
      /\ Turned(p)' = Turned(p) /\ Fine(p)'
  BY SameProcess DEF IInv
<1>2. \A e, x : Gone(p, e, x)' = Gone(p, e, x)
  BY <1>1 DEF Gone
<1>3. Where(p)'
  BY SameWhere DEF IInv
<1>4. \A e \in Dirs, x \in Sides : Sending(p, e, x)'
  BY SameSending DEF IInv
<1> QED BY <1>1, <1>2, <1>3, <1>4

LEMMA StillTogether ==
  ASSUME IInv, NEW r \in Procs,
         \A p \in Procs : p # r => Turned(p)' = Turned(p) /\ side'[p] = side[p],
         needMPIExchange /\ Poles(r) # {} => Turned(r)' = Turned(r) /\ side'[r] = side[r]
  PROVE  needMPIExchange => \A p \in Procs : Poles(p) # {} => \A q \in AxisComm(p) : Together(p, q)'
<1> SUFFICES ASSUME needMPIExchange, NEW p \in Procs, Poles(p) # {}, NEW q \in AxisComm(p)
             PROVE  Together(p, q)'
  OBVIOUS
<1>1. q \in Procs /\ Poles(q) # {} /\ Together(p, q)
  BY SameAxis DEF IInv
<1>2. Turned(p)' = Turned(p) /\ side'[p] = side[p] /\ Turned(q)' = Turned(q) /\ side'[q] = side[q]
  BY <1>1
<1> QED BY <1>1, <1>2 DEF Together

\* A step of r alone, that neither sends nor receives: what is left to show.
LEMMA OneStep ==
  ASSUME Given, IInv, NEW r \in Procs, Shape',
         \A p \in Procs : p # r =>
           /\ pc'[p] = pc[p] /\ stage'[p] = stage[p] /\ dir'[p] = dir[p] /\ side'[p] = side[p]
           /\ field'[p] = field[p] /\ buffer'[p] = buffer[p] /\ send'[p] = send[p] /\ flight'[p] = flight[p],
         Where(r)', Fine(r)', \A e \in Dirs, x \in Sides : Sending(r, e, x)',
         flight'[r] = flight[r],
         \A e \in Dirs : NProc[e] > 1 => Taken(r, e)' = Taken(r, e),
         \A e \in Dirs, x \in Sides : NProc[e] > 1 /\ Neighbours(r, e, x) # {} => Gone(r, e, x)' = Gone(r, e, x),
         needMPIExchange /\ Poles(r) # {} => Turned(r)' = Turned(r) /\ side'[r] = side[r]
  PROVE  IInv'
<1>1. ASSUME NEW p \in Procs, p # r
      PROVE  /\ Where(p)' /\ Fine(p)' /\ \A e \in Dirs, x \in Sides : Sending(p, e, x)'
             /\ \A e : Begun(p, e)' = Begun(p, e) /\ Taken(p, e)' = Taken(p, e)
             /\ \A e, x : Gone(p, e, x)' = Gone(p, e, x)
             /\ Turned(p)' = Turned(p)
  BY <1>1, OthersKept
<1>2. ASSUME NEW p \in Procs, NEW e \in Dirs, NEW x \in Sides, NProc[e] > 1, NEW q \in Neighbours(p, e, x)
      PROVE  Flying(p, e, x, q)'
  <2>1. q \in Procs /\ Flying(p, e, x, q)
    BY <1>2, NeighbourIs DEF IInv
  <2>2. Gone(p, e, x)' = Gone(p, e, x)
    BY <1>1, <1>2
  <2>3. Taken(q, e)' = Taken(q, e)
    BY <1>1, <1>2, <2>1
  <2>4. flight'[q][e][1 - x] = flight[q][e][1 - x]
    BY <2>1
  <2> QED BY <2>1, <2>2, <2>3, <2>4, SameFlying
<1>3. needMPIExchange => \A p \in Procs : Poles(p) # {} => \A q \in AxisComm(p) : Together(p, q)'
  BY <1>1, StillTogether
<1>4. \A p \in Procs : Where(p)' /\ Fine(p)' /\ \A e \in Dirs, x \in Sides : Sending(p, e, x)'
  BY <1>1
<1> QED BY <1>2, <1>3, <1>4 DEF IInv, needMPIExchange
-----------------------------------------------------------------------------
(* The axis *)

LEMMA RegularizeKeeps ==
  ASSUME Given, IInv, NEW r \in Procs, Regularize(r) PROVE IInv'
<1> DEFINE n == stage[r]
<1>1. /\ Shape /\ Where(r) /\ Fine(r) /\ dir[r] = 1 /\ pc[r] = "regularize"
      /\ Poles(r) = {} \/ ~needMPIExchange
      /\ n \in Nat \ {0}
  BY DEF IInv, Regularize, Where, Shape
<1>2. /\ pc' = [pc EXCEPT ![r] = "enter"] /\ UNCHANGED <<stage, dir, side, buffer, send, recv, flight>>
      /\ \A p \in Procs : p # r => field'[p] = field[p]
      /\ DOMAIN field' = Procs
      /\ field'[r] = LET left == IF 0 \in Poles(r) THEN Symmetrized(field[r], 0, Ex1(r, 0)) ELSE field[r]
                     IN  IF 1 \in Poles(r) THEN Symmetrized(left, 1, Ex1(r, 1)) ELSE left
  BY <1>1 DEF Regularize, Shape
<1>3. field[r] = Averaged(r, {}, n)
  <2>1. SidesDone(r) = {}
    BY <1>1 DEF SidesDone
  <2> QED BY <2>1, <1>1 DEF Fine
<1>4. ASSUME NEW x \in Poles(r) PROVE Ex1(r, x) = Ring(r, x, n)
  <2>1. x \in Sides /\ BoundOf(1, x) = "axis"
    BY DEF Poles
  <2>2. NProc[2] = 1
    BY <1>1, <2>1, Numbers DEF Given, TurnShared, needMPIExchange, Dirs
  <2>3. AxisComm(r) = {r}
    <3>1. \A q \in Procs : q[1] = r[1] => q = r
      BY <2>2, ProcIs
    <3> QED BY <3>1 DEF AxisComm
  <2>4. \A k \in 0..(NInt[2] - 1) : field[r][<<x * NInt[1], k>>] = Value(r, <<x * NInt[1], k>>, n)
    BY <1>3, <2>1, StillComputed
  <2>5. UNION {Ex1(q, x) : q \in AxisComm(r)} = Ring(r, x, n)
    BY <2>1, <2>3, <2>4, SumIs
  <2> QED BY <2>3, <2>5
<1>5. field'[r] = Regular(r, n)
  <2> DEFINE L == IF 0 \in Poles(r) THEN {0} ELSE {}
             left == IF 0 \in Poles(r) THEN Symmetrized(field[r], 0, Ex1(r, 0)) ELSE field[r]
  <2>1. {0, 1} = Sides /\ L \in SUBSET Sides /\ {} \cup {0} = {0} /\ {} \in SUBSET Sides
    BY DEF Sides
  <2>2. left = Averaged(r, L, n)
    BY <1>3, <1>4, <2>1, SymmetrizedIs
  <2>3. field'[r] = IF 1 \in Poles(r) THEN Averaged(r, L \cup {1}, n) ELSE Averaged(r, L, n)
    <3>1. field'[r] = IF 1 \in Poles(r) THEN Symmetrized(left, 1, Ex1(r, 1)) ELSE left
      BY <1>2
    <3> HIDE DEF left, L
    <3> QED BY <3>1, <1>4, <2>1, <2>2, SymmetrizedIs
  <2>4. Poles(r) \subseteq {0, 1}
    BY DEF Poles, Sides
  <2>5. Poles(r) = IF 1 \in Poles(r) THEN L \cup {1} ELSE L
    BY <2>4
  <2> QED BY <2>3, <2>5 DEF Regular
<1>6. pc'[r] = "enter" /\ \A p \in Procs : p # r => pc'[p] = pc[p]
  BY <1>1, <1>2 DEF Shape
<1>7. Fine(r)'
  BY <1>1, <1>2, <1>5, <1>6 DEF Fine, Sent
<1>8. Shape' /\ Where(r)'
  BY <1>1, <1>2, <1>6 DEF Shape, Where
<1>9. \A e \in Dirs, x \in Sides : Sending(r, e, x)'
  BY <1>1, <1>2, <1>6 DEF Sending, IInv
<1>10. \A e \in Dirs : Taken(r, e)' = Taken(r, e) /\ Begun(r, e)' = Begun(r, e)
  BY <1>1, <1>2, <1>6 DEF Taken, Begun, Dirs
<1>11. \A e \in Dirs, x \in Sides : Gone(r, e, x)' = Gone(r, e, x)
  BY <1>2, <1>10 DEF Gone
<1> QED BY <1>1, <1>2, <1>6, <1>7, <1>8, <1>9, <1>10, <1>11, OneStep

\* A reduction takes all the processes of a circle from one stage, and leaves
\* all of them one side further.
LEMMA AllreduceKeeps ==
  ASSUME Given, IInv, NEW r \in Procs, Allreduce(r) PROVE IInv'
<1> DEFINE n == stage[r]
           x == side[r]
           comm == AxisComm(r)
           last == x = 1 \/ 1 \notin Poles(r)
           D == IF x = 1 THEN Poles(r) \cap {0} ELSE {}
           sum == UNION {Ex1(q, x) : q \in comm}
<1>1. /\ Shape /\ x \in Poles(r) /\ needMPIExchange /\ n \in Nat \ {0} /\ x \in Sides /\ x \in {0, 1}
      /\ r \in comm
      /\ Poles(r) \subseteq {0, 1}
  <2>1. Shape /\ x \in Poles(r) /\ needMPIExchange
    BY DEF IInv, Allreduce
  <2>2. n \in Nat \ {0} /\ x \in Sides
    BY <2>1 DEF Shape
  <2>3. r \in comm
    BY DEF AxisComm
  <2>4. Poles(r) \subseteq {0, 1} /\ (x \in Sides => x \in {0, 1})
    BY DEF Poles, Sides
  <2> QED BY <2>1, <2>2, <2>3, <2>4
<1>2. ASSUME NEW q \in comm
      PROVE  /\ q \in Procs /\ Poles(q) = Poles(r) /\ AxisComm(q) = comm /\ FirstPole(q) = FirstPole(r)
             /\ \A y, k : Ring(q, y, k) = Ring(r, y, k)
             /\ pc[q] = "regularize" /\ side[q] = x /\ dir[q] = 1 /\ stage[q] = n
  <2>1. /\ q \in Procs /\ Poles(q) = Poles(r) /\ AxisComm(q) = comm /\ FirstPole(q) = FirstPole(r)
        /\ \A y, k : Ring(q, y, k) = Ring(r, y, k)
    BY SameAxis
  <2>2. pc[q] = "regularize" /\ pc[r] = "regularize" /\ side[q] = x
    BY <1>1 DEF Allreduce
  <2>3. dir[q] = 1
    BY <2>1, <2>2 DEF IInv, Where
  <2>4. Turned(q) = Turned(r)
    BY <1>1 DEF IInv, Together
  <2>5. stage[q] \in Int
    BY <2>1, <1>1 DEF Shape
  <2>6. stage[q] = n
    BY <2>2, <2>4, <2>5, <1>1 DEF Turned
  <2> QED BY <2>1, <2>2, <2>3, <2>6
<1>3. ASSUME NEW q \in comm PROVE field[q] = Averaged(q, D, n)
  <2>1. SidesDone(q) = D
    BY <1>1, <1>2 DEF SidesDone
  <2> QED BY <2>1, <1>2 DEF IInv, Fine
<1>4. D \in SUBSET Sides /\ x \notin D
  BY <1>1 DEF Sides
<1>5. sum = Ring(r, x, n)
  <2>1. \A q \in comm, k \in 0..(NInt[2] - 1) : field[q][<<x * NInt[1], k>>] = Value(q, <<x * NInt[1], k>>, n)
    BY <1>1, <1>2, <1>3, <1>4, StillComputed
  <2> QED BY <2>1, <1>1, SumIs
<1>6. /\ field' = [q \in Procs |-> IF q \in comm THEN Symmetrized(field[q], x, sum) ELSE field[q]]
      /\ side' = [q \in Procs |-> IF q \notin comm THEN side[q] ELSE IF last THEN FirstPole(q) ELSE 1]
      /\ pc' = [q \in Procs |-> IF q \in comm /\ last THEN "enter" ELSE pc[q]]
      /\ UNCHANGED <<stage, dir, buffer, send, recv, flight>>
  BY DEF Allreduce
<1>7. ASSUME NEW q \in comm
      PROVE  /\ field'[q] = Averaged(q, D \cup {x}, n)
             /\ side'[q] = (IF last THEN FirstPole(r) ELSE 1)
             /\ pc'[q] = (IF last THEN "enter" ELSE "regularize")
  <2>1. Symmetrized(Averaged(q, D, n), x, Ring(q, x, n)) = Averaged(q, D \cup {x}, n)
    BY <1>1, <1>2, <1>4, SymmetrizedIs
  <2>2. field'[q] = Symmetrized(field[q], x, sum)
    BY <1>2, <1>6
  <2>3. field'[q] = Averaged(q, D \cup {x}, n)
    <3>1. field[q] = Averaged(q, D, n)
      BY <1>3
    <3>2. sum = Ring(q, x, n)
      <4> HIDE DEF sum, n
      <4> QED BY <1>2, <1>5
    <3>3. field'[q] = Symmetrized(Averaged(q, D, n), x, Ring(q, x, n))
      <4> HIDE DEF sum, n, x, D
      <4> QED BY <2>2, <3>1, <3>2
    <3> HIDE DEF sum, n, x, D
    <3> QED BY <2>1, <3>3
  <2>4. side'[q] = (IF last THEN FirstPole(r) ELSE 1) /\ pc'[q] = (IF last THEN "enter" ELSE "regularize")
    BY <1>2, <1>6
  <2> QED BY <2>3, <2>4
<1>8. last => D \cup {x} = Poles(r)
  BY <1>1
<1>9. ~last => D \cup {x} = Poles(r) \cap {0}
  BY <1>1
<1>10. FirstPole(r) \in Poles(r) /\ (FirstPole(r) = 1 => Poles(r) \cap {0} = {})
  BY <1>1 DEF FirstPole
<1> HIDE DEF n, x, comm, last, D, sum
<1>11. comm \subseteq Procs
  BY <1>2
<1>12. Shape'
  <2>1. side' \in [Procs -> Sides]
    BY <1>1, <1>2, <1>6, <1>10, <1>11 DEF Shape, Sides
  <2>2. pc' \in [Procs -> {"regularize", "enter", "recv", "sent", "set"}]
    BY <1>1, <1>6 DEF Shape
  <2> QED BY <2>1, <2>2, <1>1, <1>6 DEF Shape
<1>13. ASSUME NEW q \in Procs, q \notin comm
       PROVE  /\ Where(q)' /\ Fine(q)' /\ \A e \in Dirs, y \in Sides : Sending(q, e, y)'
              /\ \A e : Taken(q, e)' = Taken(q, e)
              /\ \A e, y : Gone(q, e, y)' = Gone(q, e, y)
              /\ Turned(q)' = Turned(q) /\ side'[q] = side[q]
  <2>1. /\ pc'[q] = pc[q] /\ stage'[q] = stage[q] /\ dir'[q] = dir[q] /\ side'[q] = side[q]
        /\ field'[q] = field[q] /\ buffer'[q] = buffer[q] /\ send'[q] = send[q] /\ flight'[q] = flight[q]
    BY <1>6, <1>13
  <2> QED BY <2>1, OthersKept
<1>14. ASSUME NEW q \in comm
       PROVE  /\ Where(q)' /\ Fine(q)' /\ \A e \in Dirs, y \in Sides : Sending(q, e, y)'
              /\ \A e \in Dirs : Taken(q, e)' = Taken(q, e)
              /\ \A e \in Dirs : \A y : Gone(q, e, y)' = Gone(q, e, y)
              /\ Turned(q)' = n - (IF last THEN 0 ELSE 1)
  <2>0. n \in Int
    BY <1>1
  <2>1. \A e \in Dirs : Taken(q, e)' = Taken(q, e) /\ Begun(q, e)' = Begun(q, e)
    BY <1>2, <1>6, <1>7 DEF Taken, Begun, Dirs
  <2>2. \A e \in Dirs : \A y : Gone(q, e, y)' = Gone(q, e, y)
    BY <2>1, <1>6 DEF Gone
  <2>3. \A e \in Dirs, y \in Sides : Sending(q, e, y)'
    BY <1>2, <1>6 DEF Sending, IInv
  <2>4. Where(q)'
    BY <1>1, <1>2, <1>6, <1>7, <1>10 DEF Where, last
  <2>5. Fine(q)'
    <3>1. CASE last
      BY <3>1, <1>2, <1>6, <1>7, <1>8 DEF Fine, Sent, Regular
    <3>2. CASE ~last
      <4>1. SidesDone(q)' = Poles(r) \cap {0}
        BY <3>2, <1>1, <1>2, <1>7 DEF SidesDone, needMPIExchange
      <4>2. field'[q] = Averaged(q, Poles(r) \cap {0}, n)
        BY <3>2, <1>7, <1>9
      <4> QED BY <4>1, <4>2, <3>2, <1>2, <1>6, <1>7 DEF Fine
    <3> QED BY <3>1, <3>2
  <2>6. Turned(q)' = n - (IF last THEN 0 ELSE 1)
    BY <2>0, <1>2, <1>6, <1>7 DEF Turned
  <2> QED BY <2>1, <2>2, <2>3, <2>4, <2>5, <2>6
<1>15. ASSUME NEW p \in Procs, NEW e \in Dirs, NEW y \in Sides, NProc[e] > 1, NEW q \in Neighbours(p, e, y)
       PROVE  Flying(p, e, y, q)'
  <2>1. q \in Procs /\ Flying(p, e, y, q)
    BY <1>15, NeighbourIs DEF IInv
  <2>2. Gone(p, e, y)' = Gone(p, e, y) /\ Taken(q, e)' = Taken(q, e)
    BY <2>1, <1>13, <1>14
  <2>3. flight' = flight
    BY <1>6
  <2> QED BY <2>1, <2>2, <2>3, SameFlying
<1>16. ASSUME NEW p \in Procs, Poles(p) # {}, NEW q \in AxisComm(p) PROVE Together(p, q)'
  <2>1. q \in Procs /\ AxisComm(q) = AxisComm(p) /\ q \in AxisComm(q) /\ p \in AxisComm(p)
    BY SameAxis
  <2>2. CASE p \in comm
    <3>1. AxisComm(p) = comm
      BY <2>2, <1>2
    <3> QED BY <3>1, <2>2, <1>7, <1>14 DEF Together
  <2>3. CASE p \notin comm
    <3>1. q \notin comm
      BY <2>1, <2>3, <1>2
    <3>2. Together(p, q)
      BY <1>1, <1>16 DEF IInv
    <3> QED BY <3>1, <3>2, <2>1, <2>3, <1>13 DEF Together
  <2> QED BY <2>2, <2>3
<1> QED BY <1>12, <1>13, <1>14, <1>15, <1>16 DEF IInv, needMPIExchange
-----------------------------------------------------------------------------
(* The exchange *)

\* The array at the end of a direction.
After(e, r, n) == IF e = 1 THEN Exchanged(r, n) ELSE Both(r, n)

\* Where a direction ends.
LEMMA NextDirIs ==
  ASSUME Given, IInv, NEW r \in Procs, pc[r] \in {"enter", "sent"}, NEW array, NextDir(r, array),
         array = After(dir[r], r, stage[r]), stage' = stage, side' = side
  PROVE  /\ pc' \in [Procs -> {"regularize", "enter", "recv", "sent", "set"}]
         /\ dir' \in [Procs -> Dirs] /\ DOMAIN field' = Procs
         /\ \A p \in Procs : p # r => pc'[p] = pc[p] /\ dir'[p] = dir[p] /\ field'[p] = field[p]
         /\ Where(r)' /\ Fine(r)' /\ Turned(r)' = Turned(r)
         /\ \A e \in Dirs : /\ Taken(r, e)' = Taken(r, e) + (IF e = dir[r] THEN 1 ELSE 0)
                            /\ Begun(r, e)' = Begun(r, e) + (IF e = dir[r] /\ pc[r] = "enter" THEN 1 ELSE 0)
<1> DEFINE n == stage[r]
           d == dir[r]
<1>1. /\ Shape /\ Where(r) /\ n \in Int /\ d \in {1, 2}
      /\ 3 - d \in {1, 2} /\ 3 - d = (IF d = 1 THEN 2 ELSE 1)
  BY DEF IInv, Shape, Dirs
<1>2. /\ dir' = [dir EXCEPT ![r] = 3 - d]
      /\ pc' = [pc EXCEPT ![r] = IF d = 1 THEN "enter" ELSE "set"]
      /\ field' = [field EXCEPT ![r] = IF d = 1 THEN array ELSE Periodized(array)]
  BY DEF NextDir
<1>3. /\ dir'[r] = (IF d = 1 THEN 2 ELSE 1) /\ pc'[r] = (IF d = 1 THEN "enter" ELSE "set")
      /\ field'[r] = (IF d = 1 THEN array ELSE Periodized(array))
      /\ stage'[r] = n /\ side'[r] = side[r]
  BY <1>1, <1>2 DEF Shape
<1>4. /\ pc' \in [Procs -> {"regularize", "enter", "recv", "sent", "set"}]
      /\ dir' \in [Procs -> Dirs] /\ DOMAIN field' = Procs
      /\ \A p \in Procs : p # r => pc'[p] = pc[p] /\ dir'[p] = dir[p] /\ field'[p] = field[p]
  BY <1>1, <1>2 DEF Shape, Dirs
<1>5. Where(r)'
  BY <1>1, <1>3 DEF Where
<1>6. Fine(r)'
  <2>1. CASE d = 1
    BY <2>1, <1>3 DEF Fine, Sent, After
  <2>2. CASE d = 2
    BY <2>2, <1>3 DEF Fine, After
  <2> QED BY <2>1, <2>2, <1>1
<1>7. Turned(r)' = Turned(r)
  BY <1>1, <1>3 DEF Turned
<1>8. ASSUME NEW e \in Dirs
      PROVE  /\ Taken(r, e)' = Taken(r, e) + (IF e = d THEN 1 ELSE 0)
             /\ Begun(r, e)' = Begun(r, e) + (IF e = d /\ pc[r] = "enter" THEN 1 ELSE 0)
  <2>1. e \in {1, 2}
    BY DEF Dirs
  <2>2. CASE d = 1
    BY <2>1, <2>2, <1>1, <1>3 DEF Taken, Begun
  <2>3. CASE d = 2
    BY <2>1, <2>3, <1>1, <1>3 DEF Taken, Begun
  <2> QED BY <2>2, <2>3, <1>1
<1> QED BY <1>4, <1>5, <1>6, <1>7, <1>8

LEMMA SkipKeeps ==
  ASSUME Given, IInv, NEW r \in Procs, Skip(r) PROVE IInv'
<1> DEFINE n == stage[r]
           d == dir[r]
<1>1. /\ Shape /\ pc[r] = "enter" /\ NProc[d] = 1 /\ d \in {1, 2} /\ NextDir(r, field[r])
      /\ UNCHANGED <<stage, side, buffer, send, recv, flight>>
  BY DEF IInv, Skip, Shape, Dirs
<1>2. field[r] = Sent(d, r, n)
  BY <1>1 DEF IInv, Fine
<1>3. field[r] = After(d, r, n)
  <2>1. CASE d = 1
    <3>1. Exchanged(r, n) = [node \in Nodes |-> Regular(r, n)[node]]
      BY <1>1, <2>1 DEF Exchanged
    <3>2. Regular(r, n) = [node \in Nodes |-> Regular(r, n)[node]]
      BY DEF Regular, Averaged
    <3> QED BY <3>1, <3>2, <1>2, <2>1 DEF Sent, After
  <2>2. CASE d = 2
    <3>1. Both(r, n) = [node \in Nodes |-> Exchanged(r, n)[node]]
      BY <1>1, <2>2 DEF Both
    <3>2. Exchanged(r, n) = [node \in Nodes |-> Exchanged(r, n)[node]]
      BY DEF Exchanged
    <3> QED BY <3>1, <3>2, <1>2, <2>2 DEF Sent, After
  <2> QED BY <2>1, <2>2, <1>1
<1>4. /\ pc' \in [Procs -> {"regularize", "enter", "recv", "sent", "set"}]
      /\ dir' \in [Procs -> Dirs] /\ DOMAIN field' = Procs
      /\ \A p \in Procs : p # r => pc'[p] = pc[p] /\ dir'[p] = dir[p] /\ field'[p] = field[p]
      /\ Where(r)' /\ Fine(r)' /\ Turned(r)' = Turned(r)
      /\ \A e \in Dirs : /\ Taken(r, e)' = Taken(r, e) + (IF e = d THEN 1 ELSE 0)
                         /\ Begun(r, e)' = Begun(r, e) + (IF e = d /\ pc[r] = "enter" THEN 1 ELSE 0)
  BY <1>1, <1>3, NextDirIs
<1>5. ASSUME NEW e \in Dirs, NProc[e] > 1
      PROVE  Taken(r, e)' = Taken(r, e) /\ Begun(r, e)' = Begun(r, e)
  <2>1. e # d
    BY <1>1, <1>5
  <2>2. Taken(r, e) \in Int /\ Begun(r, e) \in Int
    BY <1>1, CountsAre
  <2> QED BY <2>1, <2>2, <1>4
<1>6. \A e \in Dirs, x \in Sides : NProc[e] > 1 /\ Neighbours(r, e, x) # {} => Gone(r, e, x)' = Gone(r, e, x)
  BY <1>1, <1>5 DEF Gone
<1>7. \A e \in Dirs, x \in Sides : Sending(r, e, x)'
  <2>1. \A e \in Dirs, x \in Sides : <<e, x>> \notin send[r]
    BY <1>1 DEF IInv, Sending
  <2> QED BY <2>1, <1>1 DEF Sending
<1>8. Shape'
  BY <1>1, <1>4 DEF Shape
<1> QED BY <1>1, <1>4, <1>5, <1>6, <1>7, <1>8, OneStep

LEMMA StartKeeps ==
  ASSUME Given, IInv, NEW r \in Procs, Start(r) PROVE IInv'
<1> DEFINE n == stage[r]
           d == dir[r]
           S == {<<d, x>> : x \in {y \in Sides : Neighbours(r, d, y) # {}}}
<1>1. /\ Shape /\ pc[r] = "enter" /\ NProc[d] > 1 /\ d \in {1, 2} /\ d \in Dirs /\ n \in Int
  BY DEF IInv, Start, Shape, Dirs
<1>2. /\ buffer' = [buffer EXCEPT ![r][d] = [node \in Line(d, 1) |-> field[r][node]]]
      /\ send' = [send EXCEPT ![r] = @ \cup S]
      /\ pc' = [pc EXCEPT ![r] = "recv"]
      /\ UNCHANGED <<stage, dir, side, field, flight>>
  BY DEF Start
<1>3. /\ pc'[r] = "recv" /\ stage'[r] = n /\ dir'[r] = d /\ field'[r] = field[r] /\ side'[r] = side[r]
      /\ send'[r] = send[r] \cup S
      /\ \A p \in Procs : p # r => pc'[p] = pc[p] /\ buffer'[p] = buffer[p] /\ send'[p] = send[p]
      /\ DOMAIN buffer' = Procs /\ \A p \in Procs : DOMAIN buffer'[p] = Dirs
      /\ buffer'[r][d] = [node \in Line(d, 1) |-> field[r][node]]
  BY <1>1, <1>2 DEF Shape
<1>4. \A e \in Dirs, x \in Sides : <<e, x>> \notin send[r]
  BY <1>1 DEF IInv, Sending
<1>5. \A e \in Dirs, x \in Sides : <<e, x>> \in S <=> e = d /\ Neighbours(r, e, x) # {}
  OBVIOUS
<1>6. buffer'[r][d] = Message(d, r, n)
  <2>1. field[r] = Sent(d, r, n)
    BY <1>1 DEF IInv, Fine
  <2> QED BY <2>1, <1>3 DEF Message
<1> HIDE DEF S
<1>7. Shape'
  <2>1. pc' \in [Procs -> {"regularize", "enter", "recv", "sent", "set"}]
    BY <1>1, <1>2 DEF Shape
  <2>2. send' \in [Procs -> SUBSET (Dirs \X Sides)]
    <3>1. S \subseteq Dirs \X Sides
      BY <1>1 DEF S
    <3> QED BY <3>1, <1>1, <1>2 DEF Shape
  <2> QED BY <2>1, <2>2, <1>1, <1>2, <1>3 DEF Shape
<1>8. Where(r)' /\ Fine(r)'
  BY <1>1, <1>2, <1>3 DEF IInv, Where, Fine, Sent, Regular, Exchanged
<1>9. ASSUME NEW e \in Dirs, NEW x \in Sides PROVE Sending(r, e, x)'
  <2>1. SUFFICES ASSUME <<e, x>> \in send'[r]
                 PROVE  dir'[r] = e /\ pc'[r] \in {"recv", "sent"} /\ Neighbours(r, e, x) # {}
                        /\ buffer'[r][e] = Message(e, r, stage'[r])
    BY DEF Sending, Message, Sent
  <2>2. e = d /\ Neighbours(r, e, x) # {}
    BY <2>1, <1>3, <1>4, <1>5
  <2> QED BY <2>2, <1>3, <1>6
<1>10. \A e \in Dirs : /\ Taken(r, e)' = Taken(r, e)
                       /\ Begun(r, e)' = IF e = d THEN Begun(r, e) + 1 ELSE Begun(r, e)
  BY <1>1, <1>3 DEF Taken, Begun, Dirs
<1>11. ASSUME NEW e \in Dirs, NEW x \in Sides, NProc[e] > 1, Neighbours(r, e, x) # {}
       PROVE  Gone(r, e, x)' = Gone(r, e, x)
  <2>1. Begun(r, e) \in Int
    BY <1>1, CountsAre
  <2>2. CASE e = d
    <3>1. <<e, x>> \in send'[r] /\ <<e, x>> \notin send[r]
      BY <1>3, <1>4, <1>5, <1>11, <2>2
    <3> QED BY <3>1, <2>1, <2>2, <1>10 DEF Gone
  <2>3. CASE e # d
    <3>1. <<e, x>> \notin send'[r] /\ <<e, x>> \notin send[r]
      BY <1>3, <1>4, <1>5, <2>3
    <3> QED BY <3>1, <2>1, <2>3, <1>10 DEF Gone
  <2> QED BY <2>2, <2>3
<1>12. Turned(r)' = Turned(r)
  BY <1>1, <1>3 DEF Turned
<1> QED BY <1>2, <1>3, <1>7, <1>8, <1>9, <1>10, <1>11, <1>12, OneStep

LEMMA ReceiveKeeps ==
  ASSUME Given, IInv, NEW r \in Procs, Receive(r) PROVE IInv'
<1> DEFINE d == dir[r]
<1>1. /\ Shape /\ pc[r] = "recv" /\ d \in Dirs /\ NProc[d] > 1
      /\ \A x \in Sides : Neighbours(r, d, x) # {} => flight[r][d][x] # <<>>
  BY DEF IInv, Receive, Shape, Where
<1>2. pc' = [pc EXCEPT ![r] = "sent"] /\ UNCHANGED <<stage, dir, side, field, buffer, send, flight>>
  BY DEF Receive
<1>3. pc'[r] = "sent" /\ \A p \in Procs : p # r => pc'[p] = pc[p]
  BY <1>1, <1>2 DEF Shape
<1>4. Shape'
  BY <1>1, <1>2 DEF Shape
<1>5. Where(r)' /\ Fine(r)'
  BY <1>1, <1>2, <1>3 DEF IInv, Where, Fine, Neighbours, Sent, Regular, Exchanged
<1>6. \A e \in Dirs, x \in Sides : Sending(r, e, x)'
  BY <1>1, <1>2, <1>3 DEF IInv, Sending, Message, Sent
<1>7. \A e \in Dirs : Taken(r, e)' = Taken(r, e) /\ Begun(r, e)' = Begun(r, e)
  BY <1>1, <1>2, <1>3 DEF Taken, Begun
<1>8. \A e \in Dirs, x \in Sides : Gone(r, e, x)' = Gone(r, e, x)
  BY <1>2, <1>7 DEF Gone
<1>9. Turned(r)' = Turned(r)
  BY <1>1, <1>2, <1>3 DEF Turned
<1> QED BY <1>2, <1>3, <1>4, <1>5, <1>6, <1>7, <1>8, <1>9, OneStep

\* The next stage starts from arrays of its own.
LEMMA EvolveKeeps ==
  ASSUME Given, IInv, NEW r \in Procs, Evolve(r) PROVE IInv'
<1> DEFINE n == stage[r]
<1>1. Shape /\ Where(r) /\ pc[r] = "set" /\ dir[r] = 1 /\ n \in Nat \ {0}
  BY DEF IInv, Evolve, Shape, Where
<1>2. /\ stage' = [stage EXCEPT ![r] = @ + 1] /\ field' = [field EXCEPT ![r] = Computed(r, n + 1)]
      /\ pc' = [pc EXCEPT ![r] = "regularize"] /\ UNCHANGED <<dir, side, buffer, send, recv, flight>>
  BY DEF Evolve
<1>3. /\ pc'[r] = "regularize" /\ stage'[r] = n + 1 /\ field'[r] = Computed(r, n + 1)
      /\ dir'[r] = 1 /\ side'[r] = side[r] /\ send'[r] = send[r]
      /\ \A p \in Procs : p # r => pc'[p] = pc[p] /\ stage'[p] = stage[p] /\ field'[p] = field[p]
  BY <1>1, <1>2 DEF Shape
<1>4. Shape'
  <2>1. stage' \in [Procs -> Nat \ {0}]
    BY <1>1, <1>2 DEF Shape
  <2>2. pc' \in [Procs -> {"regularize", "enter", "recv", "sent", "set"}]
    BY <1>1, <1>2 DEF Shape
  <2> QED BY <2>1, <2>2, <1>1, <1>2 DEF Shape
<1>5. Where(r)'
  BY <1>1, <1>2, <1>3 DEF Where, needMPIExchange
<1>6. Fine(r)'
  <2>1. SidesDone(r)' = {}
    <3>1. needMPIExchange /\ Poles(r) # {} => side[r] = FirstPole(r)
      BY <1>1 DEF Where
    <3>2. needMPIExchange /\ side[r] = 1 => Poles(r) \cap {0} = {}
      BY <3>1 DEF FirstPole
    <3> QED BY <3>2, <1>3 DEF SidesDone, needMPIExchange
  <2>2. Computed(r, n + 1) = Averaged(r, {}, n + 1)
    BY DEF Computed, Averaged
  <2> QED BY <2>1, <2>2, <1>3 DEF Fine
<1>7. \A e \in Dirs, x \in Sides : Sending(r, e, x)'
  <2>1. \A e \in Dirs, x \in Sides : <<e, x>> \notin send[r]
    BY <1>1 DEF IInv, Sending
  <2> QED BY <2>1, <1>3 DEF Sending
<1>8. \A e \in Dirs : Taken(r, e)' = Taken(r, e) /\ Begun(r, e)' = Begun(r, e)
  BY <1>1, <1>3 DEF Taken, Begun, Dirs
<1>9. \A e \in Dirs, x \in Sides : Gone(r, e, x)' = Gone(r, e, x)
  BY <1>2, <1>8 DEF Gone
<1>10. Turned(r)' = Turned(r)
  BY <1>1, <1>3 DEF Turned
<1> QED BY <1>2, <1>3, <1>4, <1>5, <1>6, <1>7, <1>8, <1>9, <1>10, OneStep

\* A message that leaves is the line of the stage: no array of a send that is
\* under way is written again.
LEMMA LeaveKeeps ==
  ASSUME Given, IInv, NEW r \in Procs, NEW e \in Dirs, NEW x \in Sides, Leave(r, e, x)
  PROVE  IInv'
<1>0. Shape /\ Where(r) /\ Sending(r, e, x) /\ <<e, x>> \in send[r] /\ x \in {0, 1}
  BY DEF IInv, Leave, Sides
<1>1. NProc[e] > 1
  BY <1>0 DEF Sending, Where
<1> DEFINE b == IF x = 1 THEN buffer[r][e] ELSE <<>>
<1>2. PICK q \in Neighbours(r, e, x) : flight' = [flight EXCEPT ![q][e][1 - x] = Append(@, b)]
  BY DEF Leave
<1>3. q \in Procs /\ Neighbours(r, e, x) = {q}
  BY <1>1, NeighbourIs
<1>4. PICK y \in Sides : y = 1 - x
  BY <1>0 DEF Sides
<1> DEFINE f == flight[q][e][y]
<1>5. /\ flight'[q][e][y] = Append(f, b) /\ DOMAIN flight' = Procs
      /\ \A p \in Procs : DOMAIN flight'[p] = Dirs
      /\ \A p \in Procs, c \in Dirs : DOMAIN flight'[p][c] = Sides
      /\ \A p \in Procs, c \in Dirs, z \in Sides : <<p, c, z>> # <<q, e, y>> => flight'[p][c][z] = flight[p][c][z]
  <2> HIDE DEF b
  <2> QED BY <1>0, <1>2, <1>3, <1>4 DEF Shape
<1>6. /\ send' \in [Procs -> SUBSET (Dirs \X Sides)]
      /\ send'[r] = send[r] \ {<<e, x>>}
      /\ \A p \in Procs : p # r => send'[p] = send[p]
      /\ UNCHANGED <<pc, stage, dir, side, field, buffer>>
  BY <1>0 DEF Leave, Shape
<1>7. IsQueue(f)
  BY <1>0, <1>3, <1>4 DEF Shape
<1>8. /\ Len(f) \in Nat /\ Len(Append(f, b)) = Len(f) + 1 /\ IsQueue(Append(f, b))
      /\ \A k \in 1..Len(f) : Append(f, b)[k] = f[k]
      /\ Append(f, b)[Len(f) + 1] = b
  <2> HIDE DEF f, b
  <2> QED BY <1>7, QueueGrows
<1> HIDE DEF f
<1>9. Shape'
  <2>1. \A p \in Procs, c \in Dirs, z \in Sides : IsQueue(flight'[p][c][z])
    <3>1. ASSUME NEW p \in Procs, NEW c \in Dirs, NEW z \in Sides
          PROVE  IsQueue(flight'[p][c][z])
      <4>1. CASE <<p, c, z>> = <<q, e, y>>
        BY <4>1, <1>5, <1>8
      <4>2. CASE <<p, c, z>> # <<q, e, y>>
        BY <4>2, <1>0, <1>5 DEF Shape
      <4> QED BY <4>1, <4>2
    <3> QED BY <3>1
  <2> QED BY <2>1, <1>0, <1>5, <1>6 DEF Shape
<1>10. ASSUME NEW p \in Procs
       PROVE  /\ Where(p)' /\ Fine(p)' /\ \A c \in Dirs, z \in Sides : Sending(p, c, z)'
              /\ \A c : Begun(p, c)' = Begun(p, c) /\ Taken(p, c)' = Taken(p, c)
              /\ Turned(p)' = Turned(p) /\ side'[p] = side[p]
  <2>1. /\ \A c : Begun(p, c)' = Begun(p, c) /\ Taken(p, c)' = Taken(p, c)
        /\ Turned(p)' = Turned(p) /\ Fine(p)' /\ side'[p] = side[p]
    BY <1>6, SameProcess DEF IInv
  <2>2. Where(p)'
    <3>1. ASSUME NEW c \in Dirs, NEW z \in Sides, flight[p][c][z] # <<>>
          PROVE  flight'[p][c][z] # <<>>
      <4>1. CASE <<p, c, z>> = <<q, e, y>>
        <5>1. Len(Append(f, b)) # 0
          BY <1>8
        <5> QED BY <5>1, <4>1, <1>5
      <4>2. CASE <<p, c, z>> # <<q, e, y>>
        BY <3>1, <4>2, <1>5
      <4> QED BY <4>1, <4>2
    <3>2. Where(p) /\ dir[p] \in Dirs
      BY <1>0 DEF IInv, Shape
    <3> QED BY <3>1, <3>2, <1>0, <1>6, SameWhere
  <2>3. ASSUME NEW c \in Dirs, NEW z \in Sides PROVE Sending(p, c, z)'
    <3>1. <<c, z>> \in send'[p] => <<c, z>> \in send[p]
      BY <1>6
    <3> QED BY <3>1, <1>6, SameSending DEF IInv
  <2> QED BY <2>1, <2>2, <2>3
<1>11. ASSUME NEW p \in Procs, NEW c \in Dirs, NEW z \in Sides, NProc[c] > 1, NEW u \in Neighbours(p, c, z)
       PROVE  Flying(p, c, z, u)'
  <2>0. u \in Procs /\ z \in {0, 1} /\ 1 - z \in Sides /\ Flying(p, c, z, u)
    BY <1>11, NeighbourIs DEF IInv, Sides
  <2>1. Taken(u, c)' = Taken(u, c)
    BY <1>10, <2>0
  <2>2. CASE p = r /\ c = e /\ z = x
    <3>1. u = q
      BY <2>2, <1>3
    <3>2. Gone(r, e, x)' = Begun(r, e) /\ Gone(r, e, x) = Begun(r, e) - 1
      <4>1. Begun(r, e) \in Int /\ Begun(r, e)' = Begun(r, e)
        BY <1>0, <1>10, CountsAre
      <4>2. <<e, x>> \in send[r] /\ <<e, x>> \notin send'[r]
        BY <1>0, <1>6
      <4> QED BY <4>1, <4>2 DEF Gone
    <3>3. /\ Len(f) = Gone(r, e, x) - Taken(q, e)
          /\ x = 1 => \A k \in 1..Len(f) : f[k] = Message(e, r, Taken(q, e) + k)
      BY <2>0, <2>2, <3>1, <1>4 DEF Flying, f
    <3>4. x = 1 => b = Message(e, r, Begun(r, e))
      <4>1. dir[r] = e /\ pc[r] \in {"recv", "sent"} /\ buffer[r][e] = Message(e, r, stage[r])
        BY <1>0 DEF Sending
      <4>2. Begun(r, e) = stage[r]
        BY <4>1, <1>0 DEF Begun, Shape
      <4> QED BY <4>1, <4>2
    <3>5. Begun(r, e) \in Int /\ Taken(q, e) \in Int
      BY <1>0, <1>3, CountsAre
    <3> HIDE DEF b
    <3>7. Len(Append(f, b)) = Gone(r, e, x)' - Taken(q, e)
      BY <3>2, <3>3, <3>5, <1>8
    <3>8. ASSUME x = 1, NEW k \in 1..Len(Append(f, b))
          PROVE  Append(f, b)[k] = Message(e, r, Taken(q, e) + k)
      <4>1. CASE k \in 1..Len(f)
        BY <4>1, <3>3, <3>8, <1>8
      <4>2. CASE k = Len(f) + 1
        <5>1. Taken(q, e) + k = Begun(r, e)
          BY <4>2, <3>2, <3>3, <3>5, <1>8
        <5> QED BY <5>1, <4>2, <3>4, <3>8, <1>8
      <4>3. k \in 1..Len(f) \/ k = Len(f) + 1
        BY <1>8
      <4> QED BY <4>1, <4>2, <4>3
    <3> QED BY <2>1, <2>2, <3>1, <3>7, <3>8, <1>4, <1>5 DEF Flying
  <2>3. CASE ~(p = r /\ c = e /\ z = x)
    <3>1. Gone(p, c, z)' = Gone(p, c, z)
      <4>1. <<c, z>> \in send'[p] <=> <<c, z>> \in send[p]
        BY <2>3, <1>6
      <4> QED BY <4>1, <1>10 DEF Gone
    <3>2. <<u, c, 1 - z>> # <<q, e, y>>
      <4>1. SUFFICES ASSUME u = q, c = e, 1 - z = y PROVE FALSE
        OBVIOUS
      <4>2. z = x
        BY <4>1, <2>0, <1>0, <1>4
      <4>3. p = r
        BY <4>1, <4>2, <1>1, <1>11, SameSender
      <4> QED BY <4>1, <4>2, <4>3, <2>3
    <3>3. flight'[u][c][1 - z] = flight[u][c][1 - z]
      BY <3>2, <2>0, <1>5
    <3> QED BY <3>1, <3>3, <2>0, <2>1, SameFlying
  <2> QED BY <2>2, <2>3
<1>12. needMPIExchange => \A p \in Procs : Poles(p) # {} => \A u \in AxisComm(p) : Together(p, u)'
  BY <1>10, StillTogether
<1> QED BY <1>9, <1>10, <1>11, <1>12 DEF IInv, needMPIExchange

\* The first line is the one that the process before it has sent in this stage.
LEMMA WaitForSendsKeeps ==
  ASSUME Given, IInv, NEW r \in Procs, WaitForSends(r) PROVE IInv'
<1> DEFINE n == stage[r]
           e == dir[r]
           f == flight[r][e][0]
           erased == [node \in Nodes |->
                        IF Inside(r, e) /\ node \in Line(e, 0) THEN Head(f)[Mirror(node, e)] ELSE field[r][node]]
<1>1. /\ Shape /\ Where(r) /\ pc[r] = "sent" /\ send[r] \cap ({e} \X Sides) = {} /\ e \in Dirs /\ e \in {1, 2}
      /\ NProc[e] > 1 /\ n \in Nat \ {0} /\ 0 \in Sides /\ 1 \in Sides
  BY DEF IInv, WaitForSends, Shape, Where, Dirs, Sides
<1>2. /\ NextDir(r, erased)
      /\ flight' = [flight EXCEPT ![r][e] = [x \in Sides |-> IF @[x] = <<>> THEN <<>> ELSE Tail(@[x])]]
      /\ UNCHANGED <<stage, side, buffer, send, recv>>
  BY DEF WaitForSends, Inside
<1>3. ASSUME NEW c \in Dirs, NEW x \in Sides PROVE <<c, x>> \notin send[r]
  <2>1. c # e => <<c, x>> \notin send[r]
    BY DEF IInv, Sending
  <2>2. <<e, x>> \notin send[r]
    BY <1>1
  <2> QED BY <2>1, <2>2
<1>4. Inside(r, e) => Head(f) = Message(e, Left(r, e), n)
  <2>1. SUFFICES ASSUME Inside(r, e) PROVE Head(f) = Message(e, Left(r, e), n)
    OBVIOUS
  <2> DEFINE p == Left(r, e)
  <2>2. p \in Procs /\ Neighbours(r, e, 0) = {p} /\ Neighbours(p, e, 1) = {r}
    BY <2>1, <1>1, LeftIs
  <2>3. f # <<>> /\ IsQueue(f)
    BY <2>2, <1>1 DEF Where, Shape
  <2>4. Flying(p, e, 1, r)
    BY <2>2, <1>1 DEF IInv
  <2>5. Taken(r, e) = n - 1
    BY <1>1 DEF Taken
  <2>6. \A k \in 1..Len(f) : f[k] = Message(e, p, n - 1 + k)
    BY <2>4, <2>5 DEF Flying
  <2>7. Head(f) = f[1] /\ 1 \in 1..Len(f)
    <3> HIDE DEF f
    <3> QED BY <2>3, QueueShrinks
  <2>8. n - 1 + 1 = n
    BY <1>1
  <2> QED BY <2>6, <2>7, <2>8
<1>5. erased = After(e, r, n)
  <2>1. field[r] = Sent(e, r, n)
    BY <1>1 DEF IInv, Fine
  <2>2. ASSUME NEW node \in Nodes, Inside(r, e), node \in Line(e, 0)
        PROVE  Head(f)[Mirror(node, e)] = Sent(e, Left(r, e), n)[Mirror(node, e)]
    <3>1. Mirror(node, e) \in Line(e, 1)
      <4>1. /\ node[1] \in 0..NInt[1] /\ node[2] \in 0..NInt[2]
            /\ \A i : [node EXCEPT ![1] = i] = <<i, node[2]>> /\ [node EXCEPT ![2] = i] = <<node[1], i>>
        BY <1>1, NodeIs
      <4>2. NInt[1] \in 0..NInt[1] /\ NInt[2] \in 0..NInt[2] /\ 1 * NInt[1] = NInt[1] /\ 1 * NInt[2] = NInt[2]
        BY Numbers DEF Dirs
      <4>3. CASE e = 1
        <5>1. Mirror(node, e) = <<NInt[1], node[2]>>
          BY <4>1, <4>3 DEF Mirror
        <5> QED BY <5>1, <4>1, <4>2, <4>3 DEF Line, Nodes
      <4>4. CASE e = 2
        <5>1. Mirror(node, e) = <<node[1], NInt[2]>>
          BY <4>1, <4>4 DEF Mirror
        <5> QED BY <5>1, <4>1, <4>2, <4>4 DEF Line, Nodes
      <4> QED BY <4>3, <4>4, <1>1
    <3> QED BY <3>1, <2>2, <1>4 DEF Message
  <2>3. CASE e = 1
    <3>1. After(e, r, n) = Exchanged(r, n)
      BY <2>3 DEF After
    <3>2. \A node \in Nodes : erased[node] = Exchanged(r, n)[node]
      BY <2>1, <2>2, <2>3, <1>1 DEF Exchanged, Sent
    <3> QED BY <3>1, <3>2 DEF Exchanged
  <2>4. CASE e = 2
    <3>1. After(e, r, n) = Both(r, n)
      BY <2>4 DEF After
    <3>2. \A node \in Nodes : erased[node] = Both(r, n)[node]
      BY <2>1, <2>2, <2>4, <1>1 DEF Both, Sent
    <3> QED BY <3>1, <3>2 DEF Both
  <2> QED BY <2>3, <2>4, <1>1
<1> HIDE DEF erased
<1>6. /\ pc' \in [Procs -> {"regularize", "enter", "recv", "sent", "set"}]
      /\ dir' \in [Procs -> Dirs] /\ DOMAIN field' = Procs
      /\ \A p \in Procs : p # r => pc'[p] = pc[p] /\ dir'[p] = dir[p] /\ field'[p] = field[p]
      /\ Where(r)' /\ Fine(r)' /\ Turned(r)' = Turned(r)
      /\ \A c \in Dirs : /\ Taken(r, c)' = Taken(r, c) + (IF c = e THEN 1 ELSE 0)
                         /\ Begun(r, c)' = Begun(r, c) + (IF c = e /\ pc[r] = "enter" THEN 1 ELSE 0)
  BY <1>1, <1>2, <1>5, NextDirIs
<1>7. /\ DOMAIN flight' = Procs /\ \A p \in Procs : DOMAIN flight'[p] = Dirs
      /\ \A p \in Procs, c \in Dirs : DOMAIN flight'[p][c] = Sides
      /\ \A p \in Procs : p # r => flight'[p] = flight[p]
      /\ \A c \in Dirs : c # e => flight'[r][c] = flight[r][c]
      /\ flight'[r][e] = [x \in Sides |-> IF flight[r][e][x] = <<>> THEN <<>> ELSE Tail(flight[r][e][x])]
  BY <1>1, <1>2 DEF Shape
<1>8. ASSUME NEW x \in Sides
      PROVE  /\ IsQueue(flight'[r][e][x])
             /\ flight[r][e][x] # <<>> => flight'[r][e][x] = Tail(flight[r][e][x])
  <2>1. IsQueue(flight[r][e][x])
    BY <1>1 DEF Shape
  <2>2. flight'[r][e][x] = IF flight[r][e][x] = <<>> THEN <<>> ELSE Tail(flight[r][e][x])
    BY <1>7
  <2>3. IsQueue(<<>>)
    <3>1. <<>> \in Seq({})
      OBVIOUS
    <3> QED BY <3>1 DEF IsQueue
  <2> QED BY <2>1, <2>2, <2>3, QueueShrinks
<1>9. Shape'
  <2>1. ASSUME NEW p \in Procs, NEW c \in Dirs, NEW x \in Sides PROVE IsQueue(flight'[p][c][x])
    <3>1. CASE p = r /\ c = e
      BY <3>1, <1>8
    <3>2. CASE ~(p = r /\ c = e)
      BY <3>2, <1>1, <1>7 DEF Shape
    <3> QED BY <3>1, <3>2
  <2> QED BY <2>1, <1>1, <1>2, <1>6, <1>7 DEF Shape
<1>10. ASSUME NEW p \in Procs, p # r
       PROVE  /\ Where(p)' /\ Fine(p)' /\ \A c \in Dirs, z \in Sides : Sending(p, c, z)'
              /\ \A c : Begun(p, c)' = Begun(p, c) /\ Taken(p, c)' = Taken(p, c)
              /\ \A c, z : Gone(p, c, z)' = Gone(p, c, z)
              /\ Turned(p)' = Turned(p) /\ side'[p] = side[p]
  <2>1. /\ pc'[p] = pc[p] /\ stage'[p] = stage[p] /\ dir'[p] = dir[p] /\ side'[p] = side[p]
        /\ field'[p] = field[p] /\ buffer'[p] = buffer[p] /\ send'[p] = send[p] /\ flight'[p] = flight[p]
    BY <1>2, <1>6, <1>7, <1>10
  <2> QED BY <2>1, OthersKept
<1>11. \A c \in Dirs, z \in Sides : Sending(r, c, z)'
  BY <1>2, <1>3 DEF Sending
<1>12. ASSUME NEW c \in Dirs PROVE Begun(r, c)' = Begun(r, c)
  <2>1. Begun(r, c) \in Int
    BY <1>1, CountsAre
  <2>2. Begun(r, c)' = Begun(r, c) + (IF c = e /\ pc[r] = "enter" THEN 1 ELSE 0)
    BY <1>6
  <2> QED BY <2>1, <2>2, <1>1
<1>13. \A c \in Dirs : \A z : Gone(r, c, z)' = Gone(r, c, z)
  BY <1>2, <1>12 DEF Gone
<1>14. ASSUME NEW p \in Procs, NEW c \in Dirs, NEW z \in Sides, NProc[c] > 1, NEW u \in Neighbours(p, c, z)
       PROVE  Flying(p, c, z, u)'
  <2>0. u \in Procs /\ z \in {0, 1} /\ Flying(p, c, z, u) /\ p \in Neighbours(u, c, 1 - z)
    BY <1>14, NeighbourIs DEF IInv, Sides
  <2>1. Gone(p, c, z)' = Gone(p, c, z)
    BY <1>10, <1>13
  <2>2. CASE u = r /\ c = e
    <3>1. PICK y \in Sides : y = 1 - z
      BY <2>0 DEF Sides
    <3> DEFINE g == flight[r][e][y]
    <3>2. g # <<>> /\ IsQueue(g) /\ flight'[r][e][y] = Tail(g)
      BY <2>0, <2>2, <3>1, <1>1, <1>8 DEF Where, Shape
    <3>3. /\ Len(g) = Gone(p, c, z) - Taken(r, c)
          /\ z = 1 => \A k \in 1..Len(g) : g[k] = Message(c, p, Taken(r, c) + k)
      BY <2>0, <2>2, <3>1 DEF Flying
    <3> HIDE DEF g
    <3>4. /\ Len(g) \in Nat /\ Len(g) >= 1 /\ Len(Tail(g)) = Len(g) - 1
          /\ \A k \in 1..Len(Tail(g)) : Tail(g)[k] = g[k + 1]
      BY <3>2, QueueShrinks
    <3>5. Taken(r, c)' = Taken(r, c) + 1 /\ Taken(r, c) \in Int /\ Gone(p, c, z) \in Int
      BY <1>1, <1>6, <2>2, CountsAre
    <3>6. Len(Tail(g)) = Gone(p, c, z) - (Taken(r, c) + 1)
      BY <3>3, <3>4, <3>5
    <3>7. ASSUME z = 1, NEW k \in 1..Len(Tail(g)) PROVE Tail(g)[k] = Message(c, p, (Taken(r, c) + 1) + k)
      <4>1. k + 1 \in 1..Len(g) /\ Taken(r, c) + (k + 1) = (Taken(r, c) + 1) + k
        BY <3>4, <3>5
      <4>2. g[k + 1] = Message(c, p, Taken(r, c) + (k + 1))
        BY <4>1, <3>3, <3>7
      <4> QED BY <4>1, <4>2, <3>4
    <3>8. flight'[u][c][1 - z] = Tail(g)
      BY <2>2, <3>1, <3>2
    <3>9. Len(flight'[u][c][1 - z]) = Gone(p, c, z)' - Taken(u, c)'
      BY <2>1, <2>2, <3>5, <3>6, <3>8
    <3>10. z = 1 => \A k \in 1..Len(flight'[u][c][1 - z]) :
                      flight'[u][c][1 - z][k] = Message(c, p, Taken(u, c)' + k)
      BY <2>2, <3>5, <3>7, <3>8
    <3> QED BY <3>9, <3>10 DEF Flying, Message, Sent, Regular, Exchanged
  <2>3. CASE ~(u = r /\ c = e)
    <3>1. Taken(u, c)' = Taken(u, c)
      <4>1. Taken(u, c) \in Int
        BY <1>1, <2>0, CountsAre
      <4>2. CASE u = r
        <5>1. Taken(r, c)' = Taken(r, c) + 0
          BY <4>2, <2>3, <1>6
        <5> QED BY <4>1, <4>2, <5>1
      <4>3. CASE u # r
        BY <4>3, <2>0, <1>10
      <4> QED BY <4>2, <4>3
    <3>2. flight'[u][c] = flight[u][c]
      BY <2>0, <2>3, <1>7
    <3> QED BY <3>1, <3>2, <2>0, <2>1, SameFlying
  <2> QED BY <2>2, <2>3
<1>15. needMPIExchange => \A p \in Procs : Poles(p) # {} => \A u \in AxisComm(p) : Together(p, u)'
  <2>1. Turned(r)' = Turned(r) /\ side'[r] = side[r]
    BY <1>2, <1>6
  <2> QED BY <2>1, <1>10, StillTogether
<1>16. \A p \in Procs : Where(p)' /\ Fine(p)' /\ \A c \in Dirs, z \in Sides : Sending(p, c, z)'
  BY <1>6, <1>10, <1>11
<1> QED BY <1>9, <1>14, <1>15, <1>16 DEF IInv, needMPIExchange
-----------------------------------------------------------------------------
(* What the processes agree on *)

\* The node of a direction that its right end is a copy of, in a direction
\* with one process.
First(d, i) == IF Periodic(d) /\ NProc[d] = 1 /\ i = NInt[d] THEN 0 ELSE i

LEMMA FirstIs ==
  ASSUME Given, NEW d \in Dirs, NEW i \in 0..NInt[d]
  PROVE  First(d, i) \in 0..NInt[d]
BY Numbers DEF First

LEMMA OriginIs ==
  ASSUME Given, NEW r \in Procs, NEW d \in Dirs, NEW i \in 0..NInt[d]
  PROVE  Origin(r, d, i) = IF NProc[d] > 1 /\ Inside(r, d) /\ First(d, i) = 0
                             THEN <<(r[d] - 1) % NProc[d], NInt[d]>> ELSE <<r[d], First(d, i)>>
<1>1. /\ NProc[d] \in Int /\ NProc[d] > 0 /\ NInt[d] \in Int /\ NInt[d] > 0 /\ i \in Int /\ 0 <= i
      /\ r[d] \in Int /\ 0 <= r[d]
  BY Numbers, ProcIs DEF Dirs
<1>2. Inside(r, d) <=> r[d] > 0 \/ Periodic(d)
  BY <1>1 DEF Inside, AtEdge
<1>3. CASE i = NInt[d] /\ Periodic(d) /\ NProc[d] = 1
  <2>1. First(d, i) = 0 /\ ~(NProc[d] > 1)
    BY <1>1, <1>3 DEF First
  <2>2. Origin(r, d, i) = <<r[d], 0>>
    BY <1>1, <1>3 DEF Origin
  <2> QED BY <2>1, <2>2
<1>4. CASE ~(i = NInt[d] /\ Periodic(d) /\ NProc[d] = 1)
  <2>1. First(d, i) = i
    BY <1>4 DEF First
  <2> QED BY <2>1, <1>1, <1>2, <1>4 DEF Origin
<1> QED BY <1>3, <1>4

LEMMA PeriodizedIs ==
  ASSUME Given, NEW array, NEW i \in 0..NInt[1], NEW j \in 0..NInt[2]
  PROVE  Periodized(array)[<<i, j>>] = array[<<First(1, i), First(2, j)>>]
<1> DEFINE own(d) == Periodic(d) /\ NProc[d] = 1
           from(a, d) == [node \in Nodes |->
                            IF own(d) /\ node \in Line(d, 1) THEN a[[node EXCEPT ![d] = 0]] ELSE a[node]]
<1>1. /\ NInt[1] \in Int /\ NInt[1] > 0 /\ NInt[2] \in Int /\ NInt[2] > 0
      /\ 1 * NInt[1] = NInt[1] /\ 1 * NInt[2] = NInt[2]
  BY Numbers DEF Dirs
<1>2. \A k \in 0..NInt[1], m \in 0..NInt[2] : <<k, m>> \in Nodes
  BY DEF Nodes
<1>3. ASSUME NEW a, NEW k \in 0..NInt[1], NEW m \in 0..NInt[2]
      PROVE  from(a, 1)[<<k, m>>] = a[<<First(1, k), m>>] /\ from(a, 2)[<<k, m>>] = a[<<k, First(2, m)>>]
  <2>1. <<k, m>> \in Nodes
    BY <1>2
  <2>2. <<k, m>> \in Line(1, 1) <=> k = NInt[1]
    BY <2>1, <1>1 DEF Line
  <2>3. <<k, m>> \in Line(2, 1) <=> m = NInt[2]
    BY <2>1, <1>1 DEF Line
  <2>4. [<<k, m>> EXCEPT ![1] = 0] = <<0, m>> /\ [<<k, m>> EXCEPT ![2] = 0] = <<k, 0>>
    OBVIOUS
  <2>5. from(a, 1)[<<k, m>>] = IF own(1) /\ k = NInt[1] THEN a[<<0, m>>] ELSE a[<<k, m>>]
    BY <2>1, <2>2, <2>4
  <2>6. from(a, 2)[<<k, m>>] = IF own(2) /\ m = NInt[2] THEN a[<<k, 0>>] ELSE a[<<k, m>>]
    BY <2>1, <2>3, <2>4
  <2> QED BY <2>5, <2>6 DEF First
<1>4. Periodized(array) = from(from(array, 1), 2)
  BY DEF Periodized
<1>5. First(2, j) \in 0..NInt[2]
  BY FirstIs DEF Dirs
<1> HIDE DEF from
<1>6. from(from(array, 1), 2)[<<i, j>>] = from(array, 1)[<<i, First(2, j)>>]
  BY <1>3
<1>7. from(array, 1)[<<i, First(2, j)>>] = array[<<First(1, i), First(2, j)>>]
  BY <1>3, <1>5
<1> QED BY <1>4, <1>6, <1>7

\* The two exchanges follow a node to the process it is taken from.
LEMMA BothIs ==
  ASSUME Given, NEW r \in Procs, NEW i \in 0..NInt[1], NEW j \in 0..NInt[2], NEW n,
         NEW o, o = [d \in Dirs |-> Origin(r, d, IF d = 1 THEN i ELSE j)]
  PROVE  /\ <<o[1][1], o[2][1]>> \in Procs /\ <<o[1][2], o[2][2]>> \in Nodes
         /\ Both(r, n)[<<First(1, i), First(2, j)>>] = Regular(<<o[1][1], o[2][1]>>, n)[<<o[1][2], o[2][2]>>]
<1> DEFINE k == First(1, i)
           m == First(2, j)
           far(d) == NProc[d] > 1 /\ Inside(r, d) /\ First(d, IF d = 1 THEN i ELSE j) = 0
           s == IF far(2) THEN Left(r, 2) ELSE r
           v == IF far(2) THEN NInt[2] ELSE m
           t == IF far(1) THEN Left(s, 1) ELSE s
           u == IF far(1) THEN NInt[1] ELSE k
<1>1. /\ NInt[1] \in Int /\ NInt[1] > 0 /\ NInt[2] \in Int /\ NInt[2] > 0
      /\ 0 * NInt[1] = 0 /\ 0 * NInt[2] = 0 /\ 1 \in Dirs /\ 2 \in Dirs
      /\ NProc[1] \in Int /\ NProc[2] \in Int
  BY Numbers DEF Dirs
<1>2. k \in 0..NInt[1] /\ m \in 0..NInt[2] /\ v \in 0..NInt[2] /\ u \in 0..NInt[1]
  BY <1>1, FirstIs
<1>3. \A a \in 0..NInt[1], b \in 0..NInt[2] : <<a, b>> \in Nodes
  BY DEF Nodes
<1>4. \A a \in 0..NInt[1], b \in 0..NInt[2] :
        /\ <<a, b>> \in Line(1, 0) <=> a = 0
        /\ <<a, b>> \in Line(2, 0) <=> b = 0
        /\ Mirror(<<a, b>>, 1) = <<NInt[1], b>> /\ Mirror(<<a, b>>, 2) = <<a, NInt[2]>>
  <2>1. ASSUME NEW a \in 0..NInt[1], NEW b \in 0..NInt[2]
        PROVE  /\ <<a, b>> \in Line(1, 0) <=> a = 0
               /\ <<a, b>> \in Line(2, 0) <=> b = 0
    BY <1>1, <1>3 DEF Line
  <2>2. ASSUME NEW a, NEW b
        PROVE  [<<a, b>> EXCEPT ![1] = NInt[1]] = <<NInt[1], b>> /\ [<<a, b>> EXCEPT ![2] = NInt[2]] = <<a, NInt[2]>>
    OBVIOUS
  <2> QED BY <2>1, <2>2 DEF Mirror
<1>5. s \in Procs /\ s = (IF far(2) THEN <<r[1], (r[2] - 1) % NProc[2]>> ELSE r) /\ s[1] = r[1]
  <2>1. far(2) => Left(r, 2) \in Procs /\ Left(r, 2) = <<r[1], (r[2] - 1) % NProc[2]>>
    BY <1>1, LeftIs, ProcIs DEF Left
  <2> QED BY <2>1
<1>6. Inside(s, 1) <=> Inside(r, 1)
  BY <1>5 DEF Inside, AtEdge
<1>7. t \in Procs /\ t = (IF far(1) THEN <<(r[1] - 1) % NProc[1], s[2]>> ELSE s)
  <2>1. far(1) => Left(s, 1) \in Procs /\ Left(s, 1) = <<(s[1] - 1) % NProc[1], s[2]>>
    <3>1. SUFFICES ASSUME far(1)
                   PROVE  Left(s, 1) \in Procs /\ Left(s, 1) = <<(s[1] - 1) % NProc[1], s[2]>>
      OBVIOUS
    <3>2. NProc[1] > 1 /\ Inside(s, 1)
      BY <3>1, <1>6
    <3> HIDE DEF s
    <3>3. Left(s, 1) \in Procs
      BY <3>2, <1>1, <1>5, LeftIs
    <3>4. Left(s, 1) = <<(s[1] - 1) % NProc[1], s[2]>>
      BY <1>5, ProcIs DEF Left
    <3> QED BY <3>3, <3>4
  <2> QED BY <2>1, <1>5
<1>8. Both(r, n)[<<k, m>>] = Exchanged(s, n)[<<k, v>>]
  <2>1. <<k, m>> \in Nodes
    BY <1>2, <1>3
  <2>2. Both(r, n)[<<k, m>>] = IF NProc[2] > 1 /\ Inside(r, 2) /\ <<k, m>> \in Line(2, 0)
                                 THEN Exchanged(Left(r, 2), n)[Mirror(<<k, m>>, 2)] ELSE Exchanged(r, n)[<<k, m>>]
    <3> HIDE DEF k, m
    <3> QED BY <2>1 DEF Both
  <2> QED BY <2>2, <1>2, <1>4
<1>9. Exchanged(s, n)[<<k, v>>] = Regular(t, n)[<<u, v>>]
  <2>1. <<k, v>> \in Nodes
    BY <1>2, <1>3
  <2>2. Exchanged(s, n)[<<k, v>>] = IF NProc[1] > 1 /\ Inside(s, 1) /\ <<k, v>> \in Line(1, 0)
                                 THEN Regular(Left(s, 1), n)[Mirror(<<k, v>>, 1)] ELSE Regular(s, n)[<<k, v>>]
    <3> HIDE DEF k, v, s
    <3> QED BY <2>1 DEF Exchanged
  <2> QED BY <2>2, <1>2, <1>4, <1>6
<1>10. o[1] = <<t[1], u>>
  <2>1. o[1] = Origin(r, 1, i)
    BY <1>1
  <2>2. Origin(r, 1, i) = IF far(1) THEN <<(r[1] - 1) % NProc[1], NInt[1]>> ELSE <<r[1], k>>
    BY <1>1, OriginIs
  <2> QED BY <2>1, <2>2, <1>5, <1>7
<1>11. o[2] = <<t[2], v>>
  <2>1. o[2] = Origin(r, 2, j)
    BY <1>1
  <2>2. Origin(r, 2, j) = IF far(2) THEN <<(r[2] - 1) % NProc[2], NInt[2]>> ELSE <<r[2], m>>
    BY <1>1, OriginIs
  <2> QED BY <2>1, <2>2, <1>5, <1>7
<1>12. <<o[1][1], o[2][1]>> = t /\ <<o[1][2], o[2][2]>> = <<u, v>>
  <2>1. t = <<t[1], t[2]>>
    BY <1>7, ProcIs
  <2> QED BY <2>1, <1>10, <1>11
<1>13. <<u, v>> \in Nodes
  BY <1>2, <1>3
<1> QED BY <1>7, <1>8, <1>9, <1>12, <1>13

\* Where a node is taken from a process before, neither of them has it on the
\* axis; where it is not, both have the same axis.
LEMMA PoleIs ==
  ASSUME Given, NEW r \in Procs, NEW i \in 0..NInt[1], NEW q \in Procs, NEW a,
         <<q[1], a>> = Origin(r, 1, i)
  PROVE  \/ /\ {x \in Poles(r) : i = x * NInt[1]} = {}
            /\ {x \in Poles(q) : a = x * NInt[1]} = {}
         \/ q \in AxisComm(r) /\ a = i
<1>1. /\ NInt[1] \in Int /\ NInt[1] > 0 /\ NProc[1] \in Int /\ NProc[1] > 0 /\ r[1] \in 0..NProc[1] - 1
      /\ 1 \in Dirs /\ 0 \in Sides /\ 1 \in Sides
  BY Numbers, ProcIs DEF Dirs, Sides
<1>2. <<q[1], a>> = IF NProc[1] > 1 /\ Inside(r, 1) /\ First(1, i) = 0
                      THEN <<(r[1] - 1) % NProc[1], NInt[1]>> ELSE <<r[1], First(1, i)>>
  BY <1>1, OriginIs
<1>3. CASE Periodic(1)
  <2>1. Bound[1] = <<"periodic", "periodic">>
    <3>1. Bound[1][1] = "periodic"
      BY <1>3 DEF Periodic, BoundOf
    <3>2. Bound[1] = <<"periodic", "periodic">> \/ Bound[1] \in {"outflow", "axis"} \X {"outflow", "axis"}
      BY <1>1 DEF Given, EdgesAssumption
    <3> QED BY <3>1, <3>2
  <2>2. \A x \in Sides : BoundOf(1, x) = "periodic"
    BY <2>1 DEF BoundOf, Sides
  <2>3. Poles(r) = {} /\ Poles(q) = {}
    BY <2>2 DEF Poles
  <2> QED BY <2>3
<1>4. CASE ~Periodic(1)
  <2>1. First(1, i) = i
    BY <1>4 DEF First
  <2>2. CASE NProc[1] > 1 /\ r[1] # 0 /\ i = 0
    <3>1. Inside(r, 1)
      BY <2>2 DEF Inside, AtEdge
    <3>2. (r[1] - 1) % NProc[1] = r[1] - 1
      BY <2>2, <1>1
    <3>3. q[1] = r[1] - 1 /\ a = NInt[1]
      BY <3>1, <3>2, <2>1, <2>2, <1>2
    <3>4. {x \in Poles(r) : i = x * NInt[1]} = {}
      BY <2>2, <1>1 DEF Poles, AtEdge, Sides
    <3>5. {x \in Poles(q) : a = x * NInt[1]} = {}
      BY <3>3, <2>2, <1>1 DEF Poles, AtEdge, Sides
    <3> QED BY <3>4, <3>5
  <2>3. CASE ~(NProc[1] > 1 /\ r[1] # 0 /\ i = 0)
    <3>1. ~(NProc[1] > 1 /\ Inside(r, 1) /\ i = 0)
      BY <2>3, <1>4 DEF Inside, AtEdge
    <3>2. q[1] = r[1] /\ a = i
      BY <3>1, <2>1, <1>2
    <3> QED BY <3>2 DEF AxisComm
  <2> QED BY <2>2, <2>3
<1> QED BY <1>3, <1>4

\* What an array of all processes holds is what EdgesMatch says.
LEMMA FineMatch ==
  ASSUME Given, IInv PROVE EdgesMatch
<1> SUFFICES ASSUME NEW r \in Procs, pc[r] = "set", NEW node \in Nodes,
                    NEW o, o = [d \in Dirs |-> Origin(r, d, node[d])],
                    NEW pole, pole = {x \in Poles(r) : node[1] = x * NInt[1]}
             PROVE  IF pole = {}
                      THEN field[r][node] = Value(<<o[1][1], o[2][1]>>, <<o[1][2], o[2][2]>>, stage[r])
                      ELSE \A x \in pole : field[r][node] = [sum |-> Circle(r, x), over |-> NProc[2] * NInt[2]]
  BY DEF EdgesMatch
<1> DEFINE n == stage[r]
           q == <<o[1][1], o[2][1]>>
           home == <<o[1][2], o[2][2]>>
<1>1. field[r] = Periodized(Both(r, n))
  BY DEF IInv, Fine
<1>2. node[1] \in 0..NInt[1] /\ node[2] \in 0..NInt[2] /\ node = <<node[1], node[2]>>
  BY NodeIs
<1>3. q \in Procs /\ home \in Nodes /\ field[r][node] = Regular(q, n)[home]
  <2>1. o = [d \in Dirs |-> Origin(r, d, IF d = 1 THEN node[1] ELSE node[2])]
    BY DEF Dirs
  <2>2. /\ q \in Procs /\ home \in Nodes
        /\ Both(r, n)[<<First(1, node[1]), First(2, node[2])>>] = Regular(q, n)[home]
    <3>1. PICK i \in 0..NInt[1], j \in 0..NInt[2] : i = node[1] /\ j = node[2]
      BY <1>2
    <3>2. o = [d \in Dirs |-> Origin(r, d, IF d = 1 THEN i ELSE j)]
      BY <3>1, <2>1
    <3> HIDE DEF n
    <3>3. /\ q \in Procs /\ home \in Nodes
          /\ Both(r, n)[<<First(1, i), First(2, j)>>] = Regular(q, n)[home]
      BY <3>2, BothIs
    <3> QED BY <3>1, <3>3
  <2>3. Periodized(Both(r, n))[<<node[1], node[2]>>] = Both(r, n)[<<First(1, node[1]), First(2, node[2])>>]
    BY <1>2, PeriodizedIs
  <2> QED BY <2>2, <2>3, <1>1, <1>2
<1>4. o[1] = Origin(r, 1, node[1]) /\ o[1] = <<q[1], home[1]>>
  <2>1. o[1] = Origin(r, 1, node[1])
    BY DEF Dirs
  <2>2. \E b, c : o[1] = <<b, c>>
    BY <2>1, <1>2, OriginIs DEF Dirs
  <2> QED BY <2>1, <2>2
<1> HIDE DEF q, home, n
<1>5. Regular(q, n)[home] = IF \E x \in Poles(q) : home[1] = x * NInt[1]
                              THEN Average(q, IF home[1] = 0 THEN 0 ELSE 1, n) ELSE Value(q, home, n)
  BY <1>3 DEF Regular, Averaged
<1>6. CASE pole = {} /\ {x \in Poles(q) : home[1] = x * NInt[1]} = {}
  BY <1>3, <1>5, <1>6 DEF q, home, n
<1>7. CASE q \in AxisComm(r) /\ home[1] = node[1]
  <2>1. Poles(q) = Poles(r) /\ \A x : Ring(q, x, n) = Ring(r, x, n)
    BY <1>7, SameAxis
  <2>2. CASE pole = {}
    BY <2>1, <2>2, <1>3, <1>5, <1>7 DEF q, home, n
  <2>3. CASE pole # {}
    <3>1. ASSUME NEW x \in pole PROVE field[r][node] = [sum |-> Circle(r, x), over |-> NProc[2] * NInt[2]]
      <4>1. x \in Poles(r) /\ node[1] = x * NInt[1] /\ x \in Sides
        BY DEF Poles
      <4>2. x = IF home[1] = 0 THEN 0 ELSE 1
        BY <4>1, <1>7, EndIs
      <4>3. field[r][node] = Average(q, x, n)
        BY <4>1, <4>2, <2>1, <1>3, <1>5, <1>7
      <4>4. Ring(r, x, n) = Circle(r, x)
        BY DEF Ring, Circle, n
      <4> QED BY <4>3, <4>4, <2>1 DEF Average
    <3> QED BY <2>3, <3>1
  <2> QED BY <2>2, <2>3
<1>8. \/ pole = {} /\ {x \in Poles(q) : home[1] = x * NInt[1]} = {}
      \/ q \in AxisComm(r) /\ home[1] = node[1]
  BY <1>2, <1>3, <1>4, PoleIs
<1> QED BY <1>6, <1>7, <1>8
-----------------------------------------------------------------------------
LEMMA InitFine ==
  ASSUME Given, Init PROVE IInv
<1>1. /\ pc = [r \in Procs |-> "regularize"]
      /\ stage = [r \in Procs |-> 1] /\ dir = [r \in Procs |-> 1]
      /\ side = [r \in Procs |-> FirstPole(r)]
      /\ field = [r \in Procs |-> Computed(r, 1)]
      /\ buffer = [r \in Procs |-> [e \in Dirs |-> <<>>]]
      /\ send = [r \in Procs |-> {}]
      /\ flight = [r \in Procs |-> [e \in Dirs |-> [x \in Sides |-> <<>>]]]
  BY DEF Init
<1>2. \A r : FirstPole(r) \in Sides /\ (Poles(r) # {} => FirstPole(r) \in Poles(r))
  BY DEF FirstPole, Poles, Sides
<1>3. Shape
  <2>1. IsQueue(<<>>)
    <3>1. <<>> \in Seq({})
      OBVIOUS
    <3> QED BY <3>1 DEF IsQueue
  <2> QED BY <2>1, <1>1, <1>2 DEF Shape, Dirs
<1>4. ASSUME NEW r \in Procs PROVE Where(r) /\ Fine(r)
  <2>1. Where(r)
    BY <1>1, <1>2 DEF Where
  <2>2. SidesDone(r) = {}
    BY <1>1 DEF SidesDone, FirstPole
  <2>3. Computed(r, 1) = Averaged(r, {}, 1)
    BY DEF Computed, Averaged
  <2>4. Fine(r)
    BY <1>1, <2>2, <2>3 DEF Fine
  <2> QED BY <2>1, <2>4
<1>5. \A r \in Procs, e \in Dirs, x \in Sides : Sending(r, e, x)
  BY <1>1 DEF Sending
<1>6. ASSUME NEW r \in Procs, NEW e \in Dirs, NEW x \in Sides, NProc[e] > 1, NEW q \in Neighbours(r, e, x)
      PROVE  Flying(r, e, x, q)
  <2>1. q \in Procs /\ 1 - x \in Sides
    BY <1>6, NeighbourIs DEF Sides
  <2>2. flight[q][e][1 - x] = <<>>
    BY <2>1, <1>1
  <2>3. Gone(r, e, x) = 0 /\ Taken(q, e) = 0
    BY <2>1, <1>1 DEF Gone, Begun, Taken
  <2> QED BY <2>2, <2>3 DEF Flying
<1>7. \A r \in Procs : \A q \in AxisComm(r) : Together(r, q)
  <2>1. ASSUME NEW r \in Procs, NEW q \in AxisComm(r) PROVE Together(r, q)
    <3>1. q \in Procs /\ FirstPole(q) = FirstPole(r)
      BY SameAxis
    <3> QED BY <3>1, <1>1 DEF Together, Turned
  <2> QED BY <2>1
<1> QED BY <1>3, <1>4, <1>5, <1>6, <1>7 DEF IInv

LEMMA NextKeeps ==
  ASSUME Given, IInv, Next PROVE IInv'
<1>1. PICK r \in Procs : Step(r) \/ \E e \in Dirs, x \in Sides : Leave(r, e, x)
  BY DEF Next
<1> QED BY <1>1, RegularizeKeeps, AllreduceKeeps, SkipKeeps, StartKeeps, ReceiveKeeps, WaitForSendsKeeps,
           EvolveKeeps, LeaveKeeps DEF Step

LEMMA StutterKeeps ==
  ASSUME IInv, UNCHANGED vars PROVE IInv'
<1>1. UNCHANGED <<pc, stage, dir, side, field, buffer, send, flight>>
  BY DEF vars
<1>2. Shape'
  BY <1>1 DEF IInv, Shape
<1>3. ASSUME NEW p \in Procs
      PROVE  /\ Where(p)' /\ Fine(p)' /\ \A e \in Dirs, x \in Sides : Sending(p, e, x)'
             /\ \A e : Taken(p, e)' = Taken(p, e)
             /\ \A e, x : Gone(p, e, x)' = Gone(p, e, x)
             /\ Turned(p)' = Turned(p) /\ side'[p] = side[p]
  BY <1>1, OthersKept
<1>4. ASSUME NEW p \in Procs, NEW e \in Dirs, NEW x \in Sides, NProc[e] > 1, NEW q \in Neighbours(p, e, x)
      PROVE  Flying(p, e, x, q)'
  <2>1. Flying(p, e, x, q)
    BY <1>4 DEF IInv
  <2>2. Taken(q, e)' = Taken(q, e)
    BY <1>1 DEF Taken
  <2> QED BY <2>1, <2>2, <1>1, <1>3, SameFlying
<1>5. needMPIExchange => \A p \in Procs : Poles(p) # {} => \A q \in AxisComm(p) : Together(p, q)'
  <2>1. ASSUME needMPIExchange, NEW p \in Procs, Poles(p) # {}, NEW q \in AxisComm(p) PROVE Together(p, q)'
    <3>1. Together(p, q)
      BY <2>1 DEF IInv
    <3> QED BY <3>1, <1>1 DEF Together, Turned
  <2> QED BY <2>1
<1> QED BY <1>2, <1>3, <1>4, <1>5 DEF IInv, needMPIExchange

\* When EnforceEMFBoundary returns, all the copies of an edge hold the value
\* of one process in this stage, and those on the axis the average over the
\* whole turn: for any number of processes, cells and stages, in any
\* interleaving of the exchanges and the reductions, for the boundaries that
\* are no wedge shared by several processes.
THEOREM EdgesAlwaysMatch == Given => (Spec => []EdgesMatch)
<1> SUFFICES ASSUME Given PROVE Spec => []EdgesMatch
  OBVIOUS
<1>1. Init => IInv
  BY InitFine
<1>2. IInv /\ [Next]_vars => IInv'
  BY NextKeeps, StutterKeeps
<1>3. IInv => EdgesMatch
  BY FineMatch
<1> QED BY <1>1, <1>2, <1>3, PTL DEF Spec
=============================================================================
