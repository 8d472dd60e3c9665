--------------------------- MODULE MainLoopProofs ---------------------------
(***************************************************************************)
(* Theorems about MainLoop, for every number of processes and of stages    *)
(* and every value of the options.                                         *)
(*                                                                         *)
(* What a process does between two collective calls is determined by the   *)
(* answers it got: the whole run follows one schedule, here a sequence log *)
(* of views, one entry per call, of what any process that posted the call  *)
(* knows.  The processes are at different places of the same log, and a    *)
(* process that goes further than all others extends it.                   *)
(***************************************************************************)
EXTENDS MainLoop, WellFoundedInduction, TLAPS

\* Where a process may be in the schedule: after the call named "at", or at
\* the beginning.
Places == {"top", "gather", "divB", "nan", "dt", "clock", "dump", "abort", "runtime",
           "lastDump"}

\* The kind of call that leads to a place.
Op(at) == IF at = "clock" THEN "delay" ELSE IF at = "lastDump" THEN "dump" ELSE at

\* k cycles are done; t and dt are the time and the time step of cycle k, cut
\* to end at Tstop; stage is that of the last CheckNan, call the number of the
\* last reduction of the time step.
View == [at: Places, k: Nat, stage: Nat, t: Nat, dt: Int, call: Nat]

Cut(x, d) == IF Tstop - x < d THEN Tstop - x ELSE d

Start == [at |-> "top", k |-> 0, stage |-> 0, t |-> 0, dt |-> Cut(0, FirstDt), call |-> 0]

\* Every process posted its i-th call; the root did.
Posted(i) == i > 0 /\ \A q \in Ranks: Last(q) >= i
RootPosted(i) == i > 0 /\ Last(0) >= i

\* In what follows v is the m-th entry of the log: what a process knows that
\* posted m - 1 calls.

\* The tests at the end of a cycle are passed.
Loops(m, v) ==
  \/ v.at = "top"
  \/ /\ v.at \in {"abort", "runtime"} /\ RootPosted(m - 1) /\ FromRoot(m - 1) # 1
     /\ v.at = "abort" => ~(FromRoot(m - 1) = 0 /\ MaxRuntime)

\* The cycles are exhausted, and the run is over.
Exhausted(v) == v.at # "top" /\ MaxCycles >= 0 /\ v.k >= MaxCycles
Over(m, v) == v.at = "lastDump" \/ (Loops(m, v) /\ (Exhausted(v) \/ v.t >= Tstop))

Begins(m, v) == Loops(m, v) /\ ~Exhausted(v) /\ v.t < Tstop

\* The first stage may begin; no process found a Nan.
FirstStage(m, v) ==
  \/ Begins(m, v) /\ v.k % LogPeriod # 0
  \/ v.at = "divB" /\ Posted(m - 1) /\ 1 \notin Values(m - 1)
Clean(m) == Posted(m - 1) /\ ~(SumOf(m - 1) > 0)

\* The cycle has no other call than the one at its end.
EndsCycle(v) ==
  \/ v.at = "dt" /\ (NStages = 1 \/ v.k % NanPeriod # 0)
  \/ v.at = "nan" /\ v.stage > 0 /\ v.stage = NStages - 1

Reduction(v) == Min(Values(v.call))
NextDt(v) == IF Reduction(v) > Growth * v.dt THEN Growth * v.dt ELSE Reduction(v)

InStages(m, v) == v.at = "dt" \/ (v.at = "nan" /\ v.stage > 0 /\ Clean(m))

\* The reduction of the time step, as the m-th call.
Reduces(m, v) == [v EXCEPT !.at = "dt", !.stage = 0, !.call = m]

NextCycleOf(v) ==
  [at |-> IF ClockDumps THEN "clock" ELSE "abort", k |-> v.k + 1, stage |-> 0,
   t |-> v.t + v.dt, dt |-> Cut(v.t + v.dt, NextDt(v)), call |-> 0]

\* The entry after v is w: one disjunct per kind of call.
Follows(m, v, w) ==
  \/ /\ Begins(m, v) /\ v.k % LogPeriod = 0
     /\ w = [v EXCEPT !.at = IF v.k >= LogPeriod THEN "gather" ELSE "divB"]
  \/ v.at = "gather" /\ w = [v EXCEPT !.at = "divB"]
  \/ /\ FirstStage(m, v)
     /\ w = IF v.k % NanPeriod = 0 THEN [v EXCEPT !.at = "nan", !.stage = 0]
                                   ELSE Reduces(m, v)
  \/ v.at = "nan" /\ v.stage = 0 /\ Clean(m) /\ w = Reduces(m, v)
  \/ InStages(m, v) /\ ~EndsCycle(v) /\ w = [v EXCEPT !.at = "nan", !.stage = @ + 1]
  \/ /\ InStages(m, v) /\ EndsCycle(v) /\ Posted(v.call) /\ ~(NextDt(v) < DtMin)
     /\ w = NextCycleOf(v)
  \/ /\ v.at = "clock" /\ RootPosted(m - 1)
     /\ w = [v EXCEPT !.at = IF FromRoot(m - 1) = 1 THEN "dump" ELSE "abort"]
  \/ v.at = "dump" /\ w = [v EXCEPT !.at = "abort"]
  \/ /\ v.at \in {"abort", "runtime"} /\ RootPosted(m - 1) /\ FromRoot(m - 1) = 1
     /\ w = [v EXCEPT !.at = "lastDump"]
  \/ /\ v.at = "abort" /\ RootPosted(m - 1) /\ FromRoot(m - 1) = 0 /\ MaxRuntime
     /\ w = [v EXCEPT !.at = "runtime"]

\* Every process throws that gets the answer v waits for.
Throws(m, v) ==
  \/ v.at = "divB" /\ Posted(m - 1) /\ 1 \in Values(m - 1)
  \/ v.at = "nan" /\ Posted(m - 1) /\ SumOf(m - 1) > 0
  \/ InStages(m, v) /\ EndsCycle(v) /\ Posted(v.call) /\ NextDt(v) < DtMin
-----------------------------------------------------------------------------
\* The process caught an exception; its last call is that of CheckSync; the
\* entry of the log it is at.
Caught(r) == pc[r] \in {"sync", "vtk"} \/ (pc[r] = "ended" /\ code[r] = 1)
Synced(r) == Last(r) > 0 /\ calls[r][Last(r)].op = "sync"
Seen(r) == IF Synced(r) THEN Last(r) ELSE Last(r) + 1

\* What process r, at the m-th entry v of the log, knows.
InStep(r, v) == t0[r] = v.t /\ dt[r] = v.dt /\ ncycles[r] = v.k
Between(r, v) == t[r] = v.t /\ Cut(t[r], dt[r]) = v.dt /\ ncycles[r] = v.k

\* It waits for the same reduction, unless MPI_Abort was called.
Pending(r, v) == killed \/ dtCall[r] = v.call

Local(r, m, v) ==
  /\ pc[r] = "divB" => v.at = "divB" /\ InStep(r, v)
  /\ pc[r] = "nan" => /\ v.at = "nan" /\ v.stage = stage[r] /\ InStep(r, v)
                      /\ v.k % NanPeriod = 0
                      /\ stage[r] > 0 => Pending(r, v)
  /\ pc[r] \in {"clock", "dump", "abort", "runtime", "lastDump"} =>
       v.at = pc[r] /\ Between(r, v)
  /\ pc[r] = "top" => Between(r, v) /\ Loops(m, v) /\ ~Exhausted(v)
  /\ pc[r] = "user" => InStep(r, v) /\ FirstStage(m, v)
  /\ pc[r] = "halo" =>
       /\ InStep(r, v)
       /\ stage[r] = 0 => FirstStage(m, v)
       /\ stage[r] > 0 => /\ Pending(r, v) /\ InStages(m, v)
                          /\ v.k % NanPeriod = 0 => v.stage = stage[r] - 1
                          /\ v.k % NanPeriod # 0 => v.at = "dt"
  /\ pc[r] = "staged" =>
       /\ InStep(r, v)
       /\ v.k % NanPeriod = 0 => v.at = "nan" /\ v.stage = stage[r] /\ Clean(m)
       /\ v.k % NanPeriod # 0 => IF stage[r] = 0 THEN FirstStage(m, v) ELSE v.at = "dt"
       /\ stage[r] > 0 => Pending(r, v)
  /\ pc[r] = "wait" => /\ InStep(r, v) /\ Pending(r, v)
                       /\ InStages(m, v) /\ EndsCycle(v)
  /\ Caught(r) => t0[r] = v.t /\ ncycles[r] = v.k /\ (N = 1 \/ Synced(r))
  /\ pc[r] = "ended" /\ code[r] # 1 =>
       /\ t[r] = v.t /\ ncycles[r] = v.k
       /\ Over(m, v) /\ code[r] = IF v.at = "lastDump" THEN -1 ELSE 0
  /\ code[r] # 0 => pc[r] = "ended"
  /\ stage[r] < NStages
  /\ ~Caught(r) => ~Synced(r)

\* The calls of r are those of the log, up to an exception.
OnLog(r, log) ==
  \A i \in 1..Last(r):
    IF calls[r][i].op = "sync"
      THEN /\ i = Last(r) /\ i \in DOMAIN log
           /\ ~alone => Throws(i, log[i])
      ELSE i + 1 \in DOMAIN log /\ calls[r][i].op = Op(log[i + 1].at)

\* The log is a possible schedule, in which a cycle has one time step.
IsSchedule(log) ==
  /\ log \in Seq(View) /\ log # <<>> /\ log[1] = Start
  /\ \A m \in 1..(Len(log) - 1): Follows(m, log[m], log[m + 1])
  /\ \A i, j \in DOMAIN log: i <= j =>
       /\ log[i].k <= log[j].k
       /\ log[i].k = log[j].k => log[i].t = log[j].t /\ log[i].dt = log[j].dt

Agree(log) ==
  /\ IsSchedule(log)
  /\ \A r \in Ranks: OnLog(r, log) /\ Local(r, Seen(r), log[Seen(r)])
-----------------------------------------------------------------------------
(* Operators *)

LEMMA MinExists ==
  ASSUME NEW S \in SUBSET Nat, S # {}
  PROVE Min(S) \in S /\ \A y \in S: Min(S) <= y
<1> DEFINE R == OpToRel(<, Nat)
<1>1. IsWellFoundedOn(R, Nat)
  BY NatLessThanWellFounded
<1>2. \A x, y \in Nat: x < y => <<x, y>> \in R
  BY DEF OpToRel
<1> HIDE DEF R
<1>3. PICK x \in S: \A y \in S: <<y, x>> \notin R
  BY <1>1, WFMin, Zenon
<1>4. \A y \in S: x <= y
  <2> TAKE y \in S
  <2>1. y \in Nat /\ x \in Nat
    OBVIOUS
  <2>2. ~(y < x)
    BY <1>2, <1>3, <2>1, Zenon
  <2> QED BY <2>1, <2>2
<1> QED BY <1>4 DEF Min

LEMMA MinOfTwo ==
  ASSUME NEW a \in Nat, NEW b \in Nat
  PROVE Min({a, b}) <= a /\ Min({a, b}) <= b /\ Min({a,b}) \in Nat
<1>1. Min({a, b}) \in {a, b} /\ \A y \in {a, b}: Min({a, b}) <= y
  BY DEF Min
<1> QED BY <1>1

LEMMA RanksType == Ranks \subseteq Nat /\ N \in Nat \ {0} /\ 0 \in Ranks
BY MainLoopAssumption DEF Ranks

\* The reduced time step is one that some process computed.
LEMMA ReducedType ==
  ASSUME TypeOK, NEW i \in Nat, \A q \in Ranks: i \in 1..Len(calls[q])
  PROVE  Values(i) # {} /\ Values(i) \in SUBSET Nat /\ Min(Values(i)) \in Nat
<1>1. \A q \in Ranks: calls[q][i].val \in Nat
  <2> TAKE q \in Ranks
  <2>1. calls[q] \in Seq(Calls)
    BY DEF TypeOK
  <2>2. calls[q][i] \in Calls
    BY <2>1
  <2> QED BY <2>2 DEF Calls
<1>2. Values(i) # {} /\ Values(i) \in SUBSET Nat
  BY <1>1, RanksType DEF Values
<1> QED BY <1>2, MinExists

LEMMA CombineType ==
  ASSUME NEW s \in Nat, NEW a \in Nat, NEW b \in Nat
  PROVE  Combine(s, a, b) \in Nat
BY MainLoopAssumption DEF Combine
-----------------------------------------------------------------------------
(* Types *)

LEMMA PostType ==
  ASSUME TypeOK, NEW r \in Ranks, NEW op \in Ops, NEW val \in Nat, Post(r, op, val)
  PROVE  calls' \in [Ranks -> Seq(Calls)]
<1>1. [op |-> op, val |-> val] \in Calls
  BY DEF Calls
<1>2. calls \in [Ranks -> Seq(Calls)]
  BY DEF TypeOK
<1>3. Append(calls[r], [op |-> op, val |-> val]) \in Seq(Calls)
  BY <1>1, <1>2
<1> HIDE DEF Calls
<1> QED BY <1>2, <1>3 DEF Post

LEMMA PostLogType ==
  ASSUME TypeOK, NEW r \in Ranks, NEW b \in Bad, PostLog(r, b)
  PROVE  calls' \in [Ranks -> Seq(Calls)]
<1> DEFINE gather == [op |-> "gather", val |-> 0]
           divB == [op |-> "divB", val |-> b]
<1>1. gather \in Calls /\ divB \in Calls
  BY MainLoopAssumption DEF Calls, Ops
<1>2. calls \in [Ranks -> Seq(Calls)]
  BY DEF TypeOK
<1>3. calls' = [calls EXCEPT ![r] = Append(IF ncycles[r] >= LogPeriod
                                             THEN Append(calls[r], gather) ELSE calls[r],
                                           divB)]
  BY DEF PostLog
<1> HIDE DEF Calls, gather, divB
<1> QED BY <1>1, <1>2, <1>3

LEMMA ThrowType ==
  ASSUME TypeOK, NEW r \in Ranks, Throw(r)
  PROVE  /\ calls' \in [Ranks -> Seq(Calls)] /\ inVtk' \subseteq Ranks
         /\ pc' \in [Ranks -> Labels]
<1>1. "sync" \in Ops /\ r \in Nat
  BY RanksType DEF Ops
<1>2. calls \in [Ranks -> Seq(Calls)] /\ pc \in [Ranks -> Labels] /\ inVtk \subseteq Ranks
  BY DEF TypeOK
<1>3. "vtk" \in Labels /\ "sync" \in Labels
  BY DEF Labels
<1> QED BY <1>1, <1>2, <1>3, PostType DEF Throw, Goto

\* A process in a later stage, or waiting for the time step, has posted its
\* reduction.
Awaits == \A r \in Ranks:
  ~killed /\ (pc[r] = "wait" \/ (pc[r] \in {"halo", "nan", "staged"} /\ stage[r] > 0))
    => dtCall[r] > 0

LEMMA TypeStep == TypeOK /\ Awaits /\ [Next]_vars => TypeOK'
<1> SUFFICES ASSUME TypeOK, Awaits, [Next]_vars PROVE TypeOK'
  OBVIOUS
<1> USE DEF TypeOK
<1>0. CASE UNCHANGED vars
  BY <1>0 DEF vars
<1> SUFFICES ASSUME NEW r \in Ranks, Step(r) \/ Signal(r) PROVE TypeOK'
  BY <1>0 DEF Next
<1> USE DEF Goto
<1>K. Step(r) => ~killed
  BY DEF Step
<1>1. CASE Signal(r)
  BY <1>1 DEF Signal
<1>2. CASE User(r) /\ killed' = killed
  <2>1. CASE Throw(r) /\ alone' = TRUE /\ UNCHANGED <<stage, sent>>
    BY <1>2, <2>1, ThrowType DEF User
  <2>2. CASE Goto(r, "halo") /\ SendHalo(r) /\ stage' = [stage EXCEPT ![r] = 0]
               /\ UNCHANGED <<calls, inVtk, alone>>
    <3>1. sent[r] + 1 \in Nat
      BY DEF Numbers
    <3> QED BY <1>2, <2>2, <3>1 DEF User, SendHalo, Labels, Numbers
  <2> QED BY <1>2, <2>1, <2>2 DEF User
<1>3. CASE Evolve(r) /\ killed' = killed
  <2>1. CASE t' = t /\ Throw(r) /\ alone' = TRUE
    BY <1>3, <2>1, ThrowType DEF Evolve
  <2>2. CASE t' = [t EXCEPT ![r] = @ + dt[r]] /\ UNCHANGED <<inVtk, alone>>
    <3>1. t' \in Numbers
      <4>1. t[r] + dt[r] \in Nat
        BY DEF Numbers
      <4> QED BY <2>2, <4>1 DEF Numbers
    <3>2. pc' \in [Ranks -> Labels]
      BY <1>3 DEF Evolve, Labels, Throw
    <3>3. calls' \in [Ranks -> Seq(Calls)]
      <4>1. \A b \in Bad: b \in {0, 1}
        BY MainLoopAssumption
      <4>2. "nan" \in Ops /\ {0, 1} \subseteq Nat
        BY DEF Ops
      <4> QED BY <1>3, <4>1, <4>2, PostType, ThrowType DEF Evolve
    <3> QED BY <1>3, <2>2, <3>1, <3>2, <3>3 DEF Evolve
  <2> QED BY <1>3, <2>1, <2>2 DEF Evolve
<1>4. CASE Top(r) /\ UNCHANGED <<killed, alone>>
  <2>1. CASE t[r] >= Tstop
    BY <1>4, <2>1 DEF Top, Labels
  <2>2. CASE ~(t[r] >= Tstop)
    <3>1. dt' \in Numbers /\ t0' \in Numbers
      <4>1. Tstop - t[r] \in Nat
        BY <2>2, MainLoopAssumption DEF Numbers
      <4>2. (IF Tstop - t[r] < dt[r] THEN Tstop - t[r] ELSE dt[r]) \in Nat
        BY <4>1 DEF Numbers
      <4> QED BY <1>4, <2>2, <4>2 DEF Top, Numbers
    <3>2. calls' \in [Ranks -> Seq(Calls)]
      BY <1>4, <2>2, PostLogType DEF Top
    <3> QED BY <1>4, <2>2, <3>1, <3>2 DEF Top, Labels
  <2> QED BY <2>1, <2>2
<1>5. CASE DivB(r) /\ UNCHANGED <<killed, alone>>
  BY <1>5, ThrowType DEF DivB, Labels
<1>6. CASE CheckNan(r) /\ UNCHANGED <<killed, alone>>
  BY <1>6, ThrowType DEF CheckNan, Labels
<1>7. CASE EndStage(r) /\ UNCHANGED <<killed, alone>>
  <2>1. /\ pc' \in [Ranks -> Labels] /\ stage' \in Numbers /\ sent' \in Numbers
    <3>1. stage[r] + 1 \in Nat /\ sent[r] + 1 \in Nat
      BY DEF Numbers
    <3>2. CASE stage[r] < NStages - 1
      <4>1. pc' = [pc EXCEPT ![r] = "halo"] /\ sent' = [sent EXCEPT ![r] = sent[r] + 1]
            /\ stage' = [stage EXCEPT ![r] = stage[r] + 1]
        BY <1>7, <3>2 DEF EndStage, SendHalo
      <4> QED BY <3>1, <4>1 DEF Labels, Numbers
    <3>3. CASE ~(stage[r] < NStages - 1)
      BY <1>7, <3>3 DEF EndStage, Labels
    <3> QED BY <3>2, <3>3
  <2>2. CASE stage[r] = 0
    <3>1. PICK d \in 0..MaxDt: newdt' = [newdt EXCEPT ![r] = d] /\ Post(r, "dt", d)
      BY <1>7, <2>2 DEF EndStage
    <3>2. d \in Nat /\ "dt" \in Ops
      BY MainLoopAssumption DEF Ops
    <3>3. calls' \in [Ranks -> Seq(Calls)] /\ newdt' \in Numbers
      BY <3>1, <3>2, PostType DEF Numbers
    <3>4. dtCall' \in Numbers
      <4>1. Last(r) + 1 \in Nat
        BY DEF Last
      <4> QED BY <1>7, <2>2, <4>1 DEF EndStage, Numbers
    <3> QED BY <1>7, <2>1, <2>2, <3>3, <3>4 DEF EndStage
  <2>3. CASE stage[r] # 0
    <3>1. t' \in Numbers
      <4>1. Combine(stage[r], t[r], t0[r]) \in Nat
        BY CombineType DEF Numbers
      <4> QED BY <1>7, <2>3, <4>1 DEF EndStage, Numbers
    <3> QED BY <1>7, <2>1, <2>3, <3>1 DEF EndStage
  <2> QED BY <2>2, <2>3
<1>P. \A n \in {0, 1}, op \in {"delay", "dump", "abort", "runtime"}:
        n \in Nat /\ op \in Ops
  BY DEF Ops
<1>8. CASE ClockDump(r) /\ UNCHANGED <<killed, alone>>
  BY <1>8, <1>P, PostType DEF ClockDump, PostAbort, Labels
<1>9. CASE WriteDump(r) /\ UNCHANGED <<killed, alone>>
  BY <1>9, <1>P, PostType DEF WriteDump, PostAbort, Labels
<1>10. CASE CheckForAbort(r) /\ UNCHANGED <<killed, alone>>
  BY <1>10, <1>P, PostType DEF CheckForAbort, PostLastDump, NextCycle, Labels
<1>11. CASE CheckForMaxRuntime(r) /\ UNCHANGED <<killed, alone>>
  BY <1>11, <1>P, PostType DEF CheckForMaxRuntime, PostLastDump, NextCycle, Labels
<1>12. CASE Interrupted(r) /\ UNCHANGED <<killed, alone>>
  BY <1>12 DEF Interrupted, Labels
<1>13. CASE EmergencyVtk(r) /\ UNCHANGED <<killed, alone>>
  BY <1>13 DEF EmergencyVtk, Labels
<1>14. CASE Step(r) /\ EndCycle(r) /\ alone' = alone
  <2> DEFINE next == IF Reduced(r) > Growth * dt[r] THEN Growth * dt[r] ELSE Reduced(r)
  <2>1. Reduced(r) \in Nat
    <3>1. dtCall[r] \in Nat /\ dtCall[r] > 0
      BY <1>14, <1>K DEF EndCycle, Awaits, Numbers
    <3>2. \A q \in Ranks: Len(calls[q]) >= dtCall[r]
      BY <1>14 DEF EndCycle, Complete, HasPosted
    <3>3. \A q \in Ranks: dtCall[r] \in 1..Len(calls[q])
      BY <3>1, <3>2
    <3> QED BY <3>1, <3>3, ReducedType DEF Reduced
  <2>2. next \in Nat
    <3>1. Growth \in Nat /\ dt[r] \in Nat
      BY MainLoopAssumption DEF Numbers
    <3>2. Growth * dt[r] \in Nat
      BY <3>1
    <3> QED BY <2>1, <3>2
  <2>3. t0[r] + dt[r] \in Nat /\ ncycles[r] + 1 \in Nat
    BY DEF Numbers
  <2>4. t' = [t EXCEPT ![r] = t0[r] + dt[r]] /\ dtCall' = [dtCall EXCEPT ![r] = 0]
        /\ newdt' = [newdt EXCEPT ![r] = Reduced(r)]
        /\ UNCHANGED <<t0, stage, sent, signalled, code, alone>>
    BY <1>14 DEF EndCycle
  <2>5. t' \in Numbers /\ dtCall' \in Numbers /\ newdt' \in Numbers
    BY <2>1, <2>3, <2>4 DEF Numbers
  <2>6. CASE killed' = TRUE /\ UNCHANGED <<pc, dt, ncycles, calls, inVtk>>
    BY <2>4, <2>5, <2>6
  <2>7. CASE dt' = [dt EXCEPT ![r] = next] /\ killed' = killed
             /\ Throw(r) /\ ncycles' = ncycles
    BY <2>2, <2>4, <2>5, <2>7, ThrowType DEF Numbers
  <2>8. CASE dt' = [dt EXCEPT ![r] = next] /\ killed' = killed
             /\ ncycles' = [ncycles EXCEPT ![r] = @ + 1] /\ inVtk' = inVtk
             /\ (\/ Goto(r, "clock") /\ \E late \in {0, 1}: Post(r, "delay", late)
                 \/ PostAbort(r))
    <3>1. calls' \in [Ranks -> Seq(Calls)] /\ pc' \in [Ranks -> Labels]
      BY <2>8, <1>P, PostType DEF PostAbort, Labels
    <3>2. dt' \in Numbers /\ ncycles' \in Numbers
      BY <2>2, <2>3, <2>8 DEF Numbers
    <3> QED BY <2>4, <2>5, <2>8, <3>1, <3>2
  <2> QED BY <1>14, <2>6, <2>7, <2>8 DEF EndCycle
<1>15. CASE CheckSync(r) /\ alone' = alone
  BY <1>15 DEF CheckSync, Labels
<1>16. CASE SyncTimeout(r) /\ alone' = alone
  BY <1>16 DEF SyncTimeout
<1> QED
  BY <1>1, <1>2, <1>3, <1>4, <1>5, <1>6, <1>7, <1>8, <1>9, <1>10, <1>11, <1>12, <1>13,
     <1>14, <1>15, <1>16 DEF Step

\* A step of one process leaves the state of the others alone.
Untouched(q) ==
  /\ pc'[q] = pc[q] /\ t'[q] = t[q] /\ t0'[q] = t0[q] /\ dt'[q] = dt[q]
  /\ stage'[q] = stage[q] /\ ncycles'[q] = ncycles[q] /\ calls'[q] = calls[q]
  /\ dtCall'[q] = dtCall[q] /\ code'[q] = code[q]

LEMMA Frame ==
  ASSUME TypeOK, NEW r \in Ranks, Step(r) \/ Signal(r), NEW q \in Ranks, q # r
  PROVE  Untouched(q)
<1> USE DEF TypeOK, Numbers, Untouched, Goto, Post
<1>A. Throw(r) => pc'[q] = pc[q] /\ calls'[q] = calls[q]
  BY DEF Throw
<1>1. CASE Signal(r) \/ User(r) \/ Evolve(r)
  BY <1>1, <1>A DEF Signal, User, Evolve
<1>2. CASE DivB(r) \/ CheckNan(r)
  BY <1>2, <1>A DEF DivB, CheckNan
<1>6. CASE Top(r)
  <2>1. \A b \in Bad: PostLog(r, b) => calls'[q] = calls[q]
    BY DEF PostLog
  <2> QED BY <1>6, <2>1 DEF Top
<1>3. CASE EndStage(r) \/ ClockDump(r) \/ WriteDump(r)
  BY <1>3 DEF EndStage, ClockDump, WriteDump, PostAbort
<1>4. CASE CheckForAbort(r) \/ CheckForMaxRuntime(r) \/ Interrupted(r) \/ EmergencyVtk(r)
  BY <1>4 DEF CheckForAbort, CheckForMaxRuntime, Interrupted, EmergencyVtk, PostLastDump,
     NextCycle
<1>5. CASE CheckSync(r) \/ SyncTimeout(r)
  BY <1>5 DEF CheckSync, SyncTimeout
<1>7. CASE EndCycle(r)
  <2> DEFINE next == IF Reduced(r) > Growth * dt[r] THEN Growth * dt[r] ELSE Reduced(r)
  <2>1. /\ t' = [t EXCEPT ![r] = t0[r] + dt[r]] /\ dtCall' = [dtCall EXCEPT ![r] = 0]
        /\ UNCHANGED <<t0, stage, code>>
    BY <1>7 DEF EndCycle
  <2>2. \/ UNCHANGED <<pc, dt, ncycles, calls>>
        \/ /\ dt' = [dt EXCEPT ![r] = next]
           /\ \/ Throw(r) /\ ncycles' = ncycles
              \/ /\ ncycles' = [ncycles EXCEPT ![r] = @ + 1]
                 /\ \/ Goto(r, "clock") /\ \E late \in {0, 1}: Post(r, "delay", late)
                    \/ PostAbort(r)
    BY <1>7 DEF EndCycle
  <2> HIDE DEF next
  <2> QED BY <1>A, <2>1, <2>2 DEF PostAbort
<1> QED
  BY <1>1, <1>2, <1>3, <1>4, <1>5, <1>6, <1>7 DEF Step

LEMMA AwaitsStep == TypeOK /\ Awaits /\ [Next]_vars => Awaits'
<1> SUFFICES ASSUME TypeOK, Awaits, [Next]_vars, NEW p \in Ranks, ~killed',
                    pc'[p] = "wait"
                      \/ (pc'[p] \in {"halo", "nan", "staged"} /\ stage'[p] > 0)
             PROVE  dtCall'[p] > 0
  BY DEF Awaits
<1>0. CASE UNCHANGED vars
  BY <1>0 DEF vars, Awaits
<1> SUFFICES ASSUME NEW r \in Ranks, Step(r) \/ Signal(r) PROVE dtCall'[p] > 0
  BY <1>0 DEF Next
<1>K. ~killed
  BY DEF Step, Signal
<1>1. CASE p # r
  BY <1>1, <1>K, Frame DEF Untouched, Awaits
<1> SUFFICES ASSUME p = r PROVE dtCall'[r] > 0
  BY <1>1
<1> USE <1>K DEF TypeOK, Awaits, Numbers, Goto, Throw
<1>2. CASE Signal(r) \/ User(r) \/ Evolve(r)
  BY <1>2 DEF Signal, User, Evolve
<1>3. CASE Top(r) \/ DivB(r) \/ CheckNan(r)
  BY <1>3 DEF Top, DivB, CheckNan
<1>4. CASE EndStage(r)
  <2>1. CASE stage[r] = 0
    <3>1. dtCall'[r] = Last(r) + 1 /\ Last(r) \in Nat
      BY <1>4, <2>1 DEF EndStage, Last
    <3> QED BY <3>1
  <2>2. CASE stage[r] # 0
    BY <1>4, <2>2 DEF EndStage
  <2> QED BY <2>1, <2>2
<1>5. CASE ClockDump(r) \/ WriteDump(r) \/ CheckForAbort(r) \/ CheckForMaxRuntime(r)
  BY <1>5 DEF ClockDump, WriteDump, CheckForAbort, CheckForMaxRuntime, PostAbort,
     PostLastDump, NextCycle
<1>6. CASE Interrupted(r) \/ EmergencyVtk(r) \/ CheckSync(r) \/ SyncTimeout(r)
  BY <1>6 DEF Interrupted, EmergencyVtk, CheckSync, SyncTimeout
<1>7. CASE EndCycle(r)
  BY <1>7 DEF EndCycle, PostAbort
<1> QED
  BY <1>2, <1>3, <1>4, <1>5, <1>6, <1>7 DEF Step

\* The variables have their types, in every run.
THEOREM Types == Spec => [](TypeOK /\ Awaits)
<1>1. Init => TypeOK /\ Awaits
  <2>1. FirstDt \in Nat
    BY MainLoopAssumption
  <2>2. <<>> \in Seq(Calls)
    OBVIOUS
  <2>3. ASSUME Init PROVE TypeOK
    <3>1. /\ pc \in [Ranks -> Labels] /\ inVtk \subseteq Ranks
          /\ signalled \in [Ranks -> BOOLEAN] /\ killed \in BOOLEAN /\ alone \in BOOLEAN
      BY <2>3 DEF Init, Labels
    <3>2. code \in [Ranks -> {-1, 0, 1}]
      BY <2>3 DEF Init
    <3>3. calls \in [Ranks -> Seq(Calls)]
      BY <2>2, <2>3 DEF Init
    <3> QED BY <2>1, <2>3, <3>1, <3>2, <3>3 DEF Init, TypeOK, Numbers
  <2>4. Init => Awaits
    BY DEF Init, Awaits
  <2> QED BY <2>3, <2>4
<1> QED BY <1>1, TypeStep, AwaitsStep, PTL DEF Spec
-----------------------------------------------------------------------------
(* Answers do not change *)

\* Calls are only added.
Grown ==
  \A q \in Ranks: /\ Len(calls'[q]) >= Len(calls[q])
                  /\ \A i \in 1..Len(calls[q]): calls'[q][i] = calls[q][i]

LEMMA PostedStable ==
  ASSUME TypeOK, TypeOK', Grown, NEW i \in Int, Posted(i)
  PROVE  Posted(i)' /\ Values(i)' = Values(i) /\ SumOf(i)' = SumOf(i)
<1>1. \A q \in Ranks: i \in 1..Len(calls[q]) /\ Len(calls'[q]) >= i
  BY DEF Posted, Last, Grown, TypeOK
<1>2. \A q \in Ranks: calls'[q][i] = calls[q][i]
  BY <1>1 DEF Grown
<1>3. Posted(i)'
  BY <1>1 DEF Posted, Last
<1>4. Values(i)' = Values(i)
  BY <1>2 DEF Values
<1>5. [q \in Ranks |-> calls'[q][i].val] = [q \in Ranks |-> calls[q][i].val]
  BY <1>2
<1>6. SumOf(i)' = SumOf(i)
  BY <1>5 DEF SumOf
<1> QED BY <1>3, <1>4, <1>6

LEMMA RootStable ==
  ASSUME TypeOK, TypeOK', Grown, NEW i \in Int, RootPosted(i)
  PROVE  RootPosted(i)' /\ FromRoot(i)' = FromRoot(i)
BY RanksType DEF RootPosted, Last, Grown, TypeOK, FromRoot

LEMMA LoopsStable ==
  ASSUME TypeOK, TypeOK', Grown, NEW m \in Nat, NEW v
  PROVE  /\ Loops(m, v) => Loops(m, v)'
         /\ Begins(m, v) => Begins(m, v)'
         /\ Over(m, v) => Over(m, v)'
<1>1. m - 1 \in Int
  OBVIOUS
<1>2. Loops(m, v) => Loops(m, v)'
  BY <1>1, RootStable DEF Loops
<1> QED BY <1>2 DEF Begins, Over, Exhausted

LEMMA StagesStable ==
  ASSUME TypeOK, TypeOK', Grown, NEW m \in Nat, NEW v
  PROVE  /\ FirstStage(m, v) => FirstStage(m, v)'
         /\ Clean(m) => Clean(m)'
         /\ InStages(m, v) => InStages(m, v)'
<1>1. m - 1 \in Int
  OBVIOUS
<1>2. FirstStage(m, v) => FirstStage(m, v)'
  BY <1>1, LoopsStable, PostedStable DEF FirstStage
<1>3. Clean(m) => Clean(m)'
  BY <1>1, PostedStable DEF Clean
<1> QED BY <1>2, <1>3 DEF InStages

LEMMA NextDtStable ==
  ASSUME TypeOK, TypeOK', Grown, NEW v \in View, Posted(v.call)
  PROVE  NextDt(v)' = NextDt(v) /\ NextCycleOf(v)' = NextCycleOf(v)
<1>1. Values(v.call)' = Values(v.call)
  BY PostedStable DEF View
<1>2. Reduction(v)' = Reduction(v)
  BY <1>1 DEF Reduction
<1>3. NextDt(v)' = NextDt(v)
  BY <1>2 DEF NextDt
<1> QED BY <1>3 DEF NextCycleOf

LEMMA FollowsStable ==
  ASSUME TypeOK, TypeOK', Grown, NEW m \in Nat, NEW v \in View, NEW w, Follows(m, v, w)
  PROVE  Follows(m, v, w)'
<1>1. m - 1 \in Int /\ v.call \in Int
  BY DEF View
<1> USE DEF Follows
<1>2. CASE Begins(m, v) /\ v.k % LogPeriod = 0
           /\ w = [v EXCEPT !.at = IF v.k >= LogPeriod THEN "gather" ELSE "divB"]
  BY <1>2, LoopsStable
<1>3. CASE v.at = "gather" /\ w = [v EXCEPT !.at = "divB"]
  BY <1>3
<1>4. CASE FirstStage(m, v) /\ w = IF v.k % NanPeriod = 0
             THEN [v EXCEPT !.at = "nan", !.stage = 0] ELSE Reduces(m, v)
  BY <1>4, StagesStable DEF Reduces
<1>5. CASE v.at = "nan" /\ v.stage = 0 /\ Clean(m) /\ w = Reduces(m, v)
  BY <1>5, StagesStable DEF Reduces
<1>6. CASE InStages(m, v) /\ ~EndsCycle(v)
           /\ w = [v EXCEPT !.at = "nan", !.stage = @ + 1]
  BY <1>6, StagesStable DEF EndsCycle
<1>7. CASE InStages(m, v) /\ EndsCycle(v) /\ Posted(v.call) /\ ~(NextDt(v) < DtMin)
           /\ w = NextCycleOf(v)
  BY <1>1, <1>7, StagesStable, PostedStable, NextDtStable DEF EndsCycle
<1>8. CASE v.at = "clock" /\ RootPosted(m - 1)
           /\ w = [v EXCEPT !.at = IF FromRoot(m - 1) = 1 THEN "dump" ELSE "abort"]
  BY <1>1, <1>8, RootStable
<1>9. CASE v.at = "dump" /\ w = [v EXCEPT !.at = "abort"]
  BY <1>9
<1>10. CASE v.at \in {"abort", "runtime"} /\ RootPosted(m - 1) /\ FromRoot(m - 1) = 1
           /\ w = [v EXCEPT !.at = "lastDump"]
  BY <1>1, <1>10, RootStable
<1>11. CASE v.at = "abort" /\ RootPosted(m - 1) /\ FromRoot(m - 1) = 0 /\ MaxRuntime
           /\ w = [v EXCEPT !.at = "runtime"]
  BY <1>1, <1>11, RootStable
<1> QED BY <1>2, <1>3, <1>4, <1>5, <1>6, <1>7, <1>8, <1>9, <1>10, <1>11

LEMMA ThrowsStable ==
  ASSUME TypeOK, TypeOK', Grown, NEW m \in Nat, NEW v \in View, Throws(m, v)
  PROVE  Throws(m, v)'
<1>1. m - 1 \in Int /\ v.call \in Int
  BY DEF View
<1>2. CASE v.at = "divB" /\ Posted(m - 1) /\ 1 \in Values(m - 1)
  BY <1>1, <1>2, PostedStable DEF Throws
<1>3. CASE v.at = "nan" /\ Posted(m - 1) /\ SumOf(m - 1) > 0
  BY <1>1, <1>3, PostedStable DEF Throws
<1>4. CASE InStages(m, v) /\ EndsCycle(v) /\ Posted(v.call) /\ NextDt(v) < DtMin
  BY <1>1, <1>4, StagesStable, PostedStable, NextDtStable DEF Throws, EndsCycle
<1> QED BY <1>2, <1>3, <1>4 DEF Throws
-----------------------------------------------------------------------------
(* The schedule *)

\* What follows an entry is determined, and no process throws where it goes on.
LEMMA OneFollows ==
  ASSUME NEW m \in Nat, NEW v \in View, NEW w \in View, NEW x \in View,
         Follows(m, v, w), Follows(m, v, x)
  PROVE  w = x
BY DEF Follows, Begins, FirstStage, Loops, InStages

LEMMA FollowsOrThrows ==
  ASSUME NEW m \in Nat, NEW v \in View, NEW w, Follows(m, v, w)
  PROVE  ~Throws(m, v) /\ ~Over(m, v)
<1>1. v.t \in Int /\ Tstop \in Int
  BY MainLoopAssumption DEF View
<1>2. ~Over(m, v)
  BY <1>1 DEF Follows, Over, Begins, FirstStage, Loops, InStages
<1>3. ~Throws(m, v)
  BY DEF Follows, Begins, FirstStage, Loops, InStages, Throws, Clean, EndsCycle
<1> QED BY <1>2, <1>3

LEMMA CyclesInOrder ==
  ASSUME NEW m \in Nat, NEW v \in View, NEW w, Follows(m, v, w)
  PROVE  v.k <= w.k /\ (v.k = w.k => w.t = v.t /\ w.dt = v.dt)
<1>1. CASE w = NextCycleOf(v)
  BY <1>1 DEF NextCycleOf, View
<1>2. CASE w.k = v.k /\ w.t = v.t /\ w.dt = v.dt
  BY <1>2 DEF View
<1>3. w = NextCycleOf(v) \/ (w.k = v.k /\ w.t = v.t /\ w.dt = v.dt)
  BY DEF Follows, Reduces, View
<1> QED BY <1>1, <1>2, <1>3

Extends(log2, log) ==
  DOMAIN log \subseteq DOMAIN log2 /\ \A i \in DOMAIN log: log2[i] = log[i]

\* A process that goes on from an entry finds the next one, or adds it.
LEMMA NextEntry ==
  ASSUME NEW log, IsSchedule(log), NEW m \in DOMAIN log, NEW w \in View,
         Follows(m, log[m], w)
  PROVE  \E log2: /\ IsSchedule(log2) /\ Extends(log2, log)
                  /\ m + 1 \in DOMAIN log2 /\ log2[m + 1] = w
<1>1. log \in Seq(View) /\ log # <<>> /\ log[1] = Start /\ DOMAIN log = 1..Len(log)
  BY DEF IsSchedule
<1>2. CASE m < Len(log)
  <2>1. m \in 1..(Len(log) - 1) /\ m + 1 \in DOMAIN log /\ m \in Nat
    BY <1>1, <1>2
  <2>2. log[m] \in View /\ log[m + 1] \in View
    BY <1>1, <2>1
  <2>3. Follows(m, log[m], log[m + 1])
    BY <2>1 DEF IsSchedule
  <2>4. log[m + 1] = w
    BY <2>1, <2>2, <2>3, OneFollows
  <2> QED BY <2>1, <2>4 DEF Extends
<1>3. CASE m >= Len(log)
  <2> DEFINE log2 == Append(log, w)
             n == Len(log)
  <2>1. m = n /\ n \in Nat /\ n > 0 /\ 1 \in DOMAIN log
    BY <1>1, <1>3
  <2>2. /\ log2 \in Seq(View) /\ Len(log2) = n + 1 /\ DOMAIN log2 = 1..(n + 1)
        /\ log2[n + 1] = w /\ \A i \in 1..n: log2[i] = log[i]
    BY <1>1, <2>1
  <2>3. log2 # <<>> /\ log2[1] = Start
    BY <1>1, <2>1, <2>2
  <2> HIDE DEF log2, n
  <2>4. ASSUME NEW i \in 1..(Len(log2) - 1) PROVE Follows(i, log2[i], log2[i + 1])
    <3>1. CASE i = n
      BY <2>1, <2>2, <3>1
    <3>2. CASE i \in 1..(n - 1)
      <4>1. i \in 1..n /\ i + 1 \in 1..n /\ Follows(i, log[i], log[i + 1])
        BY <2>1, <3>2 DEF IsSchedule, n
      <4> QED BY <2>2, <4>1
    <3> QED BY <2>1, <2>2, <3>1, <3>2
  <2>5. ASSUME NEW i \in DOMAIN log2, NEW j \in DOMAIN log2, i <= j
        PROVE  /\ log2[i].k <= log2[j].k
               /\ log2[i].k = log2[j].k => log2[i].t = log2[j].t /\ log2[i].dt = log2[j].dt
    <3>1. CASE j \in 1..n
      <4>1. i \in DOMAIN log /\ j \in DOMAIN log
        BY <1>1, <2>2, <2>5, <3>1 DEF n
      <4> QED BY <1>1, <2>2, <2>5, <4>1 DEF IsSchedule, n
    <3>2. CASE i = n + 1
      <4>1. i = j /\ log2[i].k \in Int
        BY <2>1, <2>2, <2>5, <3>2 DEF View
      <4> QED BY <4>1
    <3>3. CASE i \in 1..n /\ j = n + 1
      <4>1. n \in Nat /\ log[n] \in View /\ log[i] \in View /\ n \in DOMAIN log
            /\ i \in DOMAIN log /\ i <= n
        BY <1>1, <2>1, <3>3 DEF n
      <4>2. log[n].k <= w.k /\ (log[n].k = w.k => w.t = log[n].t /\ w.dt = log[n].dt)
        BY <2>1, <4>1, CyclesInOrder
      <4>3. /\ log[i].k <= log[n].k
            /\ log[i].k = log[n].k => log[i].t = log[n].t /\ log[i].dt = log[n].dt
        BY <4>1 DEF IsSchedule
      <4>4. log[i].k \in Int /\ log[n].k \in Int /\ w.k \in Int
        BY <4>1 DEF View
      <4>5. log2[i] = log[i] /\ log2[j] = w
        BY <2>2, <3>3
      <4> QED BY <4>2, <4>3, <4>4, <4>5
    <3> QED BY <2>1, <2>2, <3>1, <3>2, <3>3
  <2>6. IsSchedule(log2)
    BY <2>2, <2>3, <2>4, <2>5 DEF IsSchedule
  <2>7. Extends(log2, log)
    BY <1>1, <2>1, <2>2 DEF Extends, n
  <2> QED BY <2>1, <2>2, <2>6, <2>7
<1> QED BY <1>1, <1>2, <1>3

LEMMA ScheduleStable ==
  ASSUME TypeOK, TypeOK', Grown, NEW log, IsSchedule(log)
  PROVE  IsSchedule(log)'
<1>1. ASSUME NEW m \in 1..(Len(log) - 1) PROVE Follows(m, log[m], log[m + 1])'
  <2>1. m \in Nat /\ log[m] \in View /\ Follows(m, log[m], log[m + 1])
    BY DEF IsSchedule
  <2> QED BY <2>1, FollowsStable
<1> QED BY <1>1 DEF IsSchedule
-----------------------------------------------------------------------------
(* The processes on the schedule *)

\* Where a process is on the log.
LEMMA SeenType ==
  ASSUME TypeOK, NEW log, IsSchedule(log), NEW r \in Ranks, OnLog(r, log)
  PROVE  Seen(r) \in DOMAIN log /\ Seen(r) \in Nat /\ Seen(r) > 0 /\ log[Seen(r)] \in View
         /\ Last(r) \in Nat
<1>1. Last(r) \in Nat /\ log \in Seq(View) /\ log # <<>> /\ DOMAIN log = 1..Len(log)
  BY DEF TypeOK, Last, IsSchedule
<1>2. CASE Last(r) = 0
  BY <1>1, <1>2 DEF Seen, Synced
<1>3. CASE Last(r) > 0
  <2>1. Last(r) \in 1..Last(r)
    BY <1>1, <1>3
  <2> QED BY <1>1, <1>3, <2>1 DEF OnLog, Seen, Synced
<1> QED BY <1>1, <1>2, <1>3

\* A process that does nothing stays on a log that grows.
LEMMA OthersOnLog ==
  ASSUME TypeOK, TypeOK', Grown, alone => alone', killed => killed',
         NEW log, IsSchedule(log), NEW log2, Extends(log2, log),
         NEW q \in Ranks, Untouched(q), OnLog(q, log), Local(q, Seen(q), log[Seen(q)])
  PROVE  OnLog(q, log2)' /\ Local(q, Seen(q), log2[Seen(q)])'
<1>1. Last(q)' = Last(q) /\ Synced(q)' = Synced(q) /\ Seen(q)' = Seen(q)
      /\ Caught(q)' = Caught(q)
  BY DEF Untouched, Last, Synced, Seen, Caught
<1>2. Seen(q) \in DOMAIN log /\ Seen(q) \in Nat /\ log[Seen(q)] \in View
  BY SeenType
<1>3. log2[Seen(q)] = log[Seen(q)]
  BY <1>2 DEF Extends
<1>4. ASSUME NEW m \in Nat, NEW v \in View, Local(q, m, v) PROVE Local(q, m, v)'
  <2>1. EndsCycle(v)' = EndsCycle(v)
    BY DEF EndsCycle
  <2>2. Pending(q, v) => Pending(q, v)'
    BY DEF Pending, Untouched
  <2>3. InStep(q, v)' = InStep(q, v) /\ Between(q, v)' = Between(q, v)
    BY DEF InStep, Between, Untouched, Cut
  <2> QED
    BY <1>1, <1>4, <2>1, <2>2, <2>3, LoopsStable, StagesStable DEF Local, Untouched
<1>5. Local(q, Seen(q), log2[Seen(q)])'
  BY <1>1, <1>2, <1>3, <1>4
<1>6. OnLog(q, log2)'
  <2> SUFFICES ASSUME NEW i \in 1..Last(q)
               PROVE  IF calls[q][i].op = "sync"
                        THEN /\ i = Last(q) /\ i \in DOMAIN log2
                             /\ ~alone' => Throws(i, log2[i])'
                        ELSE i + 1 \in DOMAIN log2 /\ calls[q][i].op = Op(log2[i + 1].at)
    BY <1>1 DEF OnLog, Untouched
  <2>1. CASE calls[q][i].op = "sync"
    <3>1. i = Last(q) /\ i \in DOMAIN log /\ (~alone => Throws(i, log[i]))
      BY <2>1 DEF OnLog
    <3>2. i \in Nat /\ log[i] \in View /\ log2[i] = log[i] /\ i \in DOMAIN log2
      BY <3>1 DEF IsSchedule, Extends
    <3>3. ~alone' => Throws(i, log[i])'
      BY <3>1, <3>2, ThrowsStable
    <3> QED BY <2>1, <3>1, <3>2, <3>3
  <2>2. CASE calls[q][i].op # "sync"
    BY <2>2 DEF OnLog, Extends
  <2> QED BY <2>1, <2>2
<1> QED BY <1>5, <1>6

LEMMA PostLast ==
  ASSUME TypeOK, NEW r \in Ranks, NEW op, NEW val, Post(r, op, val)
  PROVE  /\ Last(r) \in Nat /\ calls'[r] = Append(calls[r], [op |-> op, val |-> val])
         /\ Last(r)' = Last(r) + 1 /\ calls'[r][Last(r) + 1] = [op |-> op, val |-> val]
         /\ Synced(r)' <=> op = "sync"
<1>1. calls[r] \in Seq(Calls) /\ Last(r) = Len(calls[r]) /\ Last(r) \in Nat
      /\ Last(r)' = Len(calls'[r])
  BY DEF TypeOK, Last
<1>2. calls'[r] = Append(calls[r], [op |-> op, val |-> val])
  BY DEF TypeOK, Post
<1> DEFINE c == [op |-> op, val |-> val]
<1>3. c.op = op
  OBVIOUS
<1> HIDE DEF c
<1>4. Len(Append(calls[r], c)) = Len(calls[r]) + 1
      /\ Append(calls[r], c)[Len(calls[r]) + 1] = c
  BY <1>1
<1>5. Last(r)' = Last(r) + 1 /\ calls'[r][Last(r) + 1] = c
  BY <1>1, <1>2, <1>4 DEF c
<1>6. Synced(r)' <=> op = "sync"
  BY <1>1, <1>3, <1>5 DEF Synced
<1> QED BY <1>1, <1>2, <1>5, <1>6 DEF c

LEMMA Grows ==
  ASSUME TypeOK, NEW r \in Ranks, Step(r) \/ Signal(r)
  PROVE  Grown
<1> USE DEF TypeOK
<1>1. CASE calls' = calls
  BY <1>1 DEF Grown
<1>2. \A op, val: Post(r, op, val) => Grown
  <2> SUFFICES ASSUME NEW op, NEW val, Post(r, op, val) PROVE Grown
    OBVIOUS
  <2> DEFINE c == [op |-> op, val |-> val]
  <2>1. calls' = [calls EXCEPT ![r] = Append(@, c)]
    BY DEF Post
  <2> HIDE DEF c
  <2>2. Len(Append(calls[r], c)) >= Len(calls[r])
        /\ \A i \in 1..Len(calls[r]): Append(calls[r], c)[i] = calls[r][i]
    OBVIOUS
  <2>3. \A q \in Ranks: calls'[q] = IF q = r THEN Append(calls[r], c) ELSE calls[q]
    BY <2>1
  <2>4. ASSUME NEW q \in Ranks
        PROVE  /\ Len(calls'[q]) >= Len(calls[q])
               /\ \A i \in 1..Len(calls[q]): calls'[q][i] = calls[q][i]
    <3>1. CASE q = r
      BY <2>2, <2>3, <3>1
    <3>2. CASE q # r
      BY <2>3, <3>2
    <3> QED BY <3>1, <3>2
  <2> QED BY <2>4 DEF Grown
<1>3. \A b \in Bad: PostLog(r, b) => Grown
  <2> SUFFICES ASSUME NEW b \in Bad, PostLog(r, b) PROVE Grown
    OBVIOUS
  <2> DEFINE gather == [op |-> "gather", val |-> 0]
             divB == [op |-> "divB", val |-> b]
             shown == IF ncycles[r] >= LogPeriod THEN Append(calls[r], gather) ELSE calls[r]
             new == Append(shown, divB)
  <2>1. \A q \in Ranks: calls'[q] = IF q = r THEN new ELSE calls[q]
    BY DEF PostLog
  <2>2. divB \in Calls /\ gather \in Calls /\ calls[r] \in Seq(Calls)
    BY MainLoopAssumption DEF Calls, Ops
  <2>3. Len(new) >= Len(calls[r]) /\ \A i \in 1..Len(calls[r]): new[i] = calls[r][i]
    <3> HIDE DEF divB, gather
    <3> QED BY <2>2
  <2> HIDE DEF new
  <2>4. ASSUME NEW q \in Ranks
        PROVE  /\ Len(calls'[q]) >= Len(calls[q])
               /\ \A i \in 1..Len(calls[q]): calls'[q][i] = calls[q][i]
    <3>1. CASE q = r
      BY <2>1, <2>3, <3>1
    <3>2. CASE q # r
      BY <2>1, <3>2
    <3> QED BY <3>1, <3>2
  <2> QED BY <2>4 DEF Grown
<1>4. CASE \E op, val: Post(r, op, val)
  BY <1>2, <1>4
<1>5. CASE \E b \in Bad: PostLog(r, b)
  BY <1>3, <1>5
<1>6. Throw(r) => calls' = calls \/ \E op, val: Post(r, op, val)
  BY DEF Throw
<1>7. calls' = calls \/ (\E op, val: Post(r, op, val)) \/ \E b \in Bad: PostLog(r, b)
  <2>1. CASE Signal(r) \/ User(r) \/ Evolve(r) \/ DivB(r) \/ CheckNan(r) \/ Top(r)
    BY <1>6, <2>1 DEF Signal, User, Evolve, DivB, CheckNan, Top
  <2>2. CASE EndStage(r) \/ ClockDump(r) \/ WriteDump(r) \/ CheckForAbort(r)
             \/ CheckForMaxRuntime(r) \/ Interrupted(r) \/ EmergencyVtk(r)
             \/ CheckSync(r) \/ SyncTimeout(r)
    BY <2>2 DEF EndStage, ClockDump, WriteDump, CheckForAbort, CheckForMaxRuntime,
       Interrupted, EmergencyVtk, CheckSync, SyncTimeout, PostAbort, PostLastDump, NextCycle
  <2>3. CASE EndCycle(r)
    BY <1>6, <2>3 DEF EndCycle, PostAbort
  <2> QED BY <2>1, <2>2, <2>3 DEF Step
<1> QED BY <1>1, <1>4, <1>5, <1>7

\* What a step of process r, at the m-th entry v, does: it posts nothing; it
\* posts the call (or the two calls) the log has next; or that of CheckSync.
Silent(r, m, v) == calls'[r] = calls[r] /\ Local(r, m, v)'
GoesOn(r, m, v) ==
  \E w \in View, c \in Calls:
    /\ Follows(m, v, w) /\ c.op = Op(w.at) /\ c.op # "sync"
    /\ calls'[r] = Append(calls[r], c) /\ Local(r, m + 1, w)'
GoesTwice(r, m, v) ==
  \E w, x \in View, c, d \in Calls:
    /\ Follows(m, v, w) /\ Follows(m + 1, w, x)
    /\ c.op = Op(w.at) /\ c.op # "sync" /\ d.op = Op(x.at) /\ d.op # "sync"
    /\ calls'[r] = Append(Append(calls[r], c), d) /\ Local(r, m + 2, x)'
Syncs(r, m, v) ==
  \E c \in Calls: /\ c.op = "sync" /\ calls'[r] = Append(calls[r], c)
                  /\ ~alone' => Throws(m, v)
                  /\ Local(r, m, v)'

LEMMA Throwing ==
  ASSUME TypeOK, NEW r \in Ranks, NEW m \in Nat, NEW v \in View,
         Local(r, m, v), Throw(r), pc[r] # "ended",
         ~alone' => Throws(m, v), t0[r] = v.t, ncycles[r] = v.k, t0'[r] = t0[r],
         ncycles'[r] = ncycles[r], stage'[r] = stage[r], code'[r] = code[r]
  PROVE  Silent(r, m, v) \/ Syncs(r, m, v)
<1>1. code'[r] = 0 /\ stage'[r] < NStages
  BY DEF Local, TypeOK
<1>2. CASE N = 1
  <2>1. calls' = calls /\ pc'[r] = "vtk"
    BY <1>2 DEF Throw, Goto, TypeOK
  <2>2. Local(r, m, v)'
    BY <1>1, <1>2, <2>1 DEF Local, Caught
  <2> QED BY <2>1, <2>2 DEF Silent
<1>3. CASE N # 1
  <2>1. pc'[r] = "sync" /\ Post(r, "sync", r)
    BY <1>3 DEF Throw, Goto, TypeOK
  <2>2. Synced(r)' /\ calls'[r] = Append(calls[r], [op |-> "sync", val |-> r])
    BY <2>1, PostLast
  <2>3. Local(r, m, v)'
    BY <1>1, <2>1, <2>2 DEF Local, Caught
  <2>4. [op |-> "sync", val |-> r] \in Calls
    BY RanksType DEF Calls, Ops
  <2> QED BY <2>2, <2>3, <2>4 DEF Syncs
<1> QED BY <1>2, <1>3

LEMMA Posting ==
  ASSUME TypeOK, NEW r \in Ranks, NEW m \in Nat, NEW v \in View, NEW w \in View,
         Follows(m, v, w), NEW op \in Ops \ {"sync"}, NEW val \in Nat, Post(r, op, val),
         op = Op(w.at), Local(r, m + 1, w)'
  PROVE  GoesOn(r, m, v)
<1>1. [op |-> op, val |-> val] \in Calls
  BY DEF Calls
<1>2. calls'[r] = Append(calls[r], [op |-> op, val |-> val])
  BY PostLast
<1> QED BY <1>1, <1>2 DEF GoesOn

\* Every step is one of those.
LEMMA Acting ==
  ASSUME TypeOK, TypeOK', Awaits, Grown, NEW r \in Ranks, Step(r) \/ Signal(r),
         NEW m \in Nat, NEW v \in View, Local(r, m, v), m = Seen(r),
         m = 1 => v.at = "top"
  PROVE  Silent(r, m, v) \/ GoesOn(r, m, v) \/ GoesTwice(r, m, v) \/ Syncs(r, m, v)
<1>K. ~killed
  BY DEF Step, Signal
<1>T. /\ pc \in [Ranks -> Labels] /\ t \in [Ranks -> Nat] /\ t0 \in [Ranks -> Nat]
      /\ dt \in [Ranks -> Nat] /\ stage \in [Ranks -> Nat] /\ ncycles \in [Ranks -> Nat]
      /\ dtCall \in [Ranks -> Nat] /\ code \in [Ranks -> {-1, 0, 1}]
      /\ calls \in [Ranks -> Seq(Calls)]
  BY DEF TypeOK, Numbers
<1>V. /\ v.at \in Places /\ v.k \in Nat /\ v.stage \in Nat /\ v.t \in Nat /\ v.dt \in Int
      /\ v.call \in Nat
  BY DEF View
<1>L. ~Caught(r) => ~Synced(r) /\ m = Last(r) + 1 /\ Last(r) \in Nat
  BY <1>T DEF Local, Seen, Last
<1>E. pc[r] # "ended" => code[r] = 0
  BY DEF Local
<1>S. stage[r] < NStages /\ NStages \in Nat /\ NStages > 0
  BY MainLoopAssumption DEF Local
\* The calls of all, or of the root, are posted where an answer came.
<1>C. ASSUME ~Caught(r), m # 1, Complete(r, Last(r)) PROVE Posted(m - 1)
  BY <1>L, <1>C DEF Complete, HasPosted, Posted, Last
<1>R. ASSUME ~Caught(r), m # 1, Received(r, Last(r)) PROVE RootPosted(m - 1)
  BY <1>L, <1>R DEF Received, HasPosted, RootPosted, Last
<1>1. CASE Signal(r)
  <2>1. UNCHANGED <<pc, t, t0, dt, stage, ncycles, calls, dtCall, code, killed>>
    BY <1>1 DEF Signal
  <2>2. Local(r, m, v)'
    BY <2>1, LoopsStable, StagesStable
       DEF Local, Caught, Synced, Last, InStep, Between, Pending, Exhausted, EndsCycle, Cut
  <2> QED BY <2>1, <2>2 DEF Silent
<1>2. CASE User(r)
  <2>1. pc[r] = "user" /\ InStep(r, v) /\ FirstStage(m, v)
    BY <1>2 DEF User, Local
  <2>2. CASE Goto(r, "halo") /\ SendHalo(r) /\ stage' = [stage EXCEPT ![r] = 0]
             /\ UNCHANGED <<calls, inVtk, alone>>
    <3>1. pc'[r] = "halo" /\ stage'[r] = 0 /\ code'[r] = 0 /\ InStep(r, v)'
          /\ Synced(r)' = Synced(r) /\ ~Caught(r)
      BY <1>2, <1>T, <1>E, <2>1, <2>2 DEF User, Goto, InStep, Synced, Last, Caught
    <3>2. Local(r, m, v)'
      BY <1>L, <1>S, <2>1, <3>1, StagesStable DEF Local, Caught
    <3> QED BY <2>2, <3>2 DEF Silent
  <2>3. CASE Throw(r) /\ alone' = TRUE /\ UNCHANGED <<stage, sent>>
    BY <1>2, <2>1, <2>3, Throwing DEF User, InStep
  <2> QED BY <1>2, <2>2, <2>3 DEF User
<1>3. CASE Evolve(r)
  <2>1. pc[r] = "halo" /\ InStep(r, v)
    BY <1>3 DEF Evolve, Local
  <2>2. CASE Throw(r) /\ alone' = TRUE /\ t' = t
    BY <1>3, <2>1, <2>2, Throwing DEF Evolve, InStep
  <2>3. CASE /\ t' = [t EXCEPT ![r] = @ + dt[r]] /\ UNCHANGED <<inVtk, alone>>
             /\ IF ncycles[r] % NanPeriod = 0
                  THEN Goto(r, "nan") /\ \E b \in Bad: Post(r, "nan", b)
                  ELSE Goto(r, "staged") /\ calls' = calls
    <3>1. /\ UNCHANGED <<t0, dt, stage, ncycles, dtCall, code>> /\ ~Caught(r)
          /\ InStep(r, v)' /\ (Pending(r, v) => dtCall[r] = v.call)
      BY <1>3, <1>K, <2>1 DEF Evolve, InStep, Caught, Pending
    <3>2. CASE v.k % NanPeriod = 0
      <4>1. pc'[r] = "nan"
        BY <1>T, <2>1, <2>3, <3>2 DEF Goto, InStep
      <4>2. PICK b \in Bad: Post(r, "nan", b)
        BY <2>1, <2>3, <3>2 DEF InStep
      <4>3. b \in Nat /\ "nan" \in Ops \ {"sync"}
        BY MainLoopAssumption DEF Ops
      <4>4. ~Synced(r)'
        <5>1. Synced(r)' <=> "nan" = "sync"
          BY <4>2, PostLast
        <5> QED BY <5>1
      <4>5. CASE stage[r] = 0
        <5> DEFINE w == [v EXCEPT !.at = "nan", !.stage = 0]
        <5>1. w \in View /\ w.at = "nan" /\ w.stage = 0 /\ w.k = v.k /\ w.t = v.t
              /\ w.dt = v.dt
          BY DEF View, Places
        <5>2. Follows(m, v, w)
          BY <2>1, <3>2, <4>5 DEF Follows, Local
        <5> HIDE DEF w
        <5>3. Local(r, m + 1, w)'
          BY <1>E, <1>S, <2>1, <3>1, <3>2, <4>1, <4>4, <4>5, <5>1
             DEF Local, Caught, InStep
        <5>4. "nan" = Op(w.at)
          BY <5>1 DEF Op
        <5> QED BY <4>2, <4>3, <5>1, <5>2, <5>3, <5>4, Posting
      <4>6. CASE stage[r] > 0
        <5> DEFINE w == [v EXCEPT !.at = "nan", !.stage = @ + 1]
        <5>1. /\ InStages(m, v) /\ v.stage = stage[r] - 1 /\ dtCall[r] = v.call
          BY <2>1, <3>1, <3>2, <4>6 DEF Local
        <5>2. ~EndsCycle(v)
          BY <1>S, <1>T, <1>V, <3>2, <4>6, <5>1 DEF EndsCycle
        <5>3. w \in View /\ w.at = "nan" /\ w.stage = stage[r] /\ w.k = v.k /\ w.t = v.t
              /\ w.dt = v.dt /\ w.call = v.call
          <6>1. v.stage + 1 = stage[r] /\ stage[r] \in Nat
            BY <1>T, <1>V, <5>1
          <6>2. w = [v EXCEPT !.at = "nan", !.stage = stage[r]]
            BY <6>1
          <6> HIDE DEF w
          <6> QED BY <6>1, <6>2 DEF View, Places
        <5>4. Follows(m, v, w)
          BY <5>1, <5>2 DEF Follows
        <5> HIDE DEF w
        <5>5. Local(r, m + 1, w)'
          BY <1>E, <1>S, <2>1, <3>1, <3>2, <4>1, <4>4, <4>6, <5>1, <5>3
             DEF Local, Caught, InStep, Pending
        <5>6. "nan" = Op(w.at)
          BY <5>3 DEF Op
        <5> QED BY <4>2, <4>3, <5>3, <5>4, <5>5, <5>6, Posting
      <4> QED BY <1>T, <4>5, <4>6
    <3>3. CASE v.k % NanPeriod # 0
      <4>1. pc'[r] = "staged" /\ calls' = calls
        BY <1>T, <2>1, <2>3, <3>3 DEF Goto, InStep
      <4>2. Synced(r)' = Synced(r)
        BY <4>1 DEF Synced, Last
      <4>3. stage[r] = 0 => FirstStage(m, v)'
        BY <2>1, StagesStable DEF Local
      <4>4. stage[r] > 0 => v.at = "dt" /\ Pending(r, v)'
        BY <1>K, <2>1, <3>1, <3>3 DEF Local, Pending
      <4>5. Local(r, m, v)'
        BY <1>E, <1>L, <1>S, <1>T, <2>1, <3>1, <3>3, <4>1, <4>2, <4>3, <4>4
           DEF Local, Caught
      <4> QED BY <4>1, <4>5 DEF Silent
    <3> QED BY <3>2, <3>3
  <2> QED BY <1>3, <2>2, <2>3 DEF Evolve
<1>4. CASE Top(r)
  <2>1. pc[r] = "top" /\ Between(r, v) /\ Loops(m, v) /\ ~Exhausted(v) /\ ~Caught(r)
    BY <1>4 DEF Top, Local, Caught
  <2>2. UNCHANGED <<t, stage, ncycles, dtCall, code>>
    BY <1>4 DEF Top
  <2>3. CASE t[r] >= Tstop
    <3>1. pc'[r] = "ended" /\ calls' = calls
      BY <1>4, <1>T, <2>3 DEF Top, Goto
    <3>2. Over(m, v)' /\ v.at # "lastDump"
      BY <2>1, <2>3, LoopsStable DEF Over, Loops, Between
    <3>3. Synced(r)' = Synced(r)
      BY <3>1 DEF Synced, Last
    <3>4. Local(r, m, v)'
      BY <1>E, <1>L, <1>S, <2>1, <2>2, <3>1, <3>2, <3>3 DEF Local, Caught, Between
    <3> QED BY <3>1, <3>4 DEF Silent
  <2>4. CASE ~(t[r] >= Tstop)
    <3>1. Begins(m, v)
      BY <1>V, <2>1, <2>4, MainLoopAssumption DEF Begins, Between
    <3>2. t0'[r] = v.t /\ dt'[r] = v.dt
      BY <1>4, <1>T, <2>1, <2>4 DEF Top, Between, Cut
    <3>3. InStep(r, v)'
      BY <2>1, <2>2, <3>2 DEF InStep, Between
    <3>4. CASE v.k % LogPeriod # 0
      <4>1. pc'[r] = "user" /\ calls' = calls
        BY <1>4, <1>T, <2>1, <2>4, <3>4 DEF Top, Goto, Between
      <4>2. FirstStage(m, v)'
        BY <3>1, <3>4, LoopsStable DEF FirstStage
      <4>3. Synced(r)' = Synced(r)
        BY <4>1 DEF Synced, Last
      <4>4. Local(r, m, v)'
        BY <1>E, <1>L, <1>S, <2>1, <2>2, <3>3, <4>1, <4>2, <4>3 DEF Local, Caught
      <4> QED BY <4>1, <4>4 DEF Silent
    <3>5. CASE v.k % LogPeriod = 0
      <4>1. pc'[r] = "divB" /\ \E b \in Bad: PostLog(r, b)
        BY <1>4, <1>T, <2>1, <2>4, <3>5 DEF Top, Goto, Between
      <4>2. PICK b \in Bad: PostLog(r, b)
        BY <4>1
      <4> DEFINE c == [op |-> "gather", val |-> 0]
                 d == [op |-> "divB", val |-> b]
                 w == [v EXCEPT !.at = "gather"]
                 x == [v EXCEPT !.at = "divB"]
      <4>3. c \in Calls /\ d \in Calls /\ c.op = "gather" /\ d.op = "divB"
        BY MainLoopAssumption DEF Calls, Ops
      <4>4. /\ w \in View /\ w.at = "gather" /\ w.k = v.k
            /\ x \in View /\ x.at = "divB" /\ x.t = v.t /\ x.dt = v.dt /\ x.k = v.k
            /\ x = [w EXCEPT !.at = "divB"]
        BY DEF View, Places
      <4>5. ASSUME NEW n \in Nat, ~Synced(r)' PROVE Local(r, n, x)'
        <5> HIDE DEF x
        <5> QED BY <1>E, <1>S, <2>1, <2>2, <3>3, <4>1, <4>4, <4>5 DEF Local, Caught, InStep
      <4>6. CASE v.k >= LogPeriod
        <5>1. calls'[r] = Append(Append(calls[r], c), d)
          BY <1>T, <2>1, <4>2, <4>6 DEF PostLog, Between
        <5>2. ~Synced(r)'
          <6> HIDE DEF c, d
          <6>1. Len(calls'[r]) = Len(calls[r]) + 2 /\ calls'[r][Len(calls[r]) + 2] = d
            BY <1>T, <4>3, <5>1
          <6> QED BY <1>T, <4>3, <6>1 DEF Synced, Last
        <5>3. Follows(m, v, w) /\ Follows(m + 1, w, x)
          BY <3>1, <3>5, <4>4, <4>6 DEF Follows
        <5>4. Op(w.at) = "gather" /\ Op(x.at) = "divB"
          BY <4>4 DEF Op
        <5> HIDE DEF c, d, w, x
        <5>5. Local(r, m + 2, x)'
          BY <4>5, <5>2
        <5> QED BY <4>3, <4>4, <5>1, <5>3, <5>4, <5>5 DEF GoesTwice
      <4>7. CASE ~(v.k >= LogPeriod)
        <5>1. calls'[r] = Append(calls[r], d)
          BY <1>T, <2>1, <4>2, <4>7 DEF PostLog, Between
        <5>2. ~Synced(r)'
          <6> HIDE DEF c, d
          <6>1. Len(calls'[r]) = Len(calls[r]) + 1 /\ calls'[r][Len(calls[r]) + 1] = d
            BY <1>T, <4>3, <5>1
          <6> QED BY <1>T, <4>3, <6>1 DEF Synced, Last
        <5>3. Follows(m, v, x)
          BY <3>1, <3>5, <4>7 DEF Follows
        <5>4. Op(x.at) = "divB"
          BY <4>4 DEF Op
        <5> HIDE DEF c, d, w, x
        <5>5. Local(r, m + 1, x)'
          BY <4>5, <5>2
        <5> QED BY <4>3, <4>4, <5>1, <5>3, <5>4, <5>5 DEF GoesOn
      <4> QED BY <4>6, <4>7
    <3> QED BY <3>4, <3>5
  <2> QED BY <2>3, <2>4
<1>5. CASE DivB(r)
  <2>1. pc[r] = "divB" /\ v.at = "divB" /\ InStep(r, v) /\ ~Caught(r) /\ m # 1
    BY <1>5 DEF DivB, Local, Caught
  <2>2. Posted(m - 1) /\ Last(r) = m - 1
    BY <1>5, <1>C, <1>L, <2>1 DEF DivB
  <2>3. UNCHANGED <<t0, dt, stage, ncycles, code>>
    BY <1>5 DEF DivB
  <2>4. CASE 1 \in Values(Last(r))
    <3>1. Throws(m, v) /\ Throw(r)
      BY <1>5, <2>1, <2>2, <2>4 DEF DivB, Throws
    <3> QED BY <2>1, <2>3, <3>1, Throwing DEF InStep
  <2>5. CASE 1 \notin Values(Last(r))
    <3>1. pc'[r] = "user" /\ calls' = calls
      BY <1>5, <1>T, <2>5 DEF DivB, Goto
    <3>2. FirstStage(m, v)
      BY <2>1, <2>2, <2>5 DEF FirstStage
    <3>3. FirstStage(m, v)' /\ InStep(r, v)' /\ Synced(r)' = Synced(r)
      BY <2>1, <2>3, <3>1, <3>2, StagesStable DEF InStep, Synced, Last
    <3>4. Local(r, m, v)'
      BY <1>E, <1>L, <1>S, <2>1, <2>3, <3>1, <3>3 DEF Local, Caught
    <3> QED BY <3>1, <3>4 DEF Silent
  <2> QED BY <2>4, <2>5
<1>6. CASE CheckNan(r)
  <2>1. pc[r] = "nan" /\ v.at = "nan" /\ v.stage = stage[r] /\ InStep(r, v) /\ ~Caught(r)
        /\ m # 1 /\ (stage[r] > 0 => Pending(r, v)) /\ v.k % NanPeriod = 0
    BY <1>6 DEF CheckNan, Local, Caught
  <2>2. Posted(m - 1) /\ Last(r) = m - 1
    BY <1>6, <1>C, <1>L, <2>1 DEF CheckNan
  <2>3. UNCHANGED <<t0, dt, stage, ncycles, dtCall, code>>
    BY <1>6 DEF CheckNan
  <2>4. CASE SumOf(Last(r)) > 0
    <3>1. Throws(m, v) /\ Throw(r)
      BY <1>6, <2>1, <2>2, <2>4 DEF CheckNan, Throws
    <3> QED BY <2>1, <2>3, <3>1, Throwing DEF InStep
  <2>5. CASE ~(SumOf(Last(r)) > 0)
    <3>1. pc'[r] = "staged" /\ calls' = calls
      BY <1>6, <1>T, <2>5 DEF CheckNan, Goto
    <3>2. Clean(m)
      BY <2>1, <2>2, <2>5 DEF Clean
    <3>3. Clean(m)' /\ InStep(r, v)' /\ Synced(r)' = Synced(r)
          /\ (Pending(r, v) => Pending(r, v)')
      BY <1>K, <2>1, <2>3, <3>1, <3>2, StagesStable DEF InStep, Synced, Last, Pending
    <3>4. Local(r, m, v)'
      BY <1>E, <1>L, <1>S, <2>1, <2>3, <3>1, <3>3 DEF Local, Caught
    <3> QED BY <3>1, <3>4 DEF Silent
  <2> QED BY <2>4, <2>5
<1>7. CASE EndStage(r)
  <2>1. pc[r] = "staged" /\ InStep(r, v) /\ ~Caught(r)
    BY <1>7 DEF EndStage, Local, Caught
  <2>2. UNCHANGED <<t0, dt, ncycles, code>>
    BY <1>7 DEF EndStage
  <2>3. /\ stage[r] < NStages - 1 => pc'[r] = "halo" /\ stage'[r] = stage[r] + 1
        /\ ~(stage[r] < NStages - 1) => /\ pc'[r] = "wait" /\ stage'[r] = stage[r]
                                        /\ stage[r] = NStages - 1
    BY <1>7, <1>S, <1>T DEF EndStage, Goto
  <2>4. code'[r] = 0 /\ stage'[r] < NStages /\ InStep(r, v)'
    BY <1>E, <1>S, <1>T, <2>1, <2>2, <2>3 DEF InStep
  <2>5. CASE stage[r] = 0
    <3>1. PICK d \in 0..MaxDt: Post(r, "dt", d)
      BY <1>7, <2>5 DEF EndStage
    <3>2. d \in Nat /\ "dt" \in Ops \ {"sync"}
      BY MainLoopAssumption DEF Ops
    <3>3. ~Synced(r)'
      <4>1. Synced(r)' <=> "dt" = "sync"
        BY <3>1, PostLast
      <4> QED BY <4>1
    <3> DEFINE w == Reduces(m, v)
    <3>4. /\ w \in View /\ w.at = "dt" /\ w.stage = 0 /\ w.k = v.k /\ w.t = v.t
          /\ w.dt = v.dt /\ w.call = m
      BY DEF View, Places, Reduces
    <3>5. Follows(m, v, w)
      BY <1>V, <2>1, <2>5 DEF Follows, Local
    <3> HIDE DEF w
    <3>6. dtCall'[r] = m
      BY <1>7, <1>L, <1>T, <2>1, <2>5 DEF EndStage
    <3>7. InStep(r, w)' /\ Pending(r, w)' /\ InStages(m + 1, w)'
      BY <2>4, <3>4, <3>6 DEF InStep, Pending, InStages
    <3>8. ~(stage[r] < NStages - 1) => EndsCycle(w)'
      BY <2>3, <2>5, <3>4 DEF EndsCycle
    <3>9. Local(r, m + 1, w)'
      BY <1>S, <2>3, <2>4, <2>5, <3>3, <3>4, <3>7, <3>8 DEF Local, Caught
    <3>10. "dt" = Op(w.at)
      BY <3>4 DEF Op
    <3> QED BY <3>1, <3>2, <3>4, <3>5, <3>9, <3>10, Posting
  <2>6. CASE stage[r] > 0
    <3>1. UNCHANGED <<calls, dtCall>>
      BY <1>7, <2>6 DEF EndStage
    <3>2. InStages(m, v)
      BY <2>1, <2>6 DEF Local, InStages
    <3>3. InStages(m, v)' /\ Pending(r, v)' /\ Synced(r)' = Synced(r)
      BY <1>K, <2>1, <2>6, <3>1, <3>2, StagesStable DEF Local, Pending, Synced, Last
    <3>4. CASE stage[r] < NStages - 1
      <4>1. /\ v.k % NanPeriod = 0 => v.stage = stage[r]
            /\ v.k % NanPeriod # 0 => v.at = "dt"
        BY <2>1, <2>6 DEF Local
      <4>2. stage'[r] - 1 = stage[r] /\ stage'[r] > 0 /\ stage'[r] # 0
        <5>1. stage'[r] = stage[r] + 1 /\ stage[r] \in Nat
          BY <1>T, <2>3, <3>4
        <5> QED BY <5>1
      <4> QED BY <1>L, <2>1, <2>3, <2>4, <3>1, <3>3, <3>4, <4>1, <4>2
               DEF Silent, Local, Caught
    <3>5. CASE ~(stage[r] < NStages - 1)
      <4>1. EndsCycle(v)
        BY <2>1, <2>3, <2>6, <3>5 DEF Local, EndsCycle
      <4>2. EndsCycle(v)'
        BY <4>1 DEF EndsCycle
      <4> QED BY <1>L, <2>1, <2>3, <2>4, <3>1, <3>3, <3>5, <4>2 DEF Silent, Local, Caught
    <3> QED BY <3>4, <3>5
  <2> QED BY <1>T, <2>5, <2>6
\* The calls after the end of a cycle.
<1>A. ASSUME NEW l \in {"clock", "dump", "abort", "runtime", "lastDump"},
             NEW val \in Nat, ~Caught(r), pc[r] # "ended", Between(r, v),
             UNCHANGED <<t, dt, ncycles, stage, code>>,
             Goto(r, l), Post(r, Op(l), val), Follows(m, v, [v EXCEPT !.at = l])
      PROVE  GoesOn(r, m, v)
  <2> DEFINE w == [v EXCEPT !.at = l]
  <2>1. w \in View /\ w.at = l /\ w.k = v.k /\ w.t = v.t /\ w.dt = v.dt
    BY DEF View, Places
  <2>2. Op(l) \in Ops \ {"sync"} /\ Op(l) # "sync"
    BY DEF Op, Ops
  <2>3. ~Synced(r)'
    <3>1. Synced(r)' <=> Op(l) = "sync"
      BY <1>A, PostLast
    <3> QED BY <2>2, <3>1
  <2>4. pc'[r] = l
    BY <1>A, <1>T DEF Goto
  <2> HIDE DEF w
  <2>5. Between(r, w)'
    BY <1>A, <2>1 DEF Between, Cut
  <2>6. Local(r, m + 1, w)'
    BY <1>A, <1>E, <1>S, <2>1, <2>3, <2>4, <2>5 DEF Local, Caught
  <2> QED BY <1>A, <2>1, <2>2, <2>6, Posting DEF w
<1>8. CASE ClockDump(r)
  <2>1. pc[r] = "clock" /\ v.at = "clock" /\ Between(r, v) /\ ~Caught(r) /\ m # 1
    BY <1>8 DEF ClockDump, Local, Caught
  <2>2. RootPosted(m - 1) /\ Last(r) = m - 1
    BY <1>8, <1>R, <1>L, <2>1 DEF ClockDump
  <2>3. UNCHANGED <<t, dt, ncycles, stage, code>>
    BY <1>8 DEF ClockDump
  <2>4. CASE FromRoot(Last(r)) = 1
    <3>1. Goto(r, "dump") /\ Post(r, Op("dump"), 0)
      BY <1>8, <2>4 DEF ClockDump, Op
    <3>2. Follows(m, v, [v EXCEPT !.at = "dump"])
      BY <2>1, <2>2, <2>4 DEF Follows
    <3> QED BY <1>A, <2>1, <2>3, <3>1, <3>2
  <2>5. CASE FromRoot(Last(r)) # 1
    <3>1. Goto(r, "abort") /\ Post(r, Op("abort"), IF signalled[r] THEN 1 ELSE 0)
      BY <1>8, <2>5 DEF ClockDump, PostAbort, Op
    <3>2. Follows(m, v, [v EXCEPT !.at = "abort"])
      BY <2>1, <2>2, <2>5 DEF Follows
    <3> QED BY <1>A, <2>1, <2>3, <3>1, <3>2
  <2> QED BY <2>4, <2>5
<1>9. CASE WriteDump(r)
  <2>1. pc[r] = "dump" /\ v.at = "dump" /\ Between(r, v) /\ ~Caught(r)
        /\ UNCHANGED <<t, dt, ncycles, stage, code>>
    BY <1>9 DEF WriteDump, Local, Caught
  <2>2. Goto(r, "abort") /\ Post(r, Op("abort"), IF signalled[r] THEN 1 ELSE 0)
    BY <1>9 DEF WriteDump, PostAbort, Op
  <2>3. Follows(m, v, [v EXCEPT !.at = "abort"])
    BY <2>1 DEF Follows
  <2> QED BY <1>A, <2>1, <2>2, <2>3
\* The loop goes on or ends.
<1>N. ASSUME NextCycle(r), Loops(m, v), v.at # "top", pc[r] # "ended", ~Caught(r),
             Between(r, v), UNCHANGED <<t, dt, ncycles, stage, code>>
      PROVE  Silent(r, m, v)
  <2>1. calls' = calls /\ Synced(r)' = Synced(r) /\ Between(r, v)' /\ Loops(m, v)'
    BY <1>N, LoopsStable DEF NextCycle, Synced, Last, Between, Cut
  <2>2. CASE Exhausted(v)
    <3>1. pc'[r] = "ended"
      BY <1>N, <1>T, <2>2 DEF NextCycle, Goto, Exhausted, Between
    <3>2. Over(m, v)' /\ v.at # "lastDump"
      BY <1>N, <2>1, <2>2 DEF Over, Loops, Exhausted
    <3> QED BY <1>E, <1>L, <1>N, <1>S, <2>1, <3>1, <3>2 DEF Silent, Local, Caught, Between
  <2>3. CASE ~Exhausted(v)
    <3>1. pc'[r] = "top"
      BY <1>N, <1>T, <2>3 DEF NextCycle, Goto, Exhausted, Between
    <3>2. ~Exhausted(v)'
      BY <2>3 DEF Exhausted
    <3> QED BY <1>E, <1>L, <1>N, <1>S, <2>1, <3>1, <3>2 DEF Silent, Local, Caught
  <2> QED BY <2>2, <2>3
<1>10. CASE CheckForAbort(r)
  <2>1. pc[r] = "abort" /\ v.at = "abort" /\ Between(r, v) /\ ~Caught(r) /\ m # 1
        /\ UNCHANGED <<t, dt, ncycles, stage, code>>
    BY <1>10 DEF CheckForAbort, Local, Caught
  <2>2. RootPosted(m - 1) /\ Last(r) = m - 1
    BY <1>10, <1>R, <1>L, <2>1 DEF CheckForAbort
  <2>3. CASE FromRoot(Last(r)) = 1
    <3>1. Goto(r, "lastDump") /\ Post(r, Op("lastDump"), 0)
      BY <1>10, <2>3 DEF CheckForAbort, PostLastDump, Op
    <3>2. Follows(m, v, [v EXCEPT !.at = "lastDump"])
      BY <2>1, <2>2, <2>3 DEF Follows
    <3> QED BY <1>A, <2>1, <3>1, <3>2
  <2>4. CASE FromRoot(Last(r)) = 0 /\ MaxRuntime
    <3>1. Goto(r, "runtime") /\ \E late \in {0, 1}: Post(r, "runtime", late)
      BY <1>10, <2>4 DEF CheckForAbort
    <3>2. PICK late \in {0, 1}: Post(r, Op("runtime"), late)
      BY <3>1 DEF Op
    <3>3. Follows(m, v, [v EXCEPT !.at = "runtime"])
      BY <2>1, <2>2, <2>4 DEF Follows
    <3> QED BY <1>A, <2>1, <3>1, <3>2, <3>3
  <2>5. CASE FromRoot(Last(r)) # 1 /\ ~(FromRoot(Last(r)) = 0 /\ MaxRuntime)
    <3>1. NextCycle(r)
      BY <1>10, <2>5 DEF CheckForAbort
    <3>2. Loops(m, v)
      BY <2>1, <2>2, <2>5 DEF Loops
    <3> QED BY <1>N, <2>1, <3>1, <3>2
  <2> QED BY <2>3, <2>4, <2>5
<1>11. CASE CheckForMaxRuntime(r)
  <2>1. pc[r] = "runtime" /\ v.at = "runtime" /\ Between(r, v) /\ ~Caught(r) /\ m # 1
        /\ UNCHANGED <<t, dt, ncycles, stage, code>>
    BY <1>11 DEF CheckForMaxRuntime, Local, Caught
  <2>2. RootPosted(m - 1) /\ Last(r) = m - 1
    BY <1>11, <1>R, <1>L, <2>1 DEF CheckForMaxRuntime
  <2>3. CASE FromRoot(Last(r)) = 1
    <3>1. Goto(r, "lastDump") /\ Post(r, Op("lastDump"), 0)
      BY <1>11, <2>3 DEF CheckForMaxRuntime, PostLastDump, Op
    <3>2. Follows(m, v, [v EXCEPT !.at = "lastDump"])
      BY <2>1, <2>2, <2>3 DEF Follows
    <3> QED BY <1>A, <2>1, <3>1, <3>2
  <2>4. CASE FromRoot(Last(r)) # 1
    <3>1. NextCycle(r)
      BY <1>11, <2>4 DEF CheckForMaxRuntime
    <3>2. Loops(m, v)
      BY <2>1, <2>2, <2>4 DEF Loops
    <3> QED BY <1>N, <2>1, <3>1, <3>2
  <2> QED BY <2>3, <2>4
<1>12. CASE Interrupted(r)
  <2>1. pc[r] = "lastDump" /\ v.at = "lastDump" /\ Between(r, v) /\ ~Caught(r)
    BY <1>12 DEF Interrupted, Local, Caught
  <2>2. pc'[r] = "ended" /\ code'[r] = -1 /\ UNCHANGED <<t, ncycles, stage, calls>>
    BY <1>12, <1>T DEF Interrupted, Goto
  <2>3. Over(m, v)' /\ Synced(r)' = Synced(r)
    BY <2>1, <2>2 DEF Over, Synced, Last
  <2> QED BY <1>L, <1>S, <2>1, <2>2, <2>3 DEF Silent, Local, Caught, Between
<1>13. CASE EmergencyVtk(r) \/ CheckSync(r) \/ SyncTimeout(r)
  <2>1. Caught(r) /\ t0[r] = v.t /\ ncycles[r] = v.k /\ (N = 1 \/ Synced(r))
    BY <1>13 DEF EmergencyVtk, CheckSync, SyncTimeout, Caught, Local
  <2>2. UNCHANGED <<t0, ncycles, stage, calls>>
    BY <1>13 DEF EmergencyVtk, CheckSync, SyncTimeout
  <2>3. \/ pc'[r] = "ended" /\ code'[r] = 1
        \/ pc'[r] \in {"sync", "vtk"} /\ code'[r] = 0
    BY <1>13, <1>E, <1>T DEF EmergencyVtk, CheckSync, SyncTimeout, Goto
  <2>4. Synced(r)' = Synced(r)
    BY <2>2 DEF Synced, Last
  <2> QED BY <1>S, <2>1, <2>2, <2>3, <2>4 DEF Silent, Local, Caught
<1>14. CASE EndCycle(r)
  <2>1. /\ pc[r] = "wait" /\ InStep(r, v) /\ dtCall[r] = v.call /\ InStages(m, v)
        /\ EndsCycle(v) /\ ~Caught(r)
    BY <1>14, <1>K DEF EndCycle, Local, Caught, Pending
  <2>2. v.call > 0
    BY <1>K, <2>1 DEF Awaits
  <2>3. Posted(v.call)
    BY <1>14, <2>1, <2>2 DEF EndCycle, Complete, HasPosted, Posted, Last
  <2>4. Reduced(r) = Reduction(v)
    BY <2>1 DEF Reduced, Reduction
  <2>5. /\ t' = [t EXCEPT ![r] = t0[r] + dt[r]] /\ UNCHANGED <<t0, stage, code>>
        /\ \/ killed' = TRUE /\ UNCHANGED <<pc, dt, ncycles, calls>>
           \/ /\ dt' = [dt EXCEPT ![r] = NextDt(v)]
              /\ \/ NextDt(v) < DtMin /\ Throw(r) /\ ncycles' = ncycles
                 \/ /\ ~(NextDt(v) < DtMin)
                    /\ ncycles' = [ncycles EXCEPT ![r] = @ + 1]
                    /\ IF ClockDumps
                         THEN Goto(r, "clock") /\ \E late \in {0, 1}: Post(r, "delay", late)
                         ELSE PostAbort(r)
    BY <1>14, <2>1, <2>4 DEF EndCycle, NextDt, InStep
  <2>6. CASE killed' = TRUE /\ UNCHANGED <<pc, dt, ncycles, calls>>
    <3>1. InStages(m, v)' /\ EndsCycle(v)' /\ InStep(r, v)' /\ Pending(r, v)'
          /\ Synced(r)' = Synced(r)
      BY <2>1, <2>5, <2>6, StagesStable DEF EndsCycle, InStep, Pending, Synced, Last
    <3> QED BY <1>E, <1>L, <1>S, <2>1, <2>5, <2>6, <3>1 DEF Silent, Local, Caught
  <2>7. CASE NextDt(v) < DtMin /\ Throw(r) /\ ncycles' = ncycles
    <3>1. Throws(m, v)
      BY <2>1, <2>3, <2>7 DEF Throws
    <3> QED BY <2>1, <2>5, <2>7, <3>1, Throwing DEF InStep
  <2>8. CASE /\ dt' = [dt EXCEPT ![r] = NextDt(v)] /\ ~(NextDt(v) < DtMin)
             /\ ncycles' = [ncycles EXCEPT ![r] = @ + 1]
             /\ IF ClockDumps
                  THEN Goto(r, "clock") /\ \E late \in {0, 1}: Post(r, "delay", late)
                  ELSE PostAbort(r)
    <3> DEFINE l == IF ClockDumps THEN "clock" ELSE "abort"
    <3>1. PICK val \in {0, 1}: Goto(r, l) /\ Post(r, Op(l), val)
      BY <2>8 DEF PostAbort, Op
    <3>2. l \in {"clock", "abort"} /\ Op(l) \in Ops \ {"sync"} /\ Op(l) # "sync"
      BY DEF Op, Ops
    <3>3. t'[r] \in Nat /\ t'[r] = v.t + v.dt /\ dt'[r] \in Nat /\ dt'[r] = NextDt(v)
          /\ ncycles'[r] = v.k + 1 /\ code'[r] = 0 /\ stage'[r] = stage[r]
      BY <1>E, <1>T, <2>1, <2>5, <2>8 DEF InStep, TypeOK, Numbers
    <3>4. Cut(t'[r], dt'[r]) \in Int
      BY <3>3, MainLoopAssumption DEF Cut
    <3>5. NextCycleOf(v) = [at |-> l, k |-> v.k + 1, stage |-> 0, t |-> t'[r],
                            dt |-> Cut(t'[r], dt'[r]), call |-> 0]
      BY <3>3 DEF NextCycleOf
    <3> HIDE DEF l
    <3>6. PICK w \in View: /\ w = NextCycleOf(v) /\ w.at = l /\ w.k = ncycles'[r]
                           /\ w.t = t'[r] /\ w.dt = Cut(t'[r], dt'[r])
      <4>1. NextCycleOf(v) \in View
        BY <1>V, <3>2, <3>3, <3>4, <3>5 DEF View, Places
      <4> QED BY <3>3, <3>5, <4>1
    <3>7. Follows(m, v, w)
      BY <2>1, <2>3, <2>8, <3>6 DEF Follows
    <3>8. pc'[r] = l
      BY <1>T, <3>1 DEF Goto
    <3>9. ~Synced(r)'
      <4>1. Synced(r)' <=> Op(l) = "sync"
        BY <3>1, PostLast
      <4> QED BY <3>2, <4>1
    <3>10. Between(r, w)'
      BY <3>6 DEF Between
    <3>11. Local(r, m + 1, w)'
      BY <1>S, <3>2, <3>3, <3>6, <3>8, <3>9, <3>10 DEF Local, Caught
    <3> QED BY <3>1, <3>2, <3>6, <3>7, <3>11, Posting
  <2> QED BY <2>5, <2>6, <2>7, <2>8
<1> QED
  BY <1>1, <1>2, <1>3, <1>4, <1>5, <1>6, <1>7, <1>8, <1>9, <1>10, <1>11, <1>12, <1>13,
     <1>14 DEF Step
-----------------------------------------------------------------------------
(* The agreement is an invariant *)

\* A process that caught an exception posts no call after that of CheckSync.
LEMMA NoCallAfterSync ==
  ASSUME TypeOK, NEW r \in Ranks, Step(r) \/ Signal(r), Caught(r)
  PROVE  calls' = calls
<1>1. pc[r] \in {"sync", "vtk", "ended"}
  BY DEF Caught
<1>2. Signal(r) \/ EmergencyVtk(r) \/ CheckSync(r) \/ SyncTimeout(r)
  BY <1>1 DEF Step, User, Evolve, Top, DivB, CheckNan, EndStage, ClockDump, WriteDump,
     CheckForAbort, CheckForMaxRuntime, Interrupted, EndCycle
<1> QED BY <1>2 DEF Signal, EmergencyVtk, CheckSync, SyncTimeout

LEMMA FaultsStay ==
  ASSUME TypeOK, NEW r \in Ranks, Step(r) \/ Signal(r)
  PROVE  (alone => alone') /\ ~killed
BY DEF Step, Signal, User, Evolve

\* The calls a process posted before remain those of the log.
LEMMA OldCalls ==
  ASSUME TypeOK, TypeOK', Grown, NEW log, IsSchedule(log), NEW log2, Extends(log2, log),
         NEW r \in Ranks, OnLog(r, log), ~Synced(r), NEW i \in 1..Last(r)
  PROVE  /\ i + 1 \in DOMAIN log2 /\ calls'[r][i].op # "sync"
         /\ calls'[r][i].op = Op(log2[i + 1].at)
<1>1. calls[r][i].op # "sync"
  BY DEF OnLog, Synced, Last, TypeOK
<1>2. i + 1 \in DOMAIN log /\ calls[r][i].op = Op(log[i + 1].at)
  BY <1>1 DEF OnLog
<1>3. calls'[r][i] = calls[r][i]
  BY DEF Grown, Last
<1> QED BY <1>1, <1>2, <1>3 DEF Extends

LEMMA AgreeStep ==
  ASSUME TypeOK, TypeOK', Awaits, NEW r \in Ranks, Step(r) \/ Signal(r),
         NEW log, Agree(log)
  PROVE  \E log2: Agree(log2)'
<1> DEFINE m == Seen(r)
           v == log[m]
           n == Last(r)
<1>1. IsSchedule(log) /\ OnLog(r, log) /\ Local(r, m, v)
  BY DEF Agree
<1>2. m \in DOMAIN log /\ m \in Nat /\ m > 0 /\ v \in View /\ n \in Nat
  BY <1>1, SeenType
<1>3. Grown /\ (alone => alone') /\ ~killed
  BY Grows, FaultsStay
<1>4. m = 1 => v.at = "top"
  BY <1>1 DEF IsSchedule, Start
<1>5. calls[r] \in Seq(Calls) /\ n = Len(calls[r]) /\ Last(r)' = Len(calls'[r])
  BY DEF TypeOK, Last
<1>6. calls'[r] # calls[r] => ~Synced(r) /\ m = n + 1
  BY <1>1, NoCallAfterSync DEF Local, Seen
\* The other processes.
<1>7. ASSUME NEW log2, IsSchedule(log2), Extends(log2, log),
             OnLog(r, log2)', Local(r, Seen(r), log2[Seen(r)])'
      PROVE  Agree(log2)'
  <2>1. IsSchedule(log2)'
    BY <1>3, <1>7, ScheduleStable
  <2>2. ASSUME NEW q \in Ranks PROVE OnLog(q, log2)' /\ Local(q, Seen(q), log2[Seen(q)])'
    <3>1. CASE q = r
      BY <1>7, <3>1
    <3>2. CASE q # r
      <4>1. Untouched(q) /\ OnLog(q, log) /\ Local(q, Seen(q), log[Seen(q)])
        BY <3>2, Frame DEF Agree
      <4> QED BY <1>1, <1>3, <1>7, <4>1, OthersOnLog
    <3> QED BY <3>1, <3>2
  <2> QED BY <2>1, <2>2 DEF Agree
<1>8. PICK p \in Nat, u \in View: p = m /\ u = v
  BY <1>2
<1>9. Silent(r, p, u) \/ GoesOn(r, p, u) \/ GoesTwice(r, p, u) \/ Syncs(r, p, u)
  BY <1>1, <1>2, <1>3, <1>4, <1>8, Acting
<1>10. CASE Silent(r, p, u)
  <2>1. calls'[r] = calls[r] /\ Local(r, p, u)'
    BY <1>10 DEF Silent
  <2>2. Seen(r)' = p /\ Last(r)' = n
    BY <1>8, <2>1 DEF Seen, Synced, Last
  <2>3. Local(r, Seen(r), log[Seen(r)])'
    BY <1>8, <2>1, <2>2
  <2>4. OnLog(r, log)'
    <3> SUFFICES ASSUME NEW i \in 1..n
                 PROVE  IF calls[r][i].op = "sync"
                          THEN i = n /\ i \in DOMAIN log /\ (~alone' => Throws(i, log[i])')
                          ELSE i + 1 \in DOMAIN log /\ calls[r][i].op = Op(log[i + 1].at)
      BY <2>1, <2>2 DEF OnLog
    <3>1. CASE calls[r][i].op = "sync"
      <4>1. i = n /\ i \in DOMAIN log /\ (~alone => Throws(i, log[i]))
        BY <1>1, <3>1 DEF OnLog
      <4>2. i \in Nat /\ log[i] \in View
        BY <1>1, <4>1 DEF IsSchedule
      <4>3. ~alone' => Throws(i, log[i])'
        BY <1>3, <4>1, <4>2, ThrowsStable
      <4> QED BY <3>1, <4>1, <4>3
    <3>2. CASE calls[r][i].op # "sync"
      BY <1>1, <3>2 DEF OnLog
    <3> QED BY <3>1, <3>2
  <2>5. Extends(log, log)
    BY DEF Extends
  <2> QED BY <1>1, <1>7, <2>3, <2>4, <2>5
<1>11. CASE GoesOn(r, p, u)
  <2>1. PICK w \in View, c \in Calls:
          /\ Follows(p, u, w) /\ c.op = Op(w.at) /\ c.op # "sync"
          /\ calls'[r] = Append(calls[r], c) /\ Local(r, p + 1, w)'
    BY <1>11 DEF GoesOn
  <2>2. /\ Len(calls'[r]) = n + 1 /\ calls'[r][n + 1] = c /\ Last(r)' = n + 1
    BY <1>2, <1>5, <2>1
  <2>3. ~Synced(r) /\ p = n + 1
    BY <1>2, <1>5, <1>6, <1>8, <2>2
  <2>4. Seen(r)' = p + 1
    BY <1>2, <2>1, <2>2, <2>3 DEF Seen, Synced
  <2>5. PICK log2: /\ IsSchedule(log2) /\ Extends(log2, log)
                   /\ p + 1 \in DOMAIN log2 /\ log2[p + 1] = w
    BY <1>1, <1>2, <1>8, <2>1, NextEntry
  <2>6. Local(r, Seen(r), log2[Seen(r)])'
    BY <2>1, <2>4, <2>5
  <2>7. OnLog(r, log2)'
    <3>1. ASSUME NEW i \in 1..(n + 1)
          PROVE  calls'[r][i].op # "sync" /\ i + 1 \in DOMAIN log2
                 /\ calls'[r][i].op = Op(log2[i + 1].at)
      <4>1. CASE i = n + 1
        BY <2>1, <2>2, <2>3, <2>5, <4>1
      <4>2. CASE i \in 1..n
        BY <1>1, <1>3, <2>3, <2>5, <4>2, OldCalls
      <4> QED BY <1>2, <4>1, <4>2
    <3> QED BY <2>2, <3>1 DEF OnLog
  <2> QED BY <1>7, <2>5, <2>6, <2>7
<1>12. CASE GoesTwice(r, p, u)
  <2>1. PICK w \in View, x \in View, c \in Calls, d \in Calls:
          /\ Follows(p, u, w) /\ Follows(p + 1, w, x)
          /\ c.op = Op(w.at) /\ c.op # "sync" /\ d.op = Op(x.at) /\ d.op # "sync"
          /\ calls'[r] = Append(Append(calls[r], c), d) /\ Local(r, p + 2, x)'
    BY <1>12 DEF GoesTwice
  <2>2. /\ Len(calls'[r]) = n + 2 /\ calls'[r][n + 1] = c /\ calls'[r][n + 2] = d
        /\ Last(r)' = n + 2
    BY <1>2, <1>5, <2>1
  <2>3. ~Synced(r) /\ p = n + 1
    BY <1>2, <1>5, <1>6, <1>8, <2>2
  <2>4. Seen(r)' = p + 2
    BY <1>2, <2>1, <2>2, <2>3 DEF Seen, Synced
  <2>5. PICK log1: /\ IsSchedule(log1) /\ Extends(log1, log)
                   /\ p + 1 \in DOMAIN log1 /\ log1[p + 1] = w
    BY <1>1, <1>2, <1>8, <2>1, NextEntry
  <2>6. PICK log2: /\ IsSchedule(log2) /\ Extends(log2, log1)
                   /\ p + 2 \in DOMAIN log2 /\ log2[p + 2] = x
    <3>1. (p + 1) + 1 = p + 2
      OBVIOUS
    <3>2. \E log2: /\ IsSchedule(log2) /\ Extends(log2, log1)
                   /\ (p + 1) + 1 \in DOMAIN log2 /\ log2[(p + 1) + 1] = x
      BY <2>1, <2>5, NextEntry
    <3> QED BY <3>1, <3>2
  <2>7. Extends(log2, log) /\ p + 1 \in DOMAIN log2 /\ log2[p + 1] = w
    BY <2>5, <2>6 DEF Extends
  <2>8. Local(r, Seen(r), log2[Seen(r)])'
    BY <2>1, <2>4, <2>6
  <2>9. OnLog(r, log2)'
    <3>1. ASSUME NEW i \in 1..(n + 2)
          PROVE  calls'[r][i].op # "sync" /\ i + 1 \in DOMAIN log2
                 /\ calls'[r][i].op = Op(log2[i + 1].at)
      <4>1. CASE i = n + 1
        BY <2>1, <2>2, <2>3, <2>7, <4>1
      <4>2. CASE i = n + 2
        BY <1>2, <2>1, <2>2, <2>3, <2>6, <4>2
      <4>3. CASE i \in 1..n
        BY <1>1, <1>3, <2>3, <2>7, <4>3, OldCalls
      <4> QED BY <1>2, <4>1, <4>2, <4>3
    <3> QED BY <2>2, <3>1 DEF OnLog
  <2> QED BY <1>7, <2>6, <2>7, <2>8, <2>9
<1>13. CASE Syncs(r, p, u)
  <2>1. PICK c \in Calls: /\ c.op = "sync" /\ calls'[r] = Append(calls[r], c)
                          /\ ~alone' => Throws(p, u)
                          /\ Local(r, p, u)'
    BY <1>13 DEF Syncs
  <2>2. /\ Len(calls'[r]) = n + 1 /\ calls'[r][n + 1] = c /\ Last(r)' = n + 1
    BY <1>2, <1>5, <2>1
  <2>3. ~Synced(r) /\ p = n + 1
    BY <1>2, <1>5, <1>6, <1>8, <2>2
  <2>4. Seen(r)' = p
    BY <1>2, <2>1, <2>2, <2>3 DEF Seen, Synced
  <2>5. Local(r, Seen(r), log[Seen(r)])'
    BY <1>8, <2>1, <2>4
  <2>6. Extends(log, log)
    BY DEF Extends
  <2>7. OnLog(r, log)'
    <3>1. ASSUME NEW i \in 1..n
          PROVE  calls'[r][i].op # "sync" /\ i + 1 \in DOMAIN log
                 /\ calls'[r][i].op = Op(log[i + 1].at)
      BY <1>1, <1>3, <2>3, <2>6, OldCalls
    <3>2. ~alone' => Throws(p, u)'
      BY <1>3, <2>1, ThrowsStable
    <3>3. ASSUME NEW i \in 1..(n + 1)
          PROVE  IF calls'[r][i].op = "sync"
                   THEN i = n + 1 /\ i \in DOMAIN log /\ (~alone' => Throws(i, log[i])')
                   ELSE i + 1 \in DOMAIN log /\ calls'[r][i].op = Op(log[i + 1].at)
      <4>1. CASE i = n + 1
        BY <1>2, <1>8, <2>1, <2>2, <2>3, <3>2, <4>1
      <4>2. CASE i \in 1..n
        BY <3>1, <4>2
      <4> QED BY <1>2, <4>1, <4>2
    <3> QED BY <2>2, <3>3 DEF OnLog
  <2> QED BY <1>1, <1>7, <2>5, <2>6, <2>7
<1> QED BY <1>9, <1>10, <1>11, <1>12, <1>13

\* There is a schedule all processes follow.
OneSchedule == \E log: Agree(log)

LEMMA AgreeInit == Init => OneSchedule
<1> SUFFICES ASSUME Init PROVE Agree(<<Start>>)
  BY DEF OneSchedule
<1> DEFINE log == <<Start>>
<1>1. Start \in View
  BY MainLoopAssumption DEF Start, View, Places, Cut
<1>2. Len(log) = 1 /\ log[1] = Start /\ log \in Seq(View) /\ log # <<>> /\ DOMAIN log = {1}
  BY <1>1
<1>3. Start.k \in Int
  BY DEF Start
<1> HIDE DEF log
<1>4. IsSchedule(log)
  BY <1>2, <1>3 DEF IsSchedule
<1>5. ASSUME NEW r \in Ranks PROVE OnLog(r, log) /\ Local(r, Seen(r), log[Seen(r)])
  <2>1. Last(r) = 0 /\ ~Synced(r) /\ Seen(r) = 1
    BY DEF Init, Last, Synced, Seen
  <2>2. OnLog(r, log)
    BY <2>1 DEF OnLog
  <2>3. Between(r, Start) /\ Loops(1, Start) /\ ~Exhausted(Start)
    BY DEF Init, Between, Start, Loops, Exhausted
  <2>4. stage[r] < NStages /\ pc[r] = "top" /\ code[r] = 0
    BY MainLoopAssumption DEF Init
  <2> QED BY <1>2, <2>1, <2>2, <2>3, <2>4 DEF Local, Caught
<1> QED BY <1>4, <1>5 DEF Agree, log

LEMMA OneScheduleStep ==
  TypeOK /\ TypeOK' /\ Awaits /\ OneSchedule /\ [Next]_vars => OneSchedule'
<1> SUFFICES ASSUME TypeOK, TypeOK', Awaits, OneSchedule, [Next]_vars PROVE OneSchedule'
  OBVIOUS
<1>1. PICK log: Agree(log)
  BY DEF OneSchedule
<1>2. CASE UNCHANGED vars
  <2>1. Grown /\ Extends(log, log) /\ (alone => alone') /\ (killed => killed')
    BY <1>2 DEF vars, Grown, Extends, TypeOK
  <2>2. \A q \in Ranks: Untouched(q)
    BY <1>2 DEF vars, Untouched
  <2>3. IsSchedule(log) /\ IsSchedule(log)'
    BY <1>1, <2>1, ScheduleStable DEF Agree
  <2>4. ASSUME NEW q \in Ranks PROVE OnLog(q, log)' /\ Local(q, Seen(q), log[Seen(q)])'
    BY <1>1, <2>1, <2>2, <2>3, OthersOnLog DEF Agree
  <2>5. Agree(log)'
    BY <2>3, <2>4 DEF Agree
  <2> QED BY <2>5 DEF OneSchedule
<1>3. ASSUME NEW r \in Ranks, Step(r) \/ Signal(r) PROVE OneSchedule'
  <2>1. \E log2: Agree(log2)'
    BY <1>1, <1>3, AgreeStep
  <2> QED BY <2>1 DEF OneSchedule
<1> QED BY <1>2, <1>3 DEF Next

\* All processes follow one schedule of collective calls, whatever the order of
\* their steps: each knows an entry of it, and acts on what that entry says.
THEOREM Scheduled == Spec => []OneSchedule
<1>1. Init => OneSchedule
  BY AgreeInit
<1>2. TypeOK /\ TypeOK' /\ Awaits /\ OneSchedule /\ [Next]_vars => OneSchedule'
  BY OneScheduleStep
<1> QED BY <1>1, <1>2, Types, PTL DEF Spec
-----------------------------------------------------------------------------
(* What follows for the properties *)

\* The calls of two processes at one place of their lists are of the same kind.
THEOREM SameCalls == Spec => []CollectivesMatch
<1>1. TypeOK /\ OneSchedule => CollectivesMatch
  <2> SUFFICES ASSUME TypeOK, NEW log, Agree(log), ~alone, NEW q \in Ranks, NEW r \in Ranks,
                      NEW i \in 1..Min({Last(q), Last(r)})
               PROVE  calls[q][i].op = calls[r][i].op
    BY DEF OneSchedule, CollectivesMatch
  <2>1. Last(q) \in Nat /\ Last(r) \in Nat
    BY DEF TypeOK, Last
  <2>2. i \in 1..Last(q) /\ i \in 1..Last(r) /\ i \in Nat /\ i > 0
    BY <2>1, MinOfTwo
  <2>3. ASSUME NEW a \in Ranks, NEW b \in Ranks, i \in 1..Last(a), i \in 1..Last(b),
               calls[a][i].op = "sync"
        PROVE  calls[b][i].op = "sync"
    <3> SUFFICES ASSUME calls[b][i].op # "sync" PROVE FALSE
      OBVIOUS
    <3>1. i \in DOMAIN log /\ Throws(i, log[i])
      BY <2>3 DEF Agree, OnLog
    <3>2. i + 1 \in DOMAIN log
      BY <2>3 DEF Agree, OnLog
    <3>3. i \in 1..(Len(log) - 1) /\ log[i] \in View
      BY <2>2, <3>1, <3>2 DEF Agree, IsSchedule
    <3>4. Follows(i, log[i], log[i + 1])
      BY <3>3 DEF Agree, IsSchedule
    <3> QED BY <2>2, <3>1, <3>3, <3>4, FollowsOrThrows
  <2>4. CASE calls[q][i].op # "sync" /\ calls[r][i].op # "sync"
    BY <2>2, <2>4 DEF Agree, OnLog
  <2> QED BY <2>2, <2>3, <2>4
<1> QED BY <1>1, Types, Scheduled, PTL

\* Two processes in the same cycle integrate from the same time, over the same
\* time step.
THEOREM SameSteps == Spec => []SameStep
<1>1. TypeOK /\ OneSchedule => SameStep
  <2> SUFFICES ASSUME TypeOK, NEW log, Agree(log), NEW q \in Ranks, NEW r \in Ranks,
                      InCycle(q), InCycle(r), ncycles[q] = ncycles[r]
               PROVE  t0[q] = t0[r] /\ dt[q] = dt[r]
    BY DEF OneSchedule, SameStep
  <2>1. ASSUME NEW a \in Ranks, InCycle(a)
        PROVE  Seen(a) \in DOMAIN log /\ Seen(a) \in Nat /\ InStep(a, log[Seen(a)])
    <3>1. IsSchedule(log) /\ OnLog(a, log) /\ Local(a, Seen(a), log[Seen(a)])
      BY DEF Agree
    <3>2. InStep(a, log[Seen(a)])
      BY <2>1, <3>1 DEF InCycle, Local
    <3> QED BY <3>1, <3>2, SeenType
  <2>2. ASSUME NEW i \in DOMAIN log, NEW j \in DOMAIN log, log[i].k = log[j].k, i <= j
        PROVE  log[i].t = log[j].t /\ log[i].dt = log[j].dt
    BY <2>2 DEF Agree, IsSchedule
  <2>3. Seen(q) <= Seen(r) \/ Seen(r) <= Seen(q)
    BY <2>1
  <2> QED BY <2>1, <2>2, <2>3 DEF InStep
<1> QED BY <1>1, Types, Scheduled, PTL

\* When a process is allowed into the emergency vtk file, all of them posted
\* the call of CheckSync, at the same place of their lists.
Emergency ==
  \A r \in Ranks: pc[r] = "vtk" \/ (pc[r] = "ended" /\ code[r] = 1) =>
    \A q \in Ranks: q # r => Caught(q) /\ Seen(q) = Seen(r)

LEMMA EmergencyStep ==
  TypeOK /\ OneSchedule /\ Emergency /\ [Next]_vars => Emergency'
<1> SUFFICES ASSUME TypeOK, OneSchedule, Emergency, [Next]_vars,
                    NEW r \in Ranks, (pc[r] = "vtk" \/ (pc[r] = "ended" /\ code[r] = 1))',
                    NEW q \in Ranks, q # r
             PROVE  (Caught(q) /\ Seen(q) = Seen(r))'
  BY DEF Emergency
<1>1. PICK log: Agree(log)
  BY DEF OneSchedule
<1>2. CASE UNCHANGED vars
  BY <1>2 DEF vars, Emergency, Caught, Seen, Synced, Last
<1>3. ASSUME NEW p \in Ranks, Step(p) \/ Signal(p)
      PROVE  (Caught(q) /\ Seen(q) = Seen(r))'
  \* The processes that caught an exception stay where they are.
  <2>1. ASSUME NEW a \in Ranks, Caught(a) PROVE Caught(a)' /\ Seen(a)' = Seen(a)
    <3>1. CASE a # p
      <4>1. Untouched(a)
        BY <1>3, <3>1, Frame
      <4> QED BY <2>1, <4>1 DEF Untouched, Caught, Seen, Synced, Last
    <3>2. CASE a = p
      <4>1. calls' = calls
        BY <1>3, <2>1, <3>2, NoCallAfterSync
      <4>2. Seen(a)' = Seen(a)
        BY <4>1 DEF Seen, Synced, Last
      <4>3. pc[p] \in {"sync", "vtk", "ended"}
        BY <2>1, <3>2 DEF Caught
      <4>4. Signal(p) \/ EmergencyVtk(p) \/ CheckSync(p) \/ SyncTimeout(p)
        BY <1>3, <4>3 DEF Step, User, Evolve, Top, DivB, CheckNan, EndStage, ClockDump,
           WriteDump, CheckForAbort, CheckForMaxRuntime, Interrupted, EndCycle
      <4>5. Caught(a)'
        BY <2>1, <3>2, <4>4
           DEF Signal, EmergencyVtk, CheckSync, SyncTimeout, Caught, Goto, TypeOK
      <4> QED BY <4>2, <4>5
    <3> QED BY <3>1, <3>2
  <2>2. CASE pc[r] = "vtk" \/ (pc[r] = "ended" /\ code[r] = 1)
    <3>1. Caught(r) /\ Caught(q) /\ Seen(q) = Seen(r)
      BY <2>2 DEF Emergency, Caught
    <3> QED BY <2>1, <3>1
  <2>3. CASE ~(pc[r] = "vtk" \/ (pc[r] = "ended" /\ code[r] = 1))
    <3>1. p = r
      BY <1>3, <2>3, Frame DEF Untouched
    <3>2. N # 1
      BY RanksType DEF Ranks
    <3>3. Local(r, Seen(r), log[Seen(r)])
      BY <1>1 DEF Agree
    <3>4. CheckSync(r)
      <4> SUFFICES ASSUME ~CheckSync(r) PROVE FALSE
        OBVIOUS
      <4> USE <2>3, <3>2 DEF TypeOK, Goto, Throw
      <4>1. pc'[r] = "vtk" \/ (pc'[r] = "ended" /\ code'[r] = 1)
        OBVIOUS
      <4>2. code[r] # 1 \/ pc[r] = "ended"
        BY <3>3 DEF Local
      <4>3. CASE Signal(r) \/ User(r) \/ Evolve(r) \/ DivB(r) \/ CheckNan(r) \/ Top(r)
        BY <4>1, <4>2, <4>3 DEF Signal, User, Evolve, DivB, CheckNan, Top
      <4>4. CASE EndStage(r) \/ ClockDump(r) \/ WriteDump(r) \/ SyncTimeout(r)
        BY <4>1, <4>2, <4>4 DEF EndStage, ClockDump, WriteDump, SyncTimeout, PostAbort
      <4>5. CASE CheckForAbort(r) \/ CheckForMaxRuntime(r) \/ Interrupted(r)
        BY <4>1, <4>2, <4>5
           DEF CheckForAbort, CheckForMaxRuntime, Interrupted, PostAbort, PostLastDump,
           NextCycle
      <4>6. CASE EmergencyVtk(r) \/ EndCycle(r)
        BY <4>1, <4>2, <4>6 DEF EmergencyVtk, EndCycle, PostAbort
      <4> QED BY <1>3, <3>1, <4>3, <4>4, <4>5, <4>6 DEF Step
    <3>5. Caught(r) /\ Synced(r) /\ Complete(r, Last(r))
      BY <3>2, <3>3, <3>4 DEF CheckSync, Local, Caught
    <3>6. HasPosted(q, Last(r), "sync") /\ Last(r) > 0 /\ Last(r) \in Nat /\ Last(q) \in Nat
      BY <3>5 DEF Complete, Synced, TypeOK, Last
    <3>7. Last(r) \in 1..Last(q) /\ calls[q][Last(r)].op = "sync"
      BY <3>6 DEF HasPosted, Last
    <3>8. Last(q) = Last(r) /\ Synced(q)
      BY <1>1, <3>6, <3>7 DEF Agree, OnLog, Synced
    <3>9. Caught(q) /\ Seen(q) = Seen(r)
      BY <1>1, <3>5, <3>8 DEF Agree, Local, Seen
    <3> QED BY <2>1, <3>5, <3>9
  <2> QED BY <2>2, <2>3
<1> QED BY <1>2, <1>3 DEF Next

\* When a process writes the emergency file, or has, all the others have caught
\* an exception too, after the same calls.
THEOREM EmergencyInvariant == Spec => []Emergency
<1>1. Init => Emergency
  BY DEF Init, Emergency
<1> QED BY <1>1, EmergencyStep, Types, Scheduled, PTL DEF Spec

\* The emergency vtk file is written by all processes or by none.
THEOREM CollectiveEmergency == Spec => []EmergencyIsCollective
<1>1. Emergency => EmergencyIsCollective
  BY DEF Emergency, EmergencyIsCollective, Caught
<1> QED BY <1>1, EmergencyInvariant, PTL
-----------------------------------------------------------------------------
(* The end *)

\* The processes that ended have the same outcome.
SameEnd == \A q, r \in EndedRanks: Outcome(q) = Outcome(r)

LEMMA EndsAgree == TypeOK /\ OneSchedule /\ Emergency => SameEnd
<1> SUFFICES ASSUME TypeOK, OneSchedule, Emergency, NEW q \in EndedRanks,
                    NEW r \in EndedRanks, q # r
             PROVE  Outcome(q) = Outcome(r)
  BY DEF SameEnd
<1>1. PICK log: Agree(log)
  BY DEF OneSchedule
<1>2. ASSUME NEW a \in Ranks
      PROVE  /\ OnLog(a, log) /\ Local(a, Seen(a), log[Seen(a)])
             /\ Seen(a) \in DOMAIN log /\ Seen(a) \in Nat /\ Seen(a) > 0
             /\ log[Seen(a)] \in View
  BY <1>1, SeenType DEF Agree
<1>3. q \in Ranks /\ r \in Ranks /\ pc[q] = "ended" /\ pc[r] = "ended"
  BY DEF EndedRanks
<1>4. ASSUME NEW a \in Ranks, NEW b \in Ranks, pc[a] = "ended", pc[b] = "ended", a # b,
             code[a] = 1
      PROVE  Outcome(a) = Outcome(b)
  <2>1. Caught(a) /\ Caught(b) /\ Seen(b) = Seen(a)
    BY <1>4 DEF Emergency, Caught
  <2>2. code[b] = 1
    BY <1>4, <2>1 DEF Caught
  <2>3. t0[a] = t0[b] /\ ncycles[a] = ncycles[b]
    BY <1>2, <2>1 DEF Local
  <2> QED BY <1>4, <2>2, <2>3 DEF Outcome
<1>5. CASE code[q] # 1 /\ code[r] # 1
  <2>1. ASSUME NEW a \in Ranks, pc[a] = "ended", code[a] # 1
        PROVE  Seen(a) = Len(log)
    <3> SUFFICES ASSUME Seen(a) # Len(log) PROVE FALSE
      OBVIOUS
    <3>1. Over(Seen(a), log[Seen(a)])
      BY <1>2, <2>1 DEF Local
    <3>2. Seen(a) \in 1..(Len(log) - 1)
      BY <1>1, <1>2 DEF Agree, IsSchedule
    <3>3. Follows(Seen(a), log[Seen(a)], log[Seen(a) + 1])
      BY <1>1, <3>2 DEF Agree, IsSchedule
    <3> QED BY <1>2, <3>1, <3>3, FollowsOrThrows
  <2>2. Seen(q) = Seen(r)
    BY <1>3, <1>5, <2>1
  <2>3. t[q] = t[r] /\ ncycles[q] = ncycles[r] /\ code[q] = code[r]
    BY <1>2, <1>3, <1>5, <2>2 DEF Local
  <2> QED BY <1>5, <2>3 DEF Outcome
<1>6. CASE code[q] = 1
  BY <1>3, <1>4, <1>6
<1>7. CASE code[r] = 1
  <2>1. Outcome(r) = Outcome(q)
    BY <1>3, <1>4, <1>7
  <2> QED BY <2>1
<1> QED BY <1>5, <1>6, <1>7

\* A step of the processes is a step of AgreedEnd, or none.
LEMMA RefinesStep ==
  TypeOK /\ TypeOK' /\ SameEnd' /\ [Next]_vars => [Agreed!Next]_(Agreed!vars)
<1> SUFFICES ASSUME TypeOK, TypeOK', SameEnd', [Next]_vars
             PROVE  [Agreed!Next]_(Agreed!vars)
  OBVIOUS
<1> DEFINE out == [r \in EndedRanks |-> Outcome(r)]
<1>1. CASE UNCHANGED vars
  <2>1. EndedRanks' = EndedRanks /\ \A r \in Ranks: Outcome(r)' = Outcome(r)
    BY <1>1 DEF vars, EndedRanks, Outcome
  <2>2. out' = out /\ killed' = killed
    BY <1>1, <2>1 DEF vars, EndedRanks
  <2> QED BY <2>2 DEF Agreed!vars
<1>2. ASSUME NEW p \in Ranks, Step(p) \/ Signal(p)
      PROVE  [Agreed!Next]_(Agreed!vars)
  <2>1. ~killed /\ pc[p] # "ended"
    BY <1>2 DEF Step, Signal, User, Evolve, Top, DivB, CheckNan, EndStage, ClockDump,
       WriteDump, CheckForAbort, CheckForMaxRuntime, Interrupted, EndCycle, EmergencyVtk,
       CheckSync, SyncTimeout
  <2>2. ASSUME NEW q \in Ranks, q # p
        PROVE  Outcome(q)' = Outcome(q) /\ pc'[q] = pc[q]
    BY <1>2, <2>2, Frame DEF Untouched, Outcome
  <2>3. ASSUME NEW q \in EndedRanks PROVE q \in EndedRanks' /\ Outcome(q)' = Outcome(q)
    BY <2>1, <2>2 DEF EndedRanks
  <2>4. CASE pc'[p] # "ended"
    <3>1. EndedRanks' = EndedRanks
      BY <2>1, <2>2, <2>4 DEF EndedRanks
    <3>2. out' = out
      BY <2>3, <3>1
    <3>3. killed' \in BOOLEAN
      BY DEF TypeOK
    <3>4. CASE killed' = killed
      BY <3>2, <3>4 DEF Agreed!vars
    <3>5. CASE killed' = TRUE
      BY <2>1, <3>2, <3>5 DEF Agreed!Next, Agreed!Abort
    <3> QED BY <2>1, <3>3, <3>4, <3>5 DEF TypeOK
  <2>5. CASE pc'[p] = "ended"
    <3>1. killed' = killed
      BY <1>2, <2>1, <2>5 DEF Step, Signal, EndCycle, CheckSync, SyncTimeout, Throw, Goto,
         PostAbort, TypeOK
    <3>2. EndedRanks' = EndedRanks \cup {p} /\ p \notin EndedRanks
      BY <2>1, <2>2, <2>5 DEF EndedRanks
    <3>3. DOMAIN out' = DOMAIN out \cup {p} /\ p \notin DOMAIN out
      BY <3>2
    <3>4. \A q \in DOMAIN out: out'[q] = out[q] /\ out'[p] = out[q]
      BY <2>3, <3>2 DEF SameEnd
    <3>5. Agreed!End(p)
      BY <2>1, <3>1, <3>3, <3>4 DEF Agreed!End, Agreed!Ended
    <3> QED BY <3>5 DEF Agreed!Next
  <2> QED BY <2>4, <2>5
<1> QED BY <1>1, <1>2 DEF Next

\* MainLoop implements AgreedEnd: the processes end one after the other with
\* the same number of cycles, time and return code, or are all killed.
THEOREM Ends == Spec => EndsTogether
<1>1. Init => Agreed!Init
  <2> SUFFICES ASSUME Init PROVE Agreed!Init
    OBVIOUS
  <2>1. EndedRanks = {} /\ killed = FALSE
    BY DEF Init, EndedRanks
  <2>2. [r \in EndedRanks |-> Outcome(r)] = [p \in {} |-> 0]
    BY <2>1
  <2> QED BY <2>1, <2>2 DEF Agreed!Init
<1>2. TypeOK /\ OneSchedule /\ Emergency => SameEnd
  BY EndsAgree
<1>3. TypeOK /\ TypeOK' /\ SameEnd' /\ [Next]_vars => [Agreed!Next]_(Agreed!vars)
  BY RefinesStep
<1> QED
  BY <1>1, <1>2, <1>3, Types, Scheduled, EmergencyInvariant, PTL
     DEF Spec, EndsTogether, Agreed!Spec
=============================================================================
