---------------------------- MODULE OutputProofs ----------------------------
(* What is proved of module Output, for all values of its constants. *)
EXTENDS Output, TLAPS

\* The catch-up loop of a periodic output ends in (now-period, now].
LEMMA CatchUpBounds ==
  ASSUME NEW l \in Int, NEW p \in Int, NEW now \in Int
  PROVE  /\ CatchUp(l, p, now) \in Int
         /\ l <= now => CatchUp(l, p, now) <= now
         /\ p > 0 => now < CatchUp(l, p, now) + p
<1>1. CASE p > 0 /\ l + p <= now
  <2>1. (now - l) % p \in 0..(p - 1)
    BY <1>1
  <2> QED BY <1>1, <2>1 DEF CatchUp
<1>2. CASE ~(p > 0 /\ l + p <= now)
  BY <1>2 DEF CatchUp
<1> QED BY <1>1, <1>2

\* What an output that was due does to its date.
LEMMA AdvanceBounds ==
  ASSUME NEW l \in Int, NEW p \in Int, NEW now \in Int
  PROVE  /\ Advance(l, p, now) \in Int
         /\ Due(l, p, now) => Advance(l, p, now) <= now
         /\ p > 0 => now < Advance(l, p, now) + p
<1>1. l + p \in Int
  OBVIOUS
<1> HIDE DEF CatchUp
<1> QED BY <1>1, CatchUpBounds DEF Advance, Due

-----------------------------------------------------------------------------
(* Type correctness.  The number of the dump being written is needed too:   *)
(* CloseDump stores its file under dumpNum-1.                               *)

TypeInv == TypeOK /\ (pc = "closing" => dumpNum \in 1..(MaxNum + 1))

LEMMA SnapshotOfMemory ==
  ASSUME TypeOK
  PROVE  /\ Registered \in Snapshot
         /\ Registered.dumpNum = dumpNum
         /\ Registered.last = last /\ Registered.t = t
BY DEF TypeOK, Snapshot, Registered

LEMMA ConfigurationFields ==
  ASSUME OutputAssumption, NEW c \in Configurations
  PROVE  /\ \A s \in Streams: c.period[s] \in Int
         /\ c.dump \in Int /\ c.nowrite \in BOOLEAN
BY DEF Configurations, OutputAssumption

LEMMA WriteFileType ==
  ASSUME TypeOK, t' \in Nat, NEW w, WriteFile(w)
  PROVE  /\ num' \in [Streams -> Nat]
         /\ files' \in [Streams -> [Numbers -> Nat \cup {-1}]]
<1>1. \A s \in Streams: num[s] \in Nat /\ num[s] + 1 \in Nat
  BY DEF TypeOK
<1>2. num' \in [Streams -> Nat]
  BY <1>1 DEF WriteFile
<1>3. ASSUME NEW s \in Streams
      PROVE  /\ files[s] \in [Numbers -> Nat \cup {-1}]
             /\ [files[s] EXCEPT ![num[s]] = t'] \in [Numbers -> Nat \cup {-1}]
  BY DEF TypeOK
<1>4. files' \in [Streams -> [Numbers -> Nat \cup {-1}]]
  BY <1>3 DEF WriteFile
<1> QED BY <1>2, <1>4

LEMMA TypeInvInit == Init => TypeInv
BY OutputAssumption DEF Init, TypeInv, TypeOK, Numbers

LEMMA TypeInvNext == TypeInv /\ [Next]_vars => TypeInv'
<1> SUFFICES ASSUME TypeInv, [Next]_vars PROVE TypeInv'
  OBVIOUS
<1> USE OutputAssumption
<1>0. /\ \A s \in Streams: conf.period[s] \in Int
      /\ conf.dump \in Int /\ conf.nowrite \in BOOLEAN
  BY ConfigurationFields DEF TypeInv, TypeOK
<1>1. CASE Fresh
  <2>1. /\ \A s \in Streams: conf'.period[s] \in Int
        /\ conf'.dump \in Int
    BY <1>1, ConfigurationFields DEF Fresh
  <2>2. last' \in [Streams -> Int]
    BY <1>1, <2>1 DEF Fresh, FirstLast
  <2>3. dumpLast' \in Int /\ dumpNum' \in Nat
    BY <1>1, <2>1 DEF Fresh
  <2>4. pc' \in {"off", "loop", "streams", "decide"} /\ caller' \in {"init", "cycle", "force"}
        /\ todo' \subseteq Streams
    BY <1>1 DEF Fresh, EnterCheck
  <2> QED BY <1>1, <2>2, <2>3, <2>4 DEF Fresh, TypeInv, TypeOK
<1>2. ASSUME NEW n \in Numbers, Restart(n) PROVE TypeInv'
  <2>1. dumps[n] \in Snapshot
    BY <1>2 DEF Restart
  <2>2. /\ t' \in Nat /\ last' \in [Streams -> Int] /\ num' \in [Streams -> Nat]
        /\ dumpLast' \in Int /\ dumpNum' \in Nat
    BY <1>2, <2>1 DEF Restart, Snapshot
  <2> QED BY <1>2, <2>2 DEF Restart, TypeInv, TypeOK
<1>3. CASE Cycle
  <2>1. t' \in Nat
    BY <1>3 DEF Cycle, TypeInv, TypeOK, OutputAssumption
  <2>2. pc' \in {"off", "loop", "streams", "decide"} /\ caller' \in {"init", "cycle", "force"}
        /\ todo' \subseteq Streams
    BY <1>3 DEF Cycle, EnterCheck
  <2> QED BY <1>3, <2>1, <2>2 DEF Cycle, TypeInv, TypeOK
<1>4. ASSUME NEW s \in Streams, CheckStream(s) PROVE TypeInv'
  <2>1. last' \in [Streams -> Int]
    <3>1. last[s] \in Int /\ conf.period[s] \in Int /\ t \in Int
      BY <1>0 DEF TypeInv, TypeOK
    <3>2. Advance(last[s], conf.period[s], t) \in Int
      BY <3>1, AdvanceBounds
    <3> QED BY <1>4, <3>2 DEF CheckStream, TypeInv, TypeOK
  <2>2. t' = t /\ \E w \in SUBSET Streams: WriteFile(w)
    BY <1>4 DEF CheckStream
  <2>3. num' \in [Streams -> Nat] /\ files' \in [Streams -> [Numbers -> Nat \cup {-1}]]
    BY <2>2, WriteFileType DEF TypeInv, TypeOK
  <2> QED BY <1>4, <2>1, <2>2, <2>3 DEF CheckStream, TypeInv, TypeOK
<1>5. CASE CheckDump
  <2>1. dumpLast' \in Int
    BY <1>5, <1>0 DEF CheckDump, TypeInv, TypeOK
  <2>2. CASE OpenDump
    BY <1>5, <2>1, <2>2 DEF CheckDump, OpenDump, TypeInv, TypeOK, Numbers, OutputAssumption
  <2>3. CASE pc' = Returned /\ UNCHANGED <<dumpNum, dumps, newest>>
    BY <1>5, <2>1, <2>3 DEF CheckDump, Returned, TypeInv, TypeOK
  <2> QED BY <1>5, <2>2, <2>3 DEF CheckDump
<1>6. CASE CloseDump
  <2>1. dumpNum - 1 \in Numbers
    BY <1>6 DEF CloseDump, TypeInv, Numbers, OutputAssumption
  <2>2. dumpLast' \in Int
    <3>1. dumpLast \in Int /\ conf.dump \in Int /\ t \in Int
      BY <1>0 DEF TypeInv, TypeOK
    <3>2. CatchUp(dumpLast, conf.dump, t) \in Int
      BY <3>1, CatchUpBounds
    <3> QED BY <1>6, <3>1, <3>2 DEF CloseDump
  <2>3. dumps' \in [Numbers -> Snapshot \cup {NoDump, Torn}]
    BY <1>6, SnapshotOfMemory DEF CloseDump, TypeInv, TypeOK
  <2> QED BY <1>6, <2>1, <2>2, <2>3 DEF CloseDump, Returned, TypeInv, TypeOK
<1>7. CASE Decide
  <2>1. CASE OpenDump /\ caller' = "force"
    BY <1>7, <2>1 DEF Decide, OpenDump, TypeInv, TypeOK, Numbers, OutputAssumption
  <2>2. CASE pc' \in {"loop", "off"} /\ UNCHANGED <<caller, dumpNum, dumps, newest>>
    BY <1>7, <2>2 DEF Decide, TypeInv, TypeOK
  <2> QED BY <1>7, <2>1, <2>2 DEF Decide
<1>8. CASE Emergency
  <2>1. t' \in Nat
    BY <1>8 DEF Emergency, TypeInv, TypeOK
  <2>2. /\ last' \in [Streams -> Int] /\ num' \in [Streams -> Nat]
        /\ files' \in [Streams -> [Numbers -> Nat \cup {-1}]]
    <3>1. CASE conf.nowrite
      BY <1>8, <3>1 DEF Emergency, TypeInv, TypeOK
    <3>2. CASE ~conf.nowrite
      <4>1. ASSUME NEW s \in Streams
            PROVE  Advance(last[s], conf.period[s], t') \in Int
        <5>1. last[s] \in Int /\ conf.period[s] \in Int /\ t' \in Int
          BY <1>0, <2>1 DEF TypeInv, TypeOK
        <5> QED BY <5>1, AdvanceBounds
      <4>2. last' \in [Streams -> Int]
        BY <1>8, <1>0, <3>2, <4>1 DEF Emergency, TypeInv, TypeOK
      <4>3. \E w \in SUBSET Streams: WriteFile(w)
        BY <1>8, <3>2 DEF Emergency
      <4> QED BY <2>1, <4>2, <4>3, WriteFileType DEF TypeInv
    <3> QED BY <3>1, <3>2
  <2> QED BY <1>8, <2>1, <2>2 DEF Emergency, TypeInv, TypeOK
<1>9. CASE Stop
  BY <1>9 DEF Stop, TypeInv, TypeOK
<1>10. CASE UNCHANGED vars
  BY <1>10 DEF vars, memory, TypeInv, TypeOK
<1> QED BY <1>1, <1>2, <1>3, <1>4, <1>5, <1>6, <1>7, <1>8, <1>9, <1>10 DEF Next

\* Every state of every history is well typed; a dump under way has a number
\* within its bound.
THEOREM TypeCorrect == Spec => []TypeOK
<1>1. Spec => []TypeInv
  BY TypeInvInit, TypeInvNext, PTL DEF Spec
<1>2. TypeInv => TypeOK
  BY DEF TypeInv
<1> QED BY <1>1, <1>2, PTL
-----------------------------------------------------------------------------
(* The restart point.  A dump carries the number of the next one, so the    *)
(* numbers a process takes are above that of the dump it was resumed from.  *)

DumpInv ==
  /\ RestartPointIntact
  /\ \A n \in Numbers: dumps[n] \in Snapshot => dumps[n].dumpNum = n + 1
  /\ pc \in {"loop", "streams", "decide"} /\ lastDone # NoDump => lastDone < dumpNum
  /\ pc = "closing" /\ lastDone # NoDump => lastDone < dumpNum - 1

LEMMA OpenDumpKeeps ==
  ASSUME TypeInv, DumpInv, OpenDump, lastDone' = lastDone,
         pc \in {"loop", "streams", "decide"}
  PROVE  DumpInv'
<1> USE OutputAssumption
<1>1. lastDone # NoDump => dumps'[lastDone] = dumps[lastDone]
  BY DEF TypeInv, TypeOK, DumpInv, OpenDump, Numbers
<1>2. \A n \in Numbers: dumps'[n] \in Snapshot => dumps'[n] = dumps[n]
  BY DEF TypeInv, TypeOK, OpenDump
<1>3. lastDone # NoDump => lastDone < dumpNum' - 1
  BY DEF TypeInv, TypeOK, DumpInv, OpenDump, Numbers
<1> QED BY <1>1, <1>2, <1>3 DEF DumpInv, RestartPointIntact, OpenDump

LEMMA DumpInvInit == Init => DumpInv
BY OutputAssumption DEF Init, DumpInv, RestartPointIntact

LEMMA DumpInvNext == TypeInv /\ DumpInv /\ [Next]_vars => DumpInv'
<1> SUFFICES ASSUME TypeInv, DumpInv, [Next]_vars PROVE DumpInv'
  OBVIOUS
<1> USE OutputAssumption
<1>1. CASE Fresh
  BY <1>1 DEF Fresh, DumpInv, RestartPointIntact
<1>2. ASSUME NEW n \in Numbers, Restart(n) PROVE DumpInv'
  BY <1>2 DEF Restart, DumpInv, RestartPointIntact, Numbers
<1>3. CASE Cycle
  BY <1>3 DEF Cycle, EnterCheck, DumpInv, RestartPointIntact
<1>4. ASSUME NEW s \in Streams, CheckStream(s) PROVE DumpInv'
  BY <1>4 DEF CheckStream, DumpInv, RestartPointIntact
<1>5. CASE CheckDump
  <2>1. CASE OpenDump
    BY <1>5, <2>1, OpenDumpKeeps DEF CheckDump
  <2>2. CASE pc' = Returned /\ UNCHANGED <<dumpNum, dumps, newest>>
    BY <1>5, <2>2 DEF CheckDump, Returned, DumpInv, RestartPointIntact
  <2> QED BY <1>5, <2>1, <2>2 DEF CheckDump
<1>6. CASE CloseDump
  <2>1. dumpNum - 1 \in Numbers /\ dumpNum - 1 # NoDump
    BY <1>6 DEF CloseDump, TypeInv, Numbers
  <2>2. dumps'[dumpNum - 1] \in Snapshot /\ dumps'[dumpNum - 1].dumpNum = dumpNum
    BY <1>6, <2>1, SnapshotOfMemory DEF CloseDump, TypeInv, TypeOK
  <2>3. \A n \in Numbers: n # dumpNum - 1 => dumps'[n] = dumps[n]
    BY <1>6 DEF CloseDump, TypeInv, TypeOK
  <2>4. ASSUME NEW n \in Numbers, dumps'[n] \in Snapshot
        PROVE  dumps'[n].dumpNum = n + 1
    <3>1. CASE n = dumpNum - 1
      BY <2>2, <3>1 DEF TypeInv, TypeOK
    <3>2. CASE n # dumpNum - 1
      BY <2>3, <2>4, <3>2 DEF DumpInv
    <3> QED BY <3>1, <3>2
  <2>5. lastDone' = dumpNum - 1 /\ dumpNum' = dumpNum /\ pc' # "closing"
    BY <1>6 DEF CloseDump, Returned
  <2>6. lastDone' < dumpNum'
    BY <2>5 DEF TypeInv, TypeOK
  <2> QED BY <2>2, <2>4, <2>5, <2>6 DEF DumpInv, RestartPointIntact
<1>7. CASE Decide
  <2>1. CASE OpenDump
    BY <1>7, <2>1, OpenDumpKeeps DEF Decide
  <2>2. CASE pc' \in {"loop", "off"} /\ UNCHANGED <<caller, dumpNum, dumps, newest>>
    BY <1>7, <2>2 DEF Decide, DumpInv, RestartPointIntact
  <2> QED BY <1>7, <2>1, <2>2 DEF Decide
<1>8. CASE Emergency
  BY <1>8 DEF Emergency, DumpInv, RestartPointIntact
<1>9. CASE Stop
  BY <1>9 DEF Stop, DumpInv, RestartPointIntact
<1>10. CASE UNCHANGED vars
  BY <1>10 DEF vars, memory, DumpInv, RestartPointIntact
<1> QED BY <1>1, <1>2, <1>3, <1>4, <1>5, <1>6, <1>7, <1>8, <1>9, <1>10 DEF Next

\* The dump a history is resumed from is complete on disk at every instant,
\* for any number of kills, restarts and fresh starts.
THEOREM RestartPointSafe == Spec => []RestartPointIntact
<1>1. Init => TypeInv /\ DumpInv
  BY TypeInvInit, DumpInvInit
<1>2. TypeInv /\ DumpInv /\ [Next]_vars => (TypeInv /\ DumpInv)'
  BY TypeInvNext, DumpInvNext
<1>3. TypeInv /\ DumpInv => RestartPointIntact
  BY DEF DumpInv
<1> QED BY <1>1, <1>2, <1>3, PTL DEF Spec
-----------------------------------------------------------------------------
(* The cadence of the outputs.  An output that CheckForWrites has still to   *)
(* look at is either in the past or due (an analysis of negative period);    *)
(* under -nowrite nothing is looked at, and no dump is written.              *)

InPast(s) == last[s] <= t

CadenceInv ==
  /\ NotOverdue /\ NotAhead
  /\ pc \in {"streams", "closing"} => ~conf.nowrite
  /\ pc = "loop" /\ ~conf.nowrite => \A s \in Streams: InPast(s)
  /\ pc = "streams" => \A s \in todo:
       InPast(s) \/ (EnabledBy(s, conf.period[s]) /\ Due(last[s], conf.period[s], t))

SnapshotsInPast ==
  \A n \in Numbers: dumps[n] \in Snapshot =>
    \A s \in Streams: dumps[n].last[s] <= dumps[n].t

LEMMA OpenDumpInPast ==
  ASSUME TypeInv, SnapshotsInPast, OpenDump
  PROVE  SnapshotsInPast'
<1>1. \A n \in Numbers: dumps'[n] \in Snapshot => dumps'[n] = dumps[n]
  BY OutputAssumption DEF TypeInv, TypeOK, OpenDump
<1> QED BY <1>1 DEF SnapshotsInPast

LEMMA CadenceInvInit == Init => CadenceInv
BY OutputAssumption DEF Init, CadenceInv, NotOverdue, NotAhead, Checked

LEMMA CadenceInvNext == TypeInv /\ CadenceInv /\ [Next]_vars => CadenceInv'
<1> SUFFICES ASSUME TypeInv, CadenceInv, [Next]_vars PROVE CadenceInv'
  OBVIOUS
<1> USE OutputAssumption
<1>a. /\ \A s \in Streams: conf.period[s] \in Int /\ last[s] \in Int
      /\ conf.dump \in Int /\ conf.nowrite \in BOOLEAN
      /\ t \in Int /\ dumpLast \in Int
  BY ConfigurationFields DEF TypeInv, TypeOK
<1>b. SnapshotsInPast
  BY DEF CadenceInv, NotAhead, SnapshotsInPast
<1>1. CASE Fresh
  <2>1. \A s \in Streams: conf'.period[s] \in Int
    BY <1>1, ConfigurationFields DEF Fresh
  <2>2. \A s \in Streams: last'[s] = FirstLast(s, conf'.period[s])
    BY <1>1 DEF Fresh
  <2>3. /\ t' = 0 /\ dumps' = dumps
        /\ pc' = IF ~conf'.nowrite THEN "streams" ELSE "loop"
        /\ todo' = IF conf'.nowrite THEN {} ELSE Streams
    BY <1>1 DEF Fresh, EnterCheck
  <2>4. \A s \in Streams:
          InPast(s)' \/ (EnabledBy(s, conf'.period[s]) /\ Due(last'[s], conf'.period[s], t'))
    BY <2>1, <2>2, <2>3 DEF InPast, FirstLast, Due
  <2> QED BY <1>b, <2>3, <2>4
        DEF CadenceInv, NotOverdue, NotAhead, Checked, SnapshotsInPast
<1>2. ASSUME NEW n \in Numbers, Restart(n) PROVE CadenceInv'
  <2>1. \A s \in Streams: last'[s] <= t'
    BY <1>b, <1>2 DEF Restart, SnapshotsInPast
  <2>2. pc' = "loop" /\ dumps' = dumps
    BY <1>2 DEF Restart
  <2> QED BY <1>b, <2>1, <2>2
        DEF CadenceInv, NotOverdue, NotAhead, Checked, InPast, SnapshotsInPast
<1>3. CASE Cycle
  <2>1. t' \in Int /\ t <= t'
    BY <1>3, <1>a DEF Cycle, OutputAssumption
  <2>2. /\ conf' = conf /\ last' = last /\ dumps' = dumps /\ pc = "loop"
        /\ pc' = IF ~conf.nowrite THEN "streams" ELSE "decide"
        /\ todo' = IF conf.nowrite THEN {} ELSE Streams
    BY <1>3 DEF Cycle, EnterCheck
  <2>3. ~conf.nowrite => \A s \in Streams: last'[s] <= t'
    BY <1>a, <2>1, <2>2 DEF CadenceInv, InPast
  <2> QED BY <1>b, <2>2, <2>3
        DEF CadenceInv, NotOverdue, NotAhead, Checked, InPast, SnapshotsInPast
<1>4. ASSUME NEW s \in Streams, CheckStream(s) PROVE CadenceInv'
  <2> DEFINE p == conf.period[s]
             due == EnabledBy(s, p) /\ Due(last[s], p, t)
  <2>1. /\ pc = "streams" /\ s \in todo
        /\ UNCHANGED <<pc, conf, t, dumpLast, dumps>>
        /\ todo' = todo \ {s}
        /\ last' = IF due THEN [last EXCEPT ![s] = Advance(@, p, t)] ELSE last
    BY <1>4 DEF CheckStream
  <2>2. \A r \in Streams \ {s}: last'[r] = last[r]
    BY <2>1 DEF TypeInv, TypeOK
  <2>3. CASE due
    <3>1. last'[s] = Advance(last[s], p, t)
      BY <2>1, <2>3 DEF TypeInv, TypeOK
    <3>2. last'[s] <= t /\ (p > 0 => t < last'[s] + p)
      BY <1>a, <2>3, <3>1, AdvanceBounds
    <3> QED BY <1>b, <2>1, <2>2, <3>2
          DEF CadenceInv, NotOverdue, NotAhead, Checked, InPast, SnapshotsInPast
  <2>4. CASE ~due
    <3>1. last'[s] = last[s] /\ last[s] <= t
      BY <2>1, <2>4 DEF CadenceInv, InPast
    <3>2. EnabledBy(s, p) /\ p > 0 => t < last[s] + p
      BY <1>a, <2>4 DEF Due
    <3> QED BY <1>b, <2>1, <2>2, <3>1, <3>2
          DEF CadenceInv, NotOverdue, NotAhead, Checked, InPast, SnapshotsInPast
  <2> QED BY <2>3, <2>4
<1>5. CASE CheckDump
  <2>1. /\ pc = "streams" /\ todo = {} /\ UNCHANGED <<conf, t, todo, last>>
        /\ ~conf.nowrite
    BY <1>5 DEF CheckDump, CadenceInv
  <2>2. \A s \in Streams: /\ last[s] <= t
                          /\ EnabledBy(s, conf.period[s]) /\ conf.period[s] > 0
                               => t < last[s] + conf.period[s]
    BY <2>1 DEF CadenceInv, NotOverdue, NotAhead, Checked
  <2>3. CASE OpenDump
    <3>1. pc' = "closing" /\ SnapshotsInPast'
      BY <1>b, <2>3, OpenDumpInPast DEF OpenDump
    <3> QED BY <2>1, <2>2, <3>1
          DEF CadenceInv, NotOverdue, NotAhead, Checked, InPast, SnapshotsInPast
  <2>4. CASE ~OpenDump
    <3>1. pc' = Returned /\ dumps' = dumps
      BY <1>5, <2>4 DEF CheckDump
    <3>2. ~(DumpEnabled /\ conf.dump > 0 /\ Due(dumpLast, conf.dump, t))
          /\ dumpLast' = dumpLast
      BY <1>5, <2>4 DEF CheckDump
    <3>3. conf.dump > 0 => t < dumpLast' + conf.dump
      BY <1>a, <3>2 DEF Due, DumpEnabled
    <3> QED BY <1>b, <2>1, <2>2, <3>1, <3>3
          DEF CadenceInv, NotOverdue, NotAhead, Checked, InPast, SnapshotsInPast, Returned
  <2> QED BY <2>3, <2>4
<1>6. CASE CloseDump
  <2>1. /\ pc = "closing" /\ UNCHANGED <<conf, t, todo, last>> /\ ~conf.nowrite
        /\ pc' \in {"off", "loop", "decide"}
    BY <1>6 DEF CloseDump, CadenceInv, Returned
  <2>2. \A s \in Streams: /\ last[s] <= t
                          /\ EnabledBy(s, conf.period[s]) /\ conf.period[s] > 0
                               => t < last[s] + conf.period[s]
    BY <2>1 DEF CadenceInv, NotOverdue, NotAhead, Checked
  <2>3. ASSUME NEW n \in Numbers, dumps'[n] \in Snapshot, NEW s \in Streams
        PROVE  dumps'[n].last[s] <= dumps'[n].t
    <3>1. CASE n = dumpNum - 1
      <4>1. dumps'[n].last = last /\ dumps'[n].t = t
        BY <1>6, <3>1, SnapshotOfMemory DEF CloseDump, TypeInv, TypeOK
      <4> QED BY <2>2, <4>1
    <3>2. CASE n # dumpNum - 1
      <4>1. dumps'[n] = dumps[n]
        BY <1>6, <3>2 DEF CloseDump, TypeInv, TypeOK
      <4> QED BY <1>b, <2>3, <4>1 DEF SnapshotsInPast
    <3> QED BY <3>1, <3>2
  <2>4. pc' = "decide" /\ conf.dump > 0 => t < dumpLast' + conf.dump
    <3>1. CASE caller = "force"
      BY <1>6, <3>1 DEF CloseDump
    <3>2. CASE caller # "force"
      <4>1. dumpLast' = CatchUp(dumpLast, conf.dump, t)
        BY <1>6, <3>2 DEF CloseDump
      <4> QED BY <1>a, <4>1, CatchUpBounds
    <3> QED BY <3>1, <3>2
  <2> QED BY <2>1, <2>2, <2>3, <2>4
        DEF CadenceInv, NotOverdue, NotAhead, Checked, InPast
<1>7. CASE Decide
  <2>1. pc = "decide" /\ UNCHANGED <<conf, t, todo, last, dumpLast>>
    BY <1>7 DEF Decide
  <2>2. CASE OpenDump /\ ~conf.nowrite
    <3>1. pc' = "closing" /\ SnapshotsInPast'
      BY <1>b, <2>2, OpenDumpInPast DEF OpenDump
    <3> QED BY <2>1, <2>2, <3>1
          DEF CadenceInv, NotOverdue, NotAhead, Checked, InPast, SnapshotsInPast
  <2>3. CASE pc' \in {"loop", "off"} /\ UNCHANGED dumps
    BY <1>b, <2>1, <2>3
       DEF CadenceInv, NotOverdue, NotAhead, Checked, InPast, SnapshotsInPast
  <2> QED BY <1>7, <2>2, <2>3 DEF Decide
<1>8. CASE Emergency \/ Stop
  <2>1. pc' = "off" /\ dumps' = dumps
    BY <1>8 DEF Emergency, Stop
  <2> QED BY <1>b, <2>1 DEF CadenceInv, NotOverdue, NotAhead, Checked, SnapshotsInPast
<1>9. CASE UNCHANGED vars
  BY <1>9 DEF vars, memory, CadenceInv, NotOverdue, NotAhead, Checked, InPast
<1> QED BY <1>1, <1>2, <1>3, <1>4, <1>5, <1>6, <1>7, <1>8, <1>9 DEF Next

\* No call of CheckForWrites leaves an output overdue or dated in the future,
\* for any periods (changed at restarts or not), any lengths of cycles and
\* any history of kills and restarts.
THEOREM CadenceSafe == Spec => [](NotOverdue /\ NotAhead)
<1>1. Init => TypeInv /\ CadenceInv
  BY TypeInvInit, CadenceInvInit
<1>2. TypeInv /\ CadenceInv /\ [Next]_vars => (TypeInv /\ CadenceInv)'
  BY TypeInvNext, CadenceInvNext
<1>3. TypeInv /\ CadenceInv => NotOverdue /\ NotAhead
  BY DEF CadenceInv
<1> QED BY <1>1, <1>2, <1>3, PTL DEF Spec
-----------------------------------------------------------------------------
(* What dumps and files hold                                                 *)

\* An output whose period never changes.
Fixed(s, p) == Periods[s] = {p} /\ p > 0

LEMMA FixedPeriod ==
  ASSUME TypeOK, NEW s \in Streams, NEW p, Fixed(s, p)
  PROVE  p \in Int /\ p > 0 /\ conf.period[s] = p /\ EnabledBy(s, conf.period[s])
<1>1. p \in Periods[s] /\ p > 0 /\ p \in Int
  BY OutputAssumption DEF Fixed
<1>2. conf.period[s] \in Periods[s]
  BY DEF TypeOK, Configurations
<1>3. conf.period[s] = p
  BY <1>2 DEF Fixed
<1> QED BY <1>1, <1>3 DEF EnabledBy

\* No dump on disk records an output that is due again at the time of the
\* dump: what CheckForWrites has not looked at is never in a dump, since dumps
\* come last.
THEOREM DumpsUpToDate == Spec => []DumpsAreUpToDate
<1>1. Init => DumpsAreUpToDate
  BY OutputAssumption DEF Init, DumpsAreUpToDate
<1>2. TypeInv /\ CadenceInv /\ DumpsAreUpToDate /\ [Next]_vars => DumpsAreUpToDate'
  <2> SUFFICES ASSUME TypeInv, CadenceInv, DumpsAreUpToDate, [Next]_vars,
                      NEW n \in Numbers, NEW s \in Streams, NEW p \in Periods[s],
                      Periods[s] = {p}, p > 0, dumps'[n] \in Snapshot
               PROVE  dumps'[n].t < dumps'[n].last[s] + p
    BY DEF DumpsAreUpToDate
  <2>1. CASE dumps'[n] = dumps[n]
    BY <2>1 DEF DumpsAreUpToDate
  <2>2. CASE OpenDump
    <3>1. dumps'[n] = dumps[n]
      BY <2>2, OutputAssumption DEF OpenDump, TypeInv, TypeOK
    <3> QED BY <2>1, <3>1
  <2>3. CASE CloseDump /\ n = dumpNum - 1
    <3>1. dumps'[n].t = t /\ dumps'[n].last = last
      BY <2>3, SnapshotOfMemory DEF CloseDump, TypeInv, TypeOK
    <3>2. conf.period[s] = p /\ EnabledBy(s, conf.period[s])
      BY FixedPeriod DEF Fixed, TypeInv
    <3>3. t < last[s] + p
      BY <2>3, <3>2 DEF CloseDump, CadenceInv, NotOverdue, Checked
    <3> QED BY <3>1, <3>3
  <2>4. CASE CloseDump /\ n # dumpNum - 1
    <3>1. dumps'[n] = dumps[n]
      BY <2>4 DEF CloseDump, TypeInv, TypeOK
    <3> QED BY <2>1, <3>1
  <2>5. CASE UNCHANGED dumps
    BY <2>1, <2>5
  <2>6. OpenDump \/ CloseDump \/ UNCHANGED dumps
    BY DEF Next, Fresh, Restart, Cycle, CheckStream, CheckDump, Decide, Emergency, Stop, vars
  <2> QED BY <2>2, <2>3, <2>4, <2>5, <2>6
<1> QED BY <1>1, <1>2, TypeInvInit, TypeInvNext, CadenceInvInit, CadenceInvNext, PTL DEF Spec

\* A running process numbers its files from where its restart dump stopped:
\* the numbers only go up.
Counted ==
  pc # "off" /\ lastDone # NoDump =>
    \A s \in Streams \cap NumberSaved: dumps[lastDone].num[s] <= num[s]

LEMMA WriteFileCounts ==
  ASSUME TypeInv, NEW w, WriteFile(w)
  PROVE  \A s \in Streams: num'[s] \in Nat /\ num[s] <= num'[s]
BY DEF WriteFile, TypeInv, TypeOK

\* Opening a dump never touches the one of the history.
LEMMA RestartPointStays ==
  ASSUME TypeInv, DumpInv, OpenDump, pc \in {"loop", "streams", "decide"},
         lastDone # NoDump
  PROVE  dumps'[lastDone] = dumps[lastDone]
BY OutputAssumption DEF TypeInv, TypeOK, DumpInv, OpenDump, Numbers

LEMMA CountedNext == TypeInv /\ DumpInv /\ Counted /\ [Next]_vars => Counted'
<1> SUFFICES ASSUME TypeInv, DumpInv, Counted, [Next]_vars, pc' # "off", lastDone' # NoDump,
                    NEW s \in Streams \cap NumberSaved
             PROVE  dumps'[lastDone'].num[s] <= num'[s]
  BY DEF Counted
<1> USE OutputAssumption
<1>1. CASE Fresh
  BY <1>1 DEF Fresh
<1>2. ASSUME NEW n \in Numbers, Restart(n) PROVE dumps'[lastDone'].num[s] <= num'[s]
  <2>1. dumps[n].num[s] \in Nat
    BY <1>2 DEF Restart, Snapshot
  <2> QED BY <1>2, <2>1 DEF Restart
<1>3. CASE Cycle
  BY <1>3 DEF Cycle, Counted
<1>4. ASSUME NEW r \in Streams, CheckStream(r) PROVE dumps'[lastDone'].num[s] <= num'[s]
  <2>1. /\ num[s] <= num'[s] /\ num'[s] \in Nat /\ num[s] \in Nat
    BY <1>4, WriteFileCounts DEF CheckStream, TypeInv, TypeOK
  <2>2. pc = "streams" /\ dumps' = dumps /\ lastDone' = lastDone
    BY <1>4 DEF CheckStream
  <2>3. dumps[lastDone].num[s] \in Nat
    BY <2>2 DEF DumpInv, RestartPointIntact, Snapshot
  <2> QED BY <2>1, <2>2, <2>3 DEF Counted
<1>5. CASE CheckDump
  <2>1. pc = "streams" /\ lastDone' = lastDone /\ num' = num
    BY <1>5 DEF CheckDump
  <2>2. dumps'[lastDone] = dumps[lastDone]
    BY <1>5, <2>1, RestartPointStays DEF CheckDump
  <2> QED BY <2>1, <2>2 DEF Counted
<1>6. CASE CloseDump
  <2>1. dumps'[lastDone'] = Registered /\ num' = num
    BY <1>6 DEF CloseDump, TypeInv, TypeOK, Numbers
  <2>2. Registered.num[s] = num[s] /\ num[s] \in Nat
    BY DEF Registered, TypeInv, TypeOK
  <2> QED BY <2>1, <2>2
<1>7. CASE Decide
  <2>1. pc = "decide" /\ lastDone' = lastDone /\ num' = num
    BY <1>7 DEF Decide
  <2>2. dumps'[lastDone] = dumps[lastDone]
    BY <1>7, <2>1, RestartPointStays DEF Decide
  <2> QED BY <2>1, <2>2 DEF Counted
<1>8. CASE Emergency \/ Stop
  BY <1>8 DEF Emergency, Stop
<1>9. CASE UNCHANGED vars
  BY <1>9 DEF vars, memory, Counted
<1> QED BY <1>1, <1>2, <1>3, <1>4, <1>5, <1>6, <1>7, <1>8, <1>9 DEF Next

\* A history of kills and restarts never overwrites a file that its last dump
\* counts, for the outputs whose number is registered in the dumps.
THEOREM FilesSafe == Spec => FilesKept
<1>1. Init => Counted
  BY DEF Init, Counted
<1>2. TypeInv /\ DumpInv /\ Counted /\ [Next]_vars => [FilesOf(Kinds \ {"xdmf"})]_vars
  <2> SUFFICES ASSUME TypeInv, DumpInv, Counted, Next, lastDone # NoDump,
                      NEW s \in Streams \ {"xdmf"}, NEW n \in Numbers,
                      n < dumps[lastDone].num[s]
               PROVE  files'[s][n] = files[s][n]
    BY DEF FilesOf
  <2>1. ASSUME NEW w, WriteFile(w), pc # "off"
        PROVE  files'[s][n] = files[s][n]
    <3>1. CASE s = "analysis"
      BY <2>1, <3>1 DEF WriteFile
    <3>2. CASE s # "analysis"
      <4>1. s \in NumberSaved
        BY <3>2, OutputAssumption DEF NumberSaved, Kinds
      <4>2. dumps[lastDone].num[s] <= num[s] /\ num[s] \in Nat /\ dumps[lastDone].num[s] \in Nat
        BY <2>1, <4>1 DEF Counted, TypeInv, TypeOK, DumpInv, RestartPointIntact, Snapshot
      <4>3. n # num[s]
        BY <4>2 DEF Numbers
      <4>4. files[s] \in [Numbers -> Nat \cup {-1}]
        BY DEF TypeInv, TypeOK
      <4> QED BY <2>1, <4>3, <4>4 DEF WriteFile
    <3> QED BY <3>1, <3>2
  <2>2. UNCHANGED files \/ \E w: WriteFile(w) /\ pc # "off"
    BY DEF Next, Fresh, Restart, Cycle, CheckStream, CheckDump, CloseDump, Decide, Emergency,
       Stop
  <2> QED BY <2>1, <2>2
<1> QED BY <1>1, <1>2, TypeInvInit, TypeInvNext, DumpInvInit, DumpInvNext, CountedNext, PTL
        DEF Spec, FilesKept
-----------------------------------------------------------------------------
(* The order of the files.  The dates of an output of fixed period p are     *)
(* multiples of p, and a file is written once its date is p after the last.  *)

LEMMA Quotient ==
  ASSUME NEW p \in Int, p > 0, NEW x \in Int
  PROVE  /\ x \div p \in Int
         /\ x = p * (x \div p) + (x % p)
         /\ x % p \in 0..(p - 1)
         /\ (x + p) \div p = x \div p + 1
OBVIOUS

LEMMA MultipleOf ==
  ASSUME NEW p \in Int, p > 0, NEW d \in Int
  PROVE  d % p = 0 <=> \E k \in Int: d = p * k
<1>1. d % p = 0 => d = p * (d \div p)
  BY Quotient
<1>2. ASSUME NEW k \in Int, d = p * k PROVE d % p = 0
  BY <1>2
<1> QED BY <1>1, <1>2, Quotient

LEMMA Multiples ==
  ASSUME NEW p \in Int, p > 0, NEW d \in Int, d % p = 0, NEW x \in Int
  PROVE  /\ x < d + p => x \div p <= d \div p
         /\ x >= d + p => d \div p < x \div p
         /\ (0 - p) % p = 0
<1>1. PICK k \in Int: d = p * k
  BY MultipleOf
<1>2. d \div p = k /\ (d + p) \div p = k + 1
  BY <1>1, Quotient
<1>3. x >= d + p => (d + p) \div p <= x \div p
  OBVIOUS
<1>4. x < d + p => x \div p <= k
  <2> SUFFICES ASSUME x < d + p PROVE x \div p <= k
    OBVIOUS
  <2>1. p * (x \div p) <= x
    OBVIOUS
  <2>2. p * (k + 1) = d + p
    BY <1>1
  <2>3. p * (x \div p) < p * (k + 1) /\ x \div p \in Int
    BY <2>1, <2>2
  <2> QED BY <2>3
<1>6. (0 - p) % p = 0
  <2>1. 0 - p = p * (0 - 1) /\ 0 - 1 \in Int
    OBVIOUS
  <2> QED BY <2>1, MultipleOf
<1>7. x \div p \in Int
  OBVIOUS
<1> QED BY <1>2, <1>3, <1>4, <1>6, <1>7

LEMMA CatchUpMultiple ==
  ASSUME NEW l \in Int, NEW p \in Int, NEW now \in Int, p > 0, l % p = 0
  PROVE  CatchUp(l, p, now) % p = 0
<1>1. CASE l + p <= now
  <2>1. PICK k \in Int: l = p * k
    BY MultipleOf
  <2> DEFINE q == (now - l) \div p
  <2>2. now - l \in Int /\ q \in Int /\ now - l = p * q + ((now - l) % p) /\ (now - l) % p \in Int
    OBVIOUS
  <2>3. CatchUp(l, p, now) = l + p * q /\ p * q \in Int
    BY <1>1, <2>2 DEF CatchUp
  <2>4. CatchUp(l, p, now) = p * (k + q)
    BY <2>1, <2>2, <2>3
  <2>5. k + q \in Int /\ CatchUp(l, p, now) \in Int
    BY <2>2, <2>3
  <2> QED BY <2>4, <2>5, MultipleOf
<1>2. CASE ~(l + p <= now)
  BY <1>2 DEF CatchUp
<1> QED BY <1>1, <1>2

LEMMA AdvanceMultiple ==
  ASSUME NEW l \in Int, NEW p \in Int, NEW now \in Int, p > 0, l % p = 0
  PROVE  Advance(l, p, now) % p = 0
<1>1. (l + p) % p = 0 /\ l + p \in Int
  <2>1. PICK k \in Int: l = p * k
    BY MultipleOf
  <2>2. l + p = p * (k + 1) /\ k + 1 \in Int /\ l + p \in Int
    BY <2>1
  <2> QED BY <2>2, MultipleOf
<1> HIDE DEF CatchUp
<1> QED BY <1>1, CatchUpMultiple DEF Advance

\* The user resumes a history from its last dump only, and dumps have a period
\* of time, so that a fresh start writes its first dump at once.  (With a clock
\* only, a fresh start that is killed before its first dump leaves the older
\* dump the newest, and files written over those that it counts.)
OneHistory == ~AnyRestart /\ ~SameSecond /\ \A d \in DumpPeriods: d > 0

\* The first count files of f are in order, up to a date.
Ordered(f, p, count, date) ==
  /\ date % p = 0
  /\ \A m \in Numbers: m < count =>
       /\ f[m] \div p <= date \div p
       /\ \A n \in 0..(m - 1): f[n] \div p < f[m] \div p

\* The first file is that of the initial conditions.
Rooted(f, count) == count > 0 /\ f[0] = 0

Resumable(n) == n \in newest \cup {lastDone} /\ dumps[n] \in Snapshot

\* A fresh start has not looked at output s yet.
Untold(s) == pc = "streams" /\ lastDone = NoDump /\ s \in todo

\* Which dump a restart takes: the last one of the history, or, before a fresh
\* start wrote its own, the newest of another, whose first files are the same.
RestartInv ==
  /\ \A m, n \in newest: m = n
  /\ pc = "closing" => newest = {dumpNum - 1} /\ dumps[dumpNum - 1] \notin Snapshot
  /\ \A n \in newest: lastDone = NoDump \/ n = lastDone \/ dumps[n] \notin Snapshot
  /\ pc # "off" /\ lastDone = NoDump /\ ~conf.nowrite =>
       /\ t = 0 /\ pc \in {"streams", "closing"}
       /\ pc = "streams" => dumpLast = 0 - conf.dump

OrderInv(s, p) ==
  /\ pc # "off" => Ordered(files[s], p, num[s], last[s])
  /\ \A n \in Numbers: Resumable(n) =>
       /\ Ordered(files[s], p, dumps[n].num[s], dumps[n].last[s])
       /\ Rooted(files[s], dumps[n].num[s])
  /\ pc # "off" /\ ~conf.nowrite =>
       IF Untold(s) THEN num[s] = 0 /\ last[s] = 0 - p ELSE Rooted(files[s], num[s])

LEMMA OrderedKept ==
  ASSUME NEW f, NEW g, NEW p, NEW c \in Nat, NEW d, Ordered(f, p, c, d),
         \A m \in Numbers: m < c => g[m] = f[m]
  PROVE  Ordered(g, p, c, d)
BY OutputAssumption DEF Ordered, Numbers

LEMMA OrderedWrite ==
  ASSUME NEW f \in [Numbers -> Nat \cup {-1}], NEW p \in Int, p > 0, NEW c \in Numbers,
         NEW d \in Int, Ordered(f, p, c, d), NEW now \in Nat, Due(d, p, now)
  PROVE  Ordered([f EXCEPT ![c] = now], p, c + 1, Advance(d, p, now))
<1> DEFINE g == [f EXCEPT ![c] = now]
           e == Advance(d, p, now)
<1>1. d % p = 0 /\ e % p = 0 /\ e \in Int /\ now < e + p /\ now >= d + p /\ now \in Int
  BY AdvanceMultiple, AdvanceBounds DEF Ordered, Due
<1>2. d \div p < now \div p
  BY <1>1, Multiples
<1>3. now \div p <= e \div p
  BY <1>1, Multiples
<1>4. /\ g[c] = now
      /\ \A m \in Numbers: m # c => g[m] = f[m]
      /\ \A m \in Numbers: f[m] \in Int
  OBVIOUS
<1>5. \A m \in Numbers: /\ m \in Int /\ f[m] \div p \in Int
                        /\ m < c + 1 => m = c \/ m < c
                        /\ 0..(m - 1) \subseteq Numbers /\ c \in Int
  BY <1>4, OutputAssumption DEF Numbers
<1>6. now \div p \in Int /\ d \div p \in Int /\ e \div p \in Int
  BY <1>1
<1> HIDE DEF g, e
<1>7. ASSUME NEW m \in Numbers, m < c + 1
      PROVE  /\ g[m] \div p <= e \div p
             /\ \A n \in 0..(m - 1): g[n] \div p < g[m] \div p
  <2>1. CASE m < c
    <3>1. f[m] \div p <= d \div p /\ \A n \in 0..(m - 1): f[n] \div p < f[m] \div p
      BY <2>1 DEF Ordered
    <3>2. g[m] = f[m] /\ \A n \in 0..(m - 1): g[n] = f[n]
      BY <1>4, <1>5, <2>1
    <3> QED BY <1>2, <1>3, <1>5, <1>6, <3>1, <3>2
  <2>2. CASE m = c
    <3> SUFFICES ASSUME NEW n \in 0..(m - 1) PROVE g[n] \div p < g[m] \div p
      BY <1>3, <1>4, <2>2
    <3>1. n \in Numbers /\ n < c
      BY <1>5, <2>2
    <3>2. f[n] \div p <= d \div p /\ g[n] = f[n]
      BY <1>4, <3>1 DEF Ordered
    <3> QED BY <1>2, <1>4, <1>5, <1>6, <2>2, <3>1, <3>2
  <2> QED BY <1>5, <1>7, <2>1, <2>2
<1>8. Ordered(g, p, c + 1, e)
  BY <1>1, <1>7 DEF Ordered
<1> QED BY <1>8 DEF g, e

LEMMA RestartInvNext ==
  ASSUME OneHistory, TypeInv, DumpInv, CadenceInv, RestartInv, [Next]_vars
  PROVE  RestartInv'
<1> USE OutputAssumption
<1>a. conf \in Configurations
  BY DEF TypeInv, TypeOK
<1>b. /\ conf.dump \in Int /\ conf.dump > 0
      /\ pc \in {"streams", "closing"} => ~conf.nowrite
  BY <1>a, ConfigurationFields DEF Configurations, OneHistory, CadenceInv
<1>o. ASSUME OpenDump, pc \in {"loop", "streams", "decide"}, lastDone' = lastDone,
             t' = t, conf' = conf, lastDone = NoDump /\ ~conf.nowrite => t = 0
      PROVE  RestartInv'
  <2>1. dumpNum' - 1 = dumpNum /\ dumpNum \in Numbers /\ newest' = {dumpNum}
    BY <1>o DEF OpenDump, OneHistory, TypeInv, TypeOK, Numbers
  <2>2. dumps'[dumpNum] = Torn /\ pc' = "closing"
    BY <1>o, <2>1 DEF OpenDump, TypeInv, TypeOK
  <2> QED BY <1>o, <2>1, <2>2 DEF RestartInv
<1>1. CASE Fresh
  BY <1>1 DEF Fresh, EnterCheck, RestartInv
<1>2. ASSUME NEW n \in Numbers, Restart(n) PROVE RestartInv'
  <2>1. /\ n \in newest \/ n = lastDone
        /\ lastDone' = n /\ UNCHANGED <<dumps, newest>> /\ pc' = "loop"
    BY <1>2 DEF Restart, OneHistory
  <2>2. \A m \in newest: m = n \/ dumps[m] \notin Snapshot
    BY <2>1 DEF RestartInv
  <2> QED BY <2>1, <2>2 DEF RestartInv
<1>3. CASE Cycle
  BY <1>3 DEF Cycle, EnterCheck, RestartInv
<1>4. ASSUME NEW s \in Streams, CheckStream(s) PROVE RestartInv'
  BY <1>4 DEF CheckStream, RestartInv
<1>5. CASE CheckDump
  <2>1. CASE OpenDump
    BY <1>b, <1>5, <1>o, <2>1 DEF CheckDump, RestartInv
  <2>2. CASE ~OpenDump
    <3>1. lastDone # NoDump
      <4> SUFFICES ASSUME lastDone = NoDump PROVE FALSE
        OBVIOUS
      <4>1. t = 0 /\ dumpLast = 0 - conf.dump
        BY <1>b, <1>5 DEF CheckDump, RestartInv
      <4>2. Due(dumpLast, conf.dump, t) /\ DumpEnabled
        BY <1>b, <4>1 DEF Due, DumpEnabled
      <4> QED BY <1>b, <1>5, <2>2, <4>2 DEF CheckDump
    <3> QED BY <1>5, <2>2, <3>1 DEF CheckDump, Returned, RestartInv
  <2> QED BY <2>1, <2>2
<1>6. CASE CloseDump
  <2>1. /\ pc = "closing" /\ lastDone' = dumpNum - 1 /\ newest' = newest /\ pc' # "closing"
    BY <1>6 DEF CloseDump, Returned
  <2>2. newest = {dumpNum - 1} /\ lastDone' # NoDump
    BY <2>1 DEF RestartInv, TypeInv, Numbers
  <2> QED BY <2>1, <2>2 DEF RestartInv
<1>7. CASE Decide
  <2>1. /\ pc = "decide" /\ UNCHANGED <<conf, t, lastDone>>
        /\ lastDone = NoDump => conf.nowrite
    BY <1>7 DEF Decide, RestartInv
  <2>2. CASE OpenDump
    BY <1>o, <2>1, <2>2
  <2>3. CASE ~OpenDump
    BY <1>7, <2>1, <2>3 DEF Decide, RestartInv
  <2> QED BY <2>2, <2>3
<1>8. CASE Emergency \/ Stop
  BY <1>8 DEF Emergency, Stop, RestartInv
<1>9. CASE UNCHANGED vars
  BY <1>9 DEF vars, memory, RestartInv
<1> QED BY <1>1, <1>2, <1>3, <1>4, <1>5, <1>6, <1>7, <1>8, <1>9 DEF Next

LEMMA OrderInvNext ==
  ASSUME OneHistory, TypeInv, TypeInv', DumpInv, DumpInv', CadenceInv, Counted, RestartInv,
         RestartInv', NEW s \in Streams \cap NumberSaved, NEW p, Fixed(s, p),
         OrderInv(s, p), [Next]_vars
  PROVE  OrderInv(s, p)'
<1> USE OutputAssumption
<1>a. /\ p \in Int /\ p > 0 /\ conf.period[s] = p /\ conf'.period[s] = p
      /\ EnabledBy(s, p)
  <2>1. p \in Periods[s] /\ p > 0 /\ p \in Int
    BY DEF Fixed
  <2>2. conf.period[s] \in Periods[s] /\ conf'.period[s] \in Periods[s]
    BY DEF TypeInv, TypeOK, Configurations
  <2> QED BY <2>1, <2>2 DEF Fixed, EnabledBy
<1>b. /\ pc \in {"streams", "closing"} => ~conf.nowrite
      /\ 0 \in Numbers /\ Numbers \subseteq Nat
      /\ last[s] \in Int /\ num[s] \in Nat /\ t \in Nat
      /\ files[s] \in [Numbers -> Nat \cup {-1}]
  BY DEF CadenceInv, TypeInv, TypeOK, Numbers
<1>c. ASSUME NEW n \in Numbers, dumps[n] \in Snapshot
      PROVE  dumps[n].num[s] \in Nat
  BY <1>c DEF Snapshot
<1>o. ASSUME OpenDump, pc \in {"loop", "streams", "decide"}, UNCHANGED <<conf, last, num, files, lastDone>>,
             pc = "streams" => todo = {}
      PROVE  OrderInv(s, p)'
  <2>1. newest' = {dumpNum} /\ dumps'[dumpNum] = Torn /\ pc' = "closing"
    BY <1>o DEF OpenDump, OneHistory, TypeInv, TypeOK, Numbers
  <2>2. lastDone # NoDump => dumps'[lastDone] = dumps[lastDone]
    BY <1>o, RestartPointStays
  <2>3. \A n \in Numbers: Resumable(n)' => Resumable(n) /\ dumps'[n] = dumps[n]
    BY <1>o, <2>1, <2>2 DEF Resumable
  <2>4. ~Untold(s)
    BY <1>o DEF Untold
  <2> QED BY <1>o, <2>1, <2>3, <2>4 DEF OrderInv, Untold
<1>1. CASE Fresh
  <2>1. last'[s] = 0 - p /\ num'[s] = 0
    BY <1>1, <1>a DEF Fresh, FirstLast
  <2>2. Ordered(files[s], p, 0, 0 - p)
    <3>1. (0 - p) % p = 0
      BY <1>a, Multiples
    <3>2. \A m \in Numbers: ~(m < 0)
      BY <1>b
    <3> QED BY <3>1, <3>2 DEF Ordered
  <2>3. \A n \in Numbers: Resumable(n)' => Resumable(n)
    BY <1>1 DEF Fresh, Resumable
  <2>4. ~conf'.nowrite => Untold(s)'
    BY <1>1 DEF Fresh, EnterCheck, Untold
  <2>5. UNCHANGED <<files, dumps>>
    BY <1>1 DEF Fresh
  <2> QED BY <2>1, <2>2, <2>3, <2>4, <2>5 DEF OrderInv
<1>2. ASSUME NEW n \in Numbers, Restart(n) PROVE OrderInv(s, p)'
  <2>1. /\ Resumable(n) /\ \A m \in Numbers: Resumable(m)' => Resumable(m)
        /\ ~Untold(s)' /\ UNCHANGED <<files, dumps>>
    BY <1>2 DEF Restart, OneHistory, Resumable, Untold
  <2>2. num'[s] = dumps[n].num[s] /\ last'[s] = dumps[n].last[s]
    BY <1>2 DEF Restart
  <2> QED BY <2>1, <2>2 DEF OrderInv
<1>3. CASE Cycle
  <2>1. /\ pc = "loop" /\ UNCHANGED <<conf, last, num, dumps, newest, files, lastDone>>
        /\ lastDone = NoDump => conf.nowrite
    BY <1>3 DEF Cycle, RestartInv
  <2> QED BY <2>1 DEF OrderInv, Untold, Resumable
<1>4. ASSUME NEW r \in Streams, CheckStream(r) PROVE OrderInv(s, p)'
  <2>1. /\ pc = "streams" /\ r \in todo /\ todo' = todo \ {r}
        /\ UNCHANGED <<pc, conf, t, dumps, newest, lastDone>> /\ ~conf.nowrite
    BY <1>4, <1>b DEF CheckStream
  <2>2. \A n \in Numbers: Resumable(n)' <=> Resumable(n)
    BY <2>1 DEF Resumable
  <2>3. CASE files'[s] = files[s] /\ num'[s] = num[s] /\ last'[s] = last[s]
             /\ (Untold(s)' <=> Untold(s))
    BY <2>1, <2>2, <2>3 DEF OrderInv
  <2>4. CASE r # s
    <3>1. files'[s] = files[s] /\ num'[s] = num[s] /\ last'[s] = last[s]
      BY <1>4, <2>4 DEF CheckStream, WriteFile, TypeInv, TypeOK
    <3>2. Untold(s)' <=> Untold(s)
      BY <2>1, <2>4 DEF Untold
    <3> QED BY <2>3, <3>1, <3>2
  <2>5. CASE r = s /\ Due(last[s], p, t)
    <3>1. /\ last'[s] = Advance(last[s], p, t) /\ num'[s] = num[s] + 1 /\ num[s] \in Numbers
          /\ files'[s] = [files[s] EXCEPT ![num[s]] = t]
      BY <1>4, <1>a, <1>b, <2>5 DEF CheckStream, WriteFile, NumberSaved, TypeInv, TypeOK, Numbers
    <3>2. Ordered(files'[s], p, num'[s], last'[s])
      BY <1>a, <1>b, <2>1, <2>5, <3>1, OrderedWrite DEF OrderInv
    <3>3. /\ \A n \in Numbers: n # num[s] => files'[s][n] = files[s][n]
          /\ files'[s][num[s]] = t
      BY <1>b, <3>1
    <3>4. CASE Untold(s)
      <4>1. t = 0 /\ num[s] = 0
        BY <2>1, <3>4 DEF OrderInv, RestartInv, Untold
      <4>2. Rooted(files'[s], num'[s])
        BY <3>1, <3>3, <4>1 DEF Rooted
      <4>3. ASSUME NEW n \in Numbers, Resumable(n)
            PROVE  /\ Ordered(files'[s], p, dumps[n].num[s], dumps[n].last[s])
                   /\ Rooted(files'[s], dumps[n].num[s])
        <5>1. /\ Ordered(files[s], p, dumps[n].num[s], dumps[n].last[s])
              /\ Rooted(files[s], dumps[n].num[s])
          BY <4>3 DEF OrderInv
        <5>2. \A m \in Numbers: files'[s][m] = files[s][m]
          BY <3>3, <4>1, <5>1 DEF Rooted
        <5> QED BY <1>b, <1>c, <4>3, <5>1, <5>2, OrderedKept DEF Resumable, Rooted
      <4>4. ~Untold(s)'
        BY <2>1, <2>5 DEF Untold
      <4> QED BY <2>1, <2>2, <3>2, <4>2, <4>3, <4>4 DEF OrderInv
    <3>5. CASE ~Untold(s)
      <4>1. lastDone # NoDump /\ Rooted(files[s], num[s])
        BY <2>1, <2>5, <3>5 DEF OrderInv, Untold
      <4>2. Rooted(files'[s], num'[s])
        BY <1>b, <3>1, <3>3, <4>1 DEF Rooted
      <4>3. ASSUME NEW n \in Numbers, Resumable(n)
            PROVE  /\ Ordered(files'[s], p, dumps[n].num[s], dumps[n].last[s])
                   /\ Rooted(files'[s], dumps[n].num[s])
        <5>1. /\ Ordered(files[s], p, dumps[n].num[s], dumps[n].last[s])
              /\ Rooted(files[s], dumps[n].num[s]) /\ dumps[n].num[s] \in Nat
          BY <1>c, <4>3 DEF OrderInv, Resumable
        <5>2. n = lastDone
          BY <4>1, <4>3 DEF RestartInv, Resumable
        <5>3. dumps[n].num[s] <= num[s]
          BY <2>1, <4>1, <5>2 DEF Counted
        <5>4. \A m \in Numbers: m < dumps[n].num[s] => files'[s][m] = files[s][m]
          BY <1>b, <3>3, <5>1, <5>3
        <5> QED BY <1>b, <5>1, <5>4, OrderedKept DEF Rooted
      <4>4. ~Untold(s)'
        BY <2>1, <2>5 DEF Untold
      <4> QED BY <2>1, <2>2, <3>2, <4>2, <4>3, <4>4 DEF OrderInv
    <3> QED BY <3>4, <3>5
  <2>6. CASE r = s /\ ~Due(last[s], p, t)
    <3>1. files'[s] = files[s] /\ num'[s] = num[s] /\ last'[s] = last[s]
      BY <1>4, <1>a, <2>6 DEF CheckStream, WriteFile, TypeInv, TypeOK
    <3>2. ~Untold(s)
      <4> SUFFICES ASSUME Untold(s) PROVE FALSE
        OBVIOUS
      <4>1. t = 0 /\ last[s] = 0 - p
        BY <2>1 DEF OrderInv, RestartInv, Untold
      <4> QED BY <1>a, <2>6, <4>1 DEF Due
    <3>3. ~Untold(s)'
      BY <2>1, <2>6 DEF Untold
    <3> QED BY <2>3, <3>1, <3>2, <3>3
  <2> QED BY <2>4, <2>5, <2>6
<1>5. CASE CheckDump
  <2>1. pc = "streams" /\ todo = {} /\ UNCHANGED <<conf, t, todo, last, num, files, lastDone>>
    BY <1>5 DEF CheckDump
  <2>2. CASE OpenDump
    BY <1>o, <2>1, <2>2
  <2>3. CASE ~OpenDump
    <3>1. UNCHANGED <<dumps, newest>> /\ pc' # "off"
      BY <1>5, <2>3 DEF CheckDump, Returned
    <3>2. ~Untold(s) /\ ~Untold(s)' /\ \A n \in Numbers: Resumable(n)' <=> Resumable(n)
      BY <2>1, <3>1 DEF Untold, Resumable
    <3> QED BY <2>1, <3>1, <3>2 DEF OrderInv
  <2> QED BY <2>2, <2>3
<1>6. CASE CloseDump
  <2>1. /\ pc = "closing" /\ UNCHANGED <<conf, last, num, files, newest>>
        /\ lastDone' = dumpNum - 1 /\ newest = {dumpNum - 1} /\ pc' # "streams"
    BY <1>6 DEF CloseDump, Returned, RestartInv
  <2>2. dumps'[dumpNum - 1].num = num /\ dumps'[dumpNum - 1].last = last
    BY <1>6, <2>1 DEF CloseDump, Registered, TypeInv, TypeOK, Numbers
  <2>3. \A n \in Numbers: Resumable(n)' => n = dumpNum - 1
    BY <2>1 DEF Resumable
  <2>4. ~Untold(s) /\ ~Untold(s)' /\ ~conf.nowrite
    BY <1>b, <2>1 DEF Untold
  <2>5. Ordered(files[s], p, num[s], last[s]) /\ Rooted(files[s], num[s])
    BY <2>1, <2>4 DEF OrderInv
  <2> QED BY <2>1, <2>2, <2>3, <2>4, <2>5 DEF OrderInv
<1>7. CASE Decide
  <2>1. pc = "decide" /\ UNCHANGED <<conf, t, todo, last, num, files, lastDone>>
    BY <1>7 DEF Decide
  <2>2. CASE OpenDump
    BY <1>o, <2>1, <2>2
  <2>3. CASE ~OpenDump
    <3>1. UNCHANGED <<dumps, newest>> /\ pc' \in {"loop", "off"}
      BY <1>7, <2>3 DEF Decide
    <3> QED BY <2>1, <3>1 DEF OrderInv, Untold, Resumable
  <2> QED BY <2>2, <2>3
<1>8. CASE Emergency
  <2>1. /\ pc = "loop" /\ pc' = "off" /\ UNCHANGED <<dumps, newest, lastDone>>
        /\ \A n \in Numbers: Resumable(n)' <=> Resumable(n)
    BY <1>8 DEF Emergency, Resumable
  <2>2. CASE lastDone = NoDump
    <3>1. files' = files
      BY <1>8, <2>1, <2>2 DEF Emergency, RestartInv
    <3> QED BY <2>1, <3>1 DEF OrderInv
  <2>3. CASE lastDone # NoDump
    <3>1. ASSUME NEW n \in Numbers, Resumable(n)
          PROVE  /\ Ordered(files'[s], p, dumps[n].num[s], dumps[n].last[s])
                 /\ Rooted(files'[s], dumps[n].num[s])
      <4>1. /\ Ordered(files[s], p, dumps[n].num[s], dumps[n].last[s])
            /\ Rooted(files[s], dumps[n].num[s]) /\ dumps[n].num[s] \in Nat
        BY <1>c, <3>1 DEF OrderInv, Resumable
      <4>2. n = lastDone
        BY <2>3, <3>1 DEF RestartInv, Resumable
      <4>3. dumps[n].num[s] <= num[s]
        BY <2>1, <2>3, <4>2 DEF Counted
      <4>4. files'[s] = files[s] \/ files'[s] = [files[s] EXCEPT ![num[s]] = t']
        BY <1>8 DEF Emergency, WriteFile
      <4>5. \A m \in Numbers: m < dumps[n].num[s] => files'[s][m] = files[s][m]
        BY <1>b, <4>1, <4>3, <4>4
      <4> QED BY <1>b, <4>1, <4>5, OrderedKept DEF Rooted
    <3> QED BY <2>1, <3>1 DEF OrderInv
  <2> QED BY <2>2, <2>3
<1>9. CASE Stop
  <2>1. pc' = "off" /\ UNCHANGED <<dumps, newest, lastDone, files>>
    BY <1>9 DEF Stop
  <2> QED BY <2>1 DEF OrderInv, Resumable
<1>10. CASE UNCHANGED vars
  BY <1>10 DEF vars, memory, OrderInv, Resumable, Untold
<1> QED BY <1>1, <1>2, <1>3, <1>4, <1>5, <1>6, <1>7, <1>8, <1>9, <1>10 DEF Next

\* The analysis, which no file number belongs to.
NoNumber == "analysis" \in Streams => num["analysis"] = 0

LEMMA NoNumberNext == TypeInv /\ NoNumber /\ [Next]_vars => NoNumber'
<1> SUFFICES ASSUME TypeInv, NoNumber, [Next]_vars, "analysis" \in Streams
             PROVE  num'["analysis"] = 0
  BY DEF NoNumber
<1>1. ASSUME NEW w, WriteFile(w) PROVE num'["analysis"] = 0
  BY <1>1 DEF WriteFile, NoNumber
<1>2. CASE Fresh \/ \E n \in Numbers: Restart(n)
  BY <1>2 DEF Fresh, Restart, NumberSaved
<1>3. CASE UNCHANGED num
  BY <1>3 DEF NoNumber
<1>4. \/ Fresh \/ (\E n \in Numbers: Restart(n)) \/ UNCHANGED num
      \/ \E w: WriteFile(w)
  BY DEF Next, Cycle, CheckStream, CheckDump, CloseDump, Decide, Emergency, Stop, vars, memory
<1> QED BY <1>1, <1>2, <1>3, <1>4

OrdersInv ==
  \A s \in Streams \cap NumberSaved: \A p \in Periods[s]: Fixed(s, p) => OrderInv(s, p)

\* The files that a history counts are in the order of their times, at most
\* one for each period, if it is resumed from its last dump and dumps have a
\* period of time.
THEOREM FilesOrdered == ASSUME OneHistory PROVE Spec => []FilesInOrder
<1> DEFINE I == TypeInv /\ DumpInv /\ CadenceInv /\ Counted /\ RestartInv /\ OrdersInv /\ NoNumber
<1>1. Init => I
  <2> SUFFICES ASSUME Init PROVE RestartInv /\ OrdersInv /\ Counted /\ NoNumber
    BY TypeInvInit, DumpInvInit, CadenceInvInit
  <2>1. RestartInv /\ Counted /\ NoNumber
    BY DEF Init, RestartInv, Counted, NoNumber
  <2>2. \A n \in Numbers: ~Resumable(n)
    BY OutputAssumption DEF Init, Resumable
  <2>3. pc = "off"
    BY DEF Init
  <2> QED BY <2>1, <2>2, <2>3 DEF OrdersInv, OrderInv
<1>2. I /\ [Next]_vars => I'
  <2> SUFFICES ASSUME I, [Next]_vars PROVE I'
    OBVIOUS
  <2>1. TypeInv' /\ DumpInv' /\ CadenceInv' /\ Counted' /\ NoNumber'
    BY TypeInvNext, DumpInvNext, CadenceInvNext, CountedNext, NoNumberNext
  <2>2. RestartInv'
    BY RestartInvNext
  <2>3. ASSUME NEW s \in Streams \cap NumberSaved, NEW p \in Periods[s], Fixed(s, p)
        PROVE  OrderInv(s, p)'
    <3>1. OrderInv(s, p)
      BY <2>3 DEF OrdersInv
    <3> QED BY <2>1, <2>2, <2>3, <3>1, OrderInvNext
  <2>4. OrdersInv'
    BY <2>3 DEF OrdersInv, Fixed
  <2> QED BY <2>1, <2>2, <2>4
<1>3. I => FilesInOrder
  <2> SUFFICES ASSUME I, pc # "off", NEW s \in Streams \ {"xdmf"}, NEW m \in Numbers,
                      NEW p \in Periods[s], Periods[s] = {p}, p > 0, m < num[s],
                      NEW n \in 0..(m - 1)
               PROVE  files[s][n] \div p < files[s][m] \div p
    BY DEF FilesInOrder
  <2>1. s # "analysis"
    BY OutputAssumption DEF NoNumber, Numbers
  <2>2. s \in NumberSaved
    BY <2>1, OutputAssumption DEF NumberSaved, Kinds
  <2>3. Ordered(files[s], p, num[s], last[s])
    BY <2>2 DEF OrdersInv, OrderInv, Fixed
  <2> QED BY <2>3 DEF Ordered
<1> QED BY <1>1, <1>2, <1>3, PTL DEF Spec
=============================================================================
