------------------------------- MODULE Output -------------------------------
(***************************************************************************)
(* The outputs of a run and the restart dumps they are resumed from:       *)
(* class Output (output.cpp), Slice::CheckForWrite (slice.cpp), the        *)
(* registry of Dump (dump.cpp), and the calls main.cpp makes to them.      *)
(* A process may be killed between any two steps; a later process of the   *)
(* same directory starts afresh or restarts from a dump left on disk.      *)
(***************************************************************************)
EXTENDS Cadence, FiniteSets

CONSTANTS
  Streams,      \* the outputs of the input file, dumps apart
  Periods,      \* Periods[s]: the values the user gives to output s
  DumpPeriods,  \* the values the user gives to the first parameter of dmp
  ClockDumps,   \* TRUE when dmp has its second parameter (wall clock period)
  AnyRestart,   \* TRUE when the user restarts from any dump, by its number
  SameSecond,   \* TRUE when two dumps may bear the same date (in seconds)
  Tstop,        \* tstop
  MaxDt,        \* bound on the length of a cycle
  MaxNum,       \* bound on the number of a dump or of a file
  MaxRuns,      \* bound on the number of processes
  NoDump,       \* no file of that number
  Torn          \* a file whose writing was interrupted

Kinds == {"vtk", "xdmf", "analysis", "slice", "python"}

\* Mutant: Vtk and Slice forget to register their number.
NumberSavedPython == {"python"}

\* The outputs whose file number Vtk, Slice and Output register in the dumps
\* (Xdmf registers none, and analysis has no number).
NumberSaved == {"vtk", "slice", "python"}

Numbers == 0..MaxNum

\* What a dump holds of the state of the outputs.
Snapshot == [t: Nat, last: [Streams -> Int], num: [Streams -> Nat],
             dumpLast: Int, dumpNum: Nat]

Configurations ==
  {c \in [period: [Streams -> UNION {Periods[s]: s \in Streams}],
          dump: DumpPeriods, nowrite: BOOLEAN]:
     \A s \in Streams: c.period[s] \in Periods[s]}

ASSUME OutputAssumption ==
  /\ Streams \subseteq Kinds
  /\ \A s \in Streams: Periods[s] \subseteq Int
  /\ DumpPeriods \subseteq Int
  /\ {ClockDumps, AnyRestart, SameSecond} \subseteq BOOLEAN
  /\ {Tstop, MaxNum, MaxRuns} \subseteq Nat
  /\ MaxDt \in Nat \ {0}
  /\ NoDump \notin Snapshot /\ NoDump \notin Numbers
  /\ Torn \notin Snapshot /\ Torn # NoDump

VARIABLES
  pc,        \* where the process is, "off" when there is none
  caller,    \* what made the current call: "init", "cycle" or "force"
  conf,      \* the input file and the command line of the process
  t,         \* data.t
  todo,      \* the outputs CheckForWrites has not looked at yet
  last,      \* vtkLast, xdmfLast, analysisLast, sliceLast, pythonLast
  num,       \* vtkFileNumber, xdmfFileNumber, pythonNumber
  dumpLast,  \* dumpLast
  dumpNum,   \* dumpFileNumber
  dumps,     \* the dump files on disk, by number
  newest,    \* the numbers of the dumps of the most recent date
  files,     \* files[s][n]: the time stored in file n of output s, or -1
  lastDone,  \* the last dump the current history completed or resumed from
  runs       \* how many processes were started

memory == <<pc, caller, conf, t, todo, last, num, dumpLast, dumpNum>>
vars == <<memory, dumps, newest, files, lastDone, runs>>
-----------------------------------------------------------------------------
\* A negative period disables vtk, xdmf and python outputs; the constructor
\* makes no such test for analysis and slices.
EnabledBy(s, period) == s \in {"analysis", "slice"} \/ period >= 0

\* xLast = data.t - xPeriod, with data.t=0: write in the next CheckForWrites.
\* A slice without a positive period keeps its member initialiser.
FirstLast(s, period) ==
  IF EnabledBy(s, period) /\ (s = "slice" => period > 0) THEN 0 - period ELSE 0

DumpEnabled == conf.dump >= 0 \/ ClockDumps

\* The position of each output in the text of CheckForWrites.
Position == [vtk |-> 1, xdmf |-> 2, analysis |-> 3, slice |-> 4, python |-> 5]

Returned == IF caller = "init" THEN "loop" ELSE "decide"
-----------------------------------------------------------------------------
Init ==
  /\ pc = "off" /\ caller = "init"
  /\ conf \in Configurations
  /\ t = 0 /\ todo = {}
  /\ last = [s \in Streams |-> 0] /\ num = [s \in Streams |-> 0]
  /\ dumpLast = 0 /\ dumpNum = 0
  /\ dumps = [n \in Numbers |-> NoDump] /\ newest = {}
  /\ files = [s \in Streams |-> [n \in Numbers |-> -1]]
  /\ lastDone = NoDump /\ runs = 0

\* main enters CheckForWrites, which returns at once under -nowrite.
EnterCheck(from) ==
  /\ caller' = from
  /\ todo' = IF conf'.nowrite THEN {} ELSE Streams
  /\ pc' = IF ~conf'.nowrite THEN "streams"
           ELSE IF from = "init" THEN "loop" ELSE "decide"

\* A process that was not asked to restart, or that found no dump: the
\* constructors, then the outputs of the initial conditions.
Fresh ==
  /\ pc = "off" /\ runs < MaxRuns
  /\ runs' = runs + 1
  /\ conf' \in Configurations
  /\ t' = 0
  /\ last' = [s \in Streams |-> FirstLast(s, conf'.period[s])]
  /\ num' = [s \in Streams |-> 0]
  /\ dumpLast' = 0 - conf'.dump /\ dumpNum' = 0
  /\ EnterCheck("init")
  /\ lastDone' = NoDump
  /\ UNCHANGED <<dumps, newest, files>>

\* Mutant: the dates of the last outputs are not registered in the dumps.
RestartWithoutDates(n) ==
  /\ pc = "off" /\ runs < MaxRuns
  /\ n \in newest \/ n = lastDone \/ AnyRestart
  /\ dumps[n] \in Snapshot
  /\ runs' = runs + 1
  /\ conf' \in Configurations
  /\ t' = dumps[n].t
  /\ last' = [s \in Streams |-> FirstLast(s, conf'.period[s])]
  /\ num' = dumps[n].num
  /\ dumpLast' = dumps[n].dumpLast /\ dumpNum' = dumps[n].dumpNum
  /\ pc' = "loop" /\ caller' = "init" /\ todo' = {}
  /\ lastDone' = n
  /\ UNCHANGED <<dumps, newest, files>>

\* -restart reads the dump of the most recent date, -restart n dump n; a torn
\* dump stops the process.  What Dump::Read does not find in the file keeps
\* the value the constructors gave it.
Restart(n) ==
  /\ pc = "off" /\ runs < MaxRuns
  /\ n \in newest \/ n = lastDone \/ AnyRestart
  /\ dumps[n] \in Snapshot
  /\ runs' = runs + 1
  /\ conf' \in Configurations
  /\ t' = dumps[n].t
  /\ last' = dumps[n].last
  /\ num' = [s \in Streams |-> IF s \in NumberSaved THEN dumps[n].num[s] ELSE 0]
  /\ dumpLast' = dumps[n].dumpLast /\ dumpNum' = dumps[n].dumpNum
  /\ pc' = "loop" /\ caller' = "init" /\ todo' = {}
  /\ lastDone' = n
  /\ UNCHANGED <<dumps, newest, files>>

\* One turn of the main loop up to CheckForWrites; the last one is cut to
\* end at tstop.
Cycle ==
  /\ pc = "loop" /\ t < Tstop
  /\ \E dt \in 1..MaxDt: t' = IF t + dt > Tstop THEN Tstop ELSE t + dt
  /\ conf' = conf
  /\ EnterCheck("cycle")
  /\ UNCHANGED <<last, num, dumpLast, dumpNum, dumps, newest, files, lastDone, runs>>

\* Mutant: the file number goes down.
WriteFileBackwards(written) ==
  /\ num' = [s \in Streams |-> IF s \in written THEN num[s] - 1 ELSE num[s]]
  /\ UNCHANGED files

\* The file an output writes, and the number of its next one.
WriteFile(written) ==
  /\ num' = [s \in Streams |-> IF s \in written /\ s # "analysis"
                                 THEN num[s] + 1 ELSE num[s]]
  /\ files' = [s \in Streams |-> IF s \in written /\ s # "analysis"
                                   THEN [files[s] EXCEPT ![num[s]] = t']
                                   ELSE files[s]]

\* The block of CheckForWrites of output s: skipped when it is not due.
CheckStream(s) ==
  /\ pc = "streams" /\ s \in todo
  /\ \A r \in todo: Position[s] <= Position[r]
  /\ num[s] <= MaxNum
  /\ LET due == EnabledBy(s, conf.period[s]) /\ Due(last[s], conf.period[s], t)
     IN  /\ last' = IF due
                      THEN [last EXCEPT ![s] = Advance(@, conf.period[s], t)]
                      ELSE last
         /\ t' = t
         /\ WriteFile(IF due THEN {s} ELSE {})
  /\ todo' = todo \ {s}
  /\ UNCHANGED <<pc, caller, conf, dumpLast, dumpNum, dumps, newest, lastDone, runs>>

\* Dump::Write up to the opening of its file: the number is taken, an older
\* file of that number is deleted, and an empty one created.
OpenDump ==
  /\ dumpNum <= MaxNum
  /\ dumpNum' = dumpNum + 1
  /\ dumps' = [dumps EXCEPT ![dumpNum] = Torn]
  /\ newest' \in {{dumpNum}} \cup (IF SameSecond THEN {newest \cup {dumpNum}} ELSE {})
  /\ pc' = "closing"

\* The last block of CheckForWrites: is a dump due, by the time of the
\* simulation or by the clock of rank 0?
CheckDump ==
  /\ pc = "streams" /\ todo = {}
  /\ LET periodic == DumpEnabled /\ conf.dump > 0 /\ Due(dumpLast, conf.dump, t)
     IN  \E clock \in IF DumpEnabled /\ ClockDumps THEN BOOLEAN ELSE {FALSE}:
           /\ dumpLast' = IF periodic THEN dumpLast + conf.dump ELSE dumpLast
           /\ IF periodic \/ clock
                THEN OpenDump
                ELSE pc' = Returned /\ UNCHANGED <<dumpNum, dumps, newest>>
  /\ UNCHANGED <<caller, conf, t, todo, last, num, files, lastDone, runs>>

\* Mutant: the number is taken after the write, as Vtk::Write does.
RegisteredEarly == [t |-> t, last |-> last, num |-> num,
                    dumpLast |-> dumpLast, dumpNum |-> dumpNum - 1]

\* The values the registered variables have when they are written.
Registered == [t |-> t, last |-> last, num |-> num,
               dumpLast |-> dumpLast, dumpNum |-> dumpNum]

\* The rest of Dump::Write: the registered fields and "eof", then the file is
\* closed.  In CheckForWrites the missed dump dates are skipped afterwards.
CloseDump ==
  /\ pc = "closing"
  /\ dumps' = [dumps EXCEPT ![dumpNum - 1] = Registered]
  /\ lastDone' = dumpNum - 1
  /\ dumpLast' = IF caller = "force" THEN dumpLast
                                     ELSE CatchUp(dumpLast, conf.dump, t)
  /\ pc' = IF caller = "force" THEN "off" ELSE Returned
  /\ UNCHANGED <<caller, conf, t, todo, last, num, dumpNum, newest, files, runs>>

\* main after CheckForWrites: the loop goes on, stops at maxcycles, or stops
\* on an abort or on max_runtime, with a dump unless -nowrite.
Decide ==
  /\ pc = "decide"
  /\ \/ pc' \in {"loop", "off"} /\ UNCHANGED <<caller, dumpNum, dumps, newest>>
     \/ ~conf.nowrite /\ caller' = "force" /\ OpenDump
  /\ UNCHANGED <<conf, t, todo, last, num, dumpLast, files, lastDone, runs>>

\* An exception in Cycle, possibly after t was moved by a stage:
\* ForceWriteVtk writes the vtk and the slice files, due or not.
Emergency ==
  LET forced == Streams \cap {"vtk", "slice"}
  IN  /\ pc = "loop" /\ t < Tstop
      /\ \A s \in forced: num[s] <= MaxNum
      /\ t' \in {t} \cup {tt \in t..(t + MaxDt): tt <= Tstop}
      /\ pc' = "off"
      /\ IF conf.nowrite
           THEN UNCHANGED <<last, num, files>>
           ELSE /\ last' = [s \in Streams |->
                     CASE s = "vtk" -> last[s] + conf.period[s]
                       [] s = "slice" -> Advance(last[s], conf.period[s], t')
                       [] OTHER -> last[s]]
                /\ WriteFile(forced)
      /\ UNCHANGED <<caller, conf, todo, dumpLast, dumpNum, dumps, newest, lastDone, runs>>

\* The loop ends at tstop, or the process is killed, at any point.
Stop ==
  /\ pc # "off"
  /\ pc' = "off"
  /\ UNCHANGED <<caller, conf, t, todo, last, num, dumpLast, dumpNum,
                 dumps, newest, files, lastDone, runs>>

Next ==
  \/ Fresh \/ Cycle \/ CheckDump \/ CloseDump \/ Decide \/ Emergency \/ Stop
  \/ \E n \in Numbers: Restart(n)
  \/ \E s \in Streams: CheckStream(s)

Spec == Init /\ [][Next]_vars
-----------------------------------------------------------------------------
(* Properties *)

TypeOK ==
  /\ pc \in {"off", "loop", "streams", "closing", "decide"}
  /\ caller \in {"init", "cycle", "force"}
  /\ conf \in Configurations
  /\ t \in Nat /\ todo \subseteq Streams
  /\ last \in [Streams -> Int] /\ num \in [Streams -> Nat]
  /\ dumpLast \in Int /\ dumpNum \in Nat
  /\ dumps \in [Numbers -> Snapshot \cup {NoDump, Torn}]
  /\ newest \subseteq Numbers
  /\ files \in [Streams -> [Numbers -> Nat \cup {-1}]]
  /\ lastDone \in Numbers \cup {NoDump}
  /\ runs \in Nat

\* CheckForWrites has dealt with output s since the last cycle.
Checked(s) == pc \in {"closing", "decide"} \/ (pc = "streams" /\ s \notin todo)

\* However long the cycles are, whatever history of kills and restarts led
\* here, and even if the period was changed at a restart, a call of
\* CheckForWrites leaves no output overdue: the next date of every periodic
\* output is in the future (the catch-up loops of output.cpp and slice.cpp).
NotOverdue ==
  ~conf.nowrite =>
    /\ \A s \in Streams:
         EnabledBy(s, conf.period[s]) /\ conf.period[s] > 0 /\ Checked(s)
           => t < last[s] + conf.period[s]
    /\ conf.dump > 0 /\ pc = "decide" => t < dumpLast + conf.dump

\* The catch-up never jumps over the current time: once looked at, no output
\* has a last date in the future, so that none of its dates is ever missed,
\* and no dump on disk records such a date either.
NotAhead ==
  /\ ~conf.nowrite => \A s \in Streams: Checked(s) => last[s] <= t
  /\ \A n \in Numbers: dumps[n] \in Snapshot =>
       \A s \in Streams: dumps[n].last[s] <= dumps[n].t

\* "Dumps contain metadata about the most recent outputs of other types, so
\* it's important that this part happens last" (output.cpp): no dump on disk,
\* whenever the process was killed, records an output that is due again at
\* the time of the dump, so a restart repeats none.
DumpsAreUpToDate ==
  \A n \in Numbers, s \in Streams: \A p \in Periods[s]:
    Periods[s] = {p} /\ p > 0 /\ dumps[n] \in Snapshot
      => dumps[n].t < dumps[n].last[s] + p

\* Whatever happens, kills in the middle of Dump::Write included, the dump the
\* history can be resumed from is complete on disk: a process never deletes
\* the dump it restarted from nor the last one it finished.
RestartPointIntact == lastDone # NoDump => dumps[lastDone] \in Snapshot

\* A restarted process never overwrites a file that its restart dump already
\* counts, for the outputs whose file number is registered in the dumps.
FilesOf(kinds) ==
  lastDone # NoDump =>
    \A s \in Streams \cap kinds, n \in Numbers:
      n < dumps[lastDone].num[s] => files'[s][n] = files[s][n]
FilesKept == [][FilesOf(Kinds \ {"xdmf"})]_vars

\* When the history is resumed only from its last dump, and dumps have a period
\* of time, the files of an output that the history counts are in the order of
\* their times, at most one for each period: no kill or restart duplicates or
\* mixes them.
FilesInOrder ==
  pc # "off" =>
    \A s \in Streams \ {"xdmf"}, m \in Numbers: \A p \in Periods[s]:
      Periods[s] = {p} /\ p > 0 /\ m < num[s] =>
        \A n \in 0..(m - 1): files[s][n] \div p < files[s][m] \div p
-----------------------------------------------------------------------------
(* What the documentation or a comment says and the code does not do *)

\* The comment in CheckForWrites quoted above, for every output that numbers
\* its files: Xdmf registers no file number, so a restarted process writes
\* its xdmf files over the first ones.
AllFilesKept == [][FilesOf(Kinds)]_vars
=============================================================================
