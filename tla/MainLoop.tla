------------------------------ MODULE MainLoop ------------------------------
(***************************************************************************)
(* The main loop of N MPI processes: the while loop of main.cpp,           *)
(* TimeIntegrator::Cycle, the tests that end the run (Input::CheckForAbort,*)
(* TimeIntegrator::CheckForMaxRuntime) and the handling of exceptions with *)
(* Mpi::CheckSync.  The processes are separated by nothing but their       *)
(* messages: each runs ahead as far as MPI lets it.                        *)
(*                                                                         *)
(* A collective call on MPI_COMM_WORLD is posted at the end of the list of *)
(* calls of its process.  The i-th calls of all processes match: a         *)
(* reduction or a barrier completes when all of them are posted, a         *)
(* broadcast when the root's is, and calls of different kinds never do.    *)
(***************************************************************************)
EXTENDS Integers, Sequences, FiniteSets, FiniteSetsExt

CONSTANTS
  N,            \* idfx::psize
  NStages,      \* nstages
  Tstop,        \* tstop, in units of time
  FirstDt,      \* first_dt
  MaxDt,        \* bound on the time step a process computes
  DtMin,        \* the smallest time step allowed (1e-15)
  Growth,       \* CFL_max_var
  LogPeriod,    \* log
  NanPeriod,    \* check_nan
  MaxCycles,    \* -maxcycles, negative when absent
  MaxRuntime,   \* TRUE when max_runtime is set
  ClockDumps,   \* TRUE when dmp has a wall clock period
  Bad,          \* the divergences of B and numbers of Nans a process may find
  LocalFaults,  \* TRUE when user code may throw on one process alone
  Signals       \* the processes SIGUSR2 may be sent to

Ranks == 0..(N - 1)

ASSUME MainLoopAssumption ==
  /\ {N, NStages, Tstop, FirstDt, MaxDt, LogPeriod, NanPeriod, Growth} \subseteq Nat \ {0}
  /\ DtMin \in Nat /\ MaxCycles \in Int /\ Bad \subseteq {0, 1} /\ 0 \in Bad
  /\ {MaxRuntime, ClockDumps, LocalFaults} \subseteq BOOLEAN
  /\ Signals \subseteq Ranks

VARIABLES
  pc,         \* where each process is
  t, t0, dt,  \* data.t, the time its cycle began at, data.dt
  newdt,      \* the time step it computed in the first stage
  stage, ncycles,
  calls,      \* the collective calls it posted on MPI_COMM_WORLD
  dtCall,     \* the position of its reduction of newdt, 0 when none is pending
  sent,       \* how many boundary exchanges it sent its part of
  signalled,  \* abortRequested
  code,       \* returnCode
  inVtk,      \* the processes that entered the barrier of the emergency vtk
  killed,     \* MPI_Abort was called
  alone       \* a user function threw on some process, not on all

vars == <<pc, t, t0, dt, newdt, stage, ncycles, calls, dtCall, sent, signalled,
          code, inVtk, killed, alone>>

Labels == {"top", "divB", "user", "halo", "nan", "staged", "wait", "clock", "dump",
           "abort", "runtime", "lastDump", "sync", "vtk", "ended"}
-----------------------------------------------------------------------------
(* Messages *)

Post(r, op, val) == calls' = [calls EXCEPT ![r] = Append(@, [op |-> op, val |-> val])]

Last(r) == Len(calls[r])
HasPosted(q, i, op) == Len(calls[q]) >= i /\ calls[q][i].op = op

\* Collectives in which every process waits for all, and for rank 0.
Complete(r, i) == \A q \in Ranks: HasPosted(q, i, calls[r][i].op)
Received(r, i) == HasPosted(0, i, calls[r][i].op)

Values(i) == {calls[q][i].val: q \in Ranks}
\* MPI_SUM of the values of f.
Total(f) == MapThenSumSet(LAMBDA q: f[q], DOMAIN f)
SumOf(i) == Total([q \in Ranks |-> calls[q][i].val])
FromRoot(i) == calls[0][i].val

\* The neighbours of a process on a periodic line of processes.
Neighbours(r) == {(r + 1) % N, (r + N - 1) % N}
SendHalo(r) == sent' = [sent EXCEPT ![r] = @ + 1]
HaloArrived(r) == \A q \in Neighbours(r): sent[q] >= sent[r]

Goto(r, l) == pc' = [pc EXCEPT ![r] = l]
-----------------------------------------------------------------------------
Init ==
  /\ pc = [r \in Ranks |-> "top"]
  /\ t = [r \in Ranks |-> 0] /\ t0 = [r \in Ranks |-> 0]
  /\ dt = [r \in Ranks |-> FirstDt] /\ newdt = [r \in Ranks |-> 0]
  /\ stage = [r \in Ranks |-> 0] /\ ncycles = [r \in Ranks |-> 0]
  /\ calls = [r \in Ranks |-> <<>>] /\ dtCall = [r \in Ranks |-> 0]
  /\ sent = [r \in Ranks |-> 0]
  /\ signalled = [r \in Ranks |-> FALSE]
  /\ code = [r \in Ranks |-> 0]
  /\ inVtk = {} /\ killed = FALSE /\ alone = FALSE

\* An exception leaves Cycle for its handler in main: Mpi::CheckSync.
Throw(r) ==
  IF N = 1 THEN Goto(r, "vtk") /\ calls' = calls /\ inVtk' = inVtk \cup {r}
           ELSE Goto(r, "sync") /\ Post(r, "sync", r) /\ inVtk' = inVtk

\* ShowLog: MPI_Gather of the computing times, once LogPeriod cycles are done,
\* which only rank 0 would wait for; and the reduction of the divergence of B.
PostLog(r, b) ==
  LET shown == IF ncycles[r] >= LogPeriod THEN Append(calls[r], [op |-> "gather", val |-> 0])
                                          ELSE calls[r]
  IN  calls' = [calls EXCEPT ![r] = Append(shown, [op |-> "divB", val |-> b])]

\* while(t < tstop): the step is cut to end at tstop, and Cycle begins, with
\* ShowLog every LogPeriod cycles.
Top(r) ==
  /\ pc[r] = "top"
  /\ IF t[r] >= Tstop
       THEN Goto(r, "ended") /\ UNCHANGED <<t0, dt, calls>>
       ELSE /\ dt' = [dt EXCEPT ![r] = IF Tstop - t[r] < @ THEN Tstop - t[r] ELSE @]
            /\ t0' = [t0 EXCEPT ![r] = t[r]]
            /\ IF ncycles[r] % LogPeriod = 0
                 THEN Goto(r, "divB") /\ \E b \in Bad: PostLog(r, b)
                 ELSE Goto(r, "user") /\ calls' = calls
  /\ UNCHANGED <<t, newdt, stage, ncycles, dtCall, sent, signalled, code, inVtk>>

\* ShowLog throws when the largest divergence of all processes is too large.
DivB(r) ==
  /\ pc[r] = "divB" /\ Complete(r, Last(r))
  /\ IF 1 \in Values(Last(r)) THEN Throw(r)
                              ELSE Goto(r, "user") /\ UNCHANGED <<calls, inVtk>>
  /\ UNCHANGED <<t, t0, dt, newdt, stage, ncycles, dtCall, sent, signalled, code>>

\* The user's first step, which may throw on its own, then the first stage:
\* SetBoundaries sends the boundary cells.
User(r) ==
  /\ pc[r] = "user"
  /\ \/ /\ Goto(r, "halo") /\ SendHalo(r)
        /\ stage' = [stage EXCEPT ![r] = 0] /\ UNCHANGED <<calls, inVtk, alone>>
     \/ LocalFaults /\ Throw(r) /\ alone' = TRUE /\ UNCHANGED <<stage, sent>>
  /\ UNCHANGED <<t, t0, dt, newdt, ncycles, dtCall, signalled, code>>

\* SetBoundaries ends when the neighbours' cells are there; EvolveStage (a
\* user source term may throw) and t += dt; every NanPeriod cycles CheckNan
\* sums the Nans found by all processes.
Evolve(r) ==
  /\ pc[r] = "halo" /\ HaloArrived(r)
  /\ \/ /\ t' = [t EXCEPT ![r] = @ + dt[r]] /\ UNCHANGED <<inVtk, alone>>
        /\ IF ncycles[r] % NanPeriod = 0
             THEN Goto(r, "nan") /\ \E b \in Bad: Post(r, "nan", b)
             ELSE Goto(r, "staged") /\ calls' = calls
     \/ LocalFaults /\ Throw(r) /\ alone' = TRUE /\ t' = t
  /\ UNCHANGED <<t0, dt, newdt, stage, ncycles, dtCall, sent, signalled, code>>

\* Mutant: each process looks at its own Nans.
CheckNanAlone(r) ==
  /\ pc[r] = "nan" /\ Complete(r, Last(r))
  /\ IF calls[r][Last(r)].val > 0 THEN Throw(r)
                                  ELSE Goto(r, "staged") /\ UNCHANGED <<calls, inVtk>>
  /\ UNCHANGED <<t, t0, dt, newdt, stage, ncycles, dtCall, sent, signalled, code>>

\* The number of Nans of all processes, at least one of which is enough.
CheckNan(r) ==
  /\ pc[r] = "nan" /\ Complete(r, Last(r))
  /\ IF SumOf(Last(r)) > 0 THEN Throw(r)
                           ELSE Goto(r, "staged") /\ UNCHANGED <<calls, inVtk>>
  /\ UNCHANGED <<t, t0, dt, newdt, stage, ncycles, dtCall, sent, signalled, code>>

\* data.t = wcs*data.t + w0s*t0, with the weights of stage s.
Combine(s, now, start) ==
  CASE NStages = 2           -> (now + start) \div 2
    [] NStages = 3 /\ s = 1  -> (now + 3 * start) \div 4
    [] OTHER                 -> (2 * now + start) \div 3

\* The end of a stage: the first one computes the next time step and starts
\* its reduction, which later stages overlap; the others combine the times.
EndStage(r) ==
  /\ pc[r] = "staged"
  /\ IF stage[r] = 0
       THEN /\ \E d \in 0..MaxDt:
                 newdt' = [newdt EXCEPT ![r] = d] /\ Post(r, "dt", d)
            /\ dtCall' = [dtCall EXCEPT ![r] = Last(r) + 1]
            /\ t' = t
       ELSE /\ t' = [t EXCEPT ![r] = Combine(stage[r], @, t0[r])]
            /\ UNCHANGED <<newdt, calls, dtCall>>
  /\ IF stage[r] < NStages - 1
       THEN Goto(r, "halo") /\ SendHalo(r) /\ stage' = [stage EXCEPT ![r] = @ + 1]
       ELSE Goto(r, "wait") /\ UNCHANGED <<sent, stage>>
  /\ UNCHANGED <<t0, dt, ncycles, signalled, code, inVtk>>

\* Mutant: newdt is read before MPI_Wait.
ReducedTooEarly(r) == newdt[r]

\* The minimum of the time steps all processes computed.
Reduced(r) == Min(Values(dtCall[r]))

\* CheckForAbort begins: rank 0 sends its abortRequested to all.
PostAbort(r) == Goto(r, "abort") /\ Post(r, "abort", IF signalled[r] THEN 1 ELSE 0)

\* The end of Cycle: MPI_Wait, t = t0+dt, and the next time step, whose growth
\* is limited; too small a step throws, and a first step more than twice too
\* large stops everything.
EndCycle(r) ==
  LET reduced == Reduced(r)
      next    == IF reduced > Growth * dt[r] THEN Growth * dt[r] ELSE reduced
  IN  /\ pc[r] = "wait" /\ Complete(r, dtCall[r])
      /\ t' = [t EXCEPT ![r] = t0[r] + dt[r]]
      /\ dtCall' = [dtCall EXCEPT ![r] = 0]
      /\ newdt' = [newdt EXCEPT ![r] = reduced]
      /\ IF ncycles[r] = 0 /\ 2 * reduced < dt[r]
           THEN killed' = TRUE /\ UNCHANGED <<pc, dt, ncycles, calls, inVtk>>
           ELSE /\ dt' = [dt EXCEPT ![r] = next]
                /\ killed' = killed
                /\ IF next < DtMin
                     THEN Throw(r) /\ ncycles' = ncycles
                     ELSE /\ ncycles' = [ncycles EXCEPT ![r] = @ + 1]
                          /\ inVtk' = inVtk
                          /\ IF ClockDumps
                               THEN /\ Goto(r, "clock")
                                    /\ \E late \in {0, 1}: Post(r, "delay", late)
                               ELSE PostAbort(r)
      /\ UNCHANGED <<t0, stage, sent, signalled, code>>

\* CheckForWrites: rank 0 tells whether a clock dump is due; Dump::Write has a
\* barrier between the removal of an old file and the opening of the new one.
ClockDump(r) ==
  /\ pc[r] = "clock" /\ Received(r, Last(r))
  /\ IF FromRoot(Last(r)) = 1 THEN Goto(r, "dump") /\ Post(r, "dump", 0)
                              ELSE PostAbort(r)
  /\ UNCHANGED <<t, t0, dt, newdt, stage, ncycles, dtCall, sent, signalled, code, inVtk>>

WriteDump(r) ==
  /\ pc[r] = "dump" /\ Complete(r, Last(r))
  /\ PostAbort(r)
  /\ UNCHANGED <<t, t0, dt, newdt, stage, ncycles, dtCall, sent, signalled, code, inVtk>>

\* ForceWriteDump, before leaving the loop with returnCode = -1.
PostLastDump(r) == Goto(r, "lastDump") /\ Post(r, "dump", 0)

\* The loop goes on, or has performed its maximum number of cycles.
NextCycle(r) ==
  /\ Goto(r, IF MaxCycles >= 0 /\ ncycles[r] >= MaxCycles THEN "ended" ELSE "top")
  /\ calls' = calls

\* CheckForAbort, then, when it is false, CheckForMaxRuntime: both take the
\* answer of rank 0.
CheckForAbort(r) ==
  /\ pc[r] = "abort" /\ Received(r, Last(r))
  /\ CASE FromRoot(Last(r)) = 1 -> PostLastDump(r)
       [] FromRoot(Last(r)) = 0 /\ MaxRuntime ->
            Goto(r, "runtime") /\ \E late \in {0, 1}: Post(r, "runtime", late)
       [] OTHER -> NextCycle(r)
  /\ UNCHANGED <<t, t0, dt, newdt, stage, ncycles, dtCall, sent, signalled, code, inVtk>>

CheckForMaxRuntime(r) ==
  /\ pc[r] = "runtime" /\ Received(r, Last(r))
  /\ IF FromRoot(Last(r)) = 1 THEN PostLastDump(r) ELSE NextCycle(r)
  /\ UNCHANGED <<t, t0, dt, newdt, stage, ncycles, dtCall, sent, signalled, code, inVtk>>

\* Mutant: only the process that got the signal remembers why it stopped.
InterruptedAlone(r) ==
  /\ pc[r] = "lastDump" /\ Complete(r, Last(r))
  /\ Goto(r, "ended") /\ code' = [code EXCEPT ![r] = IF signalled[r] THEN -1 ELSE 0]
  /\ UNCHANGED <<t, t0, dt, newdt, stage, ncycles, calls, dtCall, sent, signalled, inVtk>>

\* The last dump is written: break, with returnCode = -1.
Interrupted(r) ==
  /\ pc[r] = "lastDump" /\ Complete(r, Last(r))
  /\ Goto(r, "ended") /\ code' = [code EXCEPT ![r] = -1]
  /\ UNCHANGED <<t, t0, dt, newdt, stage, ncycles, calls, dtCall, sent, signalled, inVtk>>

\* CheckSync sums the ranks of the processes that threw; the emergency vtk
\* file is written by all of them together.
CheckSync(r) ==
  /\ pc[r] = "sync" /\ Complete(r, Last(r))
  /\ IF SumOf(Last(r)) = (N * (N - 1)) \div 2
       THEN Goto(r, "vtk") /\ inVtk' = inVtk \cup {r} /\ killed' = killed
       ELSE killed' = TRUE /\ UNCHANGED <<pc, inVtk>>
  /\ UNCHANGED <<t, t0, dt, newdt, stage, ncycles, calls, dtCall, sent, signalled, code>>

\* Mutants: the result of CheckSync is ignored; its reduction is waited for.
SyncTimeoutIgnored(r) ==
  /\ pc[r] = "sync"
  /\ Goto(r, "vtk") /\ inVtk' = inVtk \cup {r}
  /\ UNCHANGED <<t, t0, dt, newdt, stage, ncycles, calls, dtCall, sent, signalled, code,
                 killed>>
SyncTimeoutNever(r) == FALSE /\ UNCHANGED vars

\* No answer within 5 seconds: MPI_Abort.
SyncTimeout(r) ==
  /\ pc[r] = "sync"
  /\ killed' = TRUE
  /\ UNCHANGED <<pc, t, t0, dt, newdt, stage, ncycles, calls, dtCall, sent, signalled,
                 code, inVtk>>

EmergencyVtk(r) ==
  /\ pc[r] = "vtk" /\ inVtk = Ranks
  /\ Goto(r, "ended") /\ code' = [code EXCEPT ![r] = 1]
  /\ UNCHANGED <<t, t0, dt, newdt, stage, ncycles, calls, dtCall, sent, signalled, inVtk>>

\* The operating system delivers SIGUSR2 to process r.
Signal(r) ==
  /\ ~killed /\ r \in Signals /\ ~signalled[r] /\ pc[r] # "ended"
  /\ signalled' = [signalled EXCEPT ![r] = TRUE]
  /\ UNCHANGED <<pc, t, t0, dt, newdt, stage, ncycles, calls, dtCall, sent, code, inVtk, killed, alone>>

\* The steps that only MPI and the process itself decide of.
Step(r) ==
  /\ ~killed
  /\ \/ (User(r) \/ Evolve(r)) /\ killed' = killed
     \/ /\ \/ Top(r) \/ DivB(r) \/ CheckNan(r) \/ EndStage(r) \/ ClockDump(r) \/ WriteDump(r)
           \/ CheckForAbort(r) \/ CheckForMaxRuntime(r) \/ Interrupted(r) \/ EmergencyVtk(r)
        /\ UNCHANGED <<killed, alone>>
     \/ (EndCycle(r) \/ CheckSync(r) \/ SyncTimeout(r)) /\ alone' = alone

\* MPI_Finalize, or MPI_Abort, is over.
Terminated == killed \/ \A r \in Ranks: pc[r] = "ended"

Next == \E r \in Ranks: Step(r) \/ Signal(r)

\* Every process that can go on does: MPI makes progress, timers expire.
Fairness == \A r \in Ranks: WF_vars(Step(r))

Spec == Init /\ [][Next]_vars /\ Fairness
-----------------------------------------------------------------------------
(* Properties *)

Numbers == [Ranks -> Nat]
Ops == {"gather", "divB", "nan", "dt", "delay", "dump", "abort", "runtime", "sync"}
Calls == [op: Ops, val: Nat]

TypeOK ==
  /\ pc \in [Ranks -> Labels]
  /\ t \in Numbers /\ t0 \in Numbers /\ dt \in Numbers /\ newdt \in Numbers
  /\ stage \in Numbers /\ ncycles \in Numbers /\ dtCall \in Numbers /\ sent \in Numbers
  /\ calls \in [Ranks -> Seq(Calls)]
  /\ signalled \in [Ranks -> BOOLEAN]
  /\ code \in [Ranks -> {-1, 0, 1}]
  /\ inVtk \subseteq Ranks /\ killed \in BOOLEAN /\ alone \in BOOLEAN

\* The ranks take the same branches: unless a user function throws on one
\* process alone, the i-th collective calls of all processes are of the same
\* kind, through overlapped reductions, exceptions and the end of the loop.
CollectivesMatch ==
  ~alone => \A q, r \in Ranks: \A i \in 1..Min({Last(q), Last(r)}):
    calls[q][i].op = calls[r][i].op

InCycle(r) == pc[r] \in {"divB", "user", "halo", "nan", "staged", "wait"}

\* Two processes in the same cycle integrate from the same time, over the same
\* time step, although each computed its own: the one reduced to its minimum,
\* cut to tstop, limited in growth.
SameStep ==
  \A q, r \in Ranks: InCycle(q) /\ InCycle(r) /\ ncycles[q] = ncycles[r]
    => t0[q] = t0[r] /\ dt[q] = dt[r]

\* A process writes the emergency vtk file, which all of them must write
\* together, only when each one caught an exception; if one threw alone they
\* are all stopped (the comment of CheckSync).
EmergencyIsCollective ==
  \A r \in Ranks: pc[r] = "vtk" =>
    \A q \in Ranks: pc[q] \in {"sync", "vtk"} \/ (pc[q] = "ended" /\ code[q] = 1)

\* AgreedEnd: the processes end with the same number of cycles, time and code,
\* or are all killed.  After an exception the time is that at which the last
\* cycle began: user functions may throw in different stages of it.
Outcome(r) == [ncycles |-> ncycles[r], t |-> IF code[r] = 1 THEN t0[r] ELSE t[r],
               code |-> code[r]]
EndedRanks == {r \in Ranks: pc[r] = "ended"}
Agreed == INSTANCE AgreedEnd WITH
            Processes <- Ranks, aborted <- killed,
            outcome <- [r \in EndedRanks |-> Outcome(r)]
EndsTogether == Agreed!Spec

\* Every run ends: no process is left waiting, neither for a message nor for a
\* collective call another one will never make.
Termination == <>Terminated
-----------------------------------------------------------------------------
(* What the documentation or a comment says and the code does not do *)

\* commandline.rst: SIGUSR2 sent to any process interrupts the run, and
\* CheckForAbort says "we abort whenever one process got the signal".
SignalHonoured ==
  [][\A r \in Ranks: pc[r] = "abort" /\ calls[r][Last(r)].val = 1
                        => pc'[r] # "top"]_vars
=============================================================================
