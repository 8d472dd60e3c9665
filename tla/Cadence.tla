------------------------------- MODULE Cadence -------------------------------
(***************************************************************************)
(* The arithmetic of one periodic output: `last` is the date the output    *)
(* was last due at, `period` the interval given in the input file, `now`   *)
(* the time of the simulation.  Output::CheckForWrites repeats this code   *)
(* for vtk, xdmf, analysis, python and dump outputs, and                   *)
(* Slice::CheckForWrite once more for slices.  Times are integers, in      *)
(* units of a common divisor of the periods.                               *)
(***************************************************************************)
EXTENDS Integers

\* if(data.t >= vtkLast + vtkPeriod)
Due(last, period, now) == now >= last + period

\* Mutants: no catch-up, one catch-up step too many, a date moved only once.
CatchUpNever(last, period, now) == last
CatchUpTooFar(last, period, now) ==
  IF period > 0 /\ last + period <= now
    THEN now - ((now - last) % period) + period ELSE last
AdvanceOnce(last, period, now) == last + period

\* if((last+period <= t) && period>0) while(last <= t-period) last += period;
\* the loop stops at the only date of last, last+period, last+2*period...
\* that lies in (now-period, now].
CatchUp(last, period, now) ==
  IF period > 0 /\ last + period <= now THEN now - ((now - last) % period)
                                        ELSE last

\* What an output that was due does to its date.
Advance(last, period, now) == CatchUp(last + period, period, now)

=============================================================================
