------------------------------ MODULE AgreedEnd ------------------------------
(***************************************************************************)
(* What the end of a run promises: the processes end one after the other,  *)
(* all with the same outcome, unless the whole run is aborted.             *)
(***************************************************************************)
CONSTANT Processes

VARIABLES
  outcome,  \* the outcome of each process that ended
  aborted   \* MPI_Abort was called

vars == <<outcome, aborted>>

Ended == DOMAIN outcome

Init == outcome = [p \in {} |-> 0] /\ aborted = FALSE

\* The first process to end chooses the outcome, the others end with it.
End(p) ==
  /\ ~aborted /\ p \notin Ended
  /\ DOMAIN outcome' = Ended \cup {p}
  /\ \A q \in Ended: outcome'[q] = outcome[q] /\ outcome'[p] = outcome[q]
  /\ aborted' = aborted

Abort == ~aborted /\ aborted' = TRUE /\ outcome' = outcome

Next == Abort \/ \E p \in Processes: End(p)

Spec == Init /\ [][Next]_vars
=============================================================================
