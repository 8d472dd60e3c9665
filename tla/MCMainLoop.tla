----------------------------- MODULE MCMainLoop -----------------------------
(* The instances of MainLoop that TLC checks. *)
EXTENDS MainLoop

NoMaxCycles == -1
=============================================================================
