------------------------------ MODULE MCOutput ------------------------------
(* The instances of Output that TLC checks. *)
EXTENDS Output

\* Periods that may change at each start, one analysis period being negative.
CadencePeriods == [vtk |-> {2, 3}, analysis |-> {-1, 2}]
CadenceDumpPeriods == {-1, 2}
\* Fixed periods.
RestartPeriods == [vtk |-> {1}, slice |-> {2}, python |-> {0}]
XdmfPeriods == [xdmf |-> {1}]
=============================================================================
