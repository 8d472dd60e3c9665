------------------------------- MODULE MCHalo -------------------------------
(***************************************************************************)
(* The instances of Halo and Edges that TLC checks.  One run checks five:  *)
(* the grid of processes of the .cfg; a strip of processes along X1, where *)
(* the periodic boundaries of X2 are those of a single process, with more  *)
(* ghost cells than one; a sphere from axis to axis, in X2 and X3, whose   *)
(* turn is shared by four processes; and the edges of a plane that ends on *)
(* an axis, shared by two processes in each direction, and of one that     *)
(* ends on two axes, where each process has the whole turn.                *)
(***************************************************************************)
EXTENDS Halo

VARIABLE what  \* the instance the behaviour is one of

TwoByTwo == <<2, 2>>
ThreeByOne == <<3, 1>>
OneByFour == <<1, 4>>
TwoByOne == <<2, 1>>
TwoCells == <<2, 2>>
FlatCells == <<3, 1>>
ThinCells == <<1, 2>>
PeriodicOutflow == <<<<"periodic", "periodic">>, <<"outflow", "outflow">>>>
WallPeriodic == <<<<"outflow", "reflective">>, <<"periodic", "periodic">>>>
AxisPeriodic == <<<<"axis", "axis">>, <<"periodic", "periodic">>>>
PolePeriodic == <<<<"axis", "outflow">>, <<"periodic", "periodic">>>>

Strip == INSTANCE Halo WITH NProc <- ThreeByOne, NInt <- FlatCells, NGhost <- 2,
                            Bound <- WallPeriodic
Sphere == INSTANCE Halo WITH NProc <- OneByFour, NInt <- TwoCells, NGhost <- 1,
                             Bound <- AxisPeriodic, Stages <- 1
Pole == INSTANCE Edges WITH NProc <- TwoByTwo, NInt <- TwoCells, Bound <- PolePeriodic
Turn == INSTANCE Edges WITH NProc <- TwoByOne, NInt <- TwoCells, Bound <- AxisPeriodic

ASSUME MCAssumption == Pole!EdgesAssumption /\ Turn!EdgesAssumption /\ Strip!Wide /\ Sphere!Wide

MCInit ==
  \/ what = "grid" /\ Init
  \/ what = "strip" /\ Strip!Init
  \/ what = "sphere" /\ Sphere!Init
  \/ what = "pole" /\ Pole!Init
  \/ what = "turn" /\ Turn!Init

MCNext ==
  /\ UNCHANGED what
  /\ \/ what = "grid" /\ Next
     \/ what = "strip" /\ Strip!Next
     \/ what = "sphere" /\ Sphere!Next
     \/ what = "pole" /\ Pole!Next
     \/ what = "turn" /\ Turn!Next

MCProgress ==
  /\ UNCHANGED what
  /\ \/ what = "grid" /\ Progress
     \/ what = "strip" /\ Strip!Progress
     \/ what = "sphere" /\ Sphere!Progress
     \/ what = "pole" /\ Pole!Progress
     \/ what = "turn" /\ Turn!Progress

MCvars == <<vars, what>>
MCSpec == MCInit /\ [][MCNext]_MCvars /\ WF_MCvars(MCProgress)

\* The grid of the .cfg alone.
GridSpec == what = "grid" /\ Init /\ [][what' = what /\ Next]_MCvars

\* The properties of Halo and Edges, of the instance the behaviour is one of:
\* the ghosts SetBoundaries leaves are those of a single process...
MCGhostsAreSerial ==
  /\ what = "grid" => GhostsAreSerial
  /\ what = "strip" => Strip!GhostsAreSerial
  /\ what = "sphere" => Sphere!GhostsAreSerial

\* ...the copies of an edge EnforceEMFBoundary leaves are the same...
MCEdgesMatch ==
  /\ what = "pole" => Pole!EdgesMatch
  /\ what = "turn" => Turn!EdgesMatch

\* ...and every process gets through all its stages, both for the ghosts and
\* for the edges, even if MPI sends nothing before the receive is started.
MCAllStagesDone ==
  <>(/\ what = "grid" => \A r \in Procs: Done(r)
     /\ what = "strip" => \A r \in Strip!Procs: Strip!Done(r)
     /\ what = "sphere" => \A r \in Sphere!Procs: Sphere!Done(r)
     /\ what = "pole" => \A r \in Pole!Procs: Pole!Done(r)
     /\ what = "turn" => \A r \in Turn!Procs: Turn!Done(r))
=============================================================================
