---------------------------- MODULE CycleProofs ----------------------------
(* What is proved of module Cycle, for all its inputs: the control of a       *)
(* cycle, whatever the numbers it computes; then the shift of Fargo, for any  *)
(* number of cells, of processes, and for all displacements: what a process   *)
(* computes from its scratch array is the shift on the whole direction; and   *)
(* what the stages and those of RKL make of the solution and of the time,     *)
(* in exact fractions, for any number of RKL stages.                          *)
EXTENDS Cycle, FiniteSetTheorems, WellFoundedInduction, TLAPS

\* Where the cycle works on the residual velocity: after PrimToCons, up to
\* AddVelocity.
InStage == {"EvolveStage", "AddAndStore", "ShiftSolution", "Coarsen", "ConsToPrim"}

\* The places that the loop on stages goes through.
Stages == {"SetBoundaries", "PrimToCons", "AddVelocity"} \cup InStage

Outside == {"Top", "SetBoundaries", "PrimToCons", "RklStart", "RklBoundaries", "RklStage",
            "EndCycle"}

InRklCycle == {"RklStart", "RklBoundaries", "RklStage"}

Places == Stages \cup Outside \cup {"Stopped", "Refused"}

LEMMA Input ==
  ASSUME NEW c \in Configs
  PROVE  /\ c.nstages \in 1..3 /\ c.rklOrder \in 0..2 /\ c.checkNan \in Nat \ {0}
         /\ c.fargo \in BOOLEAN /\ c.coarsening \in BOOLEAN /\ c.nans \in BOOLEAN
         /\ c.rklCheckNan \in BOOLEAN
BY CycleAssumption

\* The loop on stages; RKL comes before the first stage of odd cycles and after
\* the last one of even cycles.
LoopInv ==
  /\ conf \in Configs /\ pc \in Places /\ ncycles \in Nat /\ stage \in Nat
  /\ pc \in Stages => stage < conf.nstages
  /\ pc \in InRklCycle => stage = IF ncycles % 2 = 1 THEN 0 ELSE conf.nstages - 1

\* The arrays are records with all their fields, for the actions that change one.
ArraysInv ==
  /\ DOMAIN Vc = {"val", "frame", "coarse", "nan", "bc"}
  /\ DOMAIN Uc = {"val", "frame", "coarse", "nan"}
  /\ Vc.coarse \in BOOLEAN /\ Uc.coarse \in BOOLEAN
  /\ Vc.nan \in BOOLEAN /\ Uc.nan \in BOOLEAN /\ begin.nan \in BOOLEAN

\* The frame of the stages.
StageFrame == IF conf.fargo THEN "residual" ELSE "total"

\* The frames of the three arrays: begin is saved in the first of several stages.
FrameInv ==
  /\ pc \in Outside => Vc.frame = "total"
  /\ pc \in {"EvolveStage", "AddVelocity"} => Vc.frame = StageFrame
  /\ pc \in InStage => Uc.frame = StageFrame
  /\ \/ pc \in Stages /\ stage > 0
     \/ pc \in InStage \cup {"AddVelocity"} /\ conf.nstages > 1
     => begin.frame = StageFrame
  /\ Uc.frame # "mixed"

\* Vc is made of a Uc that is coarsened.
CoarseInv ==
  conf.coarsening => Vc.coarse /\ (pc = "ConsToPrim" => Uc.coarse)

\* Nans are looked for in this cycle.
Looking(c) == c % conf.checkNan = 0

\* A Nan that survives a cycle in which Nans are looked for appeared too late in it.
Late(c) ==
  /\ c = born.cycle
  /\ \/ born.stage = conf.nstages - 1
     \/ born.stage = InRkl /\ c % 2 = 0 /\ ~conf.rklCheckNan

\* Where Vc, and where Uc, is what the next kernel goes on from.
FromVc == {"Top", "SetBoundaries", "PrimToCons", "EvolveStage", "AddVelocity", "EndCycle"}
             \cup InRklCycle

FromUc == InStage

\* born tells of every Nan, and a Nan that appeared is still there.
BornInv ==
  /\ born # NoNan => born.cycle \in 0..ncycles /\ born.stage \in Int
  /\ Vc.nan \/ Uc.nan \/ begin.nan => born # NoNan
  /\ born # NoNan /\ pc \in FromVc => Vc.nan
  /\ born # NoNan /\ pc \in FromUc => Uc.nan

\* In a cycle that looks, a Nan that is there after the look of the stage
\* appeared in the stage, or in the RKL stages that end the cycle.
LateInv ==
  born # NoNan =>
    /\ \A c \in born.cycle..ncycles - 1 : Looking(c) => Late(c)
    /\ Looking(ncycles) =>
         /\ pc \in (FromUc \ {"EvolveStage"}) \cup {"AddVelocity"} =>
               born.cycle = ncycles /\ born.stage = stage
         /\ pc \in InRklCycle /\ ncycles % 2 = 0 => Late(ncycles)
         /\ pc = "EndCycle" => Late(ncycles)

NanInv == BornInv /\ LateInv
-----------------------------------------------------------------------------
(* The loop, the frames and the coarsening                                    *)

LEMMA LoopInvNext == LoopInv /\ [Next]_vars => LoopInv'
<1> SUFFICES ASSUME LoopInv, [Next]_vars PROVE LoopInv'
  OBVIOUS
<1>a. conf \in Configs /\ conf.nstages \in 1..3
  BY Input DEF LoopInv
<1> USE DEF LoopInv, Places, Stages, InStage, Outside, InRklCycle
<1>1. CASE LaunchUserStepFirst
  BY <1>1, <1>a DEF LaunchUserStepFirst
<1>2. CASE SetBoundaries
  BY <1>2 DEF SetBoundaries
<1>3. CASE PrimToCons
  BY <1>3 DEF PrimToCons
<1>4. CASE EvolveStage
  BY <1>4 DEF EvolveStage
<1>5. CASE AddAndStore
  BY <1>5 DEF AddAndStore
<1>6. CASE ShiftSolution
  BY <1>6 DEF ShiftSolution
<1>7. CASE Coarsen
  BY <1>7 DEF Coarsen
<1>8. CASE ConsToPrim
  BY <1>8 DEF ConsToPrim
<1>9. CASE AddVelocity
  BY <1>9, <1>a DEF AddVelocity
<1>10. CASE RklStart
  BY <1>10, <1>a DEF RklStart
<1>11. CASE RklBoundaries
  BY <1>11, <1>a DEF RklBoundaries
<1>12. CASE RklStage
  BY <1>12 DEF RklStage
<1>13. CASE EndCycle
  BY <1>13 DEF EndCycle
<1>14. CASE End \/ UNCHANGED vars
  BY <1>14 DEF End, vars
<1> QED BY <1>1, <1>2, <1>3, <1>4, <1>5, <1>6, <1>7, <1>8, <1>9, <1>10, <1>11, <1>12, <1>13,
           <1>14 DEF Next

\* A stage of RKL works on the frame of Vc and ends with it.
LEMMA FinishKeeps ==
  ASSUME NEW val, NEW where, Finish(val, where)
  PROVE  /\ Uc'.frame = Vc.frame /\ Vc'.frame = Vc.frame
         /\ Uc'.coarse = conf.coarsening /\ Vc'.coarse = conf.coarsening
         /\ Vc'.nan = Uc'.nan /\ Uc'.nan \in BOOLEAN /\ MayBreak(Vc.nan, where)
         /\ DOMAIN Uc' = {"val", "frame", "coarse", "nan"}
         /\ DOMAIN Vc' = {"val", "frame", "coarse", "nan", "bc"}
BY DEF Finish, Array, Primitive

LEMMA ArraysInvNext == LoopInv /\ ArraysInv /\ [Next]_vars => ArraysInv'
<1> SUFFICES ASSUME LoopInv, ArraysInv, [Next]_vars PROVE ArraysInv'
  OBVIOUS
<1>a. conf \in Configs /\ conf.coarsening \in BOOLEAN
  BY Input DEF LoopInv
<1> USE DEF ArraysInv
<1>1. CASE LaunchUserStepFirst
  BY <1>1 DEF LaunchUserStepFirst
<1>2. CASE SetBoundaries
  BY <1>2, <1>a DEF SetBoundaries
<1>3. CASE PrimToCons
  BY <1>3 DEF PrimToCons, Conservative, Array
<1>4. CASE EvolveStage
  BY <1>4 DEF EvolveStage
<1>5. CASE AddAndStore
  BY <1>5 DEF AddAndStore
<1>6. CASE ShiftSolution
  BY <1>6 DEF ShiftSolution
<1>7. CASE Coarsen
  BY <1>7, <1>a DEF Coarsen
<1>8. CASE ConsToPrim
  BY <1>8 DEF ConsToPrim, Primitive
<1>9. CASE AddVelocity
  BY <1>9 DEF AddVelocity
<1>10. CASE RklStart
  BY <1>10, <1>a, FinishKeeps DEF RklStart
<1>11. CASE RklBoundaries
  BY <1>11, <1>a DEF RklBoundaries
<1>12. CASE RklStage
  BY <1>12, <1>a, FinishKeeps DEF RklStage
<1>13. CASE EndCycle
  BY <1>13, <1>a DEF EndCycle
<1>14. CASE End \/ UNCHANGED vars
  BY <1>14 DEF End, vars
<1> QED BY <1>1, <1>2, <1>3, <1>4, <1>5, <1>6, <1>7, <1>8, <1>9, <1>10, <1>11, <1>12, <1>13,
           <1>14 DEF Next

LEMMA FrameInvNext == LoopInv /\ ArraysInv /\ FrameInv /\ [Next]_vars => FrameInv'
<1> SUFFICES ASSUME LoopInv, ArraysInv, FrameInv, [Next]_vars PROVE FrameInv'
  OBVIOUS
<1>a. conf \in Configs /\ conf.nstages \in 1..3 /\ conf.fargo \in BOOLEAN
  BY Input DEF LoopInv
<1> USE DEF ArraysInv, FrameInv, StageFrame, Stages, InStage, Outside
<1>1. CASE LaunchUserStepFirst
  BY <1>1, <1>a DEF LaunchUserStepFirst
<1>2. CASE SetBoundaries
  BY <1>2 DEF SetBoundaries
<1>3. CASE PrimToCons
  BY <1>3, <1>a DEF PrimToCons, Conservative, Array, LoopInv
<1>4. CASE EvolveStage
  BY <1>4 DEF EvolveStage
<1>5. CASE AddAndStore
  <2>1. Uc'.frame = Uc.frame
    <3>1. stage # 0 => begin.frame = Uc.frame
      BY <1>5, <1>a DEF AddAndStore, LoopInv
    <3> QED BY <1>5, <3>1 DEF AddAndStore
  <2>2. pc' \in {"ShiftSolution", "Coarsen"} /\ UNCHANGED <<conf, stage, Vc, begin>>
    BY <1>5 DEF AddAndStore
  <2> QED BY <1>5, <2>1, <2>2 DEF AddAndStore
<1>6. CASE ShiftSolution
  BY <1>6 DEF ShiftSolution
<1>7. CASE Coarsen
  BY <1>7 DEF Coarsen
<1>8. CASE ConsToPrim
  BY <1>8 DEF ConsToPrim, Primitive
<1>9. CASE AddVelocity
  <2>1. Vc'.frame = "total"
    BY <1>9, <1>a DEF AddVelocity
  <2>2. UNCHANGED <<conf, Uc, begin>>
    BY <1>9 DEF AddVelocity
  <2>3. pc' \in {"SetBoundaries", "RklStart", "EndCycle"}
    BY <1>9 DEF AddVelocity
  <2>4. begin'.frame = StageFrame' \/ stage' = 0 \/ pc' # "SetBoundaries"
    BY <1>9, <1>a, <2>2 DEF AddVelocity, LoopInv
  <2> QED BY <2>1, <2>2, <2>3, <2>4
<1>10. CASE RklStart
  BY <1>10, <1>a, FinishKeeps DEF RklStart, LoopInv
<1>11. CASE RklBoundaries
  <2>1. Vc'.frame = "total" /\ UNCHANGED <<conf, stage, Uc, begin>>
    BY <1>11 DEF RklBoundaries
  <2>2. pc' \in {"RklStage", "SetBoundaries", "EndCycle"}
    BY <1>11 DEF RklBoundaries
  <2>3. pc' = "SetBoundaries" => stage = 0
    BY <1>11 DEF RklBoundaries, LoopInv, InRklCycle
  <2> QED BY <2>1, <2>2, <2>3
<1>12. CASE RklStage
  BY <1>12, FinishKeeps DEF RklStage
<1>13. CASE EndCycle
  BY <1>13 DEF EndCycle
<1>14. CASE End \/ UNCHANGED vars
  BY <1>14 DEF End, vars
<1> QED BY <1>1, <1>2, <1>3, <1>4, <1>5, <1>6, <1>7, <1>8, <1>9, <1>10, <1>11, <1>12, <1>13,
           <1>14 DEF Next

LEMMA CoarseInvNext == LoopInv /\ ArraysInv /\ CoarseInv /\ [Next]_vars => CoarseInv'
<1> SUFFICES ASSUME LoopInv, ArraysInv, CoarseInv, [Next]_vars PROVE CoarseInv'
  OBVIOUS
<1>a. conf \in Configs /\ conf.coarsening \in BOOLEAN
  BY Input DEF LoopInv
<1> USE DEF ArraysInv, CoarseInv
<1>1. CASE LaunchUserStepFirst
  BY <1>1, <1>a DEF LaunchUserStepFirst
<1>2. CASE SetBoundaries
  BY <1>2 DEF SetBoundaries
<1>3. CASE PrimToCons
  BY <1>3 DEF PrimToCons
<1>4. CASE EvolveStage
  BY <1>4 DEF EvolveStage
<1>5. CASE AddAndStore
  BY <1>5 DEF AddAndStore
<1>6. CASE ShiftSolution
  BY <1>6 DEF ShiftSolution
<1>7. CASE Coarsen
  BY <1>7 DEF Coarsen
<1>8. CASE ConsToPrim
  BY <1>8 DEF ConsToPrim, Primitive
<1>9. CASE AddVelocity
  BY <1>9 DEF AddVelocity
<1>10. CASE RklStart
  BY <1>10, FinishKeeps DEF RklStart
<1>11. CASE RklBoundaries
  BY <1>11 DEF RklBoundaries
<1>12. CASE RklStage
  BY <1>12, FinishKeeps DEF RklStage
<1>13. CASE EndCycle
  BY <1>13 DEF EndCycle
<1>14. CASE End \/ UNCHANGED vars
  BY <1>14 DEF End, vars
<1> QED BY <1>1, <1>2, <1>3, <1>4, <1>5, <1>6, <1>7, <1>8, <1>9, <1>10, <1>11, <1>12, <1>13,
           <1>14 DEF Next

\* The stages work on the residual velocity and only they; states with
\* different frames are never added, for any number of stages.
THEOREM FramesMatch == Spec => []Frames
<1>1. Init => LoopInv /\ ArraysInv /\ FrameInv
  BY Input DEF Init, LoopInv, ArraysInv, FrameInv, Places, Stages, InStage, Outside, InRklCycle,
     Primitive, Array
<1>2. FrameInv => Frames
  BY DEF FrameInv, Frames, StageFrame, Outside, InStage
<1> QED BY <1>1, <1>2, LoopInvNext, ArraysInvNext, FrameInvNext, PTL DEF Spec

\* Fluxes are never computed from a solution that is not coarsened.
THEOREM Coarsened == Spec => []EvolvesCoarse
<1>1. Init => LoopInv /\ ArraysInv /\ CoarseInv
  BY Input DEF Init, LoopInv, ArraysInv, CoarseInv, Places, Stages, InStage, Outside, InRklCycle,
     Primitive, Array
<1>2. CoarseInv => EvolvesCoarse
  BY DEF CoarseInv, EvolvesCoarse
<1> QED BY <1>1, <1>2, LoopInvNext, ArraysInvNext, CoarseInvNext, PTL DEF Spec
-----------------------------------------------------------------------------
(* The look for Nans                                                          *)

\* What born becomes: it keeps the first Nan.
LEMMA Breaks ==
  ASSUME LoopInv, NEW nan, NEW where \in Int, MayBreak(nan, where)
  PROVE  /\ nan => Uc'.nan
         /\ born # NoNan => born' = born
         /\ born = NoNan /\ ~Uc'.nan => born' = NoNan
         /\ born = NoNan /\ Uc'.nan =>
               born' # NoNan /\ born'.cycle = ncycles /\ born'.stage = where
BY DEF MayBreak, NoNan, LoopInv

\* The actions that leave born alone, and move on from one array to the other.
LEMMA NanInvQuiet ==
  ASSUME LoopInv, ArraysInv, NanInv,
         \/ LaunchUserStepFirst \/ SetBoundaries \/ PrimToCons \/ AddAndStore \/ ShiftSolution
         \/ Coarsen \/ ConsToPrim
  PROVE  NanInv'
<1> USE DEF LoopInv, ArraysInv, NanInv, BornInv, LateInv, Looking, Late, FromVc, FromUc, InStage,
        InRklCycle
<1>1. UNCHANGED <<conf, ncycles, born>>
  BY DEF LaunchUserStepFirst, SetBoundaries, PrimToCons, AddAndStore, ShiftSolution, Coarsen,
     ConsToPrim
<1>2. CASE LaunchUserStepFirst
  BY <1>1, <1>2 DEF LaunchUserStepFirst
<1>3. CASE SetBoundaries
  BY <1>1, <1>3 DEF SetBoundaries
<1>4. CASE PrimToCons
  BY <1>1, <1>4 DEF PrimToCons, Conservative, Array
<1>5. CASE AddAndStore
  <2>1. /\ Uc'.nan => Uc.nan \/ begin.nan
        /\ Uc.nan => Uc'.nan
        /\ pc' \in {"ShiftSolution", "Coarsen"} /\ UNCHANGED <<stage, Vc, begin>>
    BY <1>5 DEF AddAndStore
  <2> QED BY <1>1, <1>5, <2>1 DEF AddAndStore
<1>6. CASE ShiftSolution
  BY <1>1, <1>6 DEF ShiftSolution
<1>7. CASE Coarsen
  BY <1>1, <1>7 DEF Coarsen
<1>8. CASE ConsToPrim
  BY <1>1, <1>8 DEF ConsToPrim, Primitive
<1> QED BY <1>2, <1>3, <1>4, <1>5, <1>6, <1>7, <1>8

LEMMA NanInvNext == LoopInv /\ ArraysInv /\ NanInv /\ [Next]_vars => NanInv'
<1> SUFFICES ASSUME LoopInv, ArraysInv, NanInv, [Next]_vars PROVE NanInv'
  OBVIOUS
<1>a. /\ conf \in Configs /\ conf.nstages \in 1..3 /\ conf.checkNan \in Nat \ {0}
      /\ conf.rklCheckNan \in BOOLEAN
  BY Input DEF LoopInv
<1> USE DEF LoopInv, ArraysInv, NanInv, BornInv, LateInv, Looking, Late, FromVc, FromUc, InStage,
        InRklCycle
<1>1. CASE LaunchUserStepFirst \/ SetBoundaries \/ PrimToCons \/ AddAndStore \/ ShiftSolution
             \/ Coarsen \/ ConsToPrim
  BY <1>1, NanInvQuiet
<1>2. CASE EvolveStage
  <2>0. pc = "EvolveStage"
    BY <1>2 DEF EvolveStage
  <2>1. MayBreak(Uc.nan \/ Vc.nan, stage) /\ Uc'.nan \in BOOLEAN
    BY <1>2 DEF EvolveStage
  <2>2. UNCHANGED <<conf, ncycles, stage, Vc, begin>>
    BY <1>2 DEF EvolveStage
  <2>3. pc' = "AddAndStore" \/ pc' = "Stopped"
    BY <1>2 DEF EvolveStage
  <2>4. BornInv'
    BY <2>0, <2>1, <2>2, <2>3, Breaks
  <2>5. Looking(ncycles) /\ pc' = "AddAndStore" => born = NoNan
    BY <1>2 DEF EvolveStage
  <2> QED BY <2>1, <2>2, <2>3, <2>4, <2>5, Breaks
<1>3. CASE AddVelocity
  <2>0. pc = "AddVelocity"
    BY <1>3 DEF AddVelocity
  <2>1. Vc'.nan = Vc.nan /\ UNCHANGED <<conf, ncycles, Uc, begin, born>>
    BY <1>3 DEF AddVelocity
  <2>2. pc' \in {"SetBoundaries", "RklStart", "EndCycle"}
    BY <1>3 DEF AddVelocity
  <2>3. pc' \in {"RklStart", "EndCycle"} => stage = conf.nstages - 1 /\ stage' = stage
    BY <1>3 DEF AddVelocity
  <2>4. BornInv'
    BY <2>0, <2>1, <2>2
  <2> QED BY <2>0, <2>1, <2>2, <2>3, <2>4
<1>4. CASE RklStart \/ RklStage
  <2>1. MayBreak(Vc.nan, InRkl) /\ Vc'.nan = Uc'.nan /\ Uc'.nan \in BOOLEAN
    BY <1>4, FinishKeeps DEF RklStart, RklStage
  <2>2. UNCHANGED <<conf, ncycles, stage, begin>>
    BY <1>4 DEF RklStart, RklStage
  <2>3. pc' = IF conf.rklCheckNan /\ Vc'.nan THEN "Stopped" ELSE "RklBoundaries"
    BY <1>4 DEF RklStart, RklStage
  <2>4. pc \in {"RklStart", "RklStage"}
    BY <1>4 DEF RklStart, RklStage
  <2>5. BornInv'
    BY <2>1, <2>2, <2>3, <2>4, Breaks DEF InRkl
  <2>6. CASE born # NoNan
    BY <2>1, <2>2, <2>3, <2>4, <2>5, <2>6, Breaks DEF InRkl
  <2>7. CASE born = NoNan
    <3>1. born' # NoNan => born'.cycle = ncycles /\ born'.stage = InRkl /\ Vc'.nan
      BY <2>1, <2>7, Breaks DEF InRkl
    <3> QED BY <1>a, <2>2, <2>3, <2>5, <3>1 DEF InRkl
  <2> QED BY <2>6, <2>7
<1>5. CASE RklBoundaries
  <2>1. Vc'.nan = Vc.nan /\ UNCHANGED <<conf, ncycles, stage, Uc, begin, born>>
    BY <1>5 DEF RklBoundaries
  <2>2. pc' \in {"RklStage", "SetBoundaries", "EndCycle"}
    BY <1>5 DEF RklBoundaries
  <2>3. pc' = "EndCycle" => ncycles % 2 = 0
    BY <1>5 DEF RklBoundaries
  <2> QED BY <1>5, <2>1, <2>2, <2>3 DEF RklBoundaries
<1>6. CASE EndCycle
  <2>1. Uc'.nan = Uc.nan /\ ncycles' = ncycles + 1 /\ pc' = "Top"
        /\ UNCHANGED <<conf, stage, Vc, begin, born>>
    BY <1>6 DEF EndCycle
  <2>2. BornInv'
    BY <1>6, <2>1 DEF EndCycle
  <2>3. ASSUME NEW c \in born.cycle..ncycles, born # NoNan, Looking(c)
        PROVE  Late(c)
    BY <1>6, <2>3 DEF EndCycle
  <2> QED BY <2>1, <2>2, <2>3
<1>7. CASE End \/ UNCHANGED vars
  BY <1>7 DEF End, vars
<1> QED BY <1>1, <1>2, <1>3, <1>4, <1>5, <1>6, <1>7 DEF Next

\* A Nan does not survive a cycle that looks for them, but the one it appeared
\* in, after the look of its last stage, for any number of stages and period.
THEOREM NansAreFound == Spec => []NanFound
<1>1. Init => LoopInv /\ ArraysInv /\ NanInv
  BY Input DEF Init, LoopInv, ArraysInv, NanInv, BornInv, LateInv, Places, Stages, InStage,
     Outside, InRklCycle, FromVc, FromUc, Primitive, Array
<1>2. NanInv => NanFound
  BY DEF NanInv, BornInv, LateInv, NanFound, Looking, Late
<1> QED BY <1>1, <1>2, LoopInvNext, ArraysInvNext, NanInvNext, PTL DEF Spec
-----------------------------------------------------------------------------
(* The number of stages of RKL                                                *)

\* More stages than nrkl make the cycle stable: the square root of nrkl is
\* the root of a polynomial in the number of stages.
LEMMA EnoughStages1 ==
  ASSUME NEW p \in Nat, NEW q \in Nat \ {0}, NEW n \in Nat \ {0},
         \/ n * q > 4 * p
         \/ n * n * (q + 8 * p) * q > (4 * p - n * q) * (4 * p - n * q)
  PROVE  2 * p <= (n * n + n) * q
<1>1. CASE n * q > 4 * p
  BY <1>1
<1>2. CASE n * n * (q + 8 * p) * q > (4 * p - n * q) * (4 * p - n * q)
  <2>1. CASE p = 0
    BY <2>1
  <2>2. CASE p > 0
    <3>1. n * n * (q + 8 * p) * q = (n * q) * (n * q) + 8 * p * (n * n * q)
      OBVIOUS
    <3>2. (4 * p - n * q) * (4 * p - n * q) = 16 * p * p - 8 * p * (n * q) + (n * q) * (n * q)
      OBVIOUS
    <3>3. p * (n * n * q + n * q) > p * (2 * p)
      BY <1>2, <3>1, <3>2
    <3>4. n * n * q + n * q \in Int /\ 2 * p \in Int
      OBVIOUS
    <3>5. n * n * q + n * q > 2 * p
      BY <2>2, <3>3, <3>4
    <3> QED BY <3>5
  <2> QED BY <2>1, <2>2
<1> QED BY <1>1, <1>2

LEMMA EnoughStages2 ==
  ASSUME NEW p \in Nat, NEW q \in Nat \ {0}, NEW n \in Nat \ {0},
         \/ n * q > 4 * q + 8 * p
         \/ n * n * (9 * q + 16 * p) * q > (4 * q + 8 * p - n * q) * (4 * q + 8 * p - n * q)
  PROVE  4 * p <= (n * n + n - 2) * q
<1>1. CASE n * q > 4 * q + 8 * p
  <2>1. n * n * q >= n * q
    OBVIOUS
  <2>2. (n * n + n - 2) * q = n * n * q + n * q - 2 * q
    OBVIOUS
  <2> QED BY <1>1, <2>1, <2>2
<1>2. CASE n * n * (9 * q + 16 * p) * q > (4 * q + 8 * p - n * q) * (4 * q + 8 * p - n * q)
  <2> DEFINE r == q + 2 * p
             m == n * q
  <2>0. r \in Nat \ {0} /\ m \in Nat
    OBVIOUS
  <2>1. n * n * (9 * q + 16 * p) * q = m * m + 8 * (n * m) * r
    OBVIOUS
  <2>2. (4 * q + 8 * p - n * q) * (4 * q + 8 * p - n * q) = 16 * r * r - 8 * r * m + m * m
    OBVIOUS
  <2>3. n * m \in Nat
    BY <2>0
  <2> HIDE DEF r, m
  <2>4. r * (n * m + m) > r * (2 * r)
    BY <1>2, <2>0, <2>1, <2>2, <2>3
  <2>5. n * m + m > 2 * r
    BY <2>0, <2>3, <2>4
  <2>6. n * m + m = (n * n + n) * q
    BY DEF m
  <2> QED BY <2>5, <2>6 DEF r
<1> QED BY <1>1, <1>2

\* There is such a number, of all those up to the bound.
LEMMA StagesExist ==
  ASSUME NEW c \in Configs, c.rklOrder > 0, NEW x \in c.ratios
  PROVE  \E s \in 1..MaxStages :
            AtMostNrkl(c.rklOrder, s - 1, x) /\ ~AtMostNrkl(c.rklOrder, s, x)
<1> DEFINE R == OpToRel(<, Nat)
           T == {s \in 1..MaxStages : ~AtMostNrkl(c.rklOrder, s, x)}
<1>1. IsWellFoundedOn(R, Nat)
  BY NatLessThanWellFounded
<1>2. MaxStages \in T /\ T \subseteq Nat
  BY CycleAssumption, RatiosAssumption
<1> HIDE DEF R
<1>3. PICK s \in T : \A k \in T : ~(<<k, s>> \in R)
  BY <1>1, <1>2, WFMin
<1>4. s - 1 \in Nat /\ s \in 1..MaxStages /\ s - 1 < s
  BY <1>2
<1>5. s - 1 # 0 => AtMostNrkl(c.rklOrder, s - 1, x)
  <2>1. s - 1 # 0 => s - 1 \notin T
    BY <1>2, <1>3, <1>4 DEF R, OpToRel
  <2> QED BY <1>4, <2>1, CycleAssumption
<1>6. AtMostNrkl(c.rklOrder, 0, x)
  <2>1. x[1] \in Nat /\ x[2] \in Nat
    BY RatiosAssumption
  <2>2. /\ 0 * 0 * (x[2] + 8 * x[1]) * x[2] = 0
        /\ 0 * 0 * (9 * x[2] + 16 * x[1]) * x[2] = 0
    BY <2>1
  <2>3. /\ (4 * x[1] - 0 * x[2]) * (4 * x[1] - 0 * x[2]) >= 0
        /\ (4 * x[2] + 8 * x[1] - 0 * x[2]) * (4 * x[2] + 8 * x[1] - 0 * x[2]) >= 0
    BY <2>1
  <2> QED BY <2>1, <2>2, <2>3 DEF AtMostNrkl
<1> QED BY <1>3, <1>4, <1>5, <1>6

\* What makes s stages stable for the ratio x.
Stable(s, x) ==
  IF conf.rklOrder = 1 THEN 2 * x[1] <= (s * s + s) * x[2]
  ELSE 4 * x[1] <= (s * s + s - 2) * x[2]

LEMMA StagesStable ==
  ASSUME LoopInv, conf.rklOrder > 0, NEW x \in conf.ratios
  PROVE  Stable(rklstages(x), x)
<1> DEFINE s == rklstages(x)
<1>1. conf \in Configs /\ conf.rklOrder \in 1..2
  BY Input DEF LoopInv
<1>2. x[1] \in Nat /\ x[2] \in Nat \ {0}
  BY <1>1, RatiosAssumption
<1>3. s \in 1..MaxStages /\ ~AtMostNrkl(conf.rklOrder, s, x)
  BY <1>1, StagesExist DEF rklstages
<1>4. s \in Nat \ {0}
  BY <1>3, CycleAssumption
<1> HIDE DEF s
<1>5. CASE conf.rklOrder = 1
  <2>1. \/ s * x[2] > 4 * x[1]
        \/ s * s * (x[2] + 8 * x[1]) * x[2] > (4 * x[1] - s * x[2]) * (4 * x[1] - s * x[2])
    <3> DEFINE u == s * s * (x[2] + 8 * x[1]) * x[2]
               v == (4 * x[1] - s * x[2]) * (4 * x[1] - s * x[2])
               w == s * x[2]
    <3>1. u \in Int /\ v \in Int /\ w \in Int
      BY <1>2, <1>4
    <3>2. ~(w <= 4 * x[1] /\ u <= v)
      BY <1>3, <1>5 DEF AtMostNrkl
    <3> HIDE DEF u, v, w
    <3>3. w > 4 * x[1] \/ u > v
      BY <1>2, <3>1, <3>2
    <3> QED BY <3>3 DEF u, v, w
  <2>2. 2 * x[1] <= (s * s + s) * x[2]
    BY <1>2, <1>4, <2>1, EnoughStages1
  <2> QED BY <1>5, <2>2 DEF Stable, s
<1>6. CASE conf.rklOrder = 2
  <2>1. \/ s * x[2] > 4 * x[2] + 8 * x[1]
        \/ s * s * (9 * x[2] + 16 * x[1]) * x[2]
              > (4 * x[2] + 8 * x[1] - s * x[2]) * (4 * x[2] + 8 * x[1] - s * x[2])
    <3> DEFINE u == s * s * (9 * x[2] + 16 * x[1]) * x[2]
               v == (4 * x[2] + 8 * x[1] - s * x[2]) * (4 * x[2] + 8 * x[1] - s * x[2])
               w == s * x[2]
    <3>1. u \in Int /\ v \in Int /\ w \in Int
      BY <1>2, <1>4
    <3>2. ~(w <= 4 * x[2] + 8 * x[1] /\ u <= v)
      BY <1>3, <1>6 DEF AtMostNrkl
    <3> HIDE DEF u, v, w
    <3>3. w > 4 * x[2] + 8 * x[1] \/ u > v
      BY <1>2, <3>1, <3>2
    <3> QED BY <3>3 DEF u, v, w
  <2>2. 4 * x[1] <= (s * s + s - 2) * x[2]
    BY <1>2, <1>4, <2>1, EnoughStages2
  <2> QED BY <1>6, <2>2 DEF Stable, s
<1> QED BY <1>1, <1>5, <1>6 DEF s

\* RKL cycles are those of inputs with RKL, and keep their stages.
StableInv ==
  /\ pc \in InRklCycle => conf.rklOrder > 0
  /\ pc \in {"RklBoundaries", "RklStage"} =>
        /\ DOMAIN rkl = DOMAIN NoRkl
        /\ Stable(rkl.stages, rkl.ratio)

LEMMA StableInvNext == LoopInv /\ StableInv /\ [Next]_vars => StableInv'
<1> SUFFICES ASSUME LoopInv, StableInv, [Next]_vars PROVE StableInv'
  OBVIOUS
<1>0. conf' = conf
  BY DEF Next, LaunchUserStepFirst, SetBoundaries, PrimToCons, EvolveStage, AddAndStore,
     ShiftSolution, Coarsen, ConsToPrim, AddVelocity, RklStart, RklBoundaries, RklStage,
     EndCycle, End, vars
<1>1. CASE RklStart
  <2>1. PICK x \in conf.ratios :
          /\ DOMAIN rkl' = DOMAIN NoRkl
          /\ rkl'.stages = rklstages(x) /\ rkl'.ratio = x
    BY <1>1 DEF RklStart, NoRkl
  <2>2. conf.rklOrder > 0
    BY <1>1 DEF RklStart, StableInv, InRklCycle
  <2>3. Stable(rklstages(x), x)
    BY <2>2, StagesStable
  <2> QED BY <1>0, <2>1, <2>2, <2>3 DEF StableInv, Stable
<1>2. CASE RklBoundaries
  BY <1>0, <1>2 DEF RklBoundaries, StableInv, Stable, InRklCycle
<1>3. CASE RklStage
  <2>1. /\ DOMAIN rkl' = DOMAIN rkl /\ rkl'.stages = rkl.stages /\ rkl'.ratio = rkl.ratio
    BY <1>3 DEF RklStage, StableInv, NoRkl
  <2> QED BY <1>0, <1>3, <2>1 DEF RklStage, StableInv, Stable, InRklCycle
<1>4. CASE \/ LaunchUserStepFirst \/ SetBoundaries \/ PrimToCons \/ EvolveStage \/ AddAndStore
           \/ ShiftSolution \/ Coarsen \/ ConsToPrim \/ AddVelocity \/ EndCycle
  <2>1. pc' \notin {"RklBoundaries", "RklStage"}
    BY <1>4 DEF LaunchUserStepFirst, SetBoundaries, PrimToCons, EvolveStage, AddAndStore,
       ShiftSolution, Coarsen, ConsToPrim, AddVelocity, EndCycle
  <2>2. pc' = "RklStart" => haveRKL
    BY <1>4 DEF LaunchUserStepFirst, SetBoundaries, PrimToCons, EvolveStage, AddAndStore,
       ShiftSolution, Coarsen, ConsToPrim, AddVelocity, EndCycle
  <2> QED BY <1>0, <2>1, <2>2 DEF StableInv, InRklCycle, haveRKL
<1>5. CASE End \/ UNCHANGED vars
  BY <1>5 DEF End, vars, StableInv, Stable
<1> QED BY <1>1, <1>2, <1>3, <1>4, <1>5 DEF Next

\* The number of stages of an RKL cycle makes it stable, for any ratio of the
\* time steps and both orders.
THEOREM RklIsStable == Spec => []RklStable
<1>1. Init => LoopInv /\ StableInv
  BY Input DEF Init, LoopInv, StableInv, Places, Stages, InStage, Outside, InRklCycle
<1>2. StableInv => RklStable
  BY DEF StableInv, Stable, RklStable
<1> QED BY <1>1, <1>2, LoopInvNext, StableInvNext, PTL DEF Spec
-----------------------------------------------------------------------------
(* The shift of Fargo: remainders *)

LEMMA Quotients ==
  ASSUME NEW C \in Int, C > 0, NEW y \in Int
  PROVE  /\ y \div C \in Int
         /\ y = C * (y \div C) + (y % C)
         /\ y % C \in 0..(C - 1)
OBVIOUS

\* A remainder is what is left, whatever the quotient.
LEMMA Remainder ==
  ASSUME NEW C \in Int, C > 0, NEW y \in Int, NEW k \in Int, NEW r \in 0..C - 1, y = k * C + r
  PROVE  y % C = r
<1> DEFINE q == y \div C
           z == y % C
<1>1. y = C * q + z /\ z \in 0..C - 1 /\ q \in Int
  BY Quotients
<1> HIDE DEF q, z
<1>2. C * (k - q) = z - r
  BY <1>1
<1>3. k - q < 1
  BY <1>1, <1>2
<1>4. k - q > -1
  BY <1>1, <1>2
<1>5. k = q
  BY <1>1, <1>3, <1>4
<1> QED BY <1>1, <1>2, <1>5 DEF z

\* Whole turns leave the remainder.
LEMMA Turn ==
  ASSUME NEW C \in Int, C > 0, NEW y \in Int, NEW k \in Int, NEW z \in Int, z = y + k * C
  PROVE  z % C = y % C
<1> DEFINE q == y \div C
           r == y % C
<1>1. y = C * q + r /\ r \in 0..C - 1 /\ q \in Int
  BY Quotients
<1> HIDE DEF q, r
<1>2. z = (q + k) * C + r /\ q + k \in Int
  BY <1>1
<1>3. z % C = r
  BY <1>1, <1>2, Remainder
<1> QED BY <1>3 DEF r

-----------------------------------------------------------------------------
(* The displacement                                                           *)

LEMMA NearBounds ==
  ASSUME NEW w \in Int
  PROVE  F!Nearest(w) \in Int /\ F!Rest(w) \in Int /\ -Q <= 2 * F!Rest(w) /\ 2 * F!Rest(w) < Q
<1> DEFINE m == w \div Q
           e == w % Q
<1>0. Q \in Int /\ Q > 0
  BY CycleAssumption
<1>1. w = Q * m + e /\ e \in 0..Q - 1 /\ m \in Int
  BY <1>0, Quotients
<1> HIDE DEF m, e
<1>2. w - Q * m = e
  BY <1>0, <1>1
<1>3. CASE 2 * e >= Q
  <2>1. F!Nearest(w) = m + 1
    BY <1>2, <1>3 DEF F!Nearest, m
  <2>2. Q * (m + 1) = Q * m + Q
    BY <1>0, <1>1
  <2> QED BY <1>0, <1>1, <1>3, <2>1, <2>2 DEF F!Rest
<1>4. CASE ~(2 * e >= Q)
  <2>1. F!Nearest(w) = m
    BY <1>2, <1>4 DEF F!Nearest, m
  <2> QED BY <1>0, <1>1, <1>4, <2>1 DEF F!Rest
<1> QED BY <1>3, <1>4

\* fmod takes off a whole number of b.
LEMMA FmodTakesTurns ==
  ASSUME NEW y \in Int, NEW z \in Int, z > 0
  PROVE  /\ \E k \in Int : F!fmod(y, z) = y - k * z
         /\ y < z /\ -y < z => F!fmod(y, z) = y
<1>1. CASE y >= 0
  <2>1. y = z * (y \div z) + (y % z) /\ y \div z \in Int /\ y % z \in Int
    BY Quotients
  <2>2. y % z = y - (y \div z) * z
    BY <2>1
  <2>3. y < z => y % z = y
    BY <1>1
  <2> QED BY <2>2, <2>3, <1>1, <2>1 DEF F!fmod
<1>2. CASE y < 0
  <2> DEFINE c == -y
  <2>0. c \in Int /\ c > 0
    BY <1>2
  <2>1. c % z = c - (c \div z) * z /\ c \div z \in Int /\ (c < z => c % z = c)
    <3> HIDE DEF c
    <3>1. c = z * (c \div z) + (c % z) /\ c \div z \in Int /\ c % z \in Int
      BY <2>0, Quotients
    <3>2. c < z => c % z = c
      BY <2>0
    <3> QED BY <2>0, <3>1, <3>2
  <2> DEFINE q == c \div z
  <2>2. F!fmod(y, z) = -(c % z)
    BY <1>2 DEF F!fmod
  <2> HIDE DEF c, q
  <2>3. -(c - q * z) = -c - (-q) * z
    BY <2>0, <2>1 DEF q
  <2>4. -c = y
    BY DEF c
  <2>5. F!fmod(y, z) = y - (-q) * z /\ -q \in Int
    BY <2>0, <2>1, <2>2, <2>3, <2>4 DEF q
  <2>6. y < z /\ -y < z => F!fmod(y, z) = y
    BY <2>0, <2>1, <2>2, <2>4
  <2> QED BY <2>5, <2>6
<1> QED BY <1>1, <1>2

\* The code moves by as many cells as Exact, up to whole turns.
LEMMA SameDisplacement ==
  ASSUME NEW w \in Int
  PROVE  /\ F!eps(w) = F!Rest(w)
         /\ \E k \in Int : F!WholeCells(w) = F!Nearest(w) - k * Cells
         /\ w < Cells * Q /\ -w < Cells * Q => F!WholeCells(w) = F!Nearest(w)
<1>0. Q \in Int /\ Q > 0 /\ Cells \in Int /\ Cells > 0 /\ Cells * Q \in Int /\ Cells * Q > 0
  BY CycleAssumption
<1>1. PICK k \in Int : F!fmod(w, Cells * Q) = w - k * (Cells * Q)
  BY <1>0, FmodTakesTurns
<1> DEFINE d == F!dL(w)
           n == F!Nearest(w)
           m == F!WholeCells(w)
           j == n - k * Cells
<1>2. d = w - k * (Cells * Q) /\ d \in Int
  BY <1>0, <1>1 DEF F!dL
<1>3. m = (2 * d + Q) \div (2 * Q) /\ F!eps(w) = d - Q * m
  BY DEF F!WholeCells, F!eps
<1>4. n \in Int /\ F!Rest(w) = w - Q * n /\ -Q <= 2 * F!Rest(w) /\ 2 * F!Rest(w) < Q
  BY NearBounds DEF F!Rest
<1> HIDE DEF d, n, m
<1>5. m \in Int /\ (2 * Q) * m <= 2 * d + Q /\ 2 * d + Q < (2 * Q) * m + 2 * Q
  <2>1. 2 * Q \in Int /\ 2 * Q > 0 /\ 2 * d + Q \in Int
    BY <1>0, <1>2
  <2>2. /\ m \in Int
        /\ 2 * d + Q = (2 * Q) * m + ((2 * d + Q) % (2 * Q))
        /\ (2 * d + Q) % (2 * Q) \in 0..(2 * Q - 1)
    BY <1>3, <2>1, Quotients
  <2> QED BY <2>1, <2>2
<1>6. j \in Int /\ d = Q * j + F!Rest(w)
  <2>1. Q * (n - k * Cells) = Q * n - k * (Cells * Q)
    BY <1>0, <1>4
  <2> QED BY <1>0, <1>2, <1>4, <2>1
<1> HIDE DEF j
<1>7. Q * (j - m) < Q /\ Q * (j - m) > -Q
  <2>1. Q * (j - m) = Q * j - Q * m /\ (2 * Q) * m = 2 * (Q * m)
    BY <1>0, <1>5, <1>6
  <2>2. Q * j \in Int /\ Q * m \in Int /\ F!Rest(w) \in Int
    BY <1>0, <1>4, <1>5, <1>6
  <2> QED BY <1>0, <1>2, <1>4, <1>5, <1>6, <2>1, <2>2
<1>8. j - m < 1 /\ j - m > -1
  BY <1>0, <1>5, <1>6, <1>7
<1>9. m = j
  BY <1>5, <1>6, <1>8
<1>10. F!eps(w) = F!Rest(w)
  BY <1>0, <1>3, <1>4, <1>6, <1>9
<1>11. ASSUME w < Cells * Q, -w < Cells * Q
       PROVE  m = n
  <2>1. d = w
    BY <1>0, <1>11, FmodTakesTurns DEF F!dL, d
  <2>2. (2 * Q) * m = 2 * (Q * m) /\ Q * m \in Int /\ Q * n \in Int
    BY <1>0, <1>4, <1>5
  <2>3. Q * (n - m) = Q * n - Q * m
    BY <1>0, <1>4, <1>5
  <2>4. Q * (n - m) < Q /\ Q * (n - m) > -Q
    BY <1>0, <1>4, <1>5, <2>1, <2>2, <2>3
  <2>5. n - m < 1 /\ n - m > -1
    BY <1>0, <1>4, <1>5, <2>4
  <2> QED BY <1>4, <1>5, <2>5
<1> QED BY <1>9, <1>10, <1>11 DEF j, m, n
-----------------------------------------------------------------------------
(* Sums of terms                                                              *)

IsSum(f) == \A u : F!Coefficient(f, u) \in Int

\* What the coefficients of f + k * g are.
Linear(f, k, g) ==
  /\ IsSum(F!AddTimes(f, k, g))
  /\ \A u : F!Coefficient(F!AddTimes(f, k, g), u)
              = F!Coefficient(f, u) + k * F!Coefficient(g, u)

\* A sum of sums has the sum of their coefficients.
LEMMA Coefficients ==
  ASSUME NEW f, NEW g, IsSum(f), IsSum(g), NEW k \in Int
  PROVE  Linear(f, k, g)
<1>1. ASSUME NEW u
      PROVE  F!Coefficient(F!AddTimes(f, k, g), u)
               = F!Coefficient(f, u) + k * F!Coefficient(g, u)
  <2>1. F!Coefficient(f, u) \in Int /\ F!Coefficient(g, u) \in Int
    BY DEF IsSum
  <2> DEFINE y == F!Coefficient(f, u)
             z == F!Coefficient(g, u)
  <2>2. CASE u \in DOMAIN f \cup DOMAIN g
    <3>1. CASE y + k * z # 0
      BY <2>2, <3>1 DEF F!AddTimes, F!Coefficient
    <3>2. CASE y + k * z = 0
      <4>1. u \notin DOMAIN F!AddTimes(f, k, g)
        BY <3>2 DEF F!AddTimes
      <4>2. F!Coefficient(F!AddTimes(f, k, g), u) = 0
        BY <4>1 DEF F!Coefficient
      <4> QED BY <3>2, <4>2
    <3> QED BY <3>1, <3>2
  <2>3. CASE u \notin DOMAIN f \cup DOMAIN g
    <3>1. y = 0 /\ z = 0
      BY <2>3 DEF F!Coefficient
    <3>2. u \notin DOMAIN F!AddTimes(f, k, g)
      BY <2>3 DEF F!AddTimes
    <3>3. F!Coefficient(F!AddTimes(f, k, g), u) = 0
      BY <3>2 DEF F!Coefficient
    <3> QED BY <3>1, <3>3
  <2> QED BY <2>2, <2>3
<1>2. ASSUME NEW u
      PROVE  F!Coefficient(f, u) + k * F!Coefficient(g, u) \in Int
  BY DEF IsSum
<1> QED BY <1>1, <1>2 DEF IsSum, Linear

\* Sums that are the result of an addition have no zero: they are the same if
\* their coefficients are.
LEMMA SameSums ==
  ASSUME NEW f, NEW g, NEW k, NEW h, NEW i, NEW j,
         \A u : F!Coefficient(f, u) + k * F!Coefficient(g, u)
                  = F!Coefficient(h, u) + j * F!Coefficient(i, u),
         k \in Int, j \in Int
  PROVE  F!AddTimes(f, k, g) = F!AddTimes(h, j, i)
<1> DEFINE A(u) == F!Coefficient(f, u) + k * F!Coefficient(g, u)
           B(u) == F!Coefficient(h, u) + j * F!Coefficient(i, u)
           D == {v \in DOMAIN f \cup DOMAIN g : A(v) # 0}
           E == {v \in DOMAIN h \cup DOMAIN i : B(v) # 0}
<1>1. \A u : A(u) = B(u)
  OBVIOUS
<1>2. \A u : u \notin DOMAIN f \cup DOMAIN g => A(u) = 0
  BY DEF F!Coefficient
<1>3. \A u : u \notin DOMAIN h \cup DOMAIN i => B(u) = 0
  BY DEF F!Coefficient
<1>4. F!AddTimes(f, k, g) = [u \in D |-> A(u)]
  BY DEF F!AddTimes
<1>5. F!AddTimes(h, j, i) = [u \in E |-> B(u)]
  BY DEF F!AddTimes
<1> HIDE DEF A, B
<1>6. D = E
  BY <1>1, <1>2, <1>3
<1> HIDE DEF D, E
<1>7. [u \in D |-> A(u)] = [u \in E |-> B(u)]
  BY <1>1, <1>6
<1> QED BY <1>4, <1>5, <1>7

\* The sums that the shift adds.
Is(u, v) == IF u = v THEN 1 ELSE 0

LEMMA TermIsSum ==
  ASSUME NEW v
  PROVE  /\ IsSum(F!Term(v)) /\ IsSum(F!Zero)
         /\ \A u : F!Coefficient(F!Term(v), u) = Is(u, v)
         /\ \A u : F!Coefficient(F!Zero, u) = 0
BY DEF IsSum, F!Term, F!Zero, F!Coefficient, Is
-----------------------------------------------------------------------------
(* What a process reads in its scratch array                                  *)

\* A process, its arrays, and the scheme that it uses.
Good(parts, g, reach, p) ==
  /\ parts \in Nat \ {0} /\ Cells % parts = 0 /\ p \in 0..parts - 1
  /\ g \in Nat /\ reach \in Nat /\ reach < g /\ reach <= Cells
  /\ F!Accepted(parts, g)

\* With several processes, a displacement not more than half a cell too large.
Fits(parts, w) ==
  parts > 1 => 2 * w <= (2 * MaxShift + 1) * Q /\ -(2 * w) <= (2 * MaxShift + 1) * Q

\* The cell before index 0 of the arrays of process p.
Base(parts, g, p) == p * F!np(parts) - g

\* The cell, whatever the turn, at an index of the scratch array.
CellAt(parts, g, p, so) ==
  IF parts > 1 THEN Base(parts, g, p) + so - MaxShift ELSE so - g

\* The indices that have d cells at each side.
Within(parts, g, d) ==
  IF parts > 1 THEN d..F!np(parts) + 2 * (g + MaxShift) - 1 - d ELSE g..g + Cells - 1

LEMMA Sizes ==
  ASSUME NEW parts, NEW g, NEW reach, NEW p, Good(parts, g, reach, p)
  PROVE  /\ parts \in Int /\ g \in Int /\ g > 0 /\ reach \in Int /\ reach >= 0 /\ p \in Int
         /\ Cells \in Int /\ Cells > 0 /\ MaxShift \in Int /\ MaxShift > 0 /\ Q \in Int /\ Q > 0
         /\ F!np(parts) \in Int /\ F!np(parts) > 0 /\ Cells = parts * F!np(parts)
         /\ parts > 1 => F!np(parts) >= MaxShift + g
         /\ parts = 1 => F!np(parts) = Cells /\ p = 0
         /\ Base(parts, g, p) \in Int /\ parts > 0
<1>0. /\ parts \in Int /\ parts > 0 /\ Cells \in Int /\ Cells > 0 /\ MaxShift \in Int /\ MaxShift > 0
      /\ Q \in Int /\ Q > 0 /\ p \in Int /\ g \in Int /\ g > 0 /\ reach \in Int /\ reach >= 0
  BY CycleAssumption DEF Good
<1> DEFINE n == Cells \div parts
<1>1. n \in Int /\ Cells = parts * n
  <2>1. Cells % parts = 0
    BY DEF Good
  <2> QED BY <1>0, <2>1, Quotients
<1>2. F!np(parts) = n
  BY DEF F!np
<1> HIDE DEF n
<1>3. n > 0
  BY <1>0, <1>1
<1>4. parts = 1 => n = Cells /\ p = 0
  BY <1>0, <1>1 DEF Good
<1>5. parts > 1 => n >= MaxShift + g
  BY <1>2 DEF Good, F!Accepted
<1> QED BY <1>0, <1>1, <1>2, <1>3, <1>4, <1>5 DEF Base

LEMMA ReadIs ==
  ASSUME NEW parts, NEW g, NEW reach, NEW p, Good(parts, g, reach, p),
         NEW x \in Within(parts, g, 0)
  PROVE  F!Read(F!StoreToScratch(parts, g, p), x) = CellAt(parts, g, p, x) % Cells
<1> USE Sizes
<1>1. CASE parts > 1
  <2> DEFINE D == 0..F!np(parts) + 2 * (g + MaxShift) - 1
  <2>1. x \in D /\ x \in Int
    BY <1>1 DEF Within
  <2>2. F!Read(F!StoreToScratch(parts, g, p), x) = F!Owned(parts, g, p, x - MaxShift)
    <3>1. F!StoreToScratch(parts, g, p) = [v \in D |-> F!Owned(parts, g, p, v - MaxShift)]
      BY <1>1 DEF F!StoreToScratch
    <3> HIDE DEF D
    <3> QED BY <2>1, <3>1 DEF F!Read
  <2>3. p * F!np(parts) + (x - MaxShift) - g = CellAt(parts, g, p, x)
    BY <1>1, <2>1 DEF CellAt, Base
  <2> QED BY <2>2, <2>3 DEF F!Owned
<1>2. CASE parts = 1
  <2>1. x \in g..g + Cells - 1 /\ x \in Int
    BY <1>2 DEF Within
  <2>2. F!Read(F!StoreToScratch(parts, g, p), x) = F!Owned(1, g, 0, x)
    BY <1>2, <2>1 DEF F!Read, F!StoreToScratch
  <2>3. 0 * F!np(1) + x - g = CellAt(parts, g, p, x)
    BY <1>2, <2>1 DEF CellAt
  <2> QED BY <2>2, <2>3 DEF F!Owned
<1> QED BY <1>1, <1>2

\* Two numbers of the same cell, in two turns.
SameCell(y, z) == \E k \in Int : y = z + k * Cells

LEMMA SameCells ==
  ASSUME NEW y \in Int, NEW z \in Int, SameCell(y, z)
  PROVE  /\ y % Cells = z % Cells
         /\ \A d \in Int : (y + d) % Cells = (z + d) % Cells /\ SameCell(y + d, z + d)
         /\ \A reach, e : F!FluxAfter(reach, y, e) = F!FluxAfter(reach, z, e)
<1>0. Cells \in Int /\ Cells > 0
  BY CycleAssumption
<1>1. PICK k \in Int : y = z + k * Cells
  BY DEF SameCell
<1>2. y % Cells = z % Cells
  BY <1>0, <1>1, Turn
<1>3. ASSUME NEW d \in Int
      PROVE  (y + d) % Cells = (z + d) % Cells /\ SameCell(y + d, z + d)
  <2> DEFINE u == y + d
             v == z + d
  <2>1. u = v + k * Cells /\ u \in Int /\ v \in Int
    BY <1>0, <1>1
  <2> HIDE DEF u, v
  <2>2. u % Cells = v % Cells /\ SameCell(u, v)
    BY <1>0, <2>1, Turn DEF SameCell
  <2> QED BY <2>2 DEF u, v
<1>4. ASSUME NEW reach, NEW e
      PROVE  F!FluxAfter(reach, y, e) = F!FluxAfter(reach, z, e)
  <2>1. ASSUME NEW i \in -reach..reach PROVE (y + i) % Cells = (z + i) % Cells
    BY <1>3
  <2> QED BY <2>1 DEF F!FluxAfter
<1> QED BY <1>2, <1>3, <1>4

LEMMA SameCellTwice ==
  ASSUME NEW y \in Int, NEW z \in Int, NEW c \in Int, SameCell(y, z), SameCell(z, c)
  PROVE  SameCell(y, c)
<1>0. Cells \in Int
  BY CycleAssumption
<1>1. PICK k \in Int : y = z + k * Cells
  BY DEF SameCell
<1>2. PICK j \in Int : z = c + j * Cells
  BY DEF SameCell
<1>3. y = c + (j + k) * Cells /\ j + k \in Int
  BY <1>0, <1>1, <1>2
<1> QED BY <1>3 DEF SameCell

\* The index beside another is one of the array, and of the cell beside.
LEMMA BesideIs ==
  ASSUME NEW parts, NEW g, NEW reach, NEW p, Good(parts, g, reach, p),
         NEW so \in Within(parts, g, 0), NEW i \in Int, -Cells <= i, i <= Cells, NEW d \in Int,
         parts > 1 => d <= so + i /\ so + i <= F!np(parts) + 2 * (g + MaxShift) - 1 - d
  PROVE  /\ F!Beside(parts, g, so, i) \in Within(parts, g, d)
         /\ SameCell(CellAt(parts, g, p, F!Beside(parts, g, so, i)), CellAt(parts, g, p, so) + i)
<1> USE Sizes
<1>1. CASE parts > 1
  <2>1. F!Beside(parts, g, so, i) = so + i
    BY <1>1 DEF F!Beside
  <2>2. so \in Int
    BY <1>1 DEF Within
  <2>3. so + i \in Within(parts, g, d)
    BY <1>1, <2>2 DEF Within
  <2>4. CellAt(parts, g, p, so + i) = CellAt(parts, g, p, so) + i + 0 * Cells
    BY <1>1, <2>2 DEF CellAt
  <2> QED BY <2>1, <2>3, <2>4 DEF SameCell
<1>2. CASE parts = 1
  <2>1. so \in Int /\ i \in Int /\ so >= g /\ so <= g + Cells - 1
    BY <1>2 DEF Within
  <2>2. PICK k \in -1..1 : /\ F!Beside(parts, g, so, i) = so + i + k * Cells
                           /\ so + i + k * Cells >= g /\ so + i + k * Cells <= g + Cells - 1
    <3>1. CASE so + i - g >= Cells
      <4>1. F!Beside(parts, g, so, i) = so + i + (-1) * Cells
        BY <1>2, <2>1, <3>1 DEF F!Beside
      <4> QED BY <2>1, <3>1, <4>1
    <3>2. CASE so + i - g < 0
      <4>1. F!Beside(parts, g, so, i) = so + i + 1 * Cells
        BY <1>2, <2>1, <3>2 DEF F!Beside
      <4> QED BY <2>1, <3>2, <4>1
    <3>3. CASE ~(so + i - g >= Cells) /\ ~(so + i - g < 0)
      <4>1. F!Beside(parts, g, so, i) = so + i + 0 * Cells
        BY <1>2, <2>1, <3>3 DEF F!Beside
      <4> QED BY <2>1, <3>3, <4>1
    <3> QED BY <3>1, <3>2, <3>3
  <2>3. so + i + k * Cells \in Within(parts, g, d)
    BY <1>2, <2>1, <2>2 DEF Within
  <2>4. CellAt(parts, g, p, so + i + k * Cells) = CellAt(parts, g, p, so) + i + k * Cells
    BY <1>2, <2>1 DEF CellAt
  <2> QED BY <2>2, <2>3, <2>4 DEF SameCell
<1> QED BY <1>1, <1>2
LEMMA FluxIs ==
  ASSUME NEW parts, NEW g, NEW reach, NEW p, Good(parts, g, reach, p),
         NEW so \in Within(parts, g, reach), NEW e
  PROVE  F!FargoFlux(F!StoreToScratch(parts, g, p), parts, g, reach, so, e)
           = F!FluxAfter(reach, CellAt(parts, g, p, so), e)
<1> DEFINE scrh == F!StoreToScratch(parts, g, p)
           c == CellAt(parts, g, p, so)
<1>0. reach \in Int /\ reach >= 0 /\ reach <= Cells /\ Cells \in Int /\ Cells > 0
  BY Sizes DEF Good
<1>c. c \in Int
  BY Sizes DEF CellAt, Within
<1>1. ASSUME NEW i \in -reach..reach
      PROVE  F!Read(scrh, F!Beside(parts, g, so, i)) = (c + i) % Cells
  <2>1. /\ so \in Within(parts, g, 0) /\ i \in Int /\ -Cells <= i /\ i <= Cells /\ 0 \in Int
        /\ parts > 1 => 0 <= so + i /\ so + i <= F!np(parts) + 2 * (g + MaxShift) - 1 - 0
    BY <1>0, Sizes DEF Within
  <2>2. F!Beside(parts, g, so, i) \in Within(parts, g, 0)
    BY <2>1, BesideIs
  <2>3. SameCell(CellAt(parts, g, p, F!Beside(parts, g, so, i)), CellAt(parts, g, p, so) + i)
    BY <2>1, BesideIs
  <2>4. F!Read(scrh, F!Beside(parts, g, so, i))
          = CellAt(parts, g, p, F!Beside(parts, g, so, i)) % Cells
    BY <2>2, ReadIs
  <2>5. c + i \in Int /\ CellAt(parts, g, p, F!Beside(parts, g, so, i)) \in Int
    BY <1>c, <2>2, Sizes DEF CellAt, Within
  <2> QED BY <2>3, <2>4, <2>5, SameCells
<1>2. [i \in -reach..reach |-> F!Read(scrh, F!Beside(parts, g, so, i))]
        = [i \in -reach..reach |-> (c + i) % Cells]
  BY <1>1
<1>3. F!FargoFlux(scrh, parts, g, reach, so, e)
        = IF e = 0 THEN F!Zero
          ELSE F!Term(F!Flux([i \in -reach..reach |-> F!Read(scrh, F!Beside(parts, g, so, i))], e))
  BY DEF F!FargoFlux
<1> HIDE DEF scrh, c
<1> QED BY <1>2, <1>3 DEF F!FluxAfter, scrh, c

\* The displacement of several processes stays in what they exchange.
LEMMA Displaced ==
  ASSUME NEW parts, NEW g, NEW reach, NEW p, Good(parts, g, reach, p), parts > 1,
         NEW w \in Int, Fits(parts, w)
  PROVE  /\ F!WholeCells(w) = F!Nearest(w) /\ F!Nearest(w) \in Int
         /\ F!Nearest(w) >= -MaxShift /\ F!Nearest(w) <= MaxShift + 1
         /\ F!Rest(w) >= 0 => F!Nearest(w) <= MaxShift
<1> USE Sizes
<1> DEFINE n == F!Nearest(w)
           r == F!Rest(w)
<1>1. n \in Int /\ r \in Int /\ r = w - Q * n /\ -Q <= 2 * r /\ 2 * r < Q /\ Q * n \in Int
  BY NearBounds DEF F!Rest
<1>2. 2 * w <= (2 * MaxShift + 1) * Q /\ -(2 * w) <= (2 * MaxShift + 1) * Q
  BY DEF Fits
<1> HIDE DEF n, r
<1>3. Q * (n - MaxShift - 1) <= 0
  BY <1>1, <1>2
<1>4. n <= MaxShift + 1
  BY <1>1, <1>3
<1>5. Q * (n + MaxShift + 1) > 0
  BY <1>1, <1>2
<1>6. n >= -MaxShift
  BY <1>1, <1>5
<1>7. r >= 0 => n <= MaxShift
  <2> SUFFICES ASSUME r >= 0 PROVE n <= MaxShift
    OBVIOUS
  <2>1. Q * (n - MaxShift - 1) < 0
    BY <1>1, <1>2
  <2> QED BY <1>1, <2>1
<1>8. Cells >= MaxShift + 1
  <2>1. parts * F!np(parts) >= F!np(parts)
    OBVIOUS
  <2> QED BY <2>1
<1>9. Cells * Q >= (MaxShift + 1) * Q
  BY <1>8
<1>10. w < Cells * Q /\ -w < Cells * Q
  <2>1. (MaxShift + 1) * Q = MaxShift * Q + Q /\ (2 * MaxShift + 1) * Q = 2 * (MaxShift * Q) + Q
    OBVIOUS
  <2>2. MaxShift * Q \in Int /\ Cells * Q \in Int
    OBVIOUS
  <2> QED BY <1>2, <1>9, <2>1, <2>2
<1> QED BY <1>1, <1>4, <1>6, <1>7, <1>10, SameDisplacement DEF n, r

\* Where what comes to index s is: at the cell that is as far, with the cells
\* of the stencil around, whichever of the two it starts from.
LEMMA OriginIs ==
  ASSUME NEW parts, NEW g, NEW reach, NEW p, Good(parts, g, reach, p),
         NEW w \in Int, Fits(parts, w), NEW s \in g..g + F!np(parts),
         NEW d \in 0..1, d = 1 => F!Rest(w) >= 0
  PROVE  /\ SameCell(CellAt(parts, g, p, F!Origin(parts, g, s, F!WholeCells(w) + d)),
                     Base(parts, g, p) + s - F!Nearest(w) - d)
         /\ F!Origin(parts, g, s, F!WholeCells(w) + d) \in Within(parts, g, reach)
<1> USE Sizes
<1>0. reach < g /\ s \in Int /\ s >= g /\ s <= g + F!np(parts) /\ d \in Int /\ F!Nearest(w) \in Int
  BY NearBounds DEF Good
<1>1. CASE parts > 1
  <2>1. /\ F!WholeCells(w) = F!Nearest(w) /\ F!Nearest(w) >= -MaxShift /\ F!Nearest(w) <= MaxShift + 1
        /\ F!Rest(w) >= 0 => F!Nearest(w) <= MaxShift
    BY <1>1, Displaced
  <2>2. F!Origin(parts, g, s, F!WholeCells(w) + d) = s - (F!Nearest(w) + d) + MaxShift
    BY <1>1, <2>1 DEF F!Origin
  <2>3. CellAt(parts, g, p, s - (F!Nearest(w) + d) + MaxShift)
          = Base(parts, g, p) + s - F!Nearest(w) - d + 0 * Cells
    BY <1>0, <1>1 DEF CellAt
  <2>4. F!Nearest(w) + d <= MaxShift + 1
    BY <1>0, <2>1
  <2>5. s - (F!Nearest(w) + d) + MaxShift >= reach
    BY <1>0, <2>4
  <2>6. s - (F!Nearest(w) + d) + MaxShift <= F!np(parts) + 2 * (g + MaxShift) - 1 - reach
    BY <1>0, <2>1
  <2>7. s - (F!Nearest(w) + d) + MaxShift \in Within(parts, g, reach)
    BY <1>0, <1>1, <2>5, <2>6 DEF Within
  <2> QED BY <2>2, <2>3, <2>7 DEF SameCell
<1>2. CASE parts = 1
  <2>1. PICK k \in Int : F!WholeCells(w) = F!Nearest(w) - k * Cells
    BY SameDisplacement
  <2> DEFINE y == s - (F!WholeCells(w) + d) - g
             q == y \div Cells
  <2>2. y = s - F!Nearest(w) - d - g + k * Cells /\ y \in Int
    BY <1>0, <2>1
  <2>3. F!Origin(parts, g, s, F!WholeCells(w) + d) = g + (y % Cells)
    BY <1>2 DEF F!Origin
  <2> HIDE DEF y
  <2>4. q \in Int /\ y = Cells * q + (y % Cells) /\ y % Cells \in 0..(Cells - 1)
    BY <2>2, Quotients
  <2> HIDE DEF q
  <2>5. g + (y % Cells) \in Within(parts, g, reach)
    BY <1>2, <2>4 DEF Within
  <2>6. CellAt(parts, g, p, g + (y % Cells)) = y + (-q) * Cells
    BY <1>2, <2>2, <2>4 DEF CellAt
  <2>7. y + (-q) * Cells = Base(parts, g, p) + s - F!Nearest(w) - d + (k - q) * Cells
    <3>1. Base(parts, g, p) = -g
      BY <1>2 DEF Base
    <3> QED BY <1>0, <2>2, <2>4, <3>1
  <2>8. k - q \in Int
    BY <2>4
  <2> QED BY <2>3, <2>5, <2>6, <2>7, <2>8 DEF SameCell
<1> QED BY <1>1, <1>2
-----------------------------------------------------------------------------
(* Cells                                                                      *)

LEMMA EnteringIs ==
  ASSUME NEW reach, NEW c, NEW w
  PROVE  /\ F!Rest(w) >= 0 =>
               F!Entering(reach, c, w) = F!FluxAfter(reach, c - F!Nearest(w) - 1, F!Rest(w))
         /\ ~(F!Rest(w) >= 0) =>
               F!Entering(reach, c, w) = F!FluxAfter(reach, c - F!Nearest(w), F!Rest(w))
BY DEF F!Entering

LEMMA ShiftVcIs ==
  ASSUME NEW parts, NEW g, NEW reach, NEW p, Good(parts, g, reach, p),
         NEW w \in Int, Fits(parts, w), NEW s \in g..g + F!np(parts) - 1
  PROVE  F!ShiftVc(parts, g, reach, p, s, w) = F!Exact(reach, Base(parts, g, p) + s, w)
<1> DEFINE scrh == F!StoreToScratch(parts, g, p)
           m == F!WholeCells(w)
           n == F!Nearest(w)
           e == F!eps(w)
           so == F!Origin(parts, g, s, m)
           c == Base(parts, g, p) + s
           H(x) == F!FargoFlux(scrh, parts, g, reach, x, e)
           fl == IF e >= 0 THEN H(F!Beside(parts, g, so, -1)) ELSE H(so)
           fr == IF e >= 0 THEN H(so) ELSE H(F!Beside(parts, g, so, 1))
<1>0. F!ShiftVc(parts, g, reach, p, s, w)
        = F!AddTimes(F!AddTimes(F!Term(F!Cell(F!Read(scrh, so))), -1, fr), 1, fl)
  BY DEF F!ShiftVc
<1>1. e = F!Rest(w) /\ e \in Int /\ n \in Int /\ m \in Int /\ m + 0 = m
  <2>1. PICK k \in Int : m = F!Nearest(w) - k * Cells
    BY SameDisplacement
  <2>2. e = F!Rest(w) /\ n \in Int /\ F!Rest(w) \in Int
    BY NearBounds, SameDisplacement
  <2>3. Cells \in Int
    BY Sizes
  <2> HIDE DEF m, n, e
  <2> QED BY <2>1, <2>2, <2>3 DEF n
<1>2. c \in Int /\ s \in Int /\ s \in g..g + F!np(parts) /\ s + 1 \in g..g + F!np(parts)
  BY Sizes
<1> HIDE DEF m, e, n, c
<1>3. so \in Within(parts, g, reach) /\ SameCell(CellAt(parts, g, p, so), c - n)
  <2>1. /\ F!Origin(parts, g, s, m + 0) \in Within(parts, g, reach)
        /\ SameCell(CellAt(parts, g, p, F!Origin(parts, g, s, m + 0)),
                    Base(parts, g, p) + s - n - 0)
    BY <1>2, OriginIs DEF m, n
  <2>2. Base(parts, g, p) + s - n - 0 = c - n
    BY <1>1, <1>2, Sizes DEF c
  <2> QED BY <1>1, <2>1, <2>2
<1>5. e >= 0 /\ parts > 1 => so - 1 \in Within(parts, g, reach)
  <2> SUFFICES ASSUME e >= 0, parts > 1 PROVE so - 1 \in Within(parts, g, reach)
    OBVIOUS
  <2>1. F!Origin(parts, g, s, m + 1) \in Within(parts, g, reach)
    BY <1>1, <1>2, OriginIs DEF m
  <2>2. F!Origin(parts, g, s, m + 1) = so - 1
    BY <1>1, <1>2, Sizes DEF F!Origin
  <2> QED BY <2>1, <2>2
<1>6. parts > 1 => so + 1 \in Within(parts, g, reach)
  <2> SUFFICES ASSUME parts > 1 PROVE so + 1 \in Within(parts, g, reach)
    OBVIOUS
  <2>1. F!Origin(parts, g, s + 1, m + 0) \in Within(parts, g, reach)
    BY <1>2, OriginIs DEF m
  <2>2. F!Origin(parts, g, s + 1, m + 0) = so + 1
    BY <1>1, <1>2, Sizes DEF F!Origin
  <2> QED BY <2>1, <2>2
<1> HIDE DEF so
<1>7. /\ so \in Int /\ so \in Within(parts, g, 0) /\ Cells \in Int /\ Cells >= 1 /\ reach \in Int
      /\ CellAt(parts, g, p, so) \in Int /\ c - n \in Int
  BY <1>1, <1>2, <1>3, Sizes DEF Within, CellAt
<1>8. F!Read(scrh, so) = (c - n) % Cells
  <2>1. F!Read(scrh, so) = CellAt(parts, g, p, so) % Cells
    BY <1>7, ReadIs
  <2> QED BY <1>3, <1>7, <2>1, SameCells
<1>9. ASSUME NEW j \in -1..1, (j = 1 /\ e < 0) \/ (j = -1 /\ e >= 0)
      PROVE  H(F!Beside(parts, g, so, j)) = F!FluxAfter(reach, c - n + j, e)
  <2> DEFINE x == F!Beside(parts, g, so, j)
  <2>0. j \in Int /\ -Cells <= j /\ j <= Cells
    BY <1>7
  <2>1. parts > 1 => reach <= so + j
                     /\ so + j <= F!np(parts) + 2 * (g + MaxShift) - 1 - reach
    BY <1>5, <1>6, <1>7, <1>9, Sizes DEF Within
  <2>2. x \in Within(parts, g, reach)
    BY <1>7, <2>0, <2>1, BesideIs
  <2>3. SameCell(CellAt(parts, g, p, x), CellAt(parts, g, p, so) + j)
    BY <1>7, <2>0, <2>1, BesideIs
  <2>4. SameCell(CellAt(parts, g, p, so) + j, c - n + j)
    BY <1>3, <1>7, <2>0, SameCells
  <2> HIDE DEF x
  <2>5. H(x) = F!FluxAfter(reach, CellAt(parts, g, p, x), e)
    BY <2>2, FluxIs
  <2>6. /\ CellAt(parts, g, p, x) \in Int /\ CellAt(parts, g, p, so) + j \in Int
        /\ c - n + j \in Int
    BY <1>7, <2>0, <2>2, Sizes DEF CellAt, Within
  <2>7. SameCell(CellAt(parts, g, p, x), c - n + j)
    BY <2>3, <2>4, <2>6, SameCellTwice
  <2> QED BY <2>5, <2>6, <2>7, SameCells DEF x
<1>10. H(so) = F!FluxAfter(reach, c - n, e)
  <2>1. H(so) = F!FluxAfter(reach, CellAt(parts, g, p, so), e)
    BY <1>3, FluxIs
  <2> QED BY <1>3, <1>7, <2>1, SameCells
<1>11. e >= 0 => H(F!Beside(parts, g, so, -1)) = F!FluxAfter(reach, c - n - 1, e)
  <2>1. c - n + (-1) = c - n - 1
    BY <1>7
  <2> QED BY <1>9, <2>1
<1>12. e < 0 => H(F!Beside(parts, g, so, 1)) = F!FluxAfter(reach, c - n + 1, e)
  BY <1>9
<1> HIDE DEF H
<1>13. fl = F!Entering(reach, c, w) /\ fr = F!Entering(reach, c + 1, w)
  <2> DEFINE d == c + 1
  <2>1. d - n - 1 = c - n /\ d - n = c - n + 1
    BY <1>1, <1>2
  <2> HIDE DEF d
  <2>2. CASE e >= 0
    <3>1. F!Entering(reach, c, w) = F!FluxAfter(reach, c - n - 1, e)
      BY <1>1, <2>2, EnteringIs DEF n
    <3>2. F!Entering(reach, d, w) = F!FluxAfter(reach, d - n - 1, e)
      BY <1>1, <2>2, EnteringIs DEF n
    <3> QED BY <1>10, <1>11, <2>1, <2>2, <3>1, <3>2 DEF d
  <2>3. CASE e < 0
    <3>1. ~(e >= 0)
      BY <1>1, <2>3
    <3>2. F!Entering(reach, c, w) = F!FluxAfter(reach, c - n, e)
      BY <1>1, <3>1, EnteringIs DEF n
    <3>3. F!Entering(reach, d, w) = F!FluxAfter(reach, d - n, e)
      BY <1>1, <3>1, EnteringIs DEF n
    <3> QED BY <1>10, <1>12, <2>1, <2>3, <3>1, <3>2, <3>3 DEF d
  <2> QED BY <1>1, <2>2, <2>3
<1> HIDE DEF fl, fr, scrh
<1>14. F!Exact(reach, c, w)
        = F!AddTimes(F!AddTimes(F!Term(F!Cell((c - n) % Cells)),
                                -1, F!Entering(reach, c + 1, w)),
                     1, F!Entering(reach, c, w))
  BY DEF F!Exact, n
<1> QED BY <1>0, <1>8, <1>13, <1>14 DEF c
-----------------------------------------------------------------------------
(* Faces: what crosses them is a run of cells                                 *)

\* Fargo has the cardinality of its own instance of FiniteSets.
LEMMA SameCardinality == \A S : F!Cardinality(S) = Cardinality(S)
BY DEF F!Cardinality, Cardinality

\* How many of the cells from a to b - 1 are the term u.
Count(y, z, u) == Cardinality({x \in y..z - 1 : F!Cell(x % Cells) = u})

LEMMA CountType ==
  ASSUME NEW y \in Int, NEW z \in Int, NEW u
  PROVE  /\ IsFiniteSet({x \in y..z - 1 : F!Cell(x % Cells) = u})
         /\ Count(y, z, u) \in Int
<1>1. z - 1 \in Int /\ IsFiniteSet(y..z - 1)
  BY FS_Interval
<1>2. {x \in y..z - 1 : F!Cell(x % Cells) = u} \in SUBSET (y..z - 1)
  OBVIOUS
<1>3. IsFiniteSet({x \in y..z - 1 : F!Cell(x % Cells) = u})
  BY <1>1, <1>2, FS_Subset
<1> QED BY <1>3, FS_CardinalityType DEF Count

\* One more cell at the end, or at the start.
LEMMA CountLast ==
  ASSUME NEW y \in Int, NEW z \in Int, y <= z, NEW u
  PROVE  Count(y, z + 1, u) = Count(y, z, u) + Is(u, F!Cell(z % Cells))
<1> DEFINE S == {x \in y..z - 1 : F!Cell(x % Cells) = u}
           T == {x \in y..(z + 1) - 1 : F!Cell(x % Cells) = u}
<1>a. Count(y, z, u) = Cardinality(S) /\ Count(y, z + 1, u) = Cardinality(T)
  BY DEF Count
<1>b. IsFiniteSet(S) /\ Count(y, z, u) \in Int
  BY CountType
<1>0. Cardinality(S) \in Int /\ z \notin S
  BY <1>a, <1>b
<1>1. CASE F!Cell(z % Cells) = u
  <2>1. T = S \cup {z}
    BY <1>1
  <2> HIDE DEF S, T
  <2>2. Cardinality(T) = Cardinality(S) + 1
    BY <1>0, <1>b, <2>1, FS_AddElement
  <2> QED BY <1>1, <1>a, <2>2 DEF Is
<1>2. CASE F!Cell(z % Cells) # u
  <2>1. T = S
    BY <1>2
  <2> HIDE DEF S, T
  <2> QED BY <1>0, <1>2, <1>a, <2>1 DEF Is
<1> QED BY <1>1, <1>2

LEMMA CountFirst ==
  ASSUME NEW y \in Int, NEW z \in Int, y < z, NEW u
  PROVE  Count(y, z, u) = Count(y + 1, z, u) + Is(u, F!Cell(y % Cells))
<1> DEFINE S == {x \in y + 1..z - 1 : F!Cell(x % Cells) = u}
           T == {x \in y..z - 1 : F!Cell(x % Cells) = u}
<1>a. Count(y + 1, z, u) = Cardinality(S) /\ Count(y, z, u) = Cardinality(T)
  BY DEF Count
<1>b. IsFiniteSet(S) /\ Count(y + 1, z, u) \in Int
  <2>1. y + 1 \in Int
    OBVIOUS
  <2> QED BY <2>1, CountType
<1>0. Cardinality(S) \in Int /\ y \notin S
  BY <1>a, <1>b
<1>1. CASE F!Cell(y % Cells) = u
  <2>1. T = S \cup {y}
    BY <1>1
  <2> HIDE DEF S, T
  <2>2. Cardinality(T) = Cardinality(S) + 1
    BY <1>0, <1>b, <2>1, FS_AddElement
  <2> QED BY <1>1, <1>a, <2>2 DEF Is
<1>2. CASE F!Cell(y % Cells) # u
  <2>1. T = S
    BY <1>2
  <2> HIDE DEF S, T
  <2> QED BY <1>0, <1>2, <1>a, <2>1 DEF Is
<1> QED BY <1>1, <1>2

\* Cells counted from another origin.
Moved(k, y, z, u) == {x \in y..z - 1 : F!Cell((k + x) % Cells) = u}

LEMMA CountMoved ==
  ASSUME NEW y \in Int, NEW z \in Int, NEW k \in Int, NEW u
  PROVE  Cardinality(Moved(k, y, z, u)) = Count(k + y, k + z, u)
<1> DEFINE S == {x \in y..z - 1 : F!Cell((k + x) % Cells) = u}
           T == {x \in (k + y)..(k + z) - 1 : F!Cell(x % Cells) = u}
           f == [x \in S |-> k + x]
<1>1. IsFiniteSet(S)
  <2>1. z - 1 \in Int /\ IsFiniteSet(y..z - 1) /\ S \in SUBSET (y..z - 1)
    BY FS_Interval
  <2> QED BY <2>1, FS_Subset
<1>2. f \in [S -> T]
  OBVIOUS
<1>3. \A v, x \in S : f[v] = f[x] => v = x
  OBVIOUS
<1>4. ASSUME NEW v \in T PROVE \E x \in S : f[x] = v
  <2>1. v - k \in S
    <3>1. v - k \in Int /\ k + (v - k) = v /\ v - k >= y /\ v - k <= z - 1
      OBVIOUS
    <3> QED BY <3>1
  <2>2. k + (v - k) = v
    OBVIOUS
  <2> QED BY <2>1, <2>2
<1>5. f \in Bijection(S, T)
  <2> HIDE DEF S, T, f
  <2> QED BY <1>2, <1>3, <1>4 DEF Bijection, Injection, IsInjective, Surjection
<1>6. ExistsBijection(S, T)
  BY <1>5 DEF ExistsBijection
<1> HIDE DEF S, T
<1>7. Cardinality(T) = Cardinality(S)
  BY <1>1, <1>6, FS_Bijection
<1>8. Moved(k, y, z, u) = S
  BY DEF Moved, S
<1> QED BY <1>7, <1>8 DEF T, Count

LEMMA CountTurns ==
  ASSUME NEW y \in Int, NEW z \in Int, NEW c \in Int, NEW d \in Int,
         SameCell(y, c), z - y = d - c, NEW u
  PROVE  Count(y, z, u) = Count(c, d, u)
<1>0. Cells \in Int /\ Cells > 0
  BY CycleAssumption
<1>1. PICK k \in Int : y = c + k * Cells
  BY DEF SameCell
<1> DEFINE j == k * Cells
<1>2. j \in Int /\ y = j + c /\ z = j + d
  <2>1. j \in Int
    BY <1>0
  <2> HIDE DEF j
  <2>2. y = j + c
    BY <1>1, <2>1 DEF j
  <2> QED BY <2>1, <2>2
<1>3. ASSUME NEW x \in c..d - 1 PROVE (j + x) % Cells = x % Cells
  <2> DEFINE v == j + x
  <2>1. x \in Int /\ v \in Int /\ v = x + k * Cells
    BY <1>0
  <2> HIDE DEF j, v
  <2>2. v % Cells = x % Cells
    BY <1>0, <2>1, Turn
  <2> QED BY <2>2 DEF v
<1> HIDE DEF j
<1>4. Moved(j, c, d, u) = {x \in c..d - 1 : F!Cell(x % Cells) = u}
  BY <1>3 DEF Moved
<1>5. Cardinality(Moved(j, c, d, u)) = Count(j + c, j + d, u)
  BY <1>2, CountMoved
<1> QED BY <1>2, <1>4, <1>5 DEF Count
\* The sum of the cells that cross a face, as a process finds them.
LEMMA SumOverIs ==
  ASSUME NEW parts, NEW g, NEW reach, NEW p, Good(parts, g, reach, p),
         NEW first \in Int, NEW last \in Int,
         parts > 1 => -MaxShift <= first /\ last <= F!np(parts) + 2 * g + MaxShift, NEW u
  PROVE  F!Coefficient(F!SumOver(F!StoreToScratch(parts, g, p), parts, g, first, last), u)
           = Count(Base(parts, g, p) + first, Base(parts, g, p) + last, u)
<1> USE Sizes
<1> DEFINE scrh == F!StoreToScratch(parts, g, p)
           k == Base(parts, g, p)
           get(ss) == F!CellOf(scrh, parts, g, ss)
           S == {ss \in first..last - 1 : get(ss) = u}
<1>1. ASSUME NEW ss \in first..last - 1
      PROVE  get(ss) = F!Cell((k + ss) % Cells)
  <2> DEFINE x == F!Origin(parts, g, ss, 0)
  <2>0. ss \in Int /\ first <= ss /\ ss <= last - 1 /\ k \in Int
    OBVIOUS
  <2>1. x \in Within(parts, g, 0) /\ SameCell(CellAt(parts, g, p, x), k + ss)
    <3>1. CASE parts > 1
      <4>1. x = ss + MaxShift
        BY <2>0, <3>1 DEF F!Origin
      <4>2. ss + MaxShift \in Within(parts, g, 0)
        BY <2>0, <3>1 DEF Within
      <4>3. CellAt(parts, g, p, ss + MaxShift) = (k + ss) + 0 * Cells
        BY <2>0, <3>1 DEF CellAt
      <4> QED BY <4>1, <4>2, <4>3 DEF SameCell
    <3>2. CASE parts = 1
      <4> DEFINE y == ss - 0 - g
                 q == y \div Cells
      <4>1. x = g + (y % Cells)
        BY <3>2 DEF F!Origin
      <4>2. y \in Int /\ y = k + ss
        BY <2>0, <3>2 DEF Base
      <4> HIDE DEF y
      <4>3. q \in Int /\ y = Cells * q + (y % Cells) /\ y % Cells \in 0..(Cells - 1)
        BY <4>2, Quotients
      <4> HIDE DEF q
      <4>4. g + (y % Cells) \in Within(parts, g, 0)
        BY <3>2, <4>3 DEF Within
      <4>5. CellAt(parts, g, p, g + (y % Cells)) = y + (-q) * Cells
        BY <3>2, <4>2, <4>3 DEF CellAt
      <4> QED BY <4>1, <4>2, <4>3, <4>4, <4>5 DEF SameCell
    <3> QED BY <3>1, <3>2
  <2> HIDE DEF x
  <2>2. F!Read(scrh, x) = CellAt(parts, g, p, x) % Cells
    BY <2>1, ReadIs
  <2>3. CellAt(parts, g, p, x) \in Int /\ k + ss \in Int
    BY <2>0, <2>1 DEF CellAt, Within
  <2> QED BY <2>1, <2>2, <2>3, SameCells DEF x, F!CellOf
<1>2. F!SumOver(scrh, parts, g, first, last)
        = [v \in {get(ss) : ss \in first..last - 1} |->
             F!Cardinality({ss \in first..last - 1 : get(ss) = v})]
  BY DEF F!SumOver
<1>3. F!Coefficient(F!SumOver(scrh, parts, g, first, last), u) = Cardinality(S)
  <2>1. CASE S # {}
    BY <1>2, <2>1, SameCardinality DEF F!Coefficient
  <2>2. CASE S = {}
    <3>1. u \notin {get(ss) : ss \in first..last - 1}
      BY <2>2
    <3>2. Cardinality(S) = 0
      BY <2>2, FS_EmptySet
    <3> HIDE DEF get
    <3> QED BY <1>2, <3>1, <3>2 DEF F!Coefficient
  <2> QED BY <2>1, <2>2
<1>4. S = Moved(k, first, last, u)
  BY <1>1 DEF Moved
<1>5. k \in Int
  OBVIOUS
<1> HIDE DEF k, S, scrh
<1>6. Cardinality(Moved(k, first, last, u)) = Count(k + first, k + last, u)
  BY <1>5, CountMoved
<1> QED BY <1>3, <1>4, <1>6 DEF k, scrh

\* The electric field at the left of index s: the flux that enters its cell,
\* and the cells that cross the face.
LEMMA ComputeEkIs ==
  ASSUME NEW parts, NEW g, NEW reach, NEW p, Good(parts, g, reach, p),
         NEW w \in Int, Fits(parts, w), NEW s \in g..g + F!np(parts),
         NEW c \in Int, c = Base(parts, g, p) + s
  PROVE  \E S : /\ F!ComputeEk(parts, g, reach, p, s, w)
                     = F!AddTimes(F!Entering(reach, c, w), IF F!WholeCells(w) > 0 THEN 1 ELSE -1, S)
                /\ \A u : F!Coefficient(S, u)
                            = IF F!WholeCells(w) > 0 THEN Count(c - F!WholeCells(w), c, u)
                              ELSE Count(c, c - F!WholeCells(w), u)
<1> USE Sizes
<1> DEFINE scrh == F!StoreToScratch(parts, g, p)
           m == F!WholeCells(w)
           n == F!Nearest(w)
           e == F!eps(w)
           from == IF e >= 0 THEN F!Origin(parts, g, s, m + 1) ELSE F!Origin(parts, g, s, m)
           rest == F!FargoFlux(scrh, parts, g, reach, from, e)
           S == IF m > 0 THEN F!SumOver(scrh, parts, g, s - m, s)
                ELSE F!SumOver(scrh, parts, g, s, s - m)
<1>0. F!ComputeEk(parts, g, reach, p, s, w) = F!AddTimes(rest, IF m > 0 THEN 1 ELSE -1, S)
  BY DEF F!ComputeEk
<1>1. e = F!Rest(w) /\ e \in Int /\ n \in Int /\ m \in Int /\ m + 0 = m
  <2>1. PICK k \in Int : m = n - k * Cells
    BY SameDisplacement
  <2>2. e = F!Rest(w) /\ n \in Int /\ F!Rest(w) \in Int
    BY NearBounds, SameDisplacement
  <2> HIDE DEF m, n, e
  <2> QED BY <2>1, <2>2
<1>2. s \in Int /\ s >= g /\ s <= g + F!np(parts) /\ c = Base(parts, g, p) + s
  OBVIOUS
<1> HIDE DEF m, n, e, scrh
<1>3. rest = F!Entering(reach, c, w)
  <2>1. CASE e >= 0
    <3> DEFINE x == F!Origin(parts, g, s, m + 1)
    <3>1. /\ x \in Within(parts, g, reach)
          /\ SameCell(CellAt(parts, g, p, x), Base(parts, g, p) + s - n - 1)
      BY <1>1, <2>1, OriginIs DEF m, n
    <3>2. Base(parts, g, p) + s - n - 1 = c - n - 1 /\ c - n - 1 \in Int
      BY <1>1, <1>2
    <3>3. rest = F!FluxAfter(reach, CellAt(parts, g, p, x), e)
      BY <2>1, <3>1, FluxIs DEF scrh
    <3> HIDE DEF x, rest
    <3>4. CellAt(parts, g, p, x) \in Int
      BY <3>1 DEF CellAt, Within
    <3>5. F!FluxAfter(reach, CellAt(parts, g, p, x), e) = F!FluxAfter(reach, c - n - 1, e)
      BY <3>1, <3>2, <3>4, SameCells
    <3> QED BY <1>1, <2>1, <3>3, <3>5, EnteringIs DEF n
  <2>2. CASE ~(e >= 0)
    <3>1. /\ F!Origin(parts, g, s, m + 0) \in Within(parts, g, reach)
          /\ SameCell(CellAt(parts, g, p, F!Origin(parts, g, s, m + 0)),
                      Base(parts, g, p) + s - n - 0)
      BY OriginIs DEF m, n
    <3>2. Base(parts, g, p) + s - n - 0 = c - n /\ c - n \in Int
      BY <1>1, <1>2
    <3> DEFINE x == F!Origin(parts, g, s, m)
    <3>3. rest = F!FluxAfter(reach, CellAt(parts, g, p, x), e)
      BY <1>1, <2>2, <3>1, FluxIs DEF scrh
    <3> HIDE DEF x, rest
    <3>4. CellAt(parts, g, p, x) \in Int
      BY <1>1, <3>1 DEF CellAt, Within, x
    <3>5. F!FluxAfter(reach, CellAt(parts, g, p, x), e) = F!FluxAfter(reach, c - n, e)
      BY <1>1, <3>1, <3>2, <3>4, SameCells DEF x
    <3> QED BY <1>1, <2>2, <3>3, <3>5, EnteringIs DEF n
  <2> QED BY <2>1, <2>2
<1> HIDE DEF rest
<1>4. parts > 1 => m >= -MaxShift /\ m <= MaxShift + 1
  BY Displaced DEF m
<1>5. ASSUME NEW u
      PROVE  F!Coefficient(S, u) = IF m > 0 THEN Count(c - m, c, u) ELSE Count(c, c - m, u)
  <2>0. s - m \in Int /\ Base(parts, g, p) + (s - m) = c - m
    BY <1>1, <1>2
  <2>1. CASE m > 0
    <3>1. parts > 1 => -MaxShift <= s - m /\ s <= F!np(parts) + 2 * g + MaxShift
      BY <1>1, <1>2, <1>4
    <3>2. F!Coefficient(F!SumOver(F!StoreToScratch(parts, g, p), parts, g, s - m, s), u)
            = Count(Base(parts, g, p) + (s - m), Base(parts, g, p) + s, u)
      BY <1>2, <2>0, <3>1, SumOverIs
    <3> QED BY <1>2, <2>0, <2>1, <3>2 DEF scrh
  <2>2. CASE ~(m > 0)
    <3>1. parts > 1 => -MaxShift <= s /\ s - m <= F!np(parts) + 2 * g + MaxShift
      BY <1>1, <1>2, <1>4
    <3>2. F!Coefficient(F!SumOver(F!StoreToScratch(parts, g, p), parts, g, s, s - m), u)
            = Count(Base(parts, g, p) + s, Base(parts, g, p) + (s - m), u)
      BY <1>2, <2>0, <3>1, SumOverIs
    <3> QED BY <1>2, <2>0, <2>2, <3>2 DEF scrh
  <2> QED BY <2>1, <2>2
<1> HIDE DEF S
<1> QED BY <1>0, <1>3, <1>5 DEF m
LEMMA EnteringTurns ==
  ASSUME NEW reach, NEW c \in Int, NEW d \in Int, SameCell(c, d), NEW w \in Int
  PROVE  F!Entering(reach, c, w) = F!Entering(reach, d, w)
<1> DEFINE n == F!Nearest(w)
<1>1. n \in Int /\ F!Rest(w) \in Int
  BY NearBounds
<1> HIDE DEF n
<1> DEFINE y == c - n
           z == d - n
<1>2. y \in Int /\ z \in Int /\ y - 1 \in Int /\ z - 1 \in Int
  BY <1>1
<1>3. SameCell(y, z) /\ SameCell(y - 1, z - 1)
  <2>1. -n \in Int /\ c + (-n) = y /\ d + (-n) = z
    BY <1>1
  <2>2. SameCell(y, z)
    BY <2>1, SameCells
  <2>3. y + (-1) = y - 1 /\ z + (-1) = z - 1 /\ -1 \in Int
    BY <1>2
  <2> HIDE DEF y, z
  <2> QED BY <1>2, <2>2, <2>3, SameCells
<1> HIDE DEF y, z
<1>4. CASE F!Rest(w) >= 0
  <2>1. /\ F!Entering(reach, c, w) = F!FluxAfter(reach, y - 1, F!Rest(w))
        /\ F!Entering(reach, d, w) = F!FluxAfter(reach, z - 1, F!Rest(w))
    BY <1>4, EnteringIs DEF y, z, n
  <2> QED BY <1>2, <1>3, <2>1, SameCells
<1>5. CASE ~(F!Rest(w) >= 0)
  <2>1. /\ F!Entering(reach, c, w) = F!FluxAfter(reach, y, F!Rest(w))
        /\ F!Entering(reach, d, w) = F!FluxAfter(reach, z, F!Rest(w))
    BY <1>5, EnteringIs DEF y, z, n
  <2> QED BY <1>2, <1>3, <2>1, SameCells
<1> QED BY <1>4, <1>5

LEMMA EnteringIsSum ==
  ASSUME NEW reach, NEW c, NEW w
  PROVE  IsSum(F!Entering(reach, c, w))
<1>1. \A d, e : IsSum(F!FluxAfter(reach, d, e))
  BY TermIsSum DEF F!FluxAfter
<1> QED BY <1>1, EnteringIs

\* The cells that cross the two faces of cell c differ by what leaves it and
\* what comes to it.
LEMMA CrossedDiffer ==
  ASSUME NEW c \in Int, NEW m \in Int, NEW u
  PROVE  /\ m > 0 => Count(c + 1 - m, c + 1, u) - Count(c - m, c, u)
                       = Is(u, F!Cell(c % Cells)) - Is(u, F!Cell((c - m) % Cells))
         /\ ~(m > 0) => Count(c, c - m, u) - Count(c + 1, c + 1 - m, u)
                       = Is(u, F!Cell(c % Cells)) - Is(u, F!Cell((c - m) % Cells))
<1> DEFINE y == c - m
           z == y + 1
           d == c + 1
<1>0. y \in Int /\ z \in Int /\ d \in Int /\ z = c + 1 - m
  OBVIOUS
<1>i. \A v : Is(u, v) \in Int
  BY DEF Is
<1>1. CASE m > 0
  <2>1. y < c /\ z <= c
    BY <1>0, <1>1
  <2> HIDE DEF y
  <2>2. Count(y, c, u) = Count(y + 1, c, u) + Is(u, F!Cell(y % Cells))
    BY <1>0, <2>1, CountFirst
  <2> HIDE DEF z
  <2>3. Count(z, c + 1, u) = Count(z, c, u) + Is(u, F!Cell(c % Cells))
    BY <1>0, <2>1, CountLast
  <2>4. Count(z, c, u) \in Int
    BY <1>0, CountType
  <2> HIDE DEF d
  <2>5. Count(z, c + 1, u) - Count(y, c, u)
          = Is(u, F!Cell(c % Cells)) - Is(u, F!Cell(y % Cells))
    BY <1>i, <2>2, <2>3, <2>4 DEF z
  <2> QED BY <1>0, <1>1, <2>5 DEF y
<1>2. CASE ~(m > 0)
  <2>1. c < z /\ c <= y
    BY <1>0, <1>2
  <2> HIDE DEF y
  <2>2. Count(c, y + 1, u) = Count(c, y, u) + Is(u, F!Cell(y % Cells))
    BY <1>0, <2>1, CountLast
  <2> HIDE DEF z
  <2>3. Count(c, z, u) = Count(c + 1, z, u) + Is(u, F!Cell(c % Cells))
    BY <1>0, <2>1, CountFirst
  <2>4. Count(c, y, u) \in Int /\ Count(c + 1, z, u) \in Int
    BY <1>0, CountType DEF d
  <2> HIDE DEF d
  <2>5. Count(c, y, u) - Count(c + 1, z, u)
          = Is(u, F!Cell(c % Cells)) - Is(u, F!Cell(y % Cells))
    BY <1>i, <2>2, <2>3, <2>4 DEF z
  <2> QED BY <1>0, <1>2, <2>5 DEF y
<1> QED BY <1>1, <1>2

LEMMA EvolvMagFieldIs ==
  ASSUME NEW parts, NEW g, NEW reach, NEW p, Good(parts, g, reach, p),
         NEW w \in Int, Fits(parts, w), NEW s \in g..g + F!np(parts) - 1
  PROVE  F!EvolvMagField(parts, g, reach, p, s, w) = F!Exact(reach, Base(parts, g, p) + s, w)
<1> USE Sizes
<1> DEFINE c == Base(parts, g, p) + s
           d == c + 1
           m == F!WholeCells(w)
           n == F!Nearest(w)
           k == IF m > 0 THEN 1 ELSE -1
           at == F!Term(F!Cell(F!Owned(parts, g, p, s)))
           from == F!Term(F!Cell((c - n) % Cells))
           here == F!Entering(reach, c, w)
           next == F!Entering(reach, d, w)
           E0 == F!ComputeEk(parts, g, reach, p, s, w)
           E1 == F!ComputeEk(parts, g, reach, p, s + 1, w)
<1>1. /\ c \in Int /\ d \in Int /\ n \in Int /\ s \in Int /\ s + 1 \in Int
      /\ s \in g..g + F!np(parts) /\ s + 1 \in g..g + F!np(parts)
      /\ d = Base(parts, g, p) + (s + 1)
  BY NearBounds
<1>2. PICK j \in Int : m = n - j * Cells
  BY SameDisplacement
<1> HIDE DEF m, n
<1>3. m \in Int /\ k \in Int
  BY <1>1, <1>2
<1>4. F!Owned(parts, g, p, s) = c % Cells
  <2>1. p * F!np(parts) + s - g = c
    BY <1>1 DEF Base
  <2> HIDE DEF c
  <2> QED BY <2>1 DEF F!Owned
<1> HIDE DEF c
<1>5. (c - m) % Cells = (c - n) % Cells
  <2>1. c - m = (c - n) + j * Cells /\ c - n \in Int /\ c - m \in Int
    BY <1>1, <1>2, <1>3
  <2>2. SameCell(c - m, c - n)
    BY <2>1 DEF SameCell
  <2> QED BY <2>1, <2>2, SameCells
<1>6. PICK S0 : /\ E0 = F!AddTimes(here, k, S0)
                /\ \A u : F!Coefficient(S0, u)
                            = IF m > 0 THEN Count(c - m, c, u) ELSE Count(c, c - m, u)
  BY <1>1, ComputeEkIs DEF m, c
<1>7. PICK S1 : /\ E1 = F!AddTimes(next, k, S1)
                /\ \A u : F!Coefficient(S1, u)
                            = IF m > 0 THEN Count(d - m, d, u) ELSE Count(d, d - m, u)
  <2> HIDE DEF d
  <2> QED BY <1>1, ComputeEkIs DEF m
<1>8. IsSum(S0) /\ IsSum(S1)
  <2> DEFINE y == c - m
             z == d - m
  <2>1. y \in Int /\ z \in Int /\ c \in Int /\ d \in Int
    BY <1>1, <1>3
  <2> HIDE DEF y, z, d
  <2>2. /\ \A u : Count(y, c, u) \in Int /\ Count(c, y, u) \in Int
        /\ \A u : Count(z, d, u) \in Int /\ Count(d, z, u) \in Int
    BY <2>1, CountType
  <2>3. \A u : F!Coefficient(S0, u) = IF m > 0 THEN Count(y, c, u) ELSE Count(c, y, u)
    BY <1>6 DEF y
  <2>4. \A u : F!Coefficient(S1, u) = IF m > 0 THEN Count(z, d, u) ELSE Count(d, z, u)
    BY <1>7 DEF z
  <2> QED BY <2>2, <2>3, <2>4 DEF IsSum
<1>9. IsSum(here) /\ IsSum(next) /\ IsSum(at) /\ IsSum(from)
  BY EnteringIsSum, TermIsSum
<1> HIDE DEF k, at, from, here, next, E0, E1
<1>10. /\ IsSum(E0) /\ IsSum(E1)
       /\ \A u : F!Coefficient(E0, u) = F!Coefficient(here, u) + k * F!Coefficient(S0, u)
       /\ \A u : F!Coefficient(E1, u) = F!Coefficient(next, u) + k * F!Coefficient(S1, u)
  <2>1. E0 = F!AddTimes(here, k, S0) /\ E1 = F!AddTimes(next, k, S1)
    BY <1>6, <1>7
  <2>2. Linear(here, k, S0) /\ Linear(next, k, S1)
    BY <1>3, <1>8, <1>9, Coefficients
  <2> QED BY <2>1, <2>2 DEF Linear
<1>11. /\ \A u : F!Coefficient(F!AddTimes(at, -1, E1), u)
                   = F!Coefficient(at, u) + (-1) * F!Coefficient(E1, u)
       /\ \A u : F!Coefficient(F!AddTimes(from, -1, next), u)
                   = F!Coefficient(from, u) + (-1) * F!Coefficient(next, u)
  <2>1. -1 \in Int
    OBVIOUS
  <2>2. Linear(at, -1, E1) /\ Linear(from, -1, next)
    BY <1>9, <1>10, <2>1, Coefficients
  <2> QED BY <2>2 DEF Linear
<1>12. ASSUME NEW u
       PROVE  F!Coefficient(F!AddTimes(at, -1, E1), u) + 1 * F!Coefficient(E0, u)
                = F!Coefficient(F!AddTimes(from, -1, next), u) + 1 * F!Coefficient(here, u)
  <2>1. /\ F!Coefficient(at, u) = Is(u, F!Cell(c % Cells))
        /\ F!Coefficient(from, u) = Is(u, F!Cell((c - m) % Cells))
    BY <1>4, <1>5, TermIsSum DEF at, from
  <2>5. /\ m > 0 => Count(d - m, d, u) - Count(c - m, c, u)
                       = Is(u, F!Cell(c % Cells)) - Is(u, F!Cell((c - m) % Cells))
        /\ ~(m > 0) => Count(c, c - m, u) - Count(d, d - m, u)
                       = Is(u, F!Cell(c % Cells)) - Is(u, F!Cell((c - m) % Cells))
    BY <1>1, <1>3, CrossedDiffer
  <2> HIDE DEF d
  <2>2. F!Coefficient(at, u) - k * F!Coefficient(S1, u) + k * F!Coefficient(S0, u)
          = F!Coefficient(from, u)
    <3>0. /\ F!Coefficient(at, u) \in Int /\ F!Coefficient(from, u) \in Int
          /\ F!Coefficient(S0, u) \in Int /\ F!Coefficient(S1, u) \in Int
      BY <1>8, <1>9 DEF IsSum
    <3>1. CASE m > 0
      <4>1. F!Coefficient(S1, u) - F!Coefficient(S0, u)
              = F!Coefficient(at, u) - F!Coefficient(from, u)
        <5>1. /\ F!Coefficient(S0, u) = Count(c - m, c, u)
              /\ F!Coefficient(S1, u) = Count(d - m, d, u)
          BY <1>6, <1>7, <3>1
        <5> QED BY <2>1, <2>5, <3>1, <5>1
      <4> QED BY <3>0, <3>1, <4>1 DEF k
    <3>2. CASE ~(m > 0)
      <4>1. F!Coefficient(S0, u) - F!Coefficient(S1, u)
              = F!Coefficient(at, u) - F!Coefficient(from, u)
        <5>1. /\ F!Coefficient(S0, u) = Count(c, c - m, u)
              /\ F!Coefficient(S1, u) = Count(d, d - m, u)
          BY <1>6, <1>7, <3>2
        <5> QED BY <2>1, <2>5, <3>2, <5>1
      <4> QED BY <3>0, <3>2, <4>1 DEF k
    <3> QED BY <3>1, <3>2
  <2>3. /\ F!Coefficient(at, u) \in Int /\ F!Coefficient(from, u) \in Int
        /\ F!Coefficient(here, u) \in Int /\ F!Coefficient(next, u) \in Int
        /\ F!Coefficient(S0, u) \in Int /\ F!Coefficient(S1, u) \in Int
    BY <1>8, <1>9 DEF IsSum
  <2>4. k * F!Coefficient(S0, u) \in Int /\ k * F!Coefficient(S1, u) \in Int
    BY <1>3, <2>3
  <2> QED BY <1>10, <1>11, <2>2, <2>3, <2>4
<1>13. F!AddTimes(F!AddTimes(at, -1, E1), 1, E0)
         = F!AddTimes(F!AddTimes(from, -1, next), 1, here)
  BY <1>12, SameSums
<1>14. F!EvolvMagField(parts, g, reach, p, s, w) = F!AddTimes(F!AddTimes(at, -1, E1), 1, E0)
  BY DEF F!EvolvMagField, at, E0, E1
<1>15. F!Exact(reach, c, w) = F!AddTimes(F!AddTimes(from, -1, next), 1, here)
  BY DEF F!Exact, from, next, here, n
<1> QED BY <1>13, <1>14, <1>15 DEF c

\* The edge that two processes share.
LEMMA SharedEdge ==
  ASSUME NEW parts, NEW g, NEW reach, NEW p, Good(parts, g, reach, p),
         NEW w \in Int, Fits(parts, w)
  PROVE  F!ComputeEk(parts, g, reach, p, g + F!np(parts), w)
           = F!ComputeEk(parts, g, reach, (p + 1) % parts, g, w)
<1> USE Sizes
<1> DEFINE q == (p + 1) % parts
           j == (p + 1) \div parts
           c == Base(parts, g, p) + (g + F!np(parts))
           d == Base(parts, g, q) + g
           m == F!WholeCells(w)
           k == IF m > 0 THEN 1 ELSE -1
<1>1. p + 1 = parts * j + q /\ q \in 0..(parts - 1) /\ j \in Int
  <2> DEFINE y == p + 1
  <2>1. y \in Int /\ parts \in Int /\ parts > 0
    OBVIOUS
  <2> HIDE DEF y
  <2>2. /\ y \div parts \in Int
        /\ y = parts * (y \div parts) + (y % parts)
        /\ y % parts \in 0..(parts - 1)
    BY <2>1, Quotients
  <2> QED BY <2>2 DEF y
<1>2. Good(parts, g, reach, q)
  BY <1>1 DEF Good
<1> HIDE DEF q, j
<1>3. q \in Int /\ c \in Int /\ d \in Int
  BY <1>1, <1>2
<1>4. SameCell(c, d)
  <2> DEFINE h == F!np(parts)
  <2>1. h \in Int /\ Cells = parts * h
    OBVIOUS
  <2>2. c = (p + 1) * h /\ d = q * h
    BY <1>3 DEF Base
  <2> HIDE DEF h, c, d
  <2>3. (p + 1) * h = q * h + j * (parts * h)
    BY <1>1, <1>3, <2>1
  <2> QED BY <1>1, <2>1, <2>2, <2>3 DEF SameCell
<1>5. m \in Int
  <2>1. PICK i \in Int : m = F!Nearest(w) - i * Cells
    BY SameDisplacement
  <2> QED BY <2>1, NearBounds
<1> HIDE DEF c, d, m
<1>6. PICK S : /\ F!ComputeEk(parts, g, reach, p, g + F!np(parts), w)
                    = F!AddTimes(F!Entering(reach, c, w), k, S)
               /\ \A u : F!Coefficient(S, u)
                           = IF m > 0 THEN Count(c - m, c, u) ELSE Count(c, c - m, u)
  <2>1. g + F!np(parts) \in g..g + F!np(parts)
    OBVIOUS
  <2> QED BY <1>3, <2>1, ComputeEkIs DEF m, c
<1>7. PICK T : /\ F!ComputeEk(parts, g, reach, q, g, w)
                    = F!AddTimes(F!Entering(reach, d, w), k, T)
               /\ \A u : F!Coefficient(T, u)
                           = IF m > 0 THEN Count(d - m, d, u) ELSE Count(d, d - m, u)
  <2>1. g \in g..g + F!np(parts)
    OBVIOUS
  <2> QED BY <1>2, <1>3, <2>1, ComputeEkIs DEF m, d
<1>8. ASSUME NEW u
      PROVE  F!Coefficient(S, u) = F!Coefficient(T, u)
  <2> DEFINE y == c - m
             z == d - m
  <2>1. /\ y \in Int /\ z \in Int /\ SameCell(y, z) /\ c - y = d - z /\ y - c = z - d
    <3>1. -m \in Int /\ c + (-m) = y /\ d + (-m) = z
      BY <1>3, <1>5
    <3>2. SameCell(c + (-m), d + (-m))
      BY <1>3, <1>4, <3>1, SameCells
    <3> QED BY <1>3, <1>5, <3>1, <3>2
  <2> HIDE DEF y, z
  <2>2. Count(y, c, u) = Count(z, d, u) /\ Count(c, y, u) = Count(d, z, u)
    BY <1>3, <1>4, <2>1, CountTurns
  <2> QED BY <1>6, <1>7, <2>2 DEF y, z
<1>9. F!Entering(reach, c, w) = F!Entering(reach, d, w)
  BY <1>3, <1>4, EnteringTurns
<1>10. k \in Int
  OBVIOUS
<1> HIDE DEF k
<1>11. F!AddTimes(F!Entering(reach, c, w), k, S) = F!AddTimes(F!Entering(reach, c, w), k, T)
  BY <1>8, <1>10, SameSums
<1> QED BY <1>6, <1>7, <1>9, <1>11 DEF q
-----------------------------------------------------------------------------
(* The shift in a cycle                                                       *)

\* What is assumed of the mean flow, when there are several processes: column
\* 0, the ghost one, moves at most a cell more or less than column 1. The code
\* compares the displacement of active columns only with MaxShift, and shifts
\* the faces between both columns by their mean.
ShearBounded ==
  \A c \in Configs :
     c.fargo /\ c.parts > 1 =>
        c.meanV[0] <= c.meanV[1] + Q /\ c.meanV[1] <= c.meanV[0] + Q

Shifted ==
  \A c \in 0..Cells - 1 :
     /\ place.cells[c] = F!Exact(conf.reach, c, conf.meanV[1])
     /\ place.faces[c] = F!Exact(conf.reach, c, F!FaceVelocity(conf.meanV, 1))

\* From ShiftSolution to the end of the cycle.
AfterShift ==
  \/ pc \in {"Coarsen", "ConsToPrim", "AddVelocity"} /\ stage = conf.nstages - 1
  \/ pc \in InRklCycle /\ ncycles % 2 = 0
  \/ pc = "EndCycle"

ShiftInv ==
  /\ F!Accepted(conf.parts, conf.nghost)
  /\ conf.fargo /\ AfterShift => Shifted
  /\ pc = "ShiftSolution" => conf.fargo

\* The input is one that the lemmas are about.
LEMMA ShiftInput ==
  ASSUME ShearBounded, NEW c \in Configs, c.fargo, F!Accepted(c.parts, c.nghost)
  PROVE  /\ \A p \in 0..c.parts - 1 : Good(c.parts, c.nghost, c.reach, p)
         /\ c.meanV[1] \in Int /\ F!FaceVelocity(c.meanV, 1) \in Int
         /\ \/ c.parts > 1 /\ F!TooFar(c.meanV)
            \/ Fits(c.parts, c.meanV[1]) /\ Fits(c.parts, F!FaceVelocity(c.meanV, 1))
<1>1. \A p \in 0..c.parts - 1 : Good(c.parts, c.nghost, c.reach, p)
  BY CycleAssumption DEF Good
<1> DEFINE v == c.meanV[0]
           w == c.meanV[1]
           f == (v + w) \div 2
<1>2. v \in Int /\ w \in Int /\ 1 \in DOMAIN c.meanV
  BY CycleAssumption
<1>3. c.parts > 1 => v <= w + Q /\ w <= v + Q
  BY DEF ShearBounded
<1>4. F!FaceVelocity(c.meanV, 1) = f
  BY DEF F!FaceVelocity
<1>5. \/ F!TooFar(c.meanV)
      \/ w <= MaxShift * Q /\ -w <= MaxShift * Q
  <2>1. w > MaxShift * Q \/ -w > MaxShift * Q => F!TooFar(c.meanV)
    BY <1>2 DEF F!TooFar
  <2> HIDE DEF w
  <2>2. MaxShift * Q \in Int
    BY CycleAssumption
  <2> QED BY <1>2, <2>1, <2>2
<1> HIDE DEF v, w
<1>6. f \in Int /\ 2 * f <= v + w /\ v + w <= 2 * f + 1
  BY <1>2
<1> HIDE DEF f
<1>7. MaxShift * Q \in Int /\ (2 * MaxShift + 1) * Q = 2 * (MaxShift * Q) + Q /\ Q \in Int /\ Q > 0
      /\ c.parts \in Int
  BY CycleAssumption
<1>8. ASSUME w <= MaxShift * Q, -w <= MaxShift * Q PROVE Fits(c.parts, w)
  <2> DEFINE M == MaxShift * Q
  <2>1. M \in Int /\ w <= M /\ -w <= M
    BY <1>7, <1>8
  <2> HIDE DEF M
  <2>2. 2 * w <= 2 * M + Q /\ -(2 * w) <= 2 * M + Q
    BY <1>2, <1>7, <2>1
  <2> QED BY <1>7, <2>2 DEF Fits, M
<1>9. ASSUME w <= MaxShift * Q, -w <= MaxShift * Q PROVE Fits(c.parts, f)
  <2> DEFINE M == MaxShift * Q
  <2>1. M \in Int /\ w <= M /\ -w <= M
    BY <1>7, <1>9
  <2> HIDE DEF M
  <2> DEFINE h == Q \div 2
  <2>2. h \in Int /\ Q = 2 * h
    BY CycleAssumption
  <2> HIDE DEF h
  <2>3. c.parts > 1 => 2 * f <= 2 * M + Q /\ -(2 * f) <= 2 * M + Q
    BY <1>2, <1>3, <1>6, <2>1, <2>2
  <2> QED BY <1>7, <2>3 DEF Fits, M
<1>10. c.parts > 1 \/ (Fits(c.parts, w) /\ Fits(c.parts, f))
  BY <1>7 DEF Fits
<1>11. \/ c.parts > 1 /\ F!TooFar(c.meanV)
       \/ Fits(c.parts, w) /\ Fits(c.parts, f)
  BY <1>5, <1>8, <1>9, <1>10
<1>12. w = c.meanV[1]
  BY DEF w
<1> QED BY <1>1, <1>2, <1>4, <1>6, <1>11, <1>12

\* Cell c of the direction is at an index of its owner that is active.
LEMMA Owner ==
  ASSUME NEW parts \in Nat \ {0}, Cells % parts = 0, NEW g \in Nat, NEW c \in 0..Cells - 1
  PROVE  LET p == c \div F!np(parts)
             s == g + c - p * F!np(parts)
         IN p \in 0..parts - 1 /\ s \in g..g + F!np(parts) - 1 /\ Base(parts, g, p) + s = c
<1> DEFINE n == F!np(parts)
           p == c \div n
           r == c % n
<1>1. n \in Int /\ Cells = parts * n /\ Cells \in Int /\ Cells > 0 /\ parts \in Int /\ parts > 0
  <2>1. Cells \in Int /\ Cells > 0 /\ parts \in Int /\ parts > 0
    BY CycleAssumption
  <2>2. /\ Cells \div parts \in Int
        /\ Cells = parts * (Cells \div parts) + (Cells % parts)
    BY <2>1, Quotients
  <2> QED BY <2>1, <2>2 DEF F!np
<1> HIDE DEF n
<1>2. n > 0
  BY <1>1
<1>3. c \in Int /\ 0 <= c /\ c < Cells
  BY <1>1
<1>4. p \in Int /\ c = n * p + r /\ r \in 0..(n - 1)
  BY <1>1, <1>2, <1>3, Quotients
<1> HIDE DEF p, r
<1>5. p \in 0..parts - 1
  <2>1. p >= 0
    BY <1>1, <1>2, <1>3, <1>4
  <2>2. n * p < n * parts
    BY <1>1, <1>3, <1>4
  <2>3. p < parts
    BY <1>1, <1>2, <1>4, <2>2
  <2> QED BY <1>1, <1>4, <2>1, <2>3
<1>6. g + c - p * n = g + r
  BY <1>1, <1>3, <1>4
<1>7. g + r \in g..g + n - 1
  BY <1>1, <1>4
<1>8. Base(parts, g, p) + (g + c - p * n) = c
  <2>1. p * n \in Int
    BY <1>1, <1>4
  <2> QED BY <1>3, <2>1 DEF Base, n
<1> QED BY <1>5, <1>6, <1>7, <1>8 DEF n, p

\* What ShiftSolution does.
LEMMA ShiftSolutionShifts ==
  ASSUME ShearBounded, LoopInv, ShiftInv, ShiftSolution, pc' = "Coarsen"
  PROVE  Shifted' /\ EdgesAgree'
<1> DEFINE w == conf.meanV[1]
           v == F!FaceVelocity(conf.meanV, 1)
           k == conf.parts
           g == conf.nghost
           reach == conf.reach
<1>1. conf \in Configs /\ conf.fargo /\ F!Accepted(k, g)
  BY DEF LoopInv, ShiftInv, ShiftSolution
<1>2. ~(k > 1 /\ F!TooFar(conf.meanV))
  BY DEF ShiftSolution
<1>3. /\ \A p \in 0..k - 1 : Good(k, g, reach, p)
      /\ w \in Int /\ v \in Int /\ Fits(k, w) /\ Fits(k, v)
  BY <1>1, <1>2, ShiftInput
<1>4. conf' = conf
  BY DEF ShiftSolution
<1>5. /\ \A c \in 0..Cells - 1 :
            LET p == c \div F!np(k)
                s == g + c - p * F!np(k)
            IN /\ place'.cells[c] = F!ShiftVc(k, g, reach, p, s, w)
               /\ place'.faces[c] = F!EvolvMagField(k, g, reach, p, s, v)
      /\ \A p \in 0..k - 1 :
            /\ place'.left[p] = F!ComputeEk(k, g, reach, p, g, v)
            /\ place'.right[p] = F!ComputeEk(k, g, reach, p, g + F!np(k), v)
  <2> DEFINE At(c) == g + c - (c \div F!np(k)) * F!np(k)
             Cells1 == [c \in 0..Cells - 1 |-> F!ShiftVc(k, g, reach, c \div F!np(k), At(c), w)]
             Faces1 == [c \in 0..Cells - 1 |->
                          F!EvolvMagField(k, g, reach, c \div F!np(k), At(c), v)]
             Left1 == [p \in 0..k - 1 |-> F!ComputeEk(k, g, reach, p, g, v)]
             Right1 == [p \in 0..k - 1 |-> F!ComputeEk(k, g, reach, p, g + F!np(k), v)]
  <2>1. place' = [cells |-> Cells1, faces |-> Faces1, left |-> Left1, right |-> Right1]
    BY <1>2 DEF ShiftSolution, Everywhere, Processes
  <2>2. /\ place'.cells = Cells1 /\ place'.faces = Faces1
        /\ place'.left = Left1 /\ place'.right = Right1
    <3> HIDE DEF Cells1, Faces1, Left1, Right1
    <3> QED BY <2>1
  <2> QED BY <2>2
<1>6. k \in Nat \ {0} /\ Cells % k = 0 /\ g \in Nat
  BY <1>1, CycleAssumption
<1> HIDE DEF w, v, k, g, reach
<1>7. ASSUME NEW c \in 0..Cells - 1
      PROVE  /\ place'.cells[c] = F!Exact(reach, c, w)
             /\ place'.faces[c] = F!Exact(reach, c, v)
  <2> DEFINE p == c \div F!np(k)
             s == g + c - p * F!np(k)
  <2>1. p \in 0..k - 1 /\ s \in g..g + F!np(k) - 1 /\ Base(k, g, p) + s = c
    BY <1>6, Owner
  <2>2. /\ place'.cells[c] = F!ShiftVc(k, g, reach, p, s, w)
        /\ place'.faces[c] = F!EvolvMagField(k, g, reach, p, s, v)
    BY <1>5
  <2> HIDE DEF p, s
  <2>3. F!ShiftVc(k, g, reach, p, s, w) = F!Exact(reach, Base(k, g, p) + s, w)
    BY <1>3, <2>1, ShiftVcIs
  <2>4. F!EvolvMagField(k, g, reach, p, s, v) = F!Exact(reach, Base(k, g, p) + s, v)
    BY <1>3, <2>1, EvolvMagFieldIs
  <2> QED BY <2>1, <2>2, <2>3, <2>4
<1>8. ASSUME NEW p \in 0..k - 1
      PROVE  place'.right[p] = place'.left[(p + 1) % k]
  <2> DEFINE q == (p + 1) % k
  <2>1. q \in 0..k - 1
    BY <1>6
  <2>2. F!ComputeEk(k, g, reach, p, g + F!np(k), v) = F!ComputeEk(k, g, reach, q, g, v)
    BY <1>3, SharedEdge
  <2> HIDE DEF q
  <2>3. place'.right[p] = place'.left[q]
    BY <1>5, <2>1, <2>2
  <2> QED BY <2>3 DEF q
<1>9. Shifted'
  BY <1>4, <1>7 DEF Shifted, w, v, reach
<1>10. EdgesAgree'
  BY <1>4, <1>8 DEF EdgesAgree, Processes, k
<1> QED BY <1>9, <1>10

\* The actions that shift nothing and are no end of a cycle.
LEMMA Elsewhere ==
  ASSUME ShiftInv, EdgesAgree, UNCHANGED <<conf, place>>,
         conf.fargo /\ AfterShift' => AfterShift,
         pc' = "ShiftSolution" => conf.fargo
  PROVE  ShiftInv' /\ EdgesAgree'
BY DEF ShiftInv, EdgesAgree, Shifted, Processes

LEMMA ShiftInvNext ==
  ASSUME ShearBounded, LoopInv, ShiftInv, EdgesAgree, [Next]_vars
  PROVE  ShiftInv' /\ EdgesAgree'
<1>a. conf \in Configs /\ conf.nstages \in 1..3 /\ ncycles \in Nat
  BY Input DEF LoopInv
<1>1. CASE LaunchUserStepFirst
  <2>1. ~AfterShift'
    BY <1>1, <1>a DEF LaunchUserStepFirst, AfterShift, InRklCycle
  <2> QED BY <1>1, <2>1, Elsewhere DEF LaunchUserStepFirst
<1>2. CASE SetBoundaries
  BY <1>2, Elsewhere DEF SetBoundaries, AfterShift, InRklCycle
<1>3. CASE PrimToCons
  BY <1>3, Elsewhere DEF PrimToCons, AfterShift, InRklCycle
<1>4. CASE EvolveStage
  BY <1>4, Elsewhere DEF EvolveStage, AfterShift, InRklCycle
<1>5. CASE AddAndStore
  <2>1. UNCHANGED <<conf, place, stage>>
    BY <1>5 DEF AddAndStore
  <2>2. /\ pc' = IF conf.fargo /\ stage = conf.nstages - 1 THEN "ShiftSolution" ELSE "Coarsen"
    BY <1>5 DEF AddAndStore
  <2> QED BY <2>1, <2>2, Elsewhere DEF AfterShift, InRklCycle
<1>6. CASE ShiftSolution
  <2>1. CASE pc' = "Coarsen"
    BY <1>6, <2>1, ShiftSolutionShifts DEF ShiftInv, ShiftSolution
  <2>2. CASE pc' # "Coarsen"
    BY <1>6, <2>2, Elsewhere DEF ShiftSolution, AfterShift, InRklCycle
  <2> QED BY <2>1, <2>2
<1>7. CASE Coarsen
  BY <1>7, Elsewhere DEF Coarsen, AfterShift, InRklCycle
<1>8. CASE ConsToPrim
  BY <1>8, Elsewhere DEF ConsToPrim, AfterShift, InRklCycle
<1>9. CASE AddVelocity
  BY <1>9, <1>a, Elsewhere DEF AddVelocity, AfterShift, InRklCycle
<1>10. CASE RklStart
  BY <1>10, Elsewhere DEF RklStart, AfterShift, InRklCycle
<1>11. CASE RklBoundaries
  <2>1. UNCHANGED <<conf, place, stage, ncycles>>
    BY <1>11 DEF RklBoundaries
  <2>2. \/ pc' = "RklStage"
        \/ pc' = IF ncycles % 2 = 1 THEN "SetBoundaries" ELSE "EndCycle"
    BY <1>11 DEF RklBoundaries
  <2>3. ncycles % 2 \in {0, 1}
    BY <1>a
  <2> QED BY <1>11, <2>1, <2>2, <2>3, Elsewhere DEF RklBoundaries, AfterShift, InRklCycle
<1>12. CASE RklStage
  BY <1>12, Elsewhere DEF RklStage, AfterShift, InRklCycle
<1>13. CASE EndCycle
  BY <1>13 DEF EndCycle, ShiftInv, EdgesAgree, AfterShift, InRklCycle
<1>14. CASE End \/ UNCHANGED vars
  BY <1>14, Elsewhere DEF End, vars, AfterShift, ShiftInv
<1> QED BY <1>1, <1>2, <1>3, <1>4, <1>5, <1>6, <1>7, <1>8, <1>9, <1>10, <1>11, <1>12, <1>13,
           <1>14 DEF Next

LEMMA ShiftInvInit == Init => LoopInv /\ ShiftInv /\ EdgesAgree
BY Input DEF Init, LoopInv, ShiftInv, EdgesAgree, AfterShift, InRklCycle, Places, Stages, InStage,
   Outside

\* For any number of cells, of processes and of ghosts, and all displacements:
\* the shift that the processes compute from their scratch arrays, of whole
\* cells and of the rest, is the shift by w*dt on the whole direction, and the
\* field that its electric field evolves moves as the cells do.
THEOREM ShiftIsExact == ShearBounded => (Spec => []ShiftExact)
<1> SUFFICES ASSUME ShearBounded PROVE Spec => []ShiftExact
  OBVIOUS
<1>1. LoopInv /\ ShiftInv /\ EdgesAgree /\ [Next]_vars => ShiftInv' /\ EdgesAgree'
  BY ShiftInvNext
<1>2. ShiftInv => ShiftExact
  BY DEF ShiftInv, ShiftExact, Shifted, AfterShift
<1> QED BY <1>1, <1>2, ShiftInvInit, LoopInvNext, PTL DEF Spec

\* Two processes compute the same electric field of the shift on the edge that
\* they share, however far the cells that cross it come from.
THEOREM SharedEdges == ShearBounded => (Spec => []EdgesAgree)
<1> SUFFICES ASSUME ShearBounded PROVE Spec => []EdgesAgree
  OBVIOUS
<1>1. LoopInv /\ ShiftInv /\ EdgesAgree /\ [Next]_vars => ShiftInv' /\ EdgesAgree'
  BY ShiftInvNext
<1> QED BY <1>1, ShiftInvInit, LoopInvNext, PTL DEF Spec
-----------------------------------------------------------------------------
(* Fractions *)

Positive == Nat \ {0}

\* A factor that is not zero does not matter.
LEMMA CancelFactor ==
  ASSUME NEW c \in Positive, NEW x \in Int, NEW y \in Int, c * x = c * y
  PROVE  x = y
<1>1. c * (x - y) = 0 /\ c > 0 /\ c \in Int
  BY DEF Positive
<1>2. ~(x - y >= 1)
  <2>1. x - y >= 1 => c * (x - y) >= c
    BY <1>1
  <2> QED BY <2>1, <1>1
<1>3. ~(x - y <= -1)
  <2>1. x - y <= -1 => c * (x - y) <= -c
    BY <1>1
  <2> QED BY <2>1, <1>1
<1> QED BY <1>2, <1>3

LEMMA Whole0 ==
  ASSUME NEW y \in Int, NEW d \in Positive, NEW k \in Int, y = k * d
  PROVE  y % d = 0 /\ y \div d = k
<1>1. d \in Int /\ d > 0 /\ y = k * d + 0 /\ 0 \in 0..d - 1
  BY DEF Positive
<1>2. y % d = 0
  BY <1>1, Remainder
<1>3. y \div d \in Int /\ y = d * (y \div d) + (y % d)
  BY <1>1, Quotients
<1>4. d * (y \div d) = d * k
  BY <1>1, <1>2, <1>3
<1> QED BY <1>2, <1>3, <1>4, CancelFactor

LEMMA WholeIs ==
  ASSUME NEW y \in Int, NEW d \in Positive, y % d = 0
  PROVE  y \div d \in Int /\ y = (y \div d) * d
<1>1. d \in Int /\ d > 0
  BY DEF Positive
<1>2. y \div d \in Int /\ y = d * (y \div d) + (y % d)
  BY <1>1, Quotients
<1> QED BY <1>1, <1>2

LEMMA LowestIs ==
  ASSUME NEW n \in Int, NEW d \in Positive
  PROVE  /\ Lowest(n, d) \in 1..d /\ (Lowest(n, d) * n) % d = 0
         /\ \A k \in 1..(Lowest(n, d) - 1) : (k * n) % d # 0
<1> DEFINE R == OpToRel(<, Nat)
           T == {m \in 1..d : (m * n) % d = 0}
<1>1. IsWellFoundedOn(R, Nat)
  BY NatLessThanWellFounded
<1>2. d \in T /\ T \subseteq Nat
  <2>1. (d * n) % d = 0
    BY Whole0 DEF Positive
  <2> QED BY <2>1 DEF Positive
<1> HIDE DEF R
<1>3. PICK m \in T : \A k \in T : ~(<<k, m>> \in R)
  BY <1>1, <1>2, WFMin
<1>4. ASSUME NEW k \in 1..(m - 1) PROVE (k * n) % d # 0
  <2>1. k \notin T
    <3>1. k \in Nat /\ m \in Nat /\ k < m
      BY <1>2
    <3>2. <<k, m>> \in R
      BY <3>1 DEF R, OpToRel
    <3> QED BY <3>2, <1>3
  <2>2. k \in 1..d
    BY <1>3 DEF Positive
  <2> QED BY <2>1, <2>2
<1>5. \E l \in 1..d : (l * n) % d = 0 /\ \A k \in 1..(l - 1) : (k * n) % d # 0
  BY <1>3, <1>4
<1> QED BY <1>5 DEF Lowest

LEMMA FracIs ==
  ASSUME NEW n \in Int, NEW d \in Positive
  PROVE  /\ Frac(n, d) = <<Frac(n, d)[1], Frac(n, d)[2]>>
         /\ Frac(n, d)[1] \in Int /\ Frac(n, d)[2] \in Positive
         /\ Frac(n, d)[1] * d = n * Frac(n, d)[2]
<1> DEFINE D == Lowest(n, d)
<1>1. D \in Int /\ D > 0 /\ (D * n) % d = 0
  BY LowestIs DEF Positive
<1> HIDE DEF D
<1>2. D * n \in Int
  BY <1>1
<1>3. (D * n) \div d \in Int /\ D * n = ((D * n) \div d) * d
  BY <1>1, <1>2, WholeIs
<1>4. Frac(n, d) = <<(D * n) \div d, D>>
  BY DEF Frac, D
<1>5. n * D = D * n
  BY <1>1
<1>6. D \in Positive
  BY <1>1 DEF Positive
<1> QED BY <1>3, <1>4, <1>5, <1>6

LEMMA OneWay ==
  ASSUME NEW n \in Int, NEW d \in Positive, NEW m \in Int, NEW e \in Positive, n * e = m * d
  PROVE  Lowest(n, d) >= Lowest(m, e) /\ (Lowest(n, d) * m) \div e = (Lowest(n, d) * n) \div d
<1> DEFINE D == Lowest(n, d)
           E == Lowest(m, e)
           k == (D * n) \div d
<1>1. D \in Int /\ D > 0 /\ E \in Int /\ d \in Int /\ e \in Int /\ d > 0 /\ e > 0
  BY LowestIs DEF Positive
<1>2. (D * n) % d = 0 /\ \A j \in 1..(E - 1) : (j * m) % e # 0
  BY LowestIs
<1> HIDE DEF D, E
<1>3. k \in Int /\ D * n = k * d
  BY <1>1, <1>2, WholeIs
<1> HIDE DEF k
<1>4. d * (D * m) = d * (k * e)
  <2>1. d * (D * m) = D * (m * d)
    BY <1>1
  <2>2. D * (n * e) = (D * n) * e
    BY <1>1
  <2>3. (k * d) * e = d * (k * e)
    BY <1>1, <1>3
  <2> QED BY <2>1, <2>2, <2>3, <1>3
<1>5. D * m = k * e
  <2>1. D * m \in Int /\ k * e \in Int
    BY <1>1, <1>3
  <2> QED BY <2>1, <1>4, CancelFactor
<1>6. (D * m) % e = 0 /\ (D * m) \div e = k
  <2>1. D * m \in Int
    BY <1>1
  <2> QED BY <2>1, <1>3, <1>5, Whole0
<1>7. D >= E
  BY <1>1, <1>2, <1>6
<1> QED BY <1>6, <1>7 DEF D, E, k

\* Equal fractions have one representative.
LEMMA FracSame ==
  ASSUME NEW n \in Int, NEW d \in Positive, NEW m \in Int, NEW e \in Positive, n * e = m * d
  PROVE  Frac(n, d) = Frac(m, e)
<1>1. Lowest(n, d) >= Lowest(m, e) /\ Lowest(m, e) >= Lowest(n, d)
  BY OneWay
<1>2. Lowest(n, d) \in Int /\ Lowest(m, e) \in Int
  BY LowestIs
<1>3. Lowest(n, d) = Lowest(m, e)
  BY <1>1, <1>2
<1> QED BY <1>3, OneWay DEF Frac

\* A fraction in lowest terms is itself.
LEMMA FracLow ==
  ASSUME NEW n \in Int, NEW d \in Positive, \A k \in 1..(d - 1) : (k * n) % d # 0
  PROVE  Frac(n, d) = <<n, d>>
<1>1. d \in Int /\ d > 0
  BY DEF Positive
<1>2. Lowest(n, d) = d
  <2>1. Lowest(n, d) \in 1..d /\ (Lowest(n, d) * n) % d = 0
    BY LowestIs
  <2>2. Lowest(n, d) \notin 1..(d - 1)
    BY <2>1
  <2> QED BY <2>1, <2>2, <1>1
<1>3. (d * n) \div d = n
  <2>1. d * n = n * d /\ d * n \in Int
    BY <1>1
  <2> QED BY <2>1, Whole0
<1> QED BY <1>2, <1>3 DEF Frac

LEMMA WholeFrac ==
  ASSUME NEW n \in Int PROVE Frac(n, 1) = Whole(n) /\ 1 \in Positive
<1>1. 1 \in Positive /\ 1..(1 - 1) = {}
  BY DEF Positive
<1> QED BY <1>1, FracLow DEF Whole
-----------------------------------------------------------------------------
LEMMA Products ==
  ASSUME NEW d \in Positive, NEW e \in Positive
  PROVE  d * e \in Positive
<1>1. d \in Int /\ e \in Int /\ d > 0 /\ e > 0
  BY DEF Positive
<1>2. d * e > 0
  BY <1>1
<1> QED BY <1>1, <1>2 DEF Positive

LEMMA AddFrac ==
  ASSUME NEW n \in Int, NEW d \in Positive, NEW m \in Int, NEW e \in Positive
  PROVE  /\ Frac(n, d) (+) Frac(m, e) = Frac(n * e + m * d, d * e)
         /\ Frac(n, d) (-) Frac(m, e) = Frac(n * e - m * d, d * e)
<1> DEFINE N == Frac(n, d)[1]
           D == Frac(n, d)[2]
           M == Frac(m, e)[1]
           E == Frac(m, e)[2]
<1>1. N \in Int /\ D \in Positive /\ N * d = n * D /\ M \in Int /\ E \in Positive /\ M * e = m * E
  BY FracIs
<1> HIDE DEF N, D, M, E
<1>2. D \in Int /\ E \in Int /\ d \in Int /\ e \in Int /\ D * E \in Positive /\ d * e \in Positive
  BY <1>1, Products DEF Positive
<1>3. (N * E) * (d * e) = (n * e) * (D * E)
  <2>1. (N * E) * (d * e) = (N * d) * (E * e)
    BY <1>1, <1>2
  <2>2. (n * D) * (E * e) = (n * e) * (D * E)
    BY <1>1, <1>2
  <2> QED BY <2>1, <2>2, <1>1
<1>4. (M * D) * (d * e) = (m * d) * (D * E)
  <2>1. (M * D) * (d * e) = (M * e) * (D * d)
    BY <1>1, <1>2
  <2>2. (m * E) * (D * d) = (m * d) * (D * E)
    BY <1>1, <1>2
  <2> QED BY <2>1, <2>2, <1>1
<1> DEFINE x == N * E
           y == M * D
           u == n * e
           v == m * d
           q == d * e
           r == D * E
<1>5. x \in Int /\ y \in Int /\ u \in Int /\ v \in Int /\ q \in Int /\ r \in Int
  BY <1>1, <1>2 DEF Positive
<1>6. x * q = u * r /\ y * q = v * r
  BY <1>3, <1>4
<1>7. (x + y) * q = (u + v) * r /\ (x - y) * q = (u - v) * r
  <2> HIDE DEF x, y, u, v, q, r
  <2> QED BY <1>5, <1>6
<1>8. q \in Positive /\ r \in Positive
  BY <1>2
<1>9. Frac(x + y, r) = Frac(u + v, q) /\ Frac(x - y, r) = Frac(u - v, q)
  <2> HIDE DEF x, y, u, v, q, r
  <2>1. x + y \in Int /\ u + v \in Int /\ x - y \in Int /\ u - v \in Int
    BY <1>5
  <2> QED BY <2>1, <1>7, <1>8, FracSame
<1> QED BY <1>9 DEF (+), (-), N, D, M, E

LEMMA MulFrac ==
  ASSUME NEW n \in Int, NEW d \in Positive, NEW m \in Int, NEW e \in Positive
  PROVE  Frac(n, d) (.) Frac(m, e) = Frac(n * m, d * e)
<1> DEFINE N == Frac(n, d)[1]
           D == Frac(n, d)[2]
           M == Frac(m, e)[1]
           E == Frac(m, e)[2]
<1>1. N \in Int /\ D \in Positive /\ N * d = n * D /\ M \in Int /\ E \in Positive /\ M * e = m * E
  BY FracIs
<1> HIDE DEF N, D, M, E
<1>2. D \in Int /\ E \in Int /\ d \in Int /\ e \in Int /\ D * E \in Positive /\ d * e \in Positive
  BY <1>1, Products DEF Positive
<1>3. (N * M) * (d * e) = (n * m) * (D * E)
  <2>1. (N * M) * (d * e) = (N * d) * (M * e)
    BY <1>1, <1>2
  <2>2. (n * D) * (m * E) = (n * m) * (D * E)
    BY <1>1, <1>2
  <2> QED BY <2>1, <2>2, <1>1
<1>4. Frac(N * M, D * E) = Frac(n * m, d * e)
  <2>1. N * M \in Int /\ n * m \in Int
    BY <1>1
  <2> QED BY <2>1, <1>2, <1>3, FracSame
<1> QED BY <1>4 DEF (.), N, D, M, E

LEMMA DivFrac ==
  ASSUME NEW n \in Int, NEW d \in Positive, NEW m \in Positive, NEW e \in Positive
  PROVE  Frac(n, d) (/) Frac(m, e) = Frac(n * e, d * m)
<1> DEFINE N == Frac(n, d)[1]
           D == Frac(n, d)[2]
           M == Frac(m, e)[1]
           E == Frac(m, e)[2]
<1>0. m \in Int /\ m > 0
  BY DEF Positive
<1>1. N \in Int /\ D \in Positive /\ N * d = n * D /\ M \in Int /\ E \in Positive /\ M * e = m * E
  BY <1>0, FracIs
<1> HIDE DEF N, D, M, E
<1>2. D \in Int /\ E \in Int /\ d \in Int /\ e \in Int /\ e > 0 /\ E > 0 /\ d * m \in Positive
  BY <1>1, Products DEF Positive
<1>3. M \in Positive
  <2>1. M * e > 0
    <3>1. m * E > 0
      BY <1>0, <1>2
    <3> QED BY <3>1, <1>1
  <2>2. M <= 0 => M * e <= 0
    BY <1>1, <1>2
  <2> QED BY <2>1, <2>2, <1>1, <1>2 DEF Positive
<1>4. (N * E) * (d * m) = (n * e) * (D * M)
  <2>1. (N * E) * (d * m) = (N * d) * (m * E)
    BY <1>0, <1>1, <1>2
  <2>2. (n * D) * (M * e) = (n * e) * (D * M)
    BY <1>1, <1>2
  <2> QED BY <2>1, <2>2, <1>1
<1>5. Frac(N * E, D * M) = Frac(n * e, d * m)
  <2>1. N * E \in Int /\ n * e \in Int /\ D * M \in Positive
    BY <1>1, <1>2, <1>3, Products
  <2> DEFINE u == N * E
             v == D * M
             w == n * e
             q == d * m
  <2>2. u \in Int /\ v \in Positive /\ w \in Int /\ q \in Positive /\ u * q = w * v
    BY <2>1, <1>2, <1>4
  <2> HIDE DEF u, v, w, q
  <2>3. Frac(u, v) = Frac(w, q)
    BY <2>2, FracSame
  <2> QED BY <2>3 DEF u, v, w, q
<1> QED BY <1>5 DEF (/), N, D, M, E

LEMMA AddSame ==
  ASSUME NEW n \in Int, NEW m \in Int, NEW d \in Positive
  PROVE  /\ Frac(n, d) (+) Frac(m, d) = Frac(n + m, d)
         /\ Frac(n, d) (-) Frac(m, d) = Frac(n - m, d)
<1>1. d \in Int /\ d * d \in Positive
  BY Products DEF Positive
<1>2. (n * d + m * d) * d = (n + m) * (d * d) /\ (n * d - m * d) * d = (n - m) * (d * d)
  BY <1>1
<1>3. Frac(n * d + m * d, d * d) = Frac(n + m, d) /\ Frac(n * d - m * d, d * d) = Frac(n - m, d)
  <2>1. n * d + m * d \in Int /\ n * d - m * d \in Int /\ n + m \in Int /\ n - m \in Int
    BY <1>1
  <2> QED BY <2>1, <1>1, <1>2, FracSame
<1> QED BY <1>3, AddFrac

\* What 0 and 1 do.
LEMMA Neutral ==
  ASSUME NEW n \in Int, NEW d \in Positive
  PROVE  /\ Frac(n, d) (+) Whole(0) = Frac(n, d) /\ Whole(0) (+) Frac(n, d) = Frac(n, d)
         /\ Frac(n, d) (.) Whole(0) = Whole(0) /\ Frac(n, d) (.) Whole(1) = Frac(n, d)
         /\ Whole(0) = Frac(0, d) /\ Whole(1) = Frac(d, d)
<1>1. d \in Int /\ 1 \in Positive /\ Whole(0) = Frac(0, 1) /\ Whole(1) = Frac(1, 1)
  BY WholeFrac DEF Positive
<1>2. Whole(0) = Frac(0, d) /\ Whole(1) = Frac(d, d)
  <2>1. 0 * d = 0 * 1 /\ 1 * d = d * 1
    BY <1>1
  <2> QED BY <2>1, <1>1, FracSame
<1>3. Frac(n, d) (+) Frac(0, d) = Frac(n, d) /\ Frac(0, d) (+) Frac(n, d) = Frac(n, d)
  <2>1. n + 0 = n /\ 0 + n = n
    OBVIOUS
  <2> QED BY <2>1, AddSame
<1>4. Frac(n, d) (.) Frac(0, 1) = Frac(0, d) /\ Frac(n, d) (.) Frac(1, 1) = Frac(n, d)
  <2>1. n * 0 = 0 /\ n * 1 = n /\ d * 1 = d
    BY <1>1
  <2>2. Frac(n, d) (.) Frac(0, 1) = Frac(n * 0, d * 1) /\ Frac(n, d) (.) Frac(1, 1) = Frac(n * 1, d * 1)
    <3>1. 0 \in Int /\ 1 \in Int
      OBVIOUS
    <3> QED BY <3>1, <1>1, MulFrac
  <2> QED BY <2>1, <2>2
<1> QED BY <1>1, <1>2, <1>3, <1>4

\* The weights and the coefficients of the exponential.
LEMMA Literals ==
  /\ <<1, 2>> = Frac(1, 2) /\ <<1, 3>> = Frac(1, 3) /\ <<2, 3>> = Frac(2, 3)
  /\ <<1, 4>> = Frac(1, 4) /\ <<3, 4>> = Frac(3, 4) /\ <<1, 6>> = Frac(1, 6)
  /\ 1 \in Positive /\ 2 \in Positive /\ 3 \in Positive /\ 4 \in Positive /\ 6 \in Positive /\ 12 \in Positive
<1>1. /\ 1 \in Positive /\ 2 \in Positive /\ 3 \in Positive /\ 4 \in Positive /\ 6 \in Positive
      /\ 12 \in Positive
  BY DEF Positive
<1>2. <<1, 2>> = Frac(1, 2)
  <2>1. \A k \in 1..(2 - 1) : (k * 1) % 2 # 0
    OBVIOUS
  <2> QED BY <2>1, <1>1, FracLow
<1>3. <<1, 3>> = Frac(1, 3) /\ <<2, 3>> = Frac(2, 3)
  <2>1. \A k \in 1..(3 - 1) : (k * 1) % 3 # 0 /\ (k * 2) % 3 # 0
    OBVIOUS
  <2> QED BY <2>1, <1>1, FracLow
<1>4. <<1, 4>> = Frac(1, 4) /\ <<3, 4>> = Frac(3, 4)
  <2>1. \A k \in 1..(4 - 1) : (k * 1) % 4 # 0 /\ (k * 3) % 4 # 0
    OBVIOUS
  <2> QED BY <2>1, <1>1, FracLow
<1>5. <<1, 6>> = Frac(1, 6)
  <2>1. \A k \in 1..(6 - 1) : (k * 1) % 6 # 0
    OBVIOUS
  <2> QED BY <2>1, <1>1, FracLow
<1> QED BY <1>1, <1>2, <1>3, <1>4, <1>5
-----------------------------------------------------------------------------
(* The stages of Runge-Kutta *)

\* A polynomial by its numerators, over one denominator.
Poly(n0, n1, n2, n3, d) == [k \in Degrees |-> Frac(<<n0, n1, n2, n3>>[k + 1], d)]

LEMMA PolyAt ==
  ASSUME NEW n0, NEW n1, NEW n2, NEW n3, NEW d
  PROVE  /\ Poly(n0, n1, n2, n3, d)[0] = Frac(n0, d) /\ Poly(n0, n1, n2, n3, d)[1] = Frac(n1, d)
         /\ Poly(n0, n1, n2, n3, d)[2] = Frac(n2, d) /\ Poly(n0, n1, n2, n3, d)[3] = Frac(n3, d)
         /\ DOMAIN Poly(n0, n1, n2, n3, d) = Degrees
<1>1. Degrees = {0, 1, 2, 3}
  BY DEF Degrees
<1>2. \A k \in {0, 1, 2, 3} : Poly(n0, n1, n2, n3, d)[k] = Frac(<<n0, n1, n2, n3>>[k + 1], d)
  BY <1>1 DEF Poly
<1> QED BY <1>2 DEF Poly

LEMMA SamePoly ==
  ASSUME NEW f, NEW n0, NEW n1, NEW n2, NEW n3, NEW d, f = [k \in Degrees |-> f[k]],
         f[0] = Frac(n0, d), f[1] = Frac(n1, d), f[2] = Frac(n2, d), f[3] = Frac(n3, d)
  PROVE  f = Poly(n0, n1, n2, n3, d)
<1>1. \A k \in Degrees : k = 0 \/ k = 1 \/ k = 2 \/ k = 3
  BY DEF Degrees
<1>2. \A k \in Degrees : f[k] = Poly(n0, n1, n2, n3, d)[k]
  BY <1>1, PolyAt
<1> QED BY <1>2 DEF Poly

LEMMA UnitIs == Unit = Poly(1, 0, 0, 0, 1)
<1>1. Whole(1) = Frac(1, 1) /\ Whole(0) = Frac(0, 1)
  BY WholeFrac
<1>2. Unit = [k \in Degrees |-> Unit[k]] /\ 0 \in Degrees /\ 1 \in Degrees /\ 2 \in Degrees /\ 3 \in Degrees
  BY DEF Unit, Constant, Degrees
<1>3. Unit[0] = Frac(1, 1) /\ Unit[1] = Frac(0, 1) /\ Unit[2] = Frac(0, 1) /\ Unit[3] = Frac(0, 1)
  BY <1>1, <1>2 DEF Unit, Constant
<1> QED BY <1>2, <1>3, SamePoly

LEMMA RaisePoly ==
  ASSUME NEW n0, NEW n1, NEW n2, NEW n3, NEW d \in Positive
  PROVE  Raise(Poly(n0, n1, n2, n3, d), 3) = Poly(0, n0, n1, n2, d)
<1> DEFINE f == Poly(n0, n1, n2, n3, d)
           g == Raise(f, 3)
<1>1. Degrees = {0, 1, 2, 3} /\ Whole(0) = Frac(0, d)
  BY Neutral DEF Degrees
<1>2. f[0] = Frac(n0, d) /\ f[1] = Frac(n1, d) /\ f[2] = Frac(n2, d)
  BY PolyAt
<1> HIDE DEF f
<1>3. g = [k \in Degrees |-> g[k]] /\ g[0] = Frac(0, d) /\ g[1] = f[0] /\ g[2] = f[1] /\ g[3] = f[2]
  BY <1>1 DEF Raise
<1> HIDE DEF g
<1>4. g = Poly(0, n0, n1, n2, d)
  BY <1>2, <1>3, SamePoly
<1> QED BY <1>4 DEF f, g

LEMMA SumPoly ==
  ASSUME NEW n0 \in Int, NEW n1 \in Int, NEW n2 \in Int, NEW n3 \in Int,
         NEW m0 \in Int, NEW m1 \in Int, NEW m2 \in Int, NEW m3 \in Int, NEW d \in Positive
  PROVE  Sum2(Poly(n0, n1, n2, n3, d), Poly(m0, m1, m2, m3, d)) = Poly(n0 + m0, n1 + m1, n2 + m2, n3 + m3, d)
<1> DEFINE f == Poly(n0, n1, n2, n3, d)
           g == Poly(m0, m1, m2, m3, d)
           h == Sum2(f, g)
<1>1. 0 \in Degrees /\ 1 \in Degrees /\ 2 \in Degrees /\ 3 \in Degrees
  BY DEF Degrees
<1>2. /\ f[0] = Frac(n0, d) /\ f[1] = Frac(n1, d) /\ f[2] = Frac(n2, d) /\ f[3] = Frac(n3, d)
      /\ g[0] = Frac(m0, d) /\ g[1] = Frac(m1, d) /\ g[2] = Frac(m2, d) /\ g[3] = Frac(m3, d)
  BY PolyAt
<1> HIDE DEF f, g
<1>3. h = [k \in Degrees |-> h[k]] /\ h[0] = f[0] (+) g[0] /\ h[1] = f[1] (+) g[1] /\ h[2] = f[2] (+) g[2]
      /\ h[3] = f[3] (+) g[3]
  BY <1>1 DEF Sum2
<1> HIDE DEF h
<1>4. h = Poly(n0 + m0, n1 + m1, n2 + m2, n3 + m3, d)
  <2>1. h[0] = Frac(n0 + m0, d) /\ h[1] = Frac(n1 + m1, d) /\ h[2] = Frac(n2 + m2, d) /\ h[3] = Frac(n3 + m3, d)
    BY <1>2, <1>3, AddSame
  <2> QED BY <1>3, <2>1, SamePoly
<1> QED BY <1>4 DEF f, g, h

LEMMA ScalePoly ==
  ASSUME NEW n0 \in Int, NEW n1 \in Int, NEW n2 \in Int, NEW n3 \in Int, NEW d \in Positive,
         NEW p \in Int, NEW q \in Positive
  PROVE  Scale(Frac(p, q), Poly(n0, n1, n2, n3, d)) = Poly(p * n0, p * n1, p * n2, p * n3, q * d)
<1> DEFINE f == Poly(n0, n1, n2, n3, d)
           h == Scale(Frac(p, q), f)
<1>1. 0 \in Degrees /\ 1 \in Degrees /\ 2 \in Degrees /\ 3 \in Degrees
  BY DEF Degrees
<1>2. f[0] = Frac(n0, d) /\ f[1] = Frac(n1, d) /\ f[2] = Frac(n2, d) /\ f[3] = Frac(n3, d)
  BY PolyAt
<1> HIDE DEF f
<1>3. /\ h = [k \in Degrees |-> h[k]] /\ h[0] = Frac(p, q) (.) f[0] /\ h[1] = Frac(p, q) (.) f[1]
      /\ h[2] = Frac(p, q) (.) f[2] /\ h[3] = Frac(p, q) (.) f[3]
  BY <1>1 DEF Scale
<1> HIDE DEF h
<1>4. h = Poly(p * n0, p * n1, p * n2, p * n3, q * d)
  <2>1. /\ h[0] = Frac(p * n0, q * d) /\ h[1] = Frac(p * n1, q * d)
        /\ h[2] = Frac(p * n2, q * d) /\ h[3] = Frac(p * n3, q * d)
    BY <1>2, <1>3, MulFrac
  <2> QED BY <1>3, <2>1, SamePoly
<1> QED BY <1>4 DEF f, h

\* The solution before stage s, with the stage, and at its end when there are
\* n of them.
Early(s) == IF s = 0 THEN Unit ELSE IF s = 1 THEN Poly(1, 1, 0, 0, 1) ELSE Poly(4, 2, 1, 0, 4)

Grown(s) ==
  IF s = 0 THEN Poly(1, 1, 0, 0, 1) ELSE IF s = 1 THEN Poly(1, 2, 1, 0, 1) ELSE Poly(4, 6, 3, 1, 4)

Ended(n, s) ==
  IF s = 0 THEN Poly(1, 1, 0, 0, 1)
  ELSE IF n = 2 THEN Poly(2, 2, 1, 0, 2)
  ELSE IF s = 1 THEN Poly(4, 2, 1, 0, 4) ELSE Poly(12, 12, 6, 2, 12)

LEMMA Grows ==
  ASSUME NEW s \in 0..2
  PROVE  Sum2(Early(s), Raise(Early(s), 3)) = Grown(s)
<1>1. 1 \in Positive /\ 4 \in Positive
  BY Literals
<1>2. CASE s = 0
  <2>1. Sum2(Poly(1, 0, 0, 0, 1), Poly(0, 1, 0, 0, 1)) = Poly(1 + 0, 0 + 1, 0 + 0, 0 + 0, 1)
    BY <1>1, SumPoly
  <2>2. Raise(Poly(1, 0, 0, 0, 1), 3) = Poly(0, 1, 0, 0, 1)
    BY <1>1, RaisePoly
  <2>3. 1 + 0 = 1 /\ 0 + 1 = 1 /\ 0 + 0 = 0
    OBVIOUS
  <2> QED BY <1>2, <2>1, <2>2, <2>3, UnitIs DEF Early, Grown
<1>3. CASE s = 1
  <2>1. Sum2(Poly(1, 1, 0, 0, 1), Poly(0, 1, 1, 0, 1)) = Poly(1 + 0, 1 + 1, 0 + 1, 0 + 0, 1)
    BY <1>1, SumPoly
  <2>2. Raise(Poly(1, 1, 0, 0, 1), 3) = Poly(0, 1, 1, 0, 1)
    BY <1>1, RaisePoly
  <2>3. 1 + 0 = 1 /\ 0 + 1 = 1 /\ 0 + 0 = 0 /\ 1 + 1 = 2
    OBVIOUS
  <2> QED BY <1>3, <2>1, <2>2, <2>3 DEF Early, Grown
<1>4. CASE s = 2
  <2>1. Sum2(Poly(4, 2, 1, 0, 4), Poly(0, 4, 2, 1, 4)) = Poly(4 + 0, 2 + 4, 1 + 2, 0 + 1, 4)
    BY <1>1, SumPoly
  <2>2. Raise(Poly(4, 2, 1, 0, 4), 3) = Poly(0, 4, 2, 1, 4)
    BY <1>1, RaisePoly
  <2>3. 4 + 0 = 4 /\ 0 + 1 = 1 /\ 2 + 4 = 6 /\ 1 + 2 = 3
    OBVIOUS
  <2> QED BY <1>4, <2>1, <2>2, <2>3 DEF Early, Grown
<1> QED BY <1>2, <1>3, <1>4

\* The weights of a stage.
LEMMA Weighted ==
  ASSUME NEW n \in 2..3, NEW s \in 1..(n - 1)
  PROVE  Sum2(Scale(wc[n][s], Grown(s)), Scale(w0[n][s], Unit)) = Ended(n, s)
<1>1. /\ 1 \in Positive /\ 2 \in Positive /\ 3 \in Positive /\ 4 \in Positive /\ 12 \in Positive
      /\ <<1, 2>> = Frac(1, 2) /\ <<1, 3>> = Frac(1, 3) /\ <<2, 3>> = Frac(2, 3)
      /\ <<1, 4>> = Frac(1, 4) /\ <<3, 4>> = Frac(3, 4)
  BY Literals
<1>2. n \in 1..3 /\ wc[n] = (IF n = 2 THEN <<<<1, 2>>>> ELSE <<<<1, 4>>, <<2, 3>>>>)
      /\ w0[n] = (IF n = 2 THEN <<<<1, 2>>>> ELSE <<<<3, 4>>, <<1, 3>>>>)
  <2>1. n \in 1..3 /\ (n = 2 \/ n = 3)
    OBVIOUS
  <2> QED BY <2>1 DEF wc, w0
<1>3. CASE n = 2 /\ s = 1
  <2>1. wc[n][s] = Frac(1, 2) /\ w0[n][s] = Frac(1, 2)
    BY <1>1, <1>2, <1>3
  <2>2. /\ Scale(Frac(1, 2), Poly(1, 2, 1, 0, 1)) = Poly(1 * 1, 1 * 2, 1 * 1, 1 * 0, 2 * 1)
        /\ Scale(Frac(1, 2), Poly(1, 0, 0, 0, 1)) = Poly(1 * 1, 1 * 0, 1 * 0, 1 * 0, 2 * 1)
    BY <1>1, ScalePoly
  <2>3. Sum2(Poly(1, 2, 1, 0, 2), Poly(1, 0, 0, 0, 2)) = Poly(1 + 1, 2 + 0, 1 + 0, 0 + 0, 2)
    BY <1>1, SumPoly
  <2>4. 1 * 1 = 1 /\ 1 * 2 = 2 /\ 1 * 0 = 0 /\ 2 * 1 = 2 /\ 1 + 1 = 2 /\ 2 + 0 = 2 /\ 1 + 0 = 1 /\ 0 + 0 = 0
    OBVIOUS
  <2> QED BY <1>3, <2>1, <2>2, <2>3, <2>4, UnitIs DEF Grown, Ended
<1>4. CASE n = 3 /\ s = 1
  <2>1. wc[n][s] = Frac(1, 4) /\ w0[n][s] = Frac(3, 4)
    BY <1>1, <1>2, <1>4
  <2>2. /\ Scale(Frac(1, 4), Poly(1, 2, 1, 0, 1)) = Poly(1 * 1, 1 * 2, 1 * 1, 1 * 0, 4 * 1)
        /\ Scale(Frac(3, 4), Poly(1, 0, 0, 0, 1)) = Poly(3 * 1, 3 * 0, 3 * 0, 3 * 0, 4 * 1)
    BY <1>1, ScalePoly
  <2>3. Sum2(Poly(1, 2, 1, 0, 4), Poly(3, 0, 0, 0, 4)) = Poly(1 + 3, 2 + 0, 1 + 0, 0 + 0, 4)
    BY <1>1, SumPoly
  <2>4. 1 * 1 = 1 /\ 1 * 2 = 2 /\ 1 * 0 = 0 /\ 4 * 1 = 4 /\ 1 + 3 = 4 /\ 2 + 0 = 2 /\ 1 + 0 = 1 /\ 0 + 0 = 0
        /\ 3 * 1 = 3 /\ 3 * 0 = 0
    OBVIOUS
  <2> QED BY <1>4, <2>1, <2>2, <2>3, <2>4, UnitIs DEF Grown, Ended
<1>5. CASE n = 3 /\ s = 2
  <2>1. wc[n][s] = Frac(2, 3) /\ w0[n][s] = Frac(1, 3)
    BY <1>1, <1>2, <1>5
  <2>2. /\ Scale(Frac(2, 3), Poly(4, 6, 3, 1, 4)) = Poly(2 * 4, 2 * 6, 2 * 3, 2 * 1, 3 * 4)
        /\ Scale(Frac(1, 3), Poly(4, 0, 0, 0, 4)) = Poly(1 * 4, 1 * 0, 1 * 0, 1 * 0, 3 * 4)
    BY <1>1, ScalePoly
  <2>3. Sum2(Poly(8, 12, 6, 2, 12), Poly(4, 0, 0, 0, 12)) = Poly(8 + 4, 12 + 0, 6 + 0, 2 + 0, 12)
    BY <1>1, SumPoly
  <2>4. 2 * 4 = 8 /\ 2 * 6 = 12 /\ 2 * 3 = 6 /\ 2 * 1 = 2 /\ 3 * 4 = 12 /\ 1 * 4 = 4 /\ 1 * 0 = 0
        /\ 8 + 4 = 12 /\ 12 + 0 = 12 /\ 6 + 0 = 6 /\ 2 + 0 = 2
    OBVIOUS
  <2>5. Unit = Poly(4, 0, 0, 0, 4)
    <3>1. Frac(4, 4) = Whole(1) /\ Frac(0, 4) = Whole(0) /\ Frac(1, 1) = Whole(1) /\ Frac(0, 1) = Whole(0)
      BY <1>1, Neutral
    <3> QED BY <3>1, UnitIs, PolyAt, SamePoly DEF Poly
  <2> QED BY <1>5, <2>1, <2>2, <2>3, <2>4, <2>5 DEF Grown, Ended
<1> QED BY <1>3, <1>4, <1>5

LEMMA WholePlus ==
  ASSUME NEW c \in Int, NEW n \in Int, NEW d \in Positive
  PROVE  Whole(c) (+) Frac(n, d) = Frac(c * d + n, d)
<1>1. d \in Int /\ 1 \in Positive /\ Whole(c) = Frac(c, 1)
  BY WholeFrac DEF Positive
<1>2. Frac(c, 1) (+) Frac(n, d) = Frac(c * d + n * 1, 1 * d)
  BY <1>1, AddFrac
<1>3. n * 1 = n /\ 1 * d = d
  BY <1>1
<1> QED BY <1>1, <1>2, <1>3

\* What a stage reaches, in time.
LEMMA StepTime ==
  ASSUME NEW c \in Int, NEW s \in 0..2
  PROVE  (Whole(c) (+) Early(s)[1]) (+) Whole(1) = Whole(c) (+) Grown(s)[1]
<1>1. 1 \in Positive /\ 4 \in Positive /\ Whole(1) = Frac(1, 1) /\ Whole(1) = Frac(4, 4)
      /\ Whole(0) = Frac(0, 1)
  BY Literals, Neutral, WholeFrac
<1>2. \A n \in Int, d \in Positive : Whole(c) (+) Frac(n, d) = Frac(c * d + n, d)
  BY WholePlus
<1>3. \A n \in Int, d \in Positive : Frac(n, d) (+) Frac(d, d) = Frac(n + d, d)
  BY AddSame DEF Positive
<1>4. CASE s = 0
  <2>1. Early(s)[1] = Frac(0, 1) /\ Grown(s)[1] = Frac(1, 1)
    BY <1>4, UnitIs, PolyAt DEF Early, Grown
  <2>2. Whole(c) (+) Frac(0, 1) = Frac(c * 1 + 0, 1) /\ Whole(c) (+) Frac(1, 1) = Frac(c * 1 + 1, 1)
    BY <1>1, <1>2
  <2>3. Frac(c, 1) (+) Frac(1, 1) = Frac(c + 1, 1)
    BY <1>1, <1>3
  <2>4. c * 1 + 0 = c /\ c * 1 + 1 = c + 1
    OBVIOUS
  <2> QED BY <2>1, <2>2, <2>3, <2>4, <1>1
<1>5. CASE s = 1
  <2>1. Early(s)[1] = Frac(1, 1) /\ Grown(s)[1] = Frac(2, 1)
    BY <1>5, PolyAt DEF Early, Grown
  <2>2. Whole(c) (+) Frac(1, 1) = Frac(c * 1 + 1, 1) /\ Whole(c) (+) Frac(2, 1) = Frac(c * 1 + 2, 1)
    BY <1>1, <1>2
  <2>3. Frac(c * 1 + 1, 1) (+) Frac(1, 1) = Frac(c * 1 + 1 + 1, 1)
    BY <1>1, <1>3
  <2>4. c * 1 + 1 + 1 = c * 1 + 2
    OBVIOUS
  <2> QED BY <2>1, <2>2, <2>3, <2>4, <1>1
<1>6. CASE s = 2
  <2>1. Early(s)[1] = Frac(2, 4) /\ Grown(s)[1] = Frac(6, 4)
    BY <1>6, PolyAt DEF Early, Grown
  <2>2. Whole(c) (+) Frac(2, 4) = Frac(c * 4 + 2, 4) /\ Whole(c) (+) Frac(6, 4) = Frac(c * 4 + 6, 4)
    BY <1>1, <1>2
  <2>3. Frac(c * 4 + 2, 4) (+) Frac(4, 4) = Frac(c * 4 + 2 + 4, 4)
    BY <1>1, <1>3
  <2>4. c * 4 + 2 + 4 = c * 4 + 6
    OBVIOUS
  <2> QED BY <2>1, <2>2, <2>3, <2>4, <1>1
<1> QED BY <1>4, <1>5, <1>6

LEMMA WeightedTime ==
  ASSUME NEW c \in Int, NEW n \in 2..3, NEW s \in 1..(n - 1)
  PROVE  (wc[n][s] (.) (Whole(c) (+) Grown(s)[1])) (+) (w0[n][s] (.) Whole(c))
            = Whole(c) (+) Ended(n, s)[1]
<1>1. /\ 1 \in Positive /\ 2 \in Positive /\ 3 \in Positive /\ 4 \in Positive /\ 12 \in Positive
      /\ <<1, 2>> = Frac(1, 2) /\ <<1, 3>> = Frac(1, 3) /\ <<2, 3>> = Frac(2, 3)
      /\ <<1, 4>> = Frac(1, 4) /\ <<3, 4>> = Frac(3, 4) /\ Whole(c) = Frac(c, 1)
  BY Literals, WholeFrac
<1>2. n \in 1..3 /\ wc[n] = (IF n = 2 THEN <<<<1, 2>>>> ELSE <<<<1, 4>>, <<2, 3>>>>)
      /\ w0[n] = (IF n = 2 THEN <<<<1, 2>>>> ELSE <<<<3, 4>>, <<1, 3>>>>)
  <2>1. n \in 1..3 /\ (n = 2 \/ n = 3)
    OBVIOUS
  <2> QED BY <2>1 DEF wc, w0
<1>3. \A k \in Int, d \in Positive : Whole(c) (+) Frac(k, d) = Frac(c * d + k, d)
  BY WholePlus
<1>4. \A k, l \in Int, d \in Positive : Frac(k, d) (+) Frac(l, d) = Frac(k + l, d)
  BY AddSame
<1>5. \A p, k \in Int, q, d \in Positive : Frac(p, q) (.) Frac(k, d) = Frac(p * k, q * d)
  BY MulFrac
<1>6. CASE n = 2 /\ s = 1
  <2>1. wc[n][s] = Frac(1, 2) /\ w0[n][s] = Frac(1, 2)
    BY <1>1, <1>2, <1>6
  <2>2. Grown(s)[1] = Frac(2, 1) /\ Ended(n, s)[1] = Frac(2, 2)
    BY <1>6, PolyAt DEF Grown, Ended
  <2>3. Whole(c) (+) Frac(2, 1) = Frac(c * 1 + 2, 1) /\ Whole(c) (+) Frac(2, 2) = Frac(c * 2 + 2, 2)
    BY <1>1, <1>3
  <2>4. Frac(1, 2) (.) Frac(c * 1 + 2, 1) = Frac(1 * (c * 1 + 2), 2 * 1)
        /\ Frac(1, 2) (.) Frac(c, 1) = Frac(1 * c, 2 * 1)
    <3>1. c * 1 + 2 \in Int /\ 1 \in Int /\ 2 \in Int /\ 3 \in Int
      OBVIOUS
    <3> HIDE DEF Positive
    <3> QED BY <3>1, <1>1, MulFrac
  <2>5. Frac(1 * (c * 1 + 2), 2) (+) Frac(1 * c, 2) = Frac(1 * (c * 1 + 2) + 1 * c, 2)
    BY <1>1, <1>4
  <2>6. 2 * 1 = 2 /\ 1 * (c * 1 + 2) + 1 * c = c * 2 + 2
    OBVIOUS
  <2> QED BY <2>1, <2>2, <2>3, <2>4, <2>5, <2>6, <1>1
<1>7. CASE n = 3 /\ s = 1
  <2>1. wc[n][s] = Frac(1, 4) /\ w0[n][s] = Frac(3, 4)
    BY <1>1, <1>2, <1>7
  <2>2. Grown(s)[1] = Frac(2, 1) /\ Ended(n, s)[1] = Frac(2, 4)
    BY <1>7, PolyAt DEF Grown, Ended
  <2>3. Whole(c) (+) Frac(2, 1) = Frac(c * 1 + 2, 1) /\ Whole(c) (+) Frac(2, 4) = Frac(c * 4 + 2, 4)
    BY <1>1, <1>3
  <2>4. Frac(1, 4) (.) Frac(c * 1 + 2, 1) = Frac(1 * (c * 1 + 2), 4 * 1)
        /\ Frac(3, 4) (.) Frac(c, 1) = Frac(3 * c, 4 * 1)
    <3>1. c * 1 + 2 \in Int /\ 1 \in Int /\ 2 \in Int /\ 3 \in Int
      OBVIOUS
    <3> HIDE DEF Positive
    <3> QED BY <3>1, <1>1, MulFrac
  <2>5. Frac(1 * (c * 1 + 2), 4) (+) Frac(3 * c, 4) = Frac(1 * (c * 1 + 2) + 3 * c, 4)
    BY <1>1, <1>4
  <2>6. 4 * 1 = 4 /\ 1 * (c * 1 + 2) + 3 * c = c * 4 + 2
    OBVIOUS
  <2> QED BY <2>1, <2>2, <2>3, <2>4, <2>5, <2>6, <1>1
<1>8. CASE n = 3 /\ s = 2
  <2>1. wc[n][s] = Frac(2, 3) /\ w0[n][s] = Frac(1, 3)
    BY <1>1, <1>2, <1>8
  <2>2. Grown(s)[1] = Frac(6, 4) /\ Ended(n, s)[1] = Frac(12, 12)
    BY <1>8, PolyAt DEF Grown, Ended
  <2>3. /\ Whole(c) (+) Frac(6, 4) = Frac(c * 4 + 6, 4) /\ Whole(c) (+) Frac(12, 12) = Frac(c * 12 + 12, 12)
        /\ Whole(c) (+) Frac(0, 4) = Frac(c * 4 + 0, 4) /\ Whole(c) (+) Frac(0, 1) = Frac(c * 1 + 0, 1)
    BY <1>1, <1>3
  <2>7. Whole(c) = Frac(c * 4, 4)
    <3>1. Frac(0, 4) = Frac(0, 1)
      BY <1>1, Neutral
    <3>2. c * 4 + 0 = c * 4 /\ c * 1 + 0 = c
      OBVIOUS
    <3> QED BY <3>1, <3>2, <2>3, <1>1
  <2>4. Frac(2, 3) (.) Frac(c * 4 + 6, 4) = Frac(2 * (c * 4 + 6), 3 * 4)
        /\ Frac(1, 3) (.) Frac(c * 4, 4) = Frac(1 * (c * 4), 3 * 4)
    <3>1. c * 4 + 6 \in Int /\ c * 4 \in Int /\ 1 \in Int /\ 2 \in Int /\ 3 \in Int
      OBVIOUS
    <3> HIDE DEF Positive
    <3>2. 3 \in Positive /\ 4 \in Positive
      BY <1>1
    <3>3. Frac(2, 3) (.) Frac(c * 4 + 6, 4) = Frac(2 * (c * 4 + 6), 3 * 4)
      BY <3>1, <3>2, MulFrac
    <3>4. Frac(1, 3) (.) Frac(c * 4, 4) = Frac(1 * (c * 4), 3 * 4)
      BY <3>1, <3>2, MulFrac
    <3> QED BY <3>3, <3>4
  <2>5. Frac(2 * (c * 4 + 6), 12) (+) Frac(1 * (c * 4), 12) = Frac(2 * (c * 4 + 6) + 1 * (c * 4), 12)
    BY <1>1, <1>4
  <2>6. 3 * 4 = 12 /\ 2 * (c * 4 + 6) + 1 * (c * 4) = c * 12 + 12
    OBVIOUS
  <2> QED BY <2>1, <2>2, <2>3, <2>4, <2>5, <2>6, <2>7, <1>1
<1> QED BY <1>6, <1>7, <1>8

LEMMA EndedEarly ==
  ASSUME NEW n \in 1..3, NEW s \in 0..(n - 2)
  PROVE  Ended(n, s) = Early(s + 1)
<1>1. s = 0 \/ (s = 1 /\ n = 3)
  OBVIOUS
<1> QED BY <1>1 DEF Ended, Early

\* The last stage has made the exponential, to the order of the integrator.
LEMMA EndedLast ==
  ASSUME NEW n \in 1..3
  PROVE  /\ \A d \in 0..n : Ended(n, n - 1)[d] = Exponential[d]
         /\ Ended(n, n - 1)[1] = Whole(1)
<1>1. /\ 1 \in Positive /\ 2 \in Positive /\ 6 \in Positive /\ 12 \in Positive
      /\ <<1, 2>> = Frac(1, 2) /\ <<1, 6>> = Frac(1, 6)
  BY Literals
<1>2. Whole(1) = Frac(1, 1) /\ Whole(1) = Frac(2, 2) /\ Whole(1) = Frac(12, 12)
  BY <1>1, Neutral
<1>3. Frac(6, 12) = Frac(1, 2) /\ Frac(2, 12) = Frac(1, 6)
  <2>1. 6 * 2 = 1 * 12 /\ 2 * 6 = 1 * 12
    OBVIOUS
  <2> QED BY <2>1, <1>1, FracSame
<1>4. /\ Exponential[0] = Whole(1) /\ Exponential[1] = Whole(1) /\ Exponential[2] = <<1, 2>>
      /\ Exponential[3] = <<1, 6>>
  BY DEF Exponential, Degrees
<1>5. CASE n = 1
  <2>1. Ended(n, n - 1) = Poly(1, 1, 0, 0, 1)
    BY <1>5 DEF Ended
  <2>2. \A d \in 0..n : d = 0 \/ d = 1
    BY <1>5
  <2> QED BY <2>1, <2>2, <1>2, <1>4, PolyAt
<1>6. CASE n = 2
  <2>1. Ended(n, n - 1) = Poly(2, 2, 1, 0, 2)
    BY <1>6 DEF Ended
  <2>2. \A d \in 0..n : d = 0 \/ d = 1 \/ d = 2
    BY <1>6
  <2> QED BY <2>1, <2>2, <1>1, <1>2, <1>4, PolyAt
<1>7. CASE n = 3
  <2>1. Ended(n, n - 1) = Poly(12, 12, 6, 2, 12)
    BY <1>7 DEF Ended
  <2>2. \A d \in 0..n : d = 0 \/ d = 1 \/ d = 2 \/ d = 3
    BY <1>7
  <2> QED BY <2>1, <2>2, <1>1, <1>2, <1>3, <1>4, PolyAt
<1> QED BY <1>5, <1>6, <1>7
-----------------------------------------------------------------------------
(* The stages of Runge-Kutta-Legendre: one term of the recurrence. c/j is a    *)
(* factor of mu or of nu, and the b of stage i is B_i/D_i.                      *)

\* Products, opaque.
Times(x, y) == x * y

Thrice(x, y, z) == x * (y * z)

GammaOf(c, B, B1, D1) == 0 - (D1 - B1) * (4 * (c * B))

\* The recurrence between numerators, for the coefficient of degree 1 and of
\* degree 2.
Recurs1(c, e, j, X1, X2, X) == c * X1 + e * X2 + 4 * c = j * X

Recurs2(c, e, j, K1, K2, K, X1) == c * K1 + e * K2 + 4 * (c * X1) = j * K

\* The numbers of a term, and of the two degrees.
OfTerm(c, j, B, D, B1, D1, X, V) ==
  /\ c \in Int /\ X \in Int /\ j \in Positive /\ B \in Positive /\ D \in Positive
  /\ B1 \in Positive /\ D1 \in Positive /\ V \in Positive

OfFirst(c, e, j, B, D, B1, D1, W, X1, X2, X) ==
  /\ OfTerm(c, j, B, D, B1, D1, X1, W)
  /\ e \in Int /\ X2 \in Int /\ X \in Int /\ Recurs1(c, e, j, X1, X2, X)

OfSecond(c, e, j, B, D, W, X1, K1, K2, K) ==
  /\ c \in Int /\ e \in Int /\ j \in Positive /\ B \in Positive /\ D \in Positive /\ W \in Positive
  /\ X1 \in Int /\ K1 \in Int /\ K2 \in Int /\ K \in Int /\ Recurs2(c, e, j, K1, K2, K, X1)

LEMMA MulSame ==
  ASSUME NEW n \in Int, NEW d \in Positive, NEW m \in Int, NEW e \in Positive,
         NEW p \in Int, NEW q \in Positive, (n * m) * q = p * (d * e)
  PROVE  Frac(n, d) (.) Frac(m, e) = Frac(p, q)
<1> DEFINE u == n * m
           v == d * e
<1>1. u \in Int /\ v \in Positive
  BY Products
<1>2. Frac(n, d) (.) Frac(m, e) = Frac(u, v)
  BY MulFrac
<1> HIDE DEF u, v
<1>3. u * q = p * v
  BY DEF u, v
<1> QED BY <1>1, <1>2, <1>3, FracSame

LEMMA WholeProducts ==
  /\ \A x, y \in Int : Times(x, y) \in Int
  /\ \A x, y, z \in Int : Thrice(x, y, z) \in Int
  /\ \A x, y \in Positive : Times(x, y) \in Positive
  /\ \A x, y, z \in Positive : Thrice(x, y, z) \in Positive
<1>1. \A x, y \in Int : x * y \in Int
  OBVIOUS
<1>2. \A x, y \in Positive : x * y \in Positive
  BY Products
<1> QED BY <1>1, <1>2 DEF Times, Thrice

LEMMA Factor ==
  ASSUME NEW c, NEW j, NEW B, NEW D, NEW B1, NEW D1, NEW X, NEW V, OfTerm(c, j, B, D, B1, D1, X, V)
  PROVE  Frac(c, j) (.) (Frac(B, D) (/) Frac(B1, D1)) = Frac(Thrice(c, B, D1), Thrice(j, D, B1))
<1>0. /\ c \in Int /\ X \in Int /\ j \in Positive /\ B \in Positive /\ D \in Positive
      /\ B1 \in Positive /\ D1 \in Positive /\ V \in Positive
  BY DEF OfTerm
<1> USE <1>0
<1>1. B \in Int /\ D1 \in Int /\ B * D1 \in Int /\ D * B1 \in Positive
  BY Products DEF Positive
<1>2. Frac(B, D) (/) Frac(B1, D1) = Frac(B * D1, D * B1)
  BY <1>1, DivFrac
<1> DEFINE u == B * D1
           v == D * B1
<1> HIDE DEF u, v
<1>3. u \in Int /\ v \in Positive
  BY <1>1 DEF u, v
<1>4. Frac(c, j) (.) Frac(u, v) = Frac(c * u, j * v)
  BY <1>3, MulFrac
<1>5. c * u \in Int /\ j * v \in Positive
  BY <1>3, Products
<1> QED BY <1>2, <1>4, <1>5 DEF u, v, Thrice

LEMMA Term ==
  ASSUME NEW c, NEW j, NEW B, NEW D, NEW B1, NEW D1, NEW X, NEW V, OfTerm(c, j, B, D, B1, D1, X, V)
  PROVE  Frac(Thrice(c, B, D1), Thrice(j, D, B1)) (.) Frac(Times(B1, X), Times(D1, V))
               = Frac(Thrice(c, B, X), Thrice(j, D, V))
<1>0. /\ c \in Int /\ X \in Int /\ j \in Positive /\ B \in Positive /\ D \in Positive
      /\ B1 \in Positive /\ D1 \in Positive /\ V \in Positive
  BY DEF OfTerm
<1> USE <1>0
<1>1. B \in Int /\ D1 \in Int /\ B1 \in Int /\ D \in Int /\ j \in Int /\ V \in Int
  BY DEF Positive
<1>2. c * (B * D1) \in Int /\ B1 * X \in Int /\ c * (B * X) \in Int
  BY <1>1
<1>3. D * B1 \in Positive /\ D * V \in Positive /\ D1 * V \in Positive
  BY Products
<1>4. j * (D * B1) \in Positive /\ j * (D * V) \in Positive
  BY <1>3, Products
<1>5. ((c * (B * D1)) * (B1 * X)) * (j * (D * V)) = (c * (B * X)) * ((j * (D * B1)) * (D1 * V))
  BY <1>1
<1> DEFINE n == c * (B * D1)
           d == j * (D * B1)
           m == B1 * X
           e == D1 * V
           p == c * (B * X)
           q == j * (D * V)
<1>6. n \in Int /\ d \in Positive /\ m \in Int /\ e \in Positive /\ p \in Int /\ q \in Positive
      /\ (n * m) * q = p * (d * e)
  BY <1>2, <1>3, <1>4, <1>5
<1> HIDE DEF n, d, m, e, p, q
<1>7. Frac(n, d) (.) Frac(m, e) = Frac(p, q)
  BY <1>6, MulSame
<1> QED BY <1>6, <1>7 DEF n, d, m, e, p, q, Thrice, Times

\* What multiplies dU, then dU0.
LEMMA Tilde ==
  ASSUME NEW c, NEW j, NEW B, NEW D, NEW B1, NEW D1, NEW X, NEW W, OfTerm(c, j, B, D, B1, D1, X, W)
  PROVE  /\ Frac(4, W) (.) Frac(Thrice(c, B, D1), Thrice(j, D, B1))
              = Frac(Times(4, Thrice(c, B, D1)), Times(W, Thrice(j, D, B1)))
         /\ Whole(0) (-) ((Whole(1) (-) Frac(B1, D1))
                            (.) Frac(Times(4, Thrice(c, B, D1)), Times(W, Thrice(j, D, B1))))
              = Frac(GammaOf(c, B, B1, D1), Times(W, Thrice(j, D, B1)))
<1>0. /\ c \in Int /\ X \in Int /\ j \in Positive /\ B \in Positive /\ D \in Positive
      /\ B1 \in Positive /\ D1 \in Positive /\ W \in Positive
  BY DEF OfTerm
<1> USE <1>0
<1>1. B \in Int /\ D1 \in Int /\ B1 \in Int /\ D \in Int /\ j \in Int /\ W \in Int /\ 4 \in Int
  BY DEF Positive
<1>2. c * (B * D1) \in Int /\ 4 * (c * (B * D1)) \in Int /\ (D1 - B1) * (4 * (c * B)) \in Int /\ D1 - B1 \in Int
  BY <1>1
<1>3. j * (D * B1) \in Positive
  BY WholeProducts DEF Thrice
<1>4. W * (j * (D * B1)) \in Positive
  BY <1>3, Products
<1> DEFINE n == c * (B * D1)
           d == j * (D * B1)
           m == 4 * (c * (B * D1))
           e == W * (j * (D * B1))
           p == (D1 - B1) * (4 * (c * B))
           k == D1 - B1
<1>5. n \in Int /\ d \in Positive /\ m \in Int /\ e \in Positive /\ p \in Int /\ k \in Int
  BY <1>2, <1>3, <1>4
<1>6. m = 4 * n /\ e = W * d
  OBVIOUS
<1>7. (k * m) * e = p * (D1 * e)
  <2>1. k * m = p * D1
    BY <1>1
  <2> HIDE DEF k, m, e, p
  <2>2. e \in Int
    BY <1>5 DEF Positive
  <2> QED BY <2>1, <2>2, <1>5, <1>1
<1> HIDE DEF n, d, m, e, p, k
<1>8. Frac(4, W) (.) Frac(n, d) = Frac(m, e)
  BY <1>1, <1>5, <1>6, MulFrac
<1>9. Whole(1) (-) Frac(B1, D1) = Frac(k, D1)
  <2>1. Whole(1) = Frac(D1, D1)
    BY <1>1, Neutral
  <2> QED BY <2>1, <1>1, AddSame DEF k
<1>10. Frac(k, D1) (.) Frac(m, e) = Frac(p, e)
  BY <1>5, <1>7, MulSame
<1>11. Whole(0) (-) Frac(p, e) = Frac(0 - p, e)
  <2>1. Whole(0) = Frac(0, e)
    BY <1>5, Neutral
  <2> QED BY <2>1, <1>5, AddSame
<1>12. 0 - p \in Int
  BY <1>5
<1> QED BY <1>5, <1>8, <1>9, <1>10, <1>11, <1>12 DEF n, d, m, e, p, k, Thrice, Times, GammaOf

\* muTilde on the time of the stage before.
LEMMA TildeTerm ==
  ASSUME NEW c, NEW j, NEW B, NEW D, NEW B1, NEW D1, NEW X, NEW W, OfTerm(c, j, B, D, B1, D1, X, W)
  PROVE  Frac(Times(4, Thrice(c, B, D1)), Times(W, Thrice(j, D, B1))) (.) Frac(Times(B1, X), Times(D1, W))
              = Frac(Times(4, Thrice(c, B, X)), Thrice(j, D, Times(W, W)))
<1>0. /\ c \in Int /\ X \in Int /\ j \in Positive /\ B \in Positive /\ D \in Positive
      /\ B1 \in Positive /\ D1 \in Positive /\ W \in Positive
  BY DEF OfTerm
<1> USE <1>0
<1>1. B \in Int /\ D1 \in Int /\ B1 \in Int /\ D \in Int /\ j \in Int /\ W \in Int
  BY DEF Positive
<1> DEFINE n == 4 * (c * (B * D1))
           d == W * (j * (D * B1))
           m == B1 * X
           e == D1 * W
           p == 4 * (c * (B * X))
           q == j * (D * (W * W))
<1>2. n \in Int /\ d \in Positive
  <2>1. n \in Int
    BY <1>1
  <2>2. j * (D * B1) \in Positive
    BY WholeProducts DEF Thrice
  <2> QED BY <2>1, <2>2, Products
<1>3. m \in Int /\ p \in Int
  BY <1>1
<1>4. e \in Positive /\ q \in Positive
  <2>1. D1 * W \in Positive /\ W * W \in Positive
    BY Products
  <2>2. D * (W * W) \in Positive
    BY <2>1, Products
  <2> QED BY <2>1, <2>2, Products
<1>5. (n * m) * q = p * (d * e)
  BY <1>1
<1> HIDE DEF n, d, m, e, p, q
<1>6. Frac(n, d) (.) Frac(m, e) = Frac(p, q)
  BY <1>2, <1>3, <1>4, <1>5, MulSame
<1> QED BY <1>3, <1>4, <1>6 DEF n, d, m, e, p, q, Times, Thrice

\* Three terms over one denominator.
LEMMA Add3 ==
  ASSUME NEW x \in Int, NEW y \in Int, NEW z \in Int, NEW q \in Positive,
         NEW p \in Int, NEW r \in Positive, (x + y + z) * r = p * q
  PROVE  (Frac(x, q) (+) Frac(y, q)) (+) Frac(z, q) = Frac(p, r)
<1> DEFINE u == x + y
           v == x + y + z
<1>1. u \in Int /\ v \in Int /\ v = u + z
  OBVIOUS
<1>2. v * r = p * q
  OBVIOUS
<1>3. Frac(x, q) (+) Frac(y, q) = Frac(u, q)
  BY AddSame
<1> HIDE DEF u, v
<1>4. Frac(u, q) (+) Frac(z, q) = Frac(v, q)
  BY <1>1, AddSame
<1>5. Frac(v, q) = Frac(p, r)
  BY <1>1, <1>2, FracSame
<1> QED BY <1>3, <1>4, <1>5

\* The coefficient of degree 2 of a stage of order 2.
LEMMA SecondDegree ==
  ASSUME NEW c, NEW e, NEW j, NEW B, NEW D, NEW W, NEW X1, NEW K1, NEW K2, NEW K,
         OfSecond(c, e, j, B, D, W, X1, K1, K2, K)
  PROVE  (Frac(Thrice(c, B, K1), Thrice(j, D, Times(W, W))) (+) Frac(Thrice(e, B, K2), Thrice(j, D, Times(W, W))))
            (+) Frac(Times(4, Thrice(c, B, X1)), Thrice(j, D, Times(W, W))) = Frac(Times(B, K), Times(D, Times(W, W)))
<1>m. /\ c \in Int /\ e \in Int /\ j \in Positive /\ B \in Positive /\ D \in Positive /\ W \in Positive
      /\ X1 \in Int /\ K1 \in Int /\ K2 \in Int /\ K \in Int
  BY DEF OfSecond
<1> USE <1>m
<1>0. c * K1 + e * K2 + 4 * (c * X1) = j * K
  BY DEF OfSecond, Recurs2
<1>1. B \in Int /\ D \in Int /\ j \in Int /\ W \in Int
  BY DEF Positive
<1> DEFINE x == c * (B * K1)
           y == e * (B * K2)
           z == 4 * (c * (B * X1))
           r == D * (W * W)
           q == j * r
           p == B * K
<1>2. x \in Int /\ y \in Int /\ z \in Int /\ p \in Int
  BY <1>1
<1>3. r \in Positive /\ q \in Positive
  <2>1. W * W \in Positive
    BY Products
  <2>2. r \in Positive
    BY <2>1, Products
  <2> QED BY <2>2, Products
<1>4. (x + y + z) * r = p * q
  <2>1. x + y + z = B * (c * K1 + e * K2 + 4 * (c * X1))
    BY <1>1
  <2>2. B * (j * K) = p * j
    BY <1>1
  <2>3. x + y + z = p * j
    BY <1>0, <2>1, <2>2
  <2> HIDE DEF x, y, z, r, p
  <2>4. r \in Int
    BY <1>3 DEF Positive
  <2> QED BY <2>3, <2>4, <1>1, <1>2
<1> HIDE DEF x, y, z, r, q, p
<1>5. (Frac(x, q) (+) Frac(y, q)) (+) Frac(z, q) = Frac(p, r)
  BY <1>2, <1>3, <1>4, Add3
<1> QED BY <1>5 DEF x, y, z, r, q, p, Times, Thrice

\* The one of degree 1, with gamma.
LEMMA FirstDegree ==
  ASSUME NEW c, NEW e, NEW j, NEW B, NEW D, NEW B1, NEW D1, NEW W, NEW X1, NEW X2, NEW X,
         OfFirst(c, e, j, B, D, B1, D1, W, X1, X2, X)
  PROVE  ((Frac(Thrice(c, B, X1), Thrice(j, D, W)) (+) Frac(Thrice(e, B, X2), Thrice(j, D, W)))
            (+) Frac(Times(4, Thrice(c, B, D1)), Times(W, Thrice(j, D, B1))))
            (+) Frac(GammaOf(c, B, B1, D1), Times(W, Thrice(j, D, B1))) = Frac(Times(B, X), Times(D, W))
<1>m. /\ c \in Int /\ X1 \in Int /\ j \in Positive /\ B \in Positive /\ D \in Positive
      /\ B1 \in Positive /\ D1 \in Positive /\ W \in Positive
      /\ e \in Int /\ X2 \in Int /\ X \in Int
  BY DEF OfFirst, OfTerm
<1> USE <1>m
<1>0. c * X1 + e * X2 + 4 * c = j * X
  BY DEF OfFirst, Recurs1
<1>1. B \in Int /\ D \in Int /\ j \in Int /\ W \in Int /\ B1 \in Int /\ D1 \in Int
  BY DEF Positive
<1> DEFINE x == c * (B * X1)
           y == e * (B * X2)
           s == D * W
           q == j * s
           r == W * (j * (D * B1))
           m == (x + y) * B1
           n == 4 * (c * (B * D1))
           g == (D1 - B1) * (4 * (c * B))
           p == B * X
<1>2. x \in Int /\ y \in Int /\ m \in Int /\ n \in Int /\ g \in Int /\ p \in Int /\ x + y \in Int
  BY <1>1
<1>3. s \in Positive /\ q \in Positive /\ r \in Positive
  <2>1. s \in Positive
    BY Products
  <2>2. j * (D * B1) \in Positive
    BY WholeProducts DEF Thrice
  <2> QED BY <2>1, <2>2, Products
<1>4. r = q * B1
  BY <1>1
<1>5. (m + n + (0 - g)) * s = p * r
  <2>1. m + n + (0 - g) = (B * B1) * (c * X1 + e * X2 + 4 * c)
    BY <1>1
  <2>2. (B * B1) * (j * X) = p * (j * B1)
    BY <1>1
  <2>3. m + n + (0 - g) = p * (j * B1)
    BY <1>0, <2>1, <2>2
  <2>4. r = (j * B1) * s
    BY <1>1
  <2> HIDE DEF m, n, g, p, r, s
  <2>5. s \in Int
    BY <1>3 DEF Positive
  <2> QED BY <2>3, <2>4, <2>5, <1>1, <1>2
<1>6. m = (x + y) * B1 /\ 0 - g \in Int
  BY <1>2
<1> HIDE DEF x, y, s, q, r, m, n, g, p
<1>7. Frac(x, q) (+) Frac(y, q) = Frac(m, r)
  <2>1. Frac(x, q) (+) Frac(y, q) = Frac(x + y, q)
    BY <1>2, <1>3, AddSame
  <2>2. (x + y) * r = m * q
    <3>1. q \in Int
      BY <1>3 DEF Positive
    <3> QED BY <3>1, <1>1, <1>2, <1>4, <1>6
  <2>3. Frac(x + y, q) = Frac(m, r)
    BY <2>2, <1>2, <1>3, FracSame
  <2> QED BY <2>1, <2>3
<1>8. (Frac(m, r) (+) Frac(n, r)) (+) Frac(0 - g, r) = Frac(p, s)
  BY <1>2, <1>3, <1>5, <1>6, Add3
<1> QED BY <1>7, <1>8 DEF x, y, s, q, r, m, n, g, p, Times, Thrice, GammaOf
-----------------------------------------------------------------------------
(* The stages of Runge-Kutta-Legendre: what a stage makes of the two before.   *)

Sq(j) == j * j + j

bTop(j) == IF j < 3 THEN 1 ELSE Sq(j) - 2

bBottom(j) == IF j < 3 THEN 3 ELSE 2 * Sq(j)

\* The coefficients of stage j out of s, at order o: the one of degree 1 is its
\* time, too.
First(o, j, s) ==
  IF o = 1 THEN Frac(Sq(j), Sq(s))
  ELSE Frac(bTop(j) * (2 * Sq(j)), bBottom(j) * (Sq(s) - 2))

Second(j, s) == Frac(bTop(j) * (Sq(j) * (Sq(j) - 2)), bBottom(j) * ((Sq(s) - 2) * (Sq(s) - 2)))

IsY(o, f, j, s) ==
  f[0] = Whole(1) /\ f[1] = First(o, j, s) /\ (o = 2 => f[2] = Second(j, s))

\* A stage, from f and, before it, g.
Stepped(j, s, f, g) ==
  LET muTilde == w1(s) (.) mu(j)
      gamma == Whole(0) (-) (a(j - 1) (.) muTilde)
      rest == Whole(1) (-) (mu(j) (+) nu(j))
      next == Sum2(Sum2(Scale(mu(j), f), Scale(nu(j), g)), Scale(muTilde, Raise(f, 2)))
  IN IF conf.rklOrder = 1 THEN next
     ELSE Sum2(next, Sum2(Scale(rest, Unit), Scale(gamma, Raise(Unit, 2))))

LEMMA Squares ==
  ASSUME NEW j \in Nat
  PROVE  /\ Sq(j) \in Int /\ (j >= 1 => Sq(j) \in Positive) /\ (j >= 2 => Sq(j) - 2 \in Positive)
         /\ bTop(j) \in Positive /\ bBottom(j) \in Positive
<1>1. j * j \in Int /\ (j >= 1 => j * j >= 1) /\ (j >= 2 => j * j >= 4)
  OBVIOUS
<1> DEFINE q == j * j
<1> HIDE DEF q
<1>2. q \in Int /\ (j >= 1 => q >= 1) /\ (j >= 2 => q >= 4)
  BY <1>1 DEF q
<1>3. Sq(j) = q + j
  BY DEF Sq, q
<1> QED BY <1>2, <1>3 DEF bTop, bBottom, Positive

LEMMA bIs ==
  ASSUME NEW j \in Nat
  PROVE  b(j) = Frac(bTop(j), bBottom(j))
<1>1. CASE j < 3
  BY <1>1, Literals DEF b, bTop, bBottom
<1>2. CASE j >= 3
  <2>1. (j - 1) * (j - 1) + 3 * (j - 1) = Sq(j) - 2
        /\ 2 * ((j - 1) * (j - 1) + 3 * (j - 1) + 2) = 2 * Sq(j)
    BY DEF Sq
  <2> QED BY <1>2, <2>1 DEF b, bTop, bBottom
<1> QED BY <1>1, <1>2

\* The two polynomials behind the recurrence, of order 1 and of order 2.
LEMMA Recurrence ==
  ASSUME NEW j \in Nat, j >= 2
  PROVE  /\ (2 * j - 1) * Sq(j - 1) + (1 - j) * Sq(j - 2) + 2 * (2 * j - 1) = j * Sq(j)
         /\ (2 * j - 1) * (2 * Sq(j - 1)) + (1 - j) * (2 * Sq(j - 2)) + 4 * (2 * j - 1) = j * (2 * Sq(j))
         /\ (2 * j - 1) * (Sq(j - 1) * (Sq(j - 1) - 2)) + (1 - j) * (Sq(j - 2) * (Sq(j - 2) - 2))
              + 4 * ((2 * j - 1) * (2 * Sq(j - 1))) = j * (Sq(j) * (Sq(j) - 2))
<1>1. Sq(j - 1) = j * j - j /\ Sq(j - 2) = j * j - 3 * j + 2 /\ Sq(j) = j * j + j
  BY DEF Sq
<1>2. (2 * j - 1) * (j * j - j) + (1 - j) * (j * j - 3 * j + 2) + 2 * (2 * j - 1) = j * (j * j + j)
  OBVIOUS
<1>3. (2 * j - 1) * (2 * (j * j - j)) + (1 - j) * (2 * (j * j - 3 * j + 2)) + 4 * (2 * j - 1)
        = j * (2 * (j * j + j))
  OBVIOUS
<1>4. (2 * j - 1) * ((j * j - j) * (j * j - j - 2)) + (1 - j) * ((j * j - 3 * j + 2) * (j * j - 3 * j + 2 - 2))
              + 4 * ((2 * j - 1) * (2 * (j * j - j))) = j * ((j * j + j) * (j * j + j - 2))
  OBVIOUS
<1> QED BY <1>1, <1>2, <1>3, <1>4

\* The degrees of a stage.
LEMMA SteppedAt ==
  ASSUME NEW j, NEW s, NEW f, NEW g
  PROVE  LET muTilde == w1(s) (.) mu(j)
             gamma == Whole(0) (-) (a(j - 1) (.) muTilde)
             rest == Whole(1) (-) (mu(j) (+) nu(j))
             h == Stepped(j, s, f, g)
         IN /\ conf.rklOrder = 1 =>
                 /\ h[0] = ((mu(j) (.) f[0]) (+) (nu(j) (.) g[0])) (+) (muTilde (.) Whole(0))
                 /\ h[1] = ((mu(j) (.) f[1]) (+) (nu(j) (.) g[1])) (+) (muTilde (.) f[0])
            /\ conf.rklOrder = 2 =>
                 /\ h[0] = (((mu(j) (.) f[0]) (+) (nu(j) (.) g[0])) (+) (muTilde (.) Whole(0)))
                              (+) ((rest (.) Whole(1)) (+) (gamma (.) Whole(0)))
                 /\ h[1] = (((mu(j) (.) f[1]) (+) (nu(j) (.) g[1])) (+) (muTilde (.) f[0]))
                              (+) ((rest (.) Whole(0)) (+) (gamma (.) Whole(1)))
                 /\ h[2] = (((mu(j) (.) f[2]) (+) (nu(j) (.) g[2])) (+) (muTilde (.) f[1]))
                              (+) ((rest (.) Whole(0)) (+) (gamma (.) Whole(0)))
<1> DEFINE m == mu(j)
           n == nu(j)
           v == w1(s) (.) mu(j)
           c == Whole(0) (-) (a(j - 1) (.) v)
           r == Whole(1) (-) (mu(j) (+) nu(j))
           X == Scale(m, f)
           Y == Scale(n, g)
           Z == Scale(v, Raise(f, 2))
           S == Sum2(Sum2(X, Y), Z)
           U == Scale(r, Unit)
           V == Scale(c, Raise(Unit, 2))
           T == Sum2(S, Sum2(U, V))
<1>1. 0 \in Degrees /\ 1 \in Degrees /\ 2 \in Degrees
  BY DEF Degrees
<1>2. Unit[0] = Whole(1) /\ Unit[1] = Whole(0) /\ Unit[2] = Whole(0)
  BY <1>1 DEF Unit, Constant
<1>3. \A p : Raise(p, 2)[0] = Whole(0) /\ Raise(p, 2)[1] = p[0] /\ Raise(p, 2)[2] = p[1]
  BY <1>1 DEF Raise
<1>4. Stepped(j, s, f, g) = IF conf.rklOrder = 1 THEN S ELSE T
  BY DEF Stepped
<1> HIDE DEF m, n, v, c, r
<1>5. /\ X[0] = m (.) f[0] /\ X[1] = m (.) f[1] /\ X[2] = m (.) f[2]
      /\ Y[0] = n (.) g[0] /\ Y[1] = n (.) g[1] /\ Y[2] = n (.) g[2]
  BY <1>1 DEF Scale
<1>6. Z[0] = v (.) Whole(0) /\ Z[1] = v (.) f[0] /\ Z[2] = v (.) f[1]
  BY <1>1, <1>3 DEF Scale
<1>7. /\ U[0] = r (.) Whole(1) /\ U[1] = r (.) Whole(0) /\ U[2] = r (.) Whole(0)
      /\ V[0] = c (.) Whole(0) /\ V[1] = c (.) Whole(1) /\ V[2] = c (.) Whole(0)
  BY <1>1, <1>2, <1>3 DEF Scale
<1> HIDE DEF X, Y, Z, U, V
<1>8. \A d \in {0, 1, 2} : S[d] = (X[d] (+) Y[d]) (+) Z[d] /\ T[d] = S[d] (+) (U[d] (+) V[d])
  BY <1>1 DEF Sum2
<1> HIDE DEF S, T
<1>9. conf.rklOrder = 1 =>
        /\ S[0] = ((m (.) f[0]) (+) (n (.) g[0])) (+) (v (.) Whole(0))
        /\ S[1] = ((m (.) f[1]) (+) (n (.) g[1])) (+) (v (.) f[0])
  BY <1>5, <1>6, <1>8
<1>10. /\ T[0] = (((m (.) f[0]) (+) (n (.) g[0])) (+) (v (.) Whole(0))) (+) ((r (.) Whole(1)) (+) (c (.) Whole(0)))
       /\ T[1] = (((m (.) f[1]) (+) (n (.) g[1])) (+) (v (.) f[0])) (+) ((r (.) Whole(0)) (+) (c (.) Whole(1)))
       /\ T[2] = (((m (.) f[2]) (+) (n (.) g[2])) (+) (v (.) f[1])) (+) ((r (.) Whole(0)) (+) (c (.) Whole(0)))
  BY <1>5, <1>6, <1>7, <1>8
<1> QED BY <1>4, <1>9, <1>10 DEF m, n, v, c, r

\* A stage of order 1.
LEMMA SteppedIs1 ==
  ASSUME conf.rklOrder = 1, NEW j \in Nat, j >= 2, NEW s \in Nat, s >= 1, NEW f, NEW g,
         IsY(conf.rklOrder, f, j - 1, s), IsY(conf.rklOrder, g, j - 2, s)
  PROVE  IsY(conf.rklOrder, Stepped(j, s, f, g), j, s)
<1> DEFINE c == 2 * j - 1
           e == 1 - j
           S == Sq(s)
           X1 == Sq(j - 1)
           X2 == Sq(j - 2)
           X == Sq(j)
           h == Stepped(j, s, f, g)
<1>1. c \in Int /\ e \in Int /\ j \in Positive /\ j \in Int /\ S \in Positive /\ X1 \in Int /\ X2 \in Int
      /\ X \in Int
  <2>1. j - 1 \in Nat /\ j - 2 \in Nat
    OBVIOUS
  <2> QED BY <2>1, Squares DEF Positive
<1>2. c * X1 + e * X2 + 2 * c = j * X
  BY Recurrence
<1>3. mu(j) = Frac(c, j) /\ nu(j) = Frac(e, j) /\ w1(s) = Frac(2, S)
  BY DEF mu, nu, w1, Sq
<1>4. /\ f[0] = Whole(1) /\ f[1] = Frac(X1, S) /\ g[0] = Whole(1) /\ g[1] = Frac(X2, S)
      /\ First(conf.rklOrder, j, s) = Frac(X, S)
  BY DEF IsY, First
<1>5. /\ h[0] = ((mu(j) (.) f[0]) (+) (nu(j) (.) g[0])) (+) ((w1(s) (.) mu(j)) (.) Whole(0))
      /\ h[1] = ((mu(j) (.) f[1]) (+) (nu(j) (.) g[1])) (+) ((w1(s) (.) mu(j)) (.) f[0])
  BY SteppedAt
<1>6. c + e = j
  OBVIOUS
<1> HIDE DEF c, e, S, X1, X2, X, h
<1>7. S * j \in Positive /\ j * S \in Positive /\ S * j = j * S /\ 2 * c \in Int /\ S \in Int
  BY <1>1, Products DEF Positive
<1>8. w1(s) (.) mu(j) = Frac(2 * c, j * S)
  <2>1. Frac(2, S) (.) Frac(c, j) = Frac(2 * c, S * j)
    BY <1>1, MulFrac
  <2> QED BY <2>1, <1>3, <1>7
<1>9. h[0] = Whole(1)
  <2>1. Frac(c, j) (.) Whole(1) = Frac(c, j) /\ Frac(e, j) (.) Whole(1) = Frac(e, j)
    BY <1>1, Neutral
  <2>2. Frac(2 * c, j * S) (.) Whole(0) = Whole(0)
    BY <1>7, Neutral
  <2>3. Frac(c, j) (+) Frac(e, j) = Frac(j, j)
    BY <1>1, <1>6, AddSame
  <2>4. Frac(j, j) (+) Whole(0) = Frac(j, j) /\ Frac(j, j) = Whole(1)
    BY <1>1, Neutral
  <2> QED BY <2>1, <2>2, <2>3, <2>4, <1>3, <1>4, <1>5, <1>8
<1>10. h[1] = Frac(X, S)
  <2>1. Frac(c, j) (.) Frac(X1, S) = Frac(c * X1, j * S) /\ Frac(e, j) (.) Frac(X2, S) = Frac(e * X2, j * S)
    BY <1>1, MulFrac, ZenonT(30)
  <2>2. Frac(2 * c, j * S) (.) Whole(1) = Frac(2 * c, j * S)
    BY <1>7, Neutral
  <2>3. (Frac(c * X1, j * S) (+) Frac(e * X2, j * S)) (+) Frac(2 * c, j * S) = Frac(X, S)
    <3> DEFINE x == c * X1
               y == e * X2
               z == 2 * c
               q == j * S
    <3>1. x \in Int /\ y \in Int /\ z \in Int /\ q \in Positive
      BY <1>1, <1>7
    <3>2. (x + y + z) * S = X * q
      <4>1. x + y + z = j * X
        BY <1>2
      <4>2. (j * X) * S = X * q
        BY <1>1, <1>7
      <4> QED BY <4>1, <4>2
    <3> HIDE DEF x, y, z, q
    <3>4. S \in Positive /\ X \in Int
      BY <1>1
    <3>3. (Frac(x, q) (+) Frac(y, q)) (+) Frac(z, q) = Frac(X, S)
      BY <3>1, <3>2, <3>4, Add3
    <3> QED BY <3>3 DEF x, y, z, q
  <2> QED BY <2>1, <2>2, <2>3, <1>3, <1>4, <1>5, <1>8
<1> QED BY <1>4, <1>9, <1>10 DEF IsY, h

\* The numbers of a stage of order 2, with mu, nu, muTilde, gamma, and the rest.
OfStage(c, e, j, W, B, D, B1, D1, B2, D2, X1, X2, X, K1, K2, K, m, n, v, k, r) ==
  /\ OfFirst(c, e, j, B, D, B1, D1, W, X1, X2, X) /\ OfSecond(c, e, j, B, D, W, X1, K1, K2, K)
  /\ OfTerm(e, j, B, D, B2, D2, X2, W)
  /\ m = Frac(c, j) (.) (Frac(B, D) (/) Frac(B1, D1)) /\ n = Frac(e, j) (.) (Frac(B, D) (/) Frac(B2, D2))
  /\ v = Frac(4, W) (.) m /\ k = Whole(0) (-) ((Whole(1) (-) Frac(B1, D1)) (.) v)
  /\ r = Whole(1) (-) (m (+) n)

\* The fractions of a stage of order 2.
LEMMA Order2 ==
  ASSUME NEW c, NEW e, NEW j, NEW W, NEW B, NEW D, NEW B1, NEW D1, NEW B2, NEW D2,
         NEW X1, NEW X2, NEW X, NEW K1, NEW K2, NEW K, NEW m, NEW n, NEW v, NEW k, NEW r,
         OfStage(c, e, j, W, B, D, B1, D1, B2, D2, X1, X2, X, K1, K2, K, m, n, v, k, r)
  PROVE  /\ (((m (.) Whole(1)) (+) (n (.) Whole(1))) (+) (v (.) Whole(0)))
               (+) ((r (.) Whole(1)) (+) (k (.) Whole(0))) = Whole(1)
         /\ (((m (.) Frac(Times(B1, X1), Times(D1, W))) (+) (n (.) Frac(Times(B2, X2), Times(D2, W)))) (+) (v (.) Whole(1)))
               (+) ((r (.) Whole(0)) (+) (k (.) Whole(1))) = Frac(Times(B, X), Times(D, W))
         /\ (((m (.) Frac(Times(B1, K1), Times(D1, Times(W, W)))) (+) (n (.) Frac(Times(B2, K2), Times(D2, Times(W, W)))))
                (+) (v (.) Frac(Times(B1, X1), Times(D1, W))))
               (+) ((r (.) Whole(0)) (+) (k (.) Whole(0))) = Frac(Times(B, K), Times(D, Times(W, W)))
<1>s. /\ OfFirst(c, e, j, B, D, B1, D1, W, X1, X2, X) /\ OfSecond(c, e, j, B, D, W, X1, K1, K2, K)
      /\ OfTerm(e, j, B, D, B2, D2, X2, W)
      /\ m = Frac(c, j) (.) (Frac(B, D) (/) Frac(B1, D1)) /\ n = Frac(e, j) (.) (Frac(B, D) (/) Frac(B2, D2))
      /\ v = Frac(4, W) (.) m /\ k = Whole(0) (-) ((Whole(1) (-) Frac(B1, D1)) (.) v)
      /\ r = Whole(1) (-) (m (+) n)
  BY DEF OfStage
<1> USE <1>s
<1> DEFINE mt == Thrice(c, B, D1)
           mb == Thrice(j, D, B1)
           nt == Thrice(e, B, D2)
           nb == Thrice(j, D, B2)
           vt == Times(4, Thrice(c, B, D1))
           vb == Times(W, Thrice(j, D, B1))
           kt == GammaOf(c, B, B1, D1)
<1>t. OfTerm(c, j, B, D, B1, D1, X1, W)
  BY DEF OfFirst
<1>m. /\ c \in Int /\ e \in Int /\ j \in Positive /\ B \in Positive /\ D \in Positive /\ W \in Positive
      /\ B1 \in Positive /\ D1 \in Positive /\ B2 \in Positive /\ D2 \in Positive /\ K \in Int
      /\ K1 \in Int /\ K2 \in Int
  BY <1>t DEF OfTerm, OfSecond
<1>0. /\ mt \in Int /\ mb \in Positive /\ nt \in Int /\ nb \in Positive
      /\ vt \in Int /\ vb \in Positive /\ kt \in Int
  <2>1. B \in Int /\ B1 \in Int /\ D1 \in Int /\ D2 \in Int /\ 4 \in Int
    BY <1>m DEF Positive
  <2>2. mt \in Int /\ mb \in Positive /\ nt \in Int /\ nb \in Positive
    BY <1>m, <2>1, WholeProducts
  <2>3. vt \in Int /\ vb \in Positive
    <3> HIDE DEF mt, mb
    <3>1. vt = Times(4, mt) /\ vb = Times(W, mb)
      BY DEF mt, mb
    <3> QED BY <3>1, <2>1, <2>2, <1>m, WholeProducts
  <2>4. kt \in Int
    BY <1>m, <2>1 DEF GammaOf
  <2> QED BY <2>2, <2>3, <2>4
<1>1. m = Frac(mt, mb) /\ mt \in Int /\ mb \in Positive
  BY <1>0, <1>t, Factor
<1>2. n = Frac(nt, nb) /\ nt \in Int /\ nb \in Positive
  BY <1>0, <1>t, Factor
<1>3. v = Frac(vt, vb) /\ vt \in Int /\ vb \in Positive
  <2>1. Frac(4, W) (.) Frac(mt, mb) = Frac(vt, vb)
    BY <1>t, Tilde
  <2> QED BY <2>1, <1>0, <1>1
<1>4. k = Frac(kt, vb) /\ kt \in Int
  <2>1. Whole(0) (-) ((Whole(1) (-) Frac(B1, D1)) (.) Frac(vt, vb)) = Frac(kt, vb)
    BY <1>t, Tilde
  <2> QED BY <2>1, <1>0, <1>3
<1>5. m (.) Frac(Times(B1, X1), Times(D1, W)) = Frac(Thrice(c, B, X1), Thrice(j, D, W))
  <2>1. Frac(mt, mb) (.) Frac(Times(B1, X1), Times(D1, W)) = Frac(Thrice(c, B, X1), Thrice(j, D, W))
    BY <1>t, Term
  <2> QED BY <2>1, <1>1
<1>6. n (.) Frac(Times(B2, X2), Times(D2, W)) = Frac(Thrice(e, B, X2), Thrice(j, D, W))
  <2>1. Frac(nt, nb) (.) Frac(Times(B2, X2), Times(D2, W)) = Frac(Thrice(e, B, X2), Thrice(j, D, W))
    BY <1>t, Term
  <2> QED BY <2>1, <1>2
<1>7. /\ m (.) Frac(Times(B1, K1), Times(D1, Times(W, W))) = Frac(Thrice(c, B, K1), Thrice(j, D, Times(W, W)))
      /\ n (.) Frac(Times(B2, K2), Times(D2, Times(W, W))) = Frac(Thrice(e, B, K2), Thrice(j, D, Times(W, W)))
  <2> DEFINE V == Times(W, W)
  <2>1. V \in Positive
    BY <1>m, Products DEF Times
  <2> HIDE DEF V
  <2>0. OfTerm(c, j, B, D, B1, D1, K1, V) /\ OfTerm(e, j, B, D, B2, D2, K2, V)
    BY <1>m, <2>1 DEF OfTerm
  <2>2. Frac(mt, mb) (.) Frac(Times(B1, K1), Times(D1, V)) = Frac(Thrice(c, B, K1), Thrice(j, D, V))
    BY <2>0, Term
  <2>3. Frac(nt, nb) (.) Frac(Times(B2, K2), Times(D2, V)) = Frac(Thrice(e, B, K2), Thrice(j, D, V))
    BY <2>0, Term
  <2> QED BY <2>2, <2>3, <1>1, <1>2 DEF V
<1>8. v (.) Frac(Times(B1, X1), Times(D1, W)) = Frac(Times(4, Thrice(c, B, X1)), Thrice(j, D, Times(W, W)))
  <2>1. Frac(vt, vb) (.) Frac(Times(B1, X1), Times(D1, W)) = Frac(Times(4, Thrice(c, B, X1)), Thrice(j, D, Times(W, W)))
    BY <1>t, TildeTerm
  <2> QED BY <2>1, <1>3
<1>9. ((Frac(Thrice(c, B, X1), Thrice(j, D, W)) (+) Frac(Thrice(e, B, X2), Thrice(j, D, W))) (+) Frac(vt, vb))
          (+) Frac(kt, vb) = Frac(Times(B, X), Times(D, W))
  BY FirstDegree
<1>10. (Frac(Thrice(c, B, K1), Thrice(j, D, Times(W, W))) (+) Frac(Thrice(e, B, K2), Thrice(j, D, Times(W, W))))
          (+) Frac(Times(4, Thrice(c, B, X1)), Thrice(j, D, Times(W, W))) = Frac(Times(B, K), Times(D, Times(W, W)))
  BY SecondDegree
<1> HIDE DEF mt, mb, nt, nb, vt, vb, kt
<1> DEFINE u == mt * nb + nt * mb
           w == mb * nb
<1>16. m (+) n = Frac(u, w) /\ u \in Int /\ w \in Positive
  <2>1. mb \in Int /\ nb \in Int /\ mb * nb \in Positive
    BY <1>1, <1>2, Products DEF Positive
  <2>2. u \in Int
    BY <2>1, <1>1, <1>2
  <2>3. Frac(mt, mb) (+) Frac(nt, nb) = Frac(u, w)
    BY <1>1, <1>2, AddFrac
  <2> QED BY <2>1, <2>2, <2>3, <1>1, <1>2
<1> HIDE DEF u, w
<1>17. r = Frac(w - u, w) /\ w - u \in Int /\ w \in Int
  <2>1. w \in Int
    BY <1>16 DEF Positive
  <2>2. Whole(1) = Frac(w, w)
    BY <1>16, Neutral
  <2>3. Frac(w, w) (-) Frac(u, w) = Frac(w - u, w)
    BY <2>1, <1>16, AddSame
  <2> QED BY <2>1, <2>2, <2>3, <1>16
<1>18. /\ m (.) Whole(1) = m /\ n (.) Whole(1) = n /\ v (.) Whole(0) = Whole(0) /\ v (.) Whole(1) = v
       /\ k (.) Whole(0) = Whole(0) /\ k (.) Whole(1) = k
       /\ r (.) Whole(0) = Whole(0) /\ r (.) Whole(1) = r
       /\ Whole(0) (+) k = k /\ r (+) Whole(0) = r /\ (m (+) n) (+) Whole(0) = m (+) n
       /\ Whole(0) (+) Whole(0) = Whole(0)
  <2>1. \A p \in Int, q \in Positive :
           /\ Frac(p, q) (.) Whole(1) = Frac(p, q) /\ Frac(p, q) (.) Whole(0) = Whole(0)
           /\ Whole(0) (+) Frac(p, q) = Frac(p, q) /\ Frac(p, q) (+) Whole(0) = Frac(p, q)
    BY Neutral
  <2>2. Whole(0) = Frac(0, 1) /\ 1 \in Positive /\ 0 \in Int
    BY WholeFrac
  <2>3. Whole(0) (+) Whole(0) = Whole(0)
    BY <2>1, <2>2
  <2>4. m (.) Whole(1) = m /\ n (.) Whole(1) = n /\ (m (+) n) (+) Whole(0) = m (+) n
    BY <2>1, <1>1, <1>2, <1>16
  <2>5. v (.) Whole(0) = Whole(0) /\ v (.) Whole(1) = v
    BY <2>1, <1>3
  <2>6. k (.) Whole(0) = Whole(0) /\ k (.) Whole(1) = k /\ Whole(0) (+) k = k
    BY <2>1, <1>3, <1>4
  <2>7. r (.) Whole(0) = Whole(0) /\ r (.) Whole(1) = r /\ r (+) Whole(0) = r
    BY <2>1, <1>16, <1>17
  <2> QED BY <2>3, <2>4, <2>5, <2>6, <2>7
<1>19. (m (+) n) (+) r = Whole(1)
  <2>1. Frac(u, w) (+) Frac(w - u, w) = Frac(w, w)
    <3>1. u + (w - u) = w
      BY <1>16, <1>17
    <3>2. Frac(u, w) (+) Frac(w - u, w) = Frac(u + (w - u), w)
      BY <1>16, <1>17, AddSame
    <3> QED BY <3>1, <3>2
  <2>2. Frac(w, w) = Whole(1)
    BY <1>16, Neutral
  <2> QED BY <2>1, <2>2, <1>16, <1>17
<1>20. Frac(Times(B, K), Times(D, Times(W, W))) (+) Whole(0) = Frac(Times(B, K), Times(D, Times(W, W)))
  <2>1. Times(W, W) \in Positive /\ B \in Int
    BY <1>m, Products DEF Positive, Times
  <2>2. Times(D, Times(W, W)) \in Positive /\ Times(B, K) \in Int
    BY <1>m, <2>1, Products DEF Times
  <2> QED BY <2>2, Neutral
<1> DEFINE x1 == Frac(Times(B1, X1), Times(D1, W))
           x2 == Frac(Times(B2, X2), Times(D2, W))
           y1 == Frac(Times(B1, K1), Times(D1, Times(W, W)))
           y2 == Frac(Times(B2, K2), Times(D2, Times(W, W)))
           xx == Frac(Times(B, X), Times(D, W))
           yy == Frac(Times(B, K), Times(D, Times(W, W)))
<1>21. ((m (.) x1) (+) (n (.) x2)) (+) v (+) k = xx
  BY <1>3, <1>4, <1>5, <1>6, <1>9
<1>22. ((m (.) y1) (+) (n (.) y2)) (+) (v (.) x1) = yy
  BY <1>7, <1>8, <1>10
<1>23. yy (+) Whole(0) = yy
  BY <1>20
<1> HIDE DEF x1, x2, y1, y2, xx, yy
<1>24. /\ (((m (.) Whole(1)) (+) (n (.) Whole(1))) (+) (v (.) Whole(0)))
               (+) ((r (.) Whole(1)) (+) (k (.) Whole(0))) = Whole(1)
       /\ (((m (.) x1) (+) (n (.) x2)) (+) (v (.) Whole(1)))
               (+) ((r (.) Whole(0)) (+) (k (.) Whole(1))) = xx
       /\ (((m (.) y1) (+) (n (.) y2)) (+) (v (.) x1))
               (+) ((r (.) Whole(0)) (+) (k (.) Whole(0))) = yy
  BY <1>18, <1>19, <1>21, <1>22, <1>23
<1> QED BY <1>24 DEF x1, x2, y1, y2, xx, yy

\* A stage of order 2.
LEMMA SteppedIs2 ==
  ASSUME conf.rklOrder = 2, NEW j \in Nat, j >= 2, NEW s \in Nat, s >= 2, NEW f, NEW g,
         IsY(conf.rklOrder, f, j - 1, s), IsY(conf.rklOrder, g, j - 2, s)
  PROVE  IsY(conf.rklOrder, Stepped(j, s, f, g), j, s)
<1> DEFINE c == 2 * j - 1
           e == 1 - j
           W == Sq(s) - 2
           B == bTop(j)
           D == bBottom(j)
           B1 == bTop(j - 1)
           D1 == bBottom(j - 1)
           B2 == bTop(j - 2)
           D2 == bBottom(j - 2)
           X1 == 2 * Sq(j - 1)
           X2 == 2 * Sq(j - 2)
           X == 2 * Sq(j)
           K1 == Sq(j - 1) * (Sq(j - 1) - 2)
           K2 == Sq(j - 2) * (Sq(j - 2) - 2)
           K == Sq(j) * (Sq(j) - 2)
           h == Stepped(j, s, f, g)
           m == mu(j)
           n == nu(j)
           v == w1(s) (.) mu(j)
           k == Whole(0) (-) (a(j - 1) (.) v)
           r == Whole(1) (-) (m (+) n)
<1>1. /\ c \in Int /\ e \in Int /\ j \in Positive /\ W \in Positive
      /\ B \in Positive /\ D \in Positive /\ B1 \in Positive /\ D1 \in Positive
      /\ B2 \in Positive /\ D2 \in Positive
  <2>1. j - 1 \in Nat /\ j - 2 \in Nat
    OBVIOUS
  <2>2. c \in Int /\ e \in Int /\ j \in Positive
    BY DEF Positive
  <2>3. W \in Positive
    BY Squares
  <2>4. /\ B \in Positive /\ D \in Positive /\ B1 \in Positive /\ D1 \in Positive
        /\ B2 \in Positive /\ D2 \in Positive
    BY <2>1, Squares
  <2> QED BY <2>2, <2>3, <2>4
<1>2. X1 \in Int /\ X2 \in Int /\ X \in Int /\ K1 \in Int /\ K2 \in Int /\ K \in Int
  <2>1. j - 1 \in Nat /\ j - 2 \in Nat
    OBVIOUS
  <2>2. Sq(j - 1) \in Int /\ Sq(j - 2) \in Int /\ Sq(j) \in Int
    BY <2>1, Squares
  <2> QED BY <2>2
<1>3. Recurs1(c, e, j, X1, X2, X) /\ Recurs2(c, e, j, K1, K2, K, X1)
  BY Recurrence DEF Recurs1, Recurs2
<1>4. b(j) = Frac(B, D) /\ b(j - 1) = Frac(B1, D1) /\ b(j - 2) = Frac(B2, D2)
  <2>1. j - 1 \in Nat /\ j - 2 \in Nat
    OBVIOUS
  <2> QED BY <2>1, bIs
<1>5. /\ m = Frac(c, j) (.) (b(j) (/) b(j - 1)) /\ n = Frac(e, j) (.) (b(j) (/) b(j - 2))
      /\ w1(s) = Frac(4, W) /\ a(j - 1) = Whole(1) (-) b(j - 1)
  BY DEF mu, nu, w1, Sq, a
<1>6. /\ f[0] = Whole(1) /\ f[1] = Frac(Times(B1, X1), Times(D1, W))
      /\ f[2] = Frac(Times(B1, K1), Times(D1, Times(W, W)))
      /\ g[0] = Whole(1) /\ g[1] = Frac(Times(B2, X2), Times(D2, W))
      /\ g[2] = Frac(Times(B2, K2), Times(D2, Times(W, W)))
      /\ First(conf.rklOrder, j, s) = Frac(Times(B, X), Times(D, W))
      /\ Second(j, s) = Frac(Times(B, K), Times(D, Times(W, W)))
  BY DEF IsY, First, Second, Times
<1>7. /\ h[0] = (((m (.) f[0]) (+) (n (.) g[0])) (+) (v (.) Whole(0))) (+) ((r (.) Whole(1)) (+) (k (.) Whole(0)))
      /\ h[1] = (((m (.) f[1]) (+) (n (.) g[1])) (+) (v (.) f[0])) (+) ((r (.) Whole(0)) (+) (k (.) Whole(1)))
      /\ h[2] = (((m (.) f[2]) (+) (n (.) g[2])) (+) (v (.) f[1])) (+) ((r (.) Whole(0)) (+) (k (.) Whole(0)))
  BY SteppedAt
<1>8. v = w1(s) (.) m /\ k = Whole(0) (-) (a(j - 1) (.) v) /\ r = Whole(1) (-) (m (+) n)
  OBVIOUS
<1> HIDE DEF c, e, W, B, D, B1, D1, B2, D2, X1, X2, X, K1, K2, K, h, m, n, v, k, r
<1>9. /\ OfFirst(c, e, j, B, D, B1, D1, W, X1, X2, X)
      /\ OfSecond(c, e, j, B, D, W, X1, K1, K2, K)
      /\ OfTerm(e, j, B, D, B2, D2, X2, W)
  BY <1>1, <1>2, <1>3 DEF OfFirst, OfSecond, OfTerm
<1>10. /\ m = Frac(c, j) (.) (Frac(B, D) (/) Frac(B1, D1))
       /\ n = Frac(e, j) (.) (Frac(B, D) (/) Frac(B2, D2))
       /\ v = Frac(4, W) (.) m
       /\ k = Whole(0) (-) ((Whole(1) (-) Frac(B1, D1)) (.) v)
  BY <1>4, <1>5, <1>8
<1>11. /\ (((m (.) Whole(1)) (+) (n (.) Whole(1))) (+) (v (.) Whole(0)))
               (+) ((r (.) Whole(1)) (+) (k (.) Whole(0))) = Whole(1)
       /\ (((m (.) Frac(Times(B1, X1), Times(D1, W))) (+) (n (.) Frac(Times(B2, X2), Times(D2, W))))
              (+) (v (.) Whole(1)))
               (+) ((r (.) Whole(0)) (+) (k (.) Whole(1))) = Frac(Times(B, X), Times(D, W))
       /\ (((m (.) Frac(Times(B1, K1), Times(D1, Times(W, W))))
               (+) (n (.) Frac(Times(B2, K2), Times(D2, Times(W, W)))))
              (+) (v (.) Frac(Times(B1, X1), Times(D1, W))))
               (+) ((r (.) Whole(0)) (+) (k (.) Whole(0))) = Frac(Times(B, K), Times(D, Times(W, W)))
  <2>1. OfStage(c, e, j, W, B, D, B1, D1, B2, D2, X1, X2, X, K1, K2, K, m, n, v, k, r)
    BY <1>8, <1>9, <1>10 DEF OfStage
  <2> QED BY <2>1, Order2
<1>12. h[0] = Whole(1) /\ h[1] = First(conf.rklOrder, j, s) /\ h[2] = Second(j, s)
  BY <1>6, <1>7, <1>11
<1> QED BY <1>12 DEF IsY, h

\* Before the first stage, nothing was applied.
LEMMA UnitIsY ==
  ASSUME conf.rklOrder \in 1..2, NEW s \in Nat, s >= conf.rklOrder
  PROVE  IsY(conf.rklOrder, Unit, 0, s)
<1>1. Unit[0] = Whole(1) /\ Unit[1] = Whole(0) /\ Unit[2] = Whole(0)
  BY DEF Unit, Constant, Degrees
<1>2. Sq(0) = 0 /\ bTop(0) = 1 /\ bBottom(0) = 3
  BY DEF Sq, bTop, bBottom
<1>3. Sq(s) \in Positive /\ (s >= 2 => Sq(s) - 2 \in Positive) /\ 3 \in Positive
  BY Squares, Literals
<1>4. \A q \in Positive : Frac(0, q) = Whole(0)
  BY Neutral
<1>5. CASE conf.rklOrder = 1
  <2>1. First(conf.rklOrder, 0, s) = Frac(0, Sq(s))
    BY <1>2, <1>5 DEF First
  <2> QED BY <2>1, <1>1, <1>3, <1>4, <1>5 DEF IsY
<1>6. CASE conf.rklOrder = 2
  <2> DEFINE W == Sq(s) - 2
  <2>1. W \in Positive
    BY <1>3, <1>6
  <2>2. 3 * W \in Positive /\ 3 * (W * W) \in Positive
    <3> HIDE DEF W
    <3>1. W * W \in Positive /\ 3 * W \in Positive
      BY <2>1, <1>3, Products
    <3> QED BY <3>1, <1>3, Products
  <2>3. First(conf.rklOrder, 0, s) = Frac(0, 3 * W) /\ Second(0, s) = Frac(0, 3 * (W * W))
    <3>1. 1 * (2 * 0) = 0 /\ 1 * (0 * (0 - 2)) = 0
      OBVIOUS
    <3> QED BY <3>1, <1>2, <1>6 DEF First, Second
  <2> HIDE DEF W
  <2>4. First(conf.rklOrder, 0, s) = Whole(0) /\ Second(0, s) = Whole(0)
    BY <2>2, <2>3, <1>4
  <2> QED BY <2>4, <1>1 DEF IsY
<1> QED BY <1>5, <1>6

\* The first stage.
Started(s) ==
  LET mu1 == IF conf.rklOrder = 1 THEN w1(s) ELSE w1(s) (.) <<1, 3>>
  IN Sum2(Unit, Scale(mu1, Raise(Unit, 2)))

LEMMA StartedIsY ==
  ASSUME conf.rklOrder \in 1..2, NEW s \in Nat, s >= conf.rklOrder
  PROVE  IsY(conf.rklOrder, Started(s), 1, s)
<1> DEFINE w == IF conf.rklOrder = 1 THEN w1(s) ELSE w1(s) (.) <<1, 3>>
           S == Sq(s)
           W == Sq(s) - 2
<1>1. 0 \in Degrees /\ 1 \in Degrees /\ 2 \in Degrees
  BY DEF Degrees
<1>2. Unit[0] = Whole(1) /\ Unit[1] = Whole(0) /\ Unit[2] = Whole(0)
  BY <1>1 DEF Unit, Constant
<1>3. S \in Positive /\ (s >= 2 => W \in Positive) /\ 3 \in Positive /\ 1 \in Positive /\ <<1, 3>> = Frac(1, 3)
      /\ Whole(1) = Frac(1, 1) /\ Whole(0) = Frac(0, 1)
  BY Squares, Literals, WholeFrac
<1>4. Sq(1) = 2 /\ bTop(1) = 1 /\ bBottom(1) = 3
  BY DEF Sq, bTop, bBottom
<1>5. \A p \in Int, q \in Positive :
           /\ Frac(p, q) (.) Whole(1) = Frac(p, q) /\ Frac(p, q) (.) Whole(0) = Whole(0)
           /\ Whole(0) (+) Frac(p, q) = Frac(p, q) /\ Frac(p, q) (+) Whole(0) = Frac(p, q)
  BY Neutral
<1>6. /\ Started(s)[0] = Whole(1) (+) (w (.) Whole(0)) /\ Started(s)[1] = Whole(0) (+) (w (.) Whole(1))
      /\ Started(s)[2] = Whole(0) (+) (w (.) Whole(0))
  <2> HIDE DEF w
  <2>1. Started(s) = Sum2(Unit, Scale(w, Raise(Unit, 2)))
    BY DEF Started, w
  <2>2. Raise(Unit, 2)[0] = Whole(0) /\ Raise(Unit, 2)[1] = Whole(1) /\ Raise(Unit, 2)[2] = Whole(0)
    BY <1>1, <1>2 DEF Raise
  <2>3. /\ Scale(w, Raise(Unit, 2))[0] = w (.) Whole(0) /\ Scale(w, Raise(Unit, 2))[1] = w (.) Whole(1)
        /\ Scale(w, Raise(Unit, 2))[2] = w (.) Whole(0)
    BY <1>1, <2>2 DEF Scale
  <2> QED BY <2>1, <2>3, <1>1, <1>2 DEF Sum2
<1>7. Whole(1) (+) Whole(0) = Whole(1) /\ Whole(0) (+) Whole(0) = Whole(0)
  BY <1>3, <1>5
<1>8. CASE conf.rklOrder = 1
  <2>1. w = Frac(2, S) /\ First(conf.rklOrder, 1, s) = Frac(2, S)
    BY <1>4, <1>8 DEF w1, First, Sq
  <2> HIDE DEF w, S
  <2>2. w (.) Whole(0) = Whole(0) /\ w (.) Whole(1) = w /\ Whole(0) (+) w = w
    BY <2>1, <1>3, <1>5
  <2> QED BY <2>1, <2>2, <1>6, <1>7, <1>8 DEF IsY
<1>9. CASE conf.rklOrder = 2
  <2>0. W \in Positive
    BY <1>3, <1>9
  <2>1. w1(s) = Frac(4, W)
    BY <1>9 DEF w1, Sq
  <2>2. First(conf.rklOrder, 1, s) = Frac(4, 3 * W) /\ Second(1, s) = Frac(0, 3 * (W * W))
    <3>1. 1 * (2 * 2) = 4 /\ 1 * (2 * (2 - 2)) = 0
      OBVIOUS
    <3> QED BY <3>1, <1>4, <1>9 DEF First, Second
  <2> HIDE DEF W
  <2>3. Frac(4, W) (.) Frac(1, 3) = Frac(4, 3 * W) /\ 3 * W \in Positive /\ 3 * (W * W) \in Positive
    <3>1. 4 * 1 = 4 /\ W * 3 = 3 * W
      BY <2>0 DEF Positive
    <3>2. Frac(4, W) (.) Frac(1, 3) = Frac(4 * 1, W * 3)
      BY <2>0, <1>3, MulFrac
    <3>3. W * W \in Positive /\ 3 * W \in Positive
      BY <2>0, <1>3, Products
    <3>4. 3 * (W * W) \in Positive
      BY <3>3, <1>3, Products
    <3> QED BY <3>1, <3>2, <3>3, <3>4
  <2>4. w = Frac(4, 3 * W)
    BY <2>1, <2>3, <1>3, <1>9
  <2> HIDE DEF w
  <2>5. w (.) Whole(0) = Whole(0) /\ w (.) Whole(1) = w /\ Whole(0) (+) w = w
    BY <2>3, <2>4, <1>5
  <2>6. Second(1, s) = Whole(0)
    BY <2>2, <2>3, Neutral
  <2> QED BY <2>2, <2>4, <2>5, <2>6, <1>6, <1>7 DEF IsY
<1> QED BY <1>8, <1>9

LEMMA SteppedIs ==
  ASSUME conf.rklOrder \in 1..2, NEW j \in Nat, j >= 2, NEW s \in Nat, s >= conf.rklOrder, NEW f, NEW g,
         IsY(conf.rklOrder, f, j - 1, s), IsY(conf.rklOrder, g, j - 2, s)
  PROVE  IsY(conf.rklOrder, Stepped(j, s, f, g), j, s)
<1>1. CASE conf.rklOrder = 1
  BY <1>1, SteppedIs1
<1>2. CASE conf.rklOrder = 2
  BY <1>2, SteppedIs2
<1> QED BY <1>1, <1>2

\* The last stage has made the exponential, to the order of the integrator.
LEMMA LastIs ==
  ASSUME conf.rklOrder \in 1..2, NEW s \in Nat, s >= conf.rklOrder, NEW f, IsY(conf.rklOrder, f, s, s)
  PROVE  \A d \in 0..conf.rklOrder : f[d] = Exponential[d]
<1>1. Exponential[0] = Whole(1) /\ Exponential[1] = Whole(1) /\ Exponential[2] = <<1, 2>>
  BY DEF Exponential, Degrees
<1>2. Sq(s) \in Positive
  BY Squares
<1>3. CASE conf.rklOrder = 1
  <2>1. f[0] = Whole(1) /\ f[1] = Frac(Sq(s), Sq(s))
    BY <1>3 DEF IsY, First
  <2>2. Frac(Sq(s), Sq(s)) = Whole(1)
    BY <1>2, Neutral
  <2>3. \A d \in 0..conf.rklOrder : d = 0 \/ d = 1
    BY <1>3
  <2> QED BY <2>1, <2>2, <2>3, <1>1
<1>4. CASE conf.rklOrder = 2
  <2> DEFINE W == Sq(s) - 2
             B == bTop(s)
             D == bBottom(s)
             X == 2 * Sq(s)
             K == Sq(s) * W
  <2>1. W \in Positive /\ B \in Positive /\ D \in Positive /\ B * X = D * W /\ Sq(s) \in Int
    <3>1. W \in Positive /\ B \in Positive /\ D \in Positive /\ Sq(s) \in Int
      BY <1>4, Squares
    <3>2. CASE s = 2
      <4>1. Sq(s) = 6 /\ B = 1 /\ D = 3
        BY <3>2 DEF Sq, bTop, bBottom
      <4> QED BY <3>1, <4>1
    <3>3. CASE s >= 3
      <4>1. B = W /\ D = X
        BY <3>3 DEF bTop, bBottom
      <4>2. W * X = X * W
        BY <3>1
      <4> QED BY <3>1, <4>1, <4>2
    <3> QED BY <1>4, <3>2, <3>3
  <2>2. f[0] = Whole(1) /\ f[1] = Frac(B * X, D * W) /\ f[2] = Frac(B * K, D * (W * W))
    BY <1>4 DEF IsY, First, Second
  <2>3. (B * K) * 2 = 1 * (D * (W * W)) /\ B * K \in Int
    <3>1. B \in Int /\ D \in Int /\ W \in Int
      BY <2>1 DEF Positive
    <3> DEFINE q == Sq(s)
    <3>2. q \in Int /\ B * (2 * q) = D * W
      BY <2>1
    <3> HIDE DEF q, W, B, D
    <3>3. (B * (q * W)) * 2 = (B * (2 * q)) * W /\ B * (q * W) \in Int
      BY <3>1, <3>2
    <3>4. (D * W) * W = 1 * (D * (W * W))
      BY <3>1
    <3> QED BY <3>2, <3>3, <3>4 DEF q
  <2> HIDE DEF W, B, D, X, K
  <2>4. D * W \in Positive /\ W * W \in Positive /\ D * (W * W) \in Positive
    <3>1. D * W \in Positive /\ W * W \in Positive
      BY <2>1, Products
    <3> QED BY <3>1, <2>1, Products
  <2>5. f[1] = Whole(1)
    BY <2>1, <2>2, <2>4, Neutral
  <2>6. f[2] = <<1, 2>>
    <3>1. 2 \in Positive /\ <<1, 2>> = Frac(1, 2)
      BY Literals
    <3> DEFINE u == B * K
               v == D * (W * W)
    <3>2. u \in Int /\ v \in Positive /\ u * 2 = 1 * v /\ f[2] = Frac(u, v)
      BY <2>2, <2>3, <2>4
    <3> HIDE DEF u, v
    <3> QED BY <3>1, <3>2, FracSame
  <2>7. \A d \in 0..conf.rklOrder : d = 0 \/ d = 1 \/ d = 2
    BY <1>4
  <2> QED BY <2>2, <2>5, <2>6, <2>7, <1>1
<1> QED BY <1>3, <1>4

\* The time of a stage is what it has made of degree 1.
LEMMA StageTimeIs ==
  ASSUME conf.rklOrder \in 1..2, NEW j \in Nat, j >= conf.rklOrder, NEW s \in Nat, s >= conf.rklOrder
  PROVE  StageTime(j, s) = t (+) First(conf.rklOrder, j, s)
<1>1. CASE conf.rklOrder = 1
  <2> DEFINE X == Sq(j)
             S == Sq(s)
  <2>1. X \in Int /\ S \in Positive /\ 2 \in Positive
    BY <1>1, Squares, Literals
  <2>2. StageTime(j, s) = t (+) (Frac(X, 2) (.) Frac(2, S)) /\ First(conf.rklOrder, j, s) = Frac(X, S)
    BY <1>1 DEF StageTime, w1, First, Sq
  <2> HIDE DEF X, S
  <2>3. (X * 2) * S = X * (2 * S)
    BY <2>1 DEF Positive
  <2>4. Frac(X, 2) (.) Frac(2, S) = Frac(X, S)
    BY <2>1, <2>3, MulSame
  <2> QED BY <2>2, <2>4
<1>2. CASE conf.rklOrder = 2
  <2> DEFINE V == Sq(j) - 2
             W == Sq(s) - 2
             B == bTop(j)
             D == bBottom(j)
             X == 2 * Sq(j)
  <2>1. V \in Int /\ W \in Positive /\ B \in Int /\ D \in Positive /\ X \in Int /\ 4 \in Positive /\ B * X = D * V
    <3>1. Sq(j) \in Int /\ V \in Int /\ W \in Positive /\ B \in Int /\ D \in Positive /\ X \in Int /\ 4 \in Positive
      BY <1>2, Squares, Literals DEF Positive
    <3>2. CASE j = 2
      <4>1. Sq(j) = 6 /\ B = 1 /\ D = 3
        BY <3>2 DEF Sq, bTop, bBottom
      <4> QED BY <3>1, <4>1
    <3>3. CASE j >= 3
      <4>1. B = V /\ D = X
        BY <3>3 DEF bTop, bBottom
      <4>2. V * X = X * V
        BY <3>1
      <4> QED BY <3>1, <4>1, <4>2
    <3> QED BY <1>2, <3>1, <3>2, <3>3
  <2>2. StageTime(j, s) = t (+) (Frac(V, 4) (.) Frac(4, W)) /\ First(conf.rklOrder, j, s) = Frac(B * X, D * W)
    BY <1>2 DEF StageTime, w1, First, Sq
  <2> HIDE DEF V, W, B, D, X
  <2> DEFINE p == B * X
             q == D * W
  <2>3. p \in Int /\ q \in Positive
    BY <2>1, Products
  <2>4. (V * 4) * q = p * (4 * W)
    <3>1. D \in Int /\ W \in Int
      BY <2>1 DEF Positive
    <3>2. (V * 4) * (D * W) = (D * V) * (4 * W)
      BY <2>1, <3>1
    <3> QED BY <2>1, <3>2
  <2> HIDE DEF p, q
  <2>5. Frac(V, 4) (.) Frac(4, W) = Frac(p, q)
    <3>1. 4 \in Int
      OBVIOUS
    <3> QED BY <2>1, <2>3, <2>4, <3>1, MulSame
  <2> QED BY <2>2, <2>5 DEF p, q
<1> QED BY <1>1, <1>2
-----------------------------------------------------------------------------
(* The word that the operators make, and the solution at each place *)

\* What a run applies, one operator after the other: H and P take turns to be
\* the first of a cycle.
Letter(r, k) == IF r => k % 4 \in {0, 1} THEN "H" ELSE "P"

Letters(r, n) == [k \in 1..n |-> Letter(r, k)]

\* The operators applied so far.
PerCycle == IF haveRKL THEN 2 ELSE 1

InThisCycle ==
  IF pc = "Top" THEN 0
  ELSE IF pc = "EndCycle" THEN PerCycle
  ELSE IF haveRKL /\ (pc \in Stages <=> ncycles % 2 = 1) THEN 1 ELSE 0

Applied == Letters(haveRKL, PerCycle * ncycles + InThisCycle)

AfterSum == {"ShiftSolution", "Coarsen", "ConsToPrim"}

RklOn == {"RklBoundaries", "RklStage"}

\* The solution, at each place of a cycle.
SolutionInv ==
  /\ pc \in {"Top", "EndCycle", "RklStart"} => Vc.val = Value(Applied, Unit, Unit)
  /\ pc \in {"SetBoundaries", "PrimToCons", "EvolveStage"} => Vc.val = Value(Applied, Early(stage), Unit)
  /\ pc = "AddVelocity" => Vc.val = Value(Applied, Ended(conf.nstages, stage), Unit)
  /\ pc = "EvolveStage" => Uc.val = Vc.val
  /\ pc = "AddAndStore" => Uc.val = Value(Applied, Grown(stage), Unit)
  /\ pc \in AfterSum => Uc.val = Value(Applied, Ended(conf.nstages, stage), Unit)
  /\ \/ pc \in Stages /\ stage > 0
     \/ pc \in InStage \cup {"AddVelocity"} /\ conf.nstages > 1
     => begin.val.z = Unit

\* The time, at each place of a cycle.
TimeInv ==
  /\ pc = "Top" => t = t0
  /\ pc \in {"SetBoundaries", "PrimToCons", "EvolveStage"} => t = t0 (+) Early(stage)[1]
  /\ pc = "AddAndStore" => t = t0 (+) Grown(stage)[1]
  /\ pc \in AfterSum \cup {"AddVelocity"} => t = t0 (+) Ended(conf.nstages, stage)[1]
  /\ pc \in InRklCycle => t = IF ncycles % 2 = 1 THEN t0 ELSE t0 (+) Whole(1)
  /\ pc = "EndCycle" => t = t0 (+) Whole(1)
  /\ pc \in {"PrimToCons", "EvolveStage"} => Vc.bc = t

\* RKL stages, and what they keep of the two before.
RklInv ==
  /\ pc \notin RklOn \cup {"Stopped", "Refused"} => rkl = NoRkl
  /\ pc \in RklOn =>
       /\ rkl.stages \in Nat /\ rkl.stages >= conf.rklOrder
       /\ rkl.stage \in Nat /\ rkl.stage >= 2 /\ rkl.stage <= rkl.stages + 1
       /\ Vc.val = Value(Applied, Unit, Vc.val.y) /\ Uc.val.y = Vc.val.y
       /\ IsY(conf.rklOrder, Vc.val.y, rkl.stage - 1, rkl.stages)
       /\ IsY(conf.rklOrder, rkl.Uc1, rkl.stage - 2, rkl.stages)
       /\ rkl.Uc0 = Unit /\ rkl.dU0 = Raise(Unit, 2)
       /\ conf.rklOrder = 1 \/ rkl.stage > 2 =>
             rkl.time = t (+) First(conf.rklOrder, rkl.stage - 1, rkl.stages)
  /\ pc = "RklStage" => Vc.bc = rkl.time /\ rkl.stage <= rkl.stages

LEMMA NextLetter ==
  ASSUME NEW r, NEW n \in Nat
  PROVE  Append(Letters(r, n), Letter(r, n + 1)) = Letters(r, n + 1)
<1> DEFINE s == Letters(r, n)
           w == Letters(r, n + 1)
           u == Append(s, Letter(r, n + 1))
<1>1. s \in Seq({"H", "P"}) /\ Len(s) = n /\ \A k \in 1..n : s[k] = Letter(r, k)
  BY DEF Letters, Letter
<1>2. w \in Seq({"H", "P"}) /\ Len(w) = n + 1 /\ \A k \in 1..(n + 1) : w[k] = Letter(r, k)
  BY DEF Letters, Letter
<1>3. Letter(r, n + 1) \in {"H", "P"}
  BY DEF Letter
<1> HIDE DEF s, w
<1>4. /\ u \in Seq({"H", "P"}) /\ Len(u) = n + 1
      /\ \A k \in 1..n : u[k] = s[k]
      /\ u[n + 1] = Letter(r, n + 1)
  BY <1>1, <1>3
<1> HIDE DEF u
<1>5. \A k \in 1..(n + 1) : u[k] = w[k]
  <2>1. \A k \in 1..(n + 1) : k \in 1..n \/ k = n + 1
    OBVIOUS
  <2> QED BY <2>1, <1>1, <1>2, <1>4
<1>6. u = w
  BY <1>2, <1>4, <1>5
<1> QED BY <1>6 DEF u, s, w

LEMMA NoLetter == \A r : Letters(r, 0) = <<>>
BY DEF Letters

\* Half a cycle is one letter, and which one goes with the parity.
LEMMA Parity ==
  ASSUME NEW c \in Nat
  PROVE  /\ (2 * c + 1) % 4 = IF c % 2 = 1 THEN 3 ELSE 1
         /\ (2 * c + 1 + 1) % 4 = IF c % 2 = 1 THEN 0 ELSE 2
         /\ c % 2 \in {0, 1}
OBVIOUS

LEMMA AppliedStays ==
  ASSUME conf' = conf, ncycles' = ncycles, pc \in Stages <=> pc' \in Stages,
         pc \notin {"Top", "EndCycle"}, pc' \notin {"Top", "EndCycle"}
  PROVE  Applied' = Applied
<1>1. haveRKL' = haveRKL
  BY DEF haveRKL
<1>2. PerCycle' = PerCycle
  BY <1>1 DEF PerCycle
<1>3. InThisCycle' = InThisCycle
  BY <1>1 DEF InThisCycle
<1>4. (PerCycle * ncycles + InThisCycle)' = PerCycle * ncycles + InThisCycle
  BY <1>2, <1>3
<1> QED BY <1>1, <1>4 DEF Applied, Letters

LEMMA AppliedType ==
  ASSUME LoopInv
  PROVE  /\ haveRKL \in BOOLEAN /\ PerCycle \in {1, 2} /\ InThisCycle \in 0..2 /\ ncycles \in Nat
         /\ PerCycle * ncycles + InThisCycle \in Nat
<1>1. conf.rklOrder \in 0..2 /\ ncycles \in Nat
  BY Input DEF LoopInv
<1>2. haveRKL \in BOOLEAN
  BY <1>1 DEF haveRKL
<1>3. PerCycle \in {1, 2} /\ InThisCycle \in 0..2
  BY DEF PerCycle, InThisCycle
<1> QED BY <1>1, <1>2, <1>3

\* The cycle starts with RKL or with the stages: nothing is applied yet.
LEMMA AppliedStart ==
  ASSUME LoopInv, LaunchUserStepFirst
  PROVE  Applied' = Applied
<1>1. conf' = conf /\ ncycles' = ncycles /\ pc = "Top"
      /\ pc' = IF haveRKL /\ ncycles % 2 = 1 THEN "RklStart" ELSE "SetBoundaries"
  BY DEF LaunchUserStepFirst
<1>2. haveRKL' = haveRKL /\ haveRKL \in BOOLEAN /\ ncycles % 2 \in {0, 1}
  BY <1>1, AppliedType, Parity DEF haveRKL
<1>3. PerCycle' = PerCycle
  BY <1>2 DEF PerCycle
<1>4. InThisCycle = 0 /\ InThisCycle' = 0
  BY <1>1, <1>2 DEF InThisCycle, Stages, InStage
<1>5. (PerCycle * ncycles + InThisCycle)' = PerCycle * ncycles + InThisCycle
  BY <1>1, <1>3, <1>4
<1> QED BY <1>2, <1>5 DEF Applied, Letters

\* The end of the stages writes an H.
LEMMA AppliedH ==
  ASSUME LoopInv, pc = "AddVelocity", conf' = conf, ncycles' = ncycles,
         pc' = IF haveRKL /\ ncycles % 2 = 0 THEN "RklStart" ELSE "EndCycle"
  PROVE  Append(Applied, "H") = Applied'
<1> DEFINE n == PerCycle * ncycles + InThisCycle
<1>1. n \in Nat /\ haveRKL \in BOOLEAN /\ ncycles \in Nat /\ ncycles % 2 \in {0, 1}
  BY AppliedType, Parity
<1>2. haveRKL' = haveRKL /\ PerCycle' = PerCycle
  BY DEF haveRKL, PerCycle
<1>3. InThisCycle = IF haveRKL /\ ncycles % 2 = 1 THEN 1 ELSE 0
  BY <1>1 DEF InThisCycle, Stages, InStage
<1>4. InThisCycle' = InThisCycle + 1
  BY <1>1, <1>2, <1>3 DEF InThisCycle, Stages, InStage, PerCycle
<1>5. n' = n + 1
  <2>1. PerCycle \in Int /\ InThisCycle \in Int
    <3>1. PerCycle \in {1, 2} /\ InThisCycle \in 0..2
      BY AppliedType
    <3> QED BY <3>1
  <2> QED BY <1>1, <1>2, <1>4, <2>1
<1>6. Letter(haveRKL, n + 1) = "H"
  <2>1. haveRKL => n = 2 * ncycles + (IF ncycles % 2 = 1 THEN 1 ELSE 0)
    BY <1>3 DEF PerCycle
  <2>2. haveRKL => (n + 1) % 4 \in {0, 1}
    <3>1. /\ (2 * ncycles + 1) % 4 = (IF ncycles % 2 = 1 THEN 3 ELSE 1)
          /\ (2 * ncycles + 1 + 1) % 4 = (IF ncycles % 2 = 1 THEN 0 ELSE 2)
      BY <1>1, Parity
    <3>2. haveRKL => n + 1 = IF ncycles % 2 = 1 THEN 2 * ncycles + 1 + 1 ELSE 2 * ncycles + 1
      BY <1>1, <2>1
    <3> HIDE DEF n
    <3> QED BY <3>1, <3>2
  <2> QED BY <2>2 DEF Letter
<1>7. Applied = Letters(haveRKL, n)
  BY DEF Applied
<1>8. Applied' = Letters(haveRKL, n + 1)
  BY <1>2, <1>5 DEF Applied, Letters
<1> HIDE DEF n
<1> QED BY <1>1, <1>6, <1>7, <1>8, NextLetter

\* The end of RKL writes a P.
LEMMA AppliedP ==
  ASSUME LoopInv, haveRKL, pc = "RklBoundaries", conf' = conf, ncycles' = ncycles,
         pc' = IF ncycles % 2 = 1 THEN "SetBoundaries" ELSE "EndCycle"
  PROVE  Append(Applied, "P") = Applied'
<1> DEFINE n == PerCycle * ncycles + InThisCycle
<1>1. n \in Nat /\ ncycles \in Nat /\ ncycles % 2 \in {0, 1}
  BY AppliedType, Parity
<1>2. haveRKL' = haveRKL /\ PerCycle' = PerCycle /\ PerCycle = 2
  BY DEF haveRKL, PerCycle
<1>3. InThisCycle = IF ncycles % 2 = 1 THEN 0 ELSE 1
  BY <1>1 DEF InThisCycle, Stages, InStage
<1>4. InThisCycle' = InThisCycle + 1
  BY <1>1, <1>2, <1>3 DEF InThisCycle, Stages, InStage
<1>5. n' = n + 1
  <2>1. PerCycle \in Int /\ InThisCycle \in Int
    <3>1. PerCycle \in {1, 2} /\ InThisCycle \in 0..2
      BY AppliedType
    <3> QED BY <3>1
  <2> QED BY <1>1, <1>2, <1>4, <2>1
<1>6. Letter(haveRKL, n + 1) = "P"
  <2>1. n = 2 * ncycles + (IF ncycles % 2 = 1 THEN 0 ELSE 1)
    BY <1>2, <1>3
  <2>2. (n + 1) % 4 \in {2, 3}
    <3>1. /\ (2 * ncycles + 1) % 4 = (IF ncycles % 2 = 1 THEN 3 ELSE 1)
          /\ (2 * ncycles + 1 + 1) % 4 = (IF ncycles % 2 = 1 THEN 0 ELSE 2)
      BY <1>1, Parity
    <3>2. n + 1 = IF ncycles % 2 = 1 THEN 2 * ncycles + 1 ELSE 2 * ncycles + 1 + 1
      BY <1>1, <2>1
    <3> HIDE DEF n
    <3> QED BY <3>1, <3>2
  <2> QED BY <2>2 DEF Letter
<1>7. Applied = Letters(haveRKL, n)
  BY DEF Applied
<1>8. Applied' = Letters(haveRKL, n + 1)
  BY <1>2, <1>5 DEF Applied, Letters
<1> HIDE DEF n
<1> QED BY <1>1, <1>6, <1>7, <1>8, NextLetter

\* The end of a cycle.
LEMMA AppliedNext ==
  ASSUME LoopInv, EndCycle
  PROVE  Applied' = Applied
<1>1. conf' = conf /\ ncycles' = ncycles + 1 /\ pc = "EndCycle" /\ pc' = "Top"
  BY DEF EndCycle
<1>2. haveRKL' = haveRKL /\ PerCycle' = PerCycle
  BY <1>1 DEF haveRKL, PerCycle
<1>3. InThisCycle = PerCycle /\ InThisCycle' = 0
  BY <1>1 DEF InThisCycle
<1>4. (PerCycle * ncycles + InThisCycle)' = PerCycle * ncycles + InThisCycle
  <2>1. PerCycle \in Int /\ ncycles \in Int
    BY AppliedType
  <2>2. PerCycle * (ncycles + 1) + 0 = PerCycle * ncycles + PerCycle
    BY <2>1
  <2> QED BY <2>2, <1>1, <1>2, <1>3
<1> QED BY <1>2, <1>4 DEF Applied, Letters
-----------------------------------------------------------------------------
(* The solution                                                               *)

\* A record of values, and what changes one of them.
LEMMA ValueIs ==
  ASSUME NEW w, NEW z, NEW y
  PROVE  /\ Value(w, z, y).word = w /\ Value(w, z, y).z = z /\ Value(w, z, y).y = y
         /\ \A x : [Value(w, z, y) EXCEPT !.z = x] = Value(w, x, y)
BY DEF Value

SolutionHyp == LoopInv /\ ArraysInv /\ StableInv /\ SolutionInv /\ TimeInv /\ RklInv

LEMMA StagesOf ==
  ASSUME LoopInv
  PROVE  /\ conf.nstages \in 1..3 /\ conf.rklOrder \in 0..2
         /\ pc \in Stages => stage \in 0..(conf.nstages - 1) /\ stage \in 0..2
<1>1. conf.nstages \in 1..3 /\ conf.rklOrder \in 0..2
  BY Input DEF LoopInv
<1>2. pc \in Stages => stage \in Nat /\ stage < conf.nstages
  BY DEF LoopInv
<1> QED BY <1>1, <1>2

\* Nothing is promised of a run that stopped, and nothing changes in a stutter.
LEMMA Over ==
  ASSUME pc' \in {"Stopped", "Refused"}
  PROVE  SolutionInv' /\ TimeInv' /\ RklInv'
BY DEF SolutionInv, TimeInv, RklInv, AfterSum, Stages, InStage, InRklCycle, RklOn

LEMMA Idle ==
  ASSUME SolutionInv, TimeInv, RklInv, UNCHANGED vars
  PROVE  SolutionInv' /\ TimeInv' /\ RklInv'
<1>1. Applied' = Applied
  BY DEF vars, Applied, Letters, InThisCycle, PerCycle, haveRKL
<1>2. Early(stage)' = Early(stage) /\ Grown(stage)' = Grown(stage)
      /\ Ended(conf.nstages, stage)' = Ended(conf.nstages, stage) /\ t0' = t0
  BY DEF vars, Early, Grown, Ended, Poly, t0
<1>3. SolutionInv'
  BY <1>1, <1>2 DEF vars, SolutionInv
<1>4. TimeInv'
  BY <1>2 DEF vars, TimeInv
<1>5. RklInv'
  BY <1>1 DEF vars, RklInv, IsY, First, Second
<1> QED BY <1>3, <1>4, <1>5

\* The terms of a stage depend on the state by its number only.
LEMMA SameStage ==
  ASSUME stage' = stage, conf' = conf
  PROVE  Early(stage)' = Early(stage) /\ Grown(stage)' = Grown(stage)
         /\ Ended(conf.nstages, stage)' = Ended(conf.nstages, stage)
BY DEF Early, Grown, Ended, Poly

LEMMA SolutionPrimToCons == SolutionHyp /\ PrimToCons => SolutionInv'
<1> SUFFICES ASSUME SolutionHyp, PrimToCons PROVE SolutionInv'
  OBVIOUS
<1> USE DEF SolutionHyp
<1>1. pc = "PrimToCons" /\ pc' = "EvolveStage" /\ conf' = conf /\ ncycles' = ncycles /\ stage' = stage
  BY DEF PrimToCons
<1>2. Applied' = Applied
  BY <1>1, AppliedStays DEF Stages, InStage
<1>3. Vc.val = Value(Applied, Early(stage), Unit) /\ Vc'.val = Vc.val
  BY <1>1 DEF PrimToCons, SolutionInv, ArraysInv
<1>4. Uc'.val = Vc'.val /\ begin' = IF conf.nstages > 1 /\ stage = 0 THEN Uc' ELSE begin
  BY DEF PrimToCons, Conservative, Array
<1>5. Early(stage)' = Early(stage)
  BY <1>1, SameStage
<1>6. stage > 0 \/ conf.nstages > 1 => begin'.val.z = Unit
  <2>1. CASE stage > 0
    BY <1>1, <1>4, <2>1 DEF SolutionInv, Stages
  <2>2. CASE stage = 0
    <3>1. Early(stage) = Unit
      BY <2>2 DEF Early
    <3> QED BY <2>2, <3>1, <1>3, <1>4, ValueIs
  <2>3. stage > 0 \/ stage = 0
    BY StagesOf, <1>1 DEF Stages
  <2> QED BY <2>1, <2>2, <2>3
<1> QED BY <1>1, <1>2, <1>3, <1>4, <1>5, <1>6 DEF SolutionInv, AfterSum

LEMMA SolutionEvolve == SolutionHyp /\ EvolveStage => SolutionInv'
<1> SUFFICES ASSUME SolutionHyp, EvolveStage PROVE SolutionInv'
  OBVIOUS
<1> USE DEF SolutionHyp
<1>1. pc = "EvolveStage" /\ pc' \in {"Stopped", "AddAndStore"} /\ conf' = conf /\ ncycles' = ncycles
      /\ stage' = stage /\ begin' = begin
  BY DEF EvolveStage
<1>2. CASE pc' = "Stopped"
  BY <1>2, Over
<1>3. CASE pc' = "AddAndStore"
  <2>1. Applied' = Applied
    BY <1>1, <1>3, AppliedStays DEF Stages, InStage
  <2>2. stage \in 0..2 /\ rkl.cycle = FALSE
    BY <1>1, StagesOf DEF Stages, InStage, RklInv, RklOn, NoRkl
  <2>3. Uc.val = Value(Applied, Early(stage), Unit) /\ Vc.val = Uc.val
    BY <1>1 DEF SolutionInv
  <2>4. Uc.val.word = Applied /\ Uc.val.z = Early(stage) /\ Uc.val.y = Unit /\ Vc.val.z = Early(stage)
    BY <2>3, ValueIs
  <2>5. Uc'.val = Value(Uc.val.word, Sum2(Uc.val.z, Raise(Vc.val.z, 3)), Uc.val.y)
    BY <2>2 DEF EvolveStage
  <2>6. Uc'.val = Value(Applied, Grown(stage), Unit)
    BY <2>2, <2>4, <2>5, Grows
  <2>7. Grown(stage)' = Grown(stage)
    BY <1>1, SameStage
  <2>8. stage > 0 \/ conf.nstages > 1 => begin.val.z = Unit
    BY <1>1 DEF SolutionInv, Stages, InStage
  <2> QED BY <1>1, <1>3, <2>1, <2>6, <2>7, <2>8 DEF SolutionInv, AfterSum
<1> QED BY <1>1, <1>2, <1>3

LEMMA SolutionAdd == SolutionHyp /\ AddAndStore => SolutionInv'
<1> SUFFICES ASSUME SolutionHyp, AddAndStore PROVE SolutionInv'
  OBVIOUS
<1> USE DEF SolutionHyp
<1>1. pc = "AddAndStore" /\ pc' \in {"ShiftSolution", "Coarsen"} /\ conf' = conf /\ ncycles' = ncycles
      /\ stage' = stage /\ begin' = begin
  BY DEF AddAndStore
<1>2. Applied' = Applied
  BY <1>1, AppliedStays DEF Stages, InStage
<1>3. Ended(conf.nstages, stage)' = Ended(conf.nstages, stage)
  BY <1>1, SameStage
<1>4. stage \in 0..(conf.nstages - 1) /\ conf.nstages \in 1..3
  BY <1>1, StagesOf DEF Stages, InStage
<1>5. Uc.val = Value(Applied, Grown(stage), Unit)
  BY <1>1 DEF SolutionInv
<1>6. Uc'.val = Value(Applied, Ended(conf.nstages, stage), Unit)
  <2>1. CASE stage = 0
    <3>1. Uc' = Uc /\ Grown(stage) = Ended(conf.nstages, stage)
      BY <2>1 DEF AddAndStore, Grown, Ended
    <3> QED BY <3>1, <1>5
  <2>2. CASE stage # 0
    <3> DEFINE c == wc[conf.nstages][stage]
               d == w0[conf.nstages][stage]
    <3>1. begin.val.z = Unit
      BY <1>1, <1>4, <2>2 DEF SolutionInv, Stages, InStage
    <3>2. Uc'.val = [Uc.val EXCEPT !.z = Sum2(Scale(c, Uc.val.z), Scale(d, begin.val.z))]
      BY <2>2 DEF AddAndStore, ArraysInv
    <3>3. Sum2(Scale(c, Grown(stage)), Scale(d, Unit)) = Ended(conf.nstages, stage)
      BY <1>4, <2>2, Weighted
    <3> HIDE DEF c, d
    <3>4. Uc.val.z = Grown(stage)
      BY <1>5, ValueIs
    <3> QED BY <1>5, <3>1, <3>2, <3>3, <3>4, ValueIs
  <2> QED BY <2>1, <2>2
<1>7. stage > 0 \/ conf.nstages > 1 => begin.val.z = Unit
  BY <1>1 DEF SolutionInv, Stages, InStage
<1> QED BY <1>1, <1>2, <1>3, <1>6, <1>7 DEF SolutionInv, AfterSum

LEMMA SolutionConvert == SolutionHyp /\ (ShiftSolution \/ Coarsen \/ ConsToPrim) => SolutionInv'
<1> SUFFICES ASSUME SolutionHyp, ShiftSolution \/ Coarsen \/ ConsToPrim PROVE SolutionInv'
  OBVIOUS
<1> USE DEF SolutionHyp
<1>1. /\ pc \in AfterSum /\ pc' \in {"Refused", "Coarsen", "ConsToPrim", "AddVelocity"} /\ conf' = conf
      /\ ncycles' = ncycles /\ stage' = stage /\ begin' = begin
  BY DEF ShiftSolution, Coarsen, ConsToPrim, AfterSum
<1>2. CASE pc' = "Refused"
  BY <1>2, Over
<1>3. CASE pc' # "Refused"
  <2>1. Applied' = Applied
    BY <1>1, <1>3, AppliedStays DEF Stages, InStage, AfterSum
  <2>2. Ended(conf.nstages, stage)' = Ended(conf.nstages, stage)
    BY <1>1, SameStage
  <2>3. Uc.val = Value(Applied, Ended(conf.nstages, stage), Unit)
    BY <1>1 DEF SolutionInv
  <2>4. Uc'.val = Uc.val /\ (pc' = "AddVelocity" => Vc'.val = Uc.val)
    <3>1. CASE ShiftSolution
      BY <1>3, <3>1 DEF ShiftSolution
    <3>2. CASE Coarsen
      BY <3>2 DEF Coarsen, ArraysInv
    <3>3. CASE ConsToPrim
      BY <3>3 DEF ConsToPrim, Primitive
    <3> QED BY <3>1, <3>2, <3>3
  <2>5. stage > 0 \/ conf.nstages > 1 => begin.val.z = Unit
    BY <1>1 DEF SolutionInv, Stages, InStage, AfterSum
  <2> QED BY <1>1, <1>3, <2>1, <2>2, <2>3, <2>4, <2>5 DEF SolutionInv, AfterSum
<1> QED BY <1>2, <1>3

LEMMA SolutionAddVelocity == SolutionHyp /\ AddVelocity => SolutionInv'
<1> SUFFICES ASSUME SolutionHyp, AddVelocity PROVE SolutionInv'
  OBVIOUS
<1> USE DEF SolutionHyp
<1> DEFINE last == stage = conf.nstages - 1
           word == Append(Vc.val.word, Name("H", Vc.val.z, conf.nstages))
<1>1. pc = "AddVelocity" /\ conf' = conf /\ ncycles' = ncycles /\ begin' = begin
  BY DEF AddVelocity
<1>2. stage \in 0..(conf.nstages - 1) /\ conf.nstages \in 1..3
  BY <1>1, StagesOf DEF Stages
<1>3. Vc.val = Value(Applied, Ended(conf.nstages, stage), Unit)
  BY <1>1 DEF SolutionInv
<1>4. /\ Vc'.val = IF last THEN Value(word, Unit, Unit) ELSE Vc.val
      /\ stage' = IF last THEN stage ELSE stage + 1
      /\ pc' = IF ~last THEN "SetBoundaries"
               ELSE IF haveRKL /\ ncycles % 2 = 0 THEN "RklStart" ELSE "EndCycle"
  BY DEF AddVelocity, ArraysInv
<1>5. CASE ~last
  <2>1. pc' = "SetBoundaries" /\ stage' = stage + 1 /\ Vc'.val = Vc.val
    BY <1>4, <1>5
  <2>2. Applied' = Applied
    BY <1>1, <2>1, AppliedStays DEF Stages
  <2>3. Ended(conf.nstages, stage) = Early(stage + 1)
    <3>1. stage \in 0..(conf.nstages - 2)
      BY <1>2, <1>5
    <3> QED BY <3>1, <1>2, EndedEarly
  <2>4. Early(stage)' = Early(stage + 1)
    BY <2>1 DEF Early, Poly
  <2>5. begin.val.z = Unit
    <3>1. conf.nstages > 1
      BY <1>2, <1>5
    <3> QED BY <3>1, <1>1 DEF SolutionInv
  <2> QED BY <1>1, <1>3, <2>1, <2>2, <2>3, <2>4, <2>5 DEF SolutionInv, AfterSum
<1>6. CASE last
  <2>1. Vc.val.word = Applied /\ Vc.val.z = Ended(conf.nstages, stage)
    BY <1>3, ValueIs
  <2>2. word = Append(Applied, "H")
    <3>1. \A d \in 0..conf.nstages : Ended(conf.nstages, stage)[d] = Exponential[d]
      BY <1>2, <1>6, EndedLast
    <3> QED BY <2>1, <3>1 DEF Name
  <2>3. pc' = IF haveRKL /\ ncycles % 2 = 0 THEN "RklStart" ELSE "EndCycle"
    BY <1>4, <1>6
  <2>4. Append(Applied, "H") = Applied'
    BY <1>1, <2>3, AppliedH
  <2>5. Vc'.val = Value(Applied', Unit, Unit)
    <3> HIDE DEF word
    <3> QED BY <1>4, <1>6, <2>2, <2>4
  <2> QED BY <2>3, <2>5 DEF SolutionInv, AfterSum, Stages, InStage
<1> QED BY <1>5, <1>6

LEMMA SolutionRklEnd == SolutionHyp /\ RklBoundaries => SolutionInv'
<1> SUFFICES ASSUME SolutionHyp, RklBoundaries PROVE SolutionInv'
  OBVIOUS
<1> USE DEF SolutionHyp
<1>1. pc = "RklBoundaries" /\ conf' = conf /\ ncycles' = ncycles /\ begin' = begin /\ stage' = stage
      /\ conf.rklOrder \in 1..2
  <2>1. conf.rklOrder > 0 /\ conf.rklOrder \in 0..2
    BY StagesOf DEF RklBoundaries, StableInv, InRklCycle
  <2> QED BY <2>1 DEF RklBoundaries
<1>2. CASE rkl.stage <= rkl.stages
  BY <1>2 DEF RklBoundaries, SolutionInv, AfterSum, Stages, InStage
<1>3. CASE ~(rkl.stage <= rkl.stages)
  <2> DEFINE word == Append(Vc.val.word, Name("P", Vc.val.y, conf.rklOrder))
  <2>1. Vc'.val = Value(word, Unit, Unit) /\ pc' = IF ncycles % 2 = 1 THEN "SetBoundaries" ELSE "EndCycle"
    BY <1>3 DEF RklBoundaries, ArraysInv
  <2>2. /\ rkl.stages \in Nat /\ rkl.stages >= conf.rklOrder /\ rkl.stage - 1 = rkl.stages
        /\ Vc.val.word = Applied
        /\ IsY(conf.rklOrder, Vc.val.y, rkl.stages, rkl.stages)
    <3>1. /\ rkl.stages \in Nat /\ rkl.stage \in Nat /\ rkl.stage <= rkl.stages + 1
          /\ rkl.stages >= conf.rklOrder
          /\ IsY(conf.rklOrder, Vc.val.y, rkl.stage - 1, rkl.stages)
          /\ Vc.val = Value(Applied, Unit, Vc.val.y)
      BY <1>1 DEF RklInv, RklOn
    <3>2. rkl.stage - 1 = rkl.stages
      BY <1>3, <3>1
    <3>3. Vc.val.word = Applied
      BY <3>1, ValueIs
    <3> QED BY <3>1, <3>2, <3>3
  <2>3. word = Append(Applied, "P")
    <3>1. \A d \in 0..conf.rklOrder : Vc.val.y[d] = Exponential[d]
      BY <1>1, <2>2, LastIs
    <3> QED BY <2>2, <3>1 DEF Name
  <2>4. Append(Applied, "P") = Applied'
    BY <1>1, <2>1, AppliedP DEF haveRKL
  <2>5. Vc'.val = Value(Applied', Unit, Unit)
    <3> HIDE DEF word
    <3> QED BY <2>1, <2>3, <2>4
  <2>6. CASE pc' = "EndCycle"
    BY <2>5, <2>6 DEF SolutionInv, AfterSum, Stages, InStage
  <2>7. CASE pc' = "SetBoundaries"
    <3>1. stage = 0
      BY <1>1, <2>1, <2>7 DEF LoopInv, InRklCycle
    <3>2. Early(stage)' = Unit /\ ~(stage' > 0)
      BY <1>1, <3>1 DEF Early, Unit, Constant
    <3> QED BY <2>5, <2>7, <3>2 DEF SolutionInv, AfterSum, InStage
  <2> QED BY <2>1, <2>6, <2>7
<1> QED BY <1>2, <1>3

LEMMA SolutionInvNext == SolutionHyp /\ [Next]_vars => SolutionInv'
<1> SUFFICES ASSUME SolutionHyp, [Next]_vars PROVE SolutionInv'
  OBVIOUS
<1>1. CASE LaunchUserStepFirst
  <2>1. /\ pc = "Top" /\ pc' \in {"RklStart", "SetBoundaries"} /\ stage' = 0 /\ Vc' = Vc
    BY <1>1 DEF LaunchUserStepFirst
  <2>2. Applied' = Applied
    BY <1>1, AppliedStart DEF SolutionHyp
  <2>3. Vc.val = Value(Applied, Unit, Unit)
    BY <2>1 DEF SolutionHyp, SolutionInv
  <2>4. Early(stage)' = Unit /\ ~(stage' > 0)
    BY <2>1 DEF Early, Unit, Constant
  <2> QED BY <2>1, <2>2, <2>3, <2>4 DEF SolutionInv, AfterSum, InStage
<1>2. CASE SetBoundaries
  <2>1. pc = "SetBoundaries" /\ pc' = "PrimToCons" /\ conf' = conf /\ ncycles' = ncycles /\ stage' = stage
        /\ begin' = begin
    BY <1>2 DEF SetBoundaries
  <2>2. Applied' = Applied
    BY <2>1, AppliedStays DEF Stages
  <2>3. Early(stage)' = Early(stage)
    BY <2>1, SameStage
  <2>4. Vc'.val = Vc.val /\ Vc.val = Value(Applied, Early(stage), Unit)
    BY <1>2, <2>1 DEF SetBoundaries, SolutionHyp, ArraysInv, SolutionInv
  <2>5. stage > 0 => begin.val.z = Unit
    BY <2>1 DEF SolutionHyp, SolutionInv, Stages
  <2> QED BY <2>1, <2>2, <2>3, <2>4, <2>5 DEF SolutionInv, AfterSum, InStage
<1>3. CASE PrimToCons \/ EvolveStage \/ AddAndStore
  BY <1>3, SolutionPrimToCons, SolutionEvolve, SolutionAdd
<1>4. CASE ShiftSolution \/ Coarsen \/ ConsToPrim
  BY <1>4, SolutionConvert
<1>5. CASE AddVelocity
  BY <1>5, SolutionAddVelocity
<1>6. CASE RklStart \/ RklStage
  BY <1>6 DEF RklStart, RklStage, SolutionInv, AfterSum, Stages, InStage
<1>7. CASE RklBoundaries
  BY <1>7, SolutionRklEnd
<1>8. CASE EndCycle
  <2>1. pc = "EndCycle" /\ pc' = "Top" /\ Vc' = Vc
    BY <1>8 DEF EndCycle
  <2>2. Applied' = Applied
    BY <1>8, AppliedNext DEF SolutionHyp
  <2> QED BY <2>1, <2>2 DEF SolutionHyp, SolutionInv, AfterSum, Stages, InStage
<1>9. CASE End \/ UNCHANGED vars
  BY <1>9, Idle DEF End, SolutionHyp
<1> QED BY <1>1, <1>2, <1>3, <1>4, <1>5, <1>6, <1>7, <1>8, <1>9 DEF Next
-----------------------------------------------------------------------------
(* The time                                                                   *)

LEMMA AtStart ==
  ASSUME LoopInv
  PROVE  /\ ncycles \in Int /\ t0 = Whole(ncycles) /\ t0 (+) Whole(0) = t0
         /\ t0 (+) Whole(1) = Whole(ncycles + 1) /\ Unit[1] = Whole(0)
         /\ Early(0)[1] = Whole(0)
<1>1. ncycles \in Int /\ t0 = Whole(ncycles)
  BY DEF LoopInv, t0
<1>2. \A n \in Int : Frac(n, 1) = Whole(n)
  BY WholeFrac
<1>3. 1 \in Positive
  BY Literals
<1>4. Whole(ncycles) (+) Frac(1, 1) = Frac(ncycles * 1 + 1, 1)
  BY <1>1, <1>3, WholePlus
<1>5. Frac(ncycles, 1) (+) Whole(0) = Frac(ncycles, 1)
  BY <1>1, <1>3, Neutral
<1>6. ncycles * 1 + 1 = ncycles + 1 /\ ncycles + 1 \in Int
  BY <1>1
<1>7. Unit[1] = Whole(0) /\ Early(0) = Unit
  BY DEF Unit, Constant, Degrees, Early
<1> QED BY <1>1, <1>2, <1>4, <1>5, <1>6, <1>7

LEMMA TimeStarts == SolutionHyp /\ LaunchUserStepFirst => TimeInv'
<1> SUFFICES ASSUME SolutionHyp, LaunchUserStepFirst PROVE TimeInv'
  OBVIOUS
<1>1. /\ pc = "Top" /\ conf' = conf /\ ncycles' = ncycles /\ stage' = 0 /\ t' = t
      /\ pc' = IF haveRKL /\ ncycles % 2 = 1 THEN "RklStart" ELSE "SetBoundaries"
  BY DEF LaunchUserStepFirst
<1>2. t = t0 /\ t0' = t0
  BY <1>1 DEF SolutionHyp, TimeInv, t0
<1>3. t0 (+) Whole(0) = t0 /\ Early(0)[1] = Whole(0)
  BY AtStart DEF SolutionHyp
<1>4. Early(stage)' = Early(0)
  BY <1>1 DEF Early, Poly
<1>5. CASE pc' = "RklStart"
  BY <1>1, <1>2, <1>5 DEF TimeInv, AfterSum, InRklCycle
<1>6. CASE pc' = "SetBoundaries"
  BY <1>1, <1>2, <1>3, <1>4, <1>6 DEF TimeInv, AfterSum, InRklCycle
<1> QED BY <1>1, <1>5, <1>6

LEMMA TimeEvolve == SolutionHyp /\ EvolveStage => TimeInv'
<1> SUFFICES ASSUME SolutionHyp, EvolveStage PROVE TimeInv'
  OBVIOUS
<1>1. pc = "EvolveStage" /\ pc' \in {"Stopped", "AddAndStore"} /\ conf' = conf /\ ncycles' = ncycles
      /\ stage' = stage /\ t' = t (+) Whole(1)
  BY DEF EvolveStage
<1>2. CASE pc' = "Stopped"
  BY <1>2, Over
<1>3. CASE pc' = "AddAndStore"
  <2>1. t = t0 (+) Early(stage)[1] /\ t0' = t0 /\ t0 = Whole(ncycles) /\ ncycles \in Int
    BY <1>1, AtStart DEF SolutionHyp, TimeInv, t0
  <2>2. stage \in 0..2
    BY <1>1, StagesOf DEF SolutionHyp, Stages, InStage
  <2>3. t' = t0 (+) Grown(stage)[1]
    BY <1>1, <2>1, <2>2, StepTime
  <2>4. Grown(stage)' = Grown(stage)
    BY <1>1, SameStage
  <2> QED BY <1>3, <2>1, <2>3, <2>4 DEF TimeInv, AfterSum, InRklCycle
<1> QED BY <1>1, <1>2, <1>3

LEMMA TimeAdd == SolutionHyp /\ AddAndStore => TimeInv'
<1> SUFFICES ASSUME SolutionHyp, AddAndStore PROVE TimeInv'
  OBVIOUS
<1>1. pc = "AddAndStore" /\ pc' \in {"ShiftSolution", "Coarsen"} /\ conf' = conf /\ ncycles' = ncycles
      /\ stage' = stage
  BY DEF AddAndStore
<1>2. t = t0 (+) Grown(stage)[1] /\ t0' = t0 /\ t0 = Whole(ncycles) /\ ncycles \in Int
  BY <1>1, AtStart DEF SolutionHyp, TimeInv, t0
<1>3. stage \in 0..(conf.nstages - 1) /\ conf.nstages \in 1..3
  BY <1>1, StagesOf DEF SolutionHyp, Stages, InStage
<1>4. t' = t0 (+) Ended(conf.nstages, stage)[1]
  <2>1. CASE stage = 0
    <3>1. t' = t /\ Grown(stage) = Ended(conf.nstages, stage)
      BY <2>1 DEF AddAndStore, Grown, Ended
    <3> QED BY <3>1, <1>2
  <2>2. CASE stage # 0
    <3>1. t' = (wc[conf.nstages][stage] (.) t) (+) (w0[conf.nstages][stage] (.) t0)
      BY <2>2 DEF AddAndStore
    <3>2. conf.nstages \in 2..3 /\ stage \in 1..(conf.nstages - 1)
      BY <1>3, <2>2
    <3> QED BY <1>2, <3>1, <3>2, WeightedTime
  <2> QED BY <2>1, <2>2
<1>5. Ended(conf.nstages, stage)' = Ended(conf.nstages, stage)
  BY <1>1, SameStage
<1> QED BY <1>1, <1>2, <1>4, <1>5 DEF TimeInv, AfterSum, InRklCycle

LEMMA TimeAddVelocity == SolutionHyp /\ AddVelocity => TimeInv'
<1> SUFFICES ASSUME SolutionHyp, AddVelocity PROVE TimeInv'
  OBVIOUS
<1> DEFINE last == stage = conf.nstages - 1
<1>1. /\ pc = "AddVelocity" /\ conf' = conf /\ ncycles' = ncycles /\ t' = t
      /\ stage' = IF last THEN stage ELSE stage + 1
      /\ pc' = IF ~last THEN "SetBoundaries"
               ELSE IF haveRKL /\ ncycles % 2 = 0 THEN "RklStart" ELSE "EndCycle"
  BY DEF AddVelocity
<1>2. t = t0 (+) Ended(conf.nstages, stage)[1] /\ t0' = t0
  BY <1>1 DEF SolutionHyp, TimeInv, t0
<1>3. stage \in 0..(conf.nstages - 1) /\ conf.nstages \in 1..3
  BY <1>1, StagesOf DEF SolutionHyp, Stages
<1>4. CASE ~last
  <2>1. stage \in 0..(conf.nstages - 2) /\ stage' = stage + 1 /\ pc' = "SetBoundaries"
    BY <1>1, <1>3, <1>4
  <2>2. Ended(conf.nstages, stage) = Early(stage + 1)
    BY <1>3, <2>1, EndedEarly
  <2>3. Early(stage)' = Early(stage + 1)
    BY <2>1 DEF Early, Poly
  <2> QED BY <1>1, <1>2, <2>1, <2>2, <2>3 DEF TimeInv, AfterSum, InRklCycle
<1>5. CASE last
  <2>1. Ended(conf.nstages, stage)[1] = Whole(1)
    BY <1>3, <1>5, EndedLast
  <2>2. t' = t0' (+) Whole(1)
    BY <1>1, <1>2, <2>1
  <2>3. pc' = "EndCycle" \/ (pc' = "RklStart" /\ ncycles' % 2 # 1)
    BY <1>1, <1>5
  <2> QED BY <2>2, <2>3 DEF TimeInv, AfterSum, InRklCycle
<1> QED BY <1>4, <1>5

LEMMA TimeInvNext == SolutionHyp /\ [Next]_vars => TimeInv'
<1> SUFFICES ASSUME SolutionHyp, [Next]_vars PROVE TimeInv'
  OBVIOUS
<1>1. CASE LaunchUserStepFirst
  BY <1>1, TimeStarts
<1>2. CASE SetBoundaries \/ PrimToCons
  <2>1. /\ pc \in {"SetBoundaries", "PrimToCons"} /\ pc' \in {"PrimToCons", "EvolveStage"}
        /\ conf' = conf /\ ncycles' = ncycles /\ stage' = stage /\ t' = t
    BY <1>2 DEF SetBoundaries, PrimToCons
  <2>2. Early(stage)' = Early(stage) /\ t0' = t0
    BY <2>1, SameStage DEF t0
  <2>3. t = t0 (+) Early(stage)[1]
    BY <2>1 DEF SolutionHyp, TimeInv
  <2>4. Vc'.bc = t
    <3>1. CASE SetBoundaries
      BY <3>1 DEF SetBoundaries, SolutionHyp, ArraysInv
    <3>2. CASE PrimToCons
      BY <3>2 DEF PrimToCons, SolutionHyp, ArraysInv, TimeInv
    <3> QED BY <1>2, <3>1, <3>2
  <2> QED BY <2>1, <2>2, <2>3, <2>4 DEF TimeInv, AfterSum, InRklCycle
<1>3. CASE EvolveStage \/ AddAndStore \/ AddVelocity
  BY <1>3, TimeEvolve, TimeAdd, TimeAddVelocity
<1>4. CASE ShiftSolution \/ Coarsen \/ ConsToPrim
  <2>1. /\ pc \in AfterSum /\ pc' \in {"Refused"} \cup (AfterSum \ {"ShiftSolution"}) \cup {"AddVelocity"}
        /\ conf' = conf /\ ncycles' = ncycles /\ stage' = stage /\ t' = t
    BY <1>4 DEF ShiftSolution, Coarsen, ConsToPrim, AfterSum
  <2>2. Ended(conf.nstages, stage)' = Ended(conf.nstages, stage) /\ t0' = t0
    BY <2>1, SameStage DEF t0
  <2>3. t = t0 (+) Ended(conf.nstages, stage)[1]
    BY <2>1 DEF SolutionHyp, TimeInv
  <2> QED BY <2>1, <2>2, <2>3 DEF TimeInv, AfterSum, InRklCycle
<1>5. CASE RklStart \/ RklStage
  <2>1. /\ pc \in InRklCycle /\ pc' \in {"Stopped", "RklBoundaries"}
        /\ ncycles' = ncycles /\ t' = t
    BY <1>5 DEF RklStart, RklStage, InRklCycle
  <2>2. t0' = t0
    BY <2>1 DEF t0
  <2> QED BY <2>1, <2>2 DEF SolutionHyp, TimeInv, AfterSum, InRklCycle
<1>6. CASE RklBoundaries
  <2>1. /\ pc = "RklBoundaries" /\ ncycles' = ncycles /\ t' = t /\ stage' = stage
        /\ \/ pc' = "RklStage"
           \/ pc' = "SetBoundaries" /\ ncycles % 2 = 1
           \/ pc' = "EndCycle" /\ ncycles % 2 # 1
    BY <1>6 DEF RklBoundaries
  <2>2. t0' = t0 /\ t = IF ncycles % 2 = 1 THEN t0 ELSE t0 (+) Whole(1)
    BY <2>1 DEF t0, SolutionHyp, TimeInv, InRklCycle
  <2>3. CASE pc' = "SetBoundaries"
    <3>1. stage = 0
      BY <2>1, <2>3 DEF SolutionHyp, LoopInv, InRklCycle
    <3>2. Early(stage)' = Early(0)
      BY <2>1, <3>1 DEF Early, Poly
    <3>3. t0 (+) Early(0)[1] = t0
      BY AtStart DEF SolutionHyp
    <3> QED BY <2>1, <2>2, <2>3, <3>2, <3>3 DEF TimeInv, AfterSum, InRklCycle
  <2> QED BY <2>1, <2>2, <2>3 DEF TimeInv, AfterSum, InRklCycle
<1>7. CASE EndCycle
  <2>1. pc' = "Top" /\ t' = t0 (+) Whole(1) /\ ncycles' = ncycles + 1
    BY <1>7 DEF EndCycle
  <2>2. t0 (+) Whole(1) = Whole(ncycles + 1)
    BY AtStart DEF SolutionHyp
  <2> QED BY <2>1, <2>2 DEF TimeInv, AfterSum, InRklCycle, t0
<1>8. CASE End \/ UNCHANGED vars
  BY <1>8, Idle DEF End, SolutionHyp
<1> QED BY <1>1, <1>2, <1>3, <1>4, <1>5, <1>6, <1>7, <1>8 DEF Next
-----------------------------------------------------------------------------
(* The stages of RKL                                                          *)

\* There are at least as many stages as the order.
LEMMA StagesEnough ==
  ASSUME LoopInv, conf.rklOrder > 0, NEW x \in conf.ratios
  PROVE  rklstages(x) \in Nat /\ rklstages(x) >= conf.rklOrder /\ rklstages(x) >= 1
         /\ conf.rklOrder \in 1..2
<1> DEFINE s == rklstages(x)
<1>1. conf \in Configs /\ conf.rklOrder \in 1..2
  BY Input DEF LoopInv
<1>2. x[1] \in Nat \ {0} /\ x[2] \in Nat \ {0}
  BY <1>1, RatiosAssumption
<1>3. s \in Nat \ {0}
  <2>1. s \in 1..MaxStages
    BY <1>1, StagesExist DEF rklstages
  <2> QED BY <2>1, CycleAssumption
<1>4. Stable(s, x)
  BY StagesStable
<1> HIDE DEF s
<1>5. conf.rklOrder = 2 => s >= 2
  <2>1. s = 1 => (s * s + s - 2) * x[2] = 0
    BY <1>2
  <2>2. conf.rklOrder = 2 => 4 * x[1] <= (s * s + s - 2) * x[2]
    BY <1>4 DEF Stable
  <2> QED BY <1>2, <1>3, <2>1, <2>2
<1> QED BY <1>1, <1>3, <1>5 DEF s

\* What a stage of RKL does to the two arrays.
LEMMA FinishIs ==
  ASSUME NEW val, NEW where, Finish(val, where)
  PROVE  Uc'.val = val /\ Vc'.val = val
BY DEF Finish, Array, Primitive

LEMMA RklStarts == SolutionHyp /\ RklStart => RklInv'
<1> SUFFICES ASSUME SolutionHyp, RklStart PROVE RklInv'
  OBVIOUS
<1>1. /\ pc = "RklStart" /\ pc' \in {"Stopped", "RklBoundaries"} /\ conf' = conf
      /\ ncycles' = ncycles /\ t' = t
  BY DEF RklStart
<1>2. CASE pc' = "Stopped"
  BY <1>2, Over
<1>3. CASE pc' = "RklBoundaries"
  <2>1. Vc.val = Value(Applied, Unit, Unit)
    BY <1>1 DEF SolutionHyp, SolutionInv
  <2>2. Vc.val.word = Applied /\ Vc.val.z = Unit /\ Vc.val.y = Unit
    BY <2>1, ValueIs
  <2>3. conf.rklOrder > 0 /\ LoopInv
    BY <1>1 DEF SolutionHyp, StableInv, InRklCycle
  <2>4. PICK x \in conf.ratios :
          /\ Finish(Value(Applied, Unit, Started(rklstages(x))), InRkl)
          /\ rkl' = [cycle |-> TRUE, stage |-> 2, stages |-> rklstages(x), ratio |-> x,
                     time |-> StageTime(1, rklstages(x)),
                     Uc0 |-> Unit, Uc1 |-> Unit, dU0 |-> Raise(Unit, 2)]
    BY <2>2 DEF RklStart, Started
  <2> DEFINE s == rklstages(x)
  <2>5. s \in Nat /\ s >= conf.rklOrder /\ s >= 1 /\ conf.rklOrder \in 1..2
    BY <2>3, StagesEnough
  <2> HIDE DEF s
  <2>6. Uc'.val = Value(Applied, Unit, Started(s)) /\ Vc'.val = Value(Applied, Unit, Started(s))
    BY <2>4, FinishIs DEF s
  <2>7. Vc'.val.y = Started(s) /\ Uc'.val.y = Started(s)
    BY <2>6, ValueIs
  <2>8. /\ rkl'.stages = s /\ rkl'.stage = 2 /\ rkl'.Uc0 = Unit /\ rkl'.Uc1 = Unit
        /\ rkl'.dU0 = Raise(Unit, 2) /\ rkl'.time = StageTime(1, s)
    BY <2>4 DEF s
  <2>9. IsY(conf.rklOrder, Started(s), 1, s) /\ IsY(conf.rklOrder, Unit, 0, s)
    BY <2>5, StartedIsY, UnitIsY
  <2>10. conf.rklOrder = 1 => StageTime(1, s) = t (+) First(conf.rklOrder, 1, s)
    BY <2>5, StageTimeIs
  <2>11. Applied' = Applied
    BY <1>1, <1>3, AppliedStays DEF Stages, InStage
  <2>12. 2 - 1 = 1 /\ 2 - 2 = 0 /\ 2 <= s + 1 /\ 2 \in Nat /\ ~(2 > 2) /\ 2 >= 2
    BY <2>5
  <2>13. /\ rkl'.stages \in Nat /\ rkl'.stages >= conf'.rklOrder
         /\ rkl'.stage \in Nat /\ rkl'.stage >= 2 /\ rkl'.stage <= rkl'.stages + 1
    BY <1>1, <2>5, <2>8, <2>12
  <2>14. Vc'.val = Value(Applied', Unit, Vc'.val.y) /\ Uc'.val.y = Vc'.val.y
    BY <2>6, <2>7, <2>11
  <2>15. /\ IsY(conf'.rklOrder, Vc'.val.y, rkl'.stage - 1, rkl'.stages)
         /\ IsY(conf'.rklOrder, rkl'.Uc1, rkl'.stage - 2, rkl'.stages)
    BY <1>1, <2>7, <2>8, <2>9, <2>12
  <2>16. conf'.rklOrder = 1 \/ rkl'.stage > 2 =>
             rkl'.time = t' (+) First(conf'.rklOrder, rkl'.stage - 1, rkl'.stages)
    BY <1>1, <2>8, <2>10, <2>12
  <2> QED BY <1>3, <2>8, <2>13, <2>14, <2>15, <2>16 DEF RklInv, RklOn
<1> QED BY <1>1, <1>2, <1>3

LEMMA RklSteps == SolutionHyp /\ RklStage => RklInv'
<1> SUFFICES ASSUME SolutionHyp, RklStage PROVE RklInv'
  OBVIOUS
<1>1. /\ pc = "RklStage" /\ pc' \in {"Stopped", "RklBoundaries"} /\ conf' = conf
      /\ ncycles' = ncycles /\ t' = t
  BY DEF RklStage
<1>2. CASE pc' = "Stopped"
  BY <1>2, Over
<1>3. CASE pc' = "RklBoundaries"
  <2> DEFINE j == rkl.stage
             s == rkl.stages
             f == Vc.val.y
             g == rkl.Uc1
             h == Stepped(j, s, f, g)
  <2>1. /\ s \in Nat /\ s >= conf.rklOrder /\ j \in Nat /\ j >= 2 /\ j <= s
        /\ Vc.val = Value(Applied, Unit, f) /\ Uc.val.y = f
        /\ IsY(conf.rklOrder, f, j - 1, s) /\ IsY(conf.rklOrder, g, j - 2, s)
        /\ rkl.Uc0 = Unit /\ rkl.dU0 = Raise(Unit, 2)
    BY <1>1 DEF SolutionHyp, RklInv, RklOn
  <2>2. conf.rklOrder \in 1..2
    <3>1. conf.rklOrder > 0 /\ conf.rklOrder \in 0..2
      BY <1>1, StagesOf DEF SolutionHyp, StableInv, InRklCycle
    <3> QED BY <3>1
  <2>3. Vc.val.word = Applied /\ Vc.val.z = Unit
    BY <2>1, ValueIs
  <2>4. Finish(Value(Applied, Unit, h), InRkl)
    <3>1. Finish(Value(Vc.val.word, Vc.val.z, h), InRkl)
      BY <2>1 DEF RklStage, Stepped
    <3> QED BY <2>3, <3>1
  <2>5. /\ rkl'.stage = j + 1 /\ rkl'.stages = s /\ rkl'.Uc1 = f /\ rkl'.time = StageTime(j, s)
        /\ rkl'.Uc0 = rkl.Uc0 /\ rkl'.dU0 = rkl.dU0
    <3>1. DOMAIN rkl = {"cycle", "stage", "stages", "ratio", "time", "Uc0", "Uc1", "dU0"}
      BY <1>1 DEF SolutionHyp, StableInv, NoRkl
    <3>2. rkl' = [rkl EXCEPT !.stage = j + 1, !.Uc1 = f, !.time = StageTime(j, s)]
      BY <2>1 DEF RklStage
    <3> HIDE DEF j, s, f
    <3>3. /\ rkl'.stage = j + 1 /\ rkl'.stages = rkl.stages /\ rkl'.Uc1 = f
          /\ rkl'.time = StageTime(j, s) /\ rkl'.Uc0 = rkl.Uc0 /\ rkl'.dU0 = rkl.dU0
      BY <3>1, <3>2
    <3> QED BY <3>3 DEF s
  <2>6. Applied' = Applied
    BY <1>1, <1>3, AppliedStays DEF Stages, InStage
  <2> HIDE DEF j, s, f, g, h
  <2>7. IsY(conf.rklOrder, h, j, s)
    BY <2>1, <2>2, SteppedIs DEF h
  <2>8. StageTime(j, s) = t (+) First(conf.rklOrder, j, s)
    <3>1. j >= conf.rklOrder
      BY <2>1, <2>2
    <3> QED BY <2>1, <2>2, <3>1, StageTimeIs
  <2>9. Uc'.val = Value(Applied, Unit, h) /\ Vc'.val = Value(Applied, Unit, h)
    BY <2>4, FinishIs
  <2>10. Uc'.val.y = h /\ Vc'.val.y = h
    BY <2>9, ValueIs
  <2>11. rkl'.stage - 1 = j /\ rkl'.stage - 2 = j - 1
    BY <2>1, <2>5
  <2>12. /\ rkl'.stages \in Nat /\ rkl'.stages >= conf'.rklOrder
         /\ rkl'.stage \in Nat /\ rkl'.stage >= 2 /\ rkl'.stage <= rkl'.stages + 1
    BY <1>1, <2>1, <2>5
  <2>13. Vc'.val = Value(Applied', Unit, Vc'.val.y) /\ Uc'.val.y = Vc'.val.y
    BY <2>6, <2>9, <2>10
  <2>14. /\ IsY(conf'.rklOrder, Vc'.val.y, rkl'.stage - 1, rkl'.stages)
         /\ IsY(conf'.rklOrder, rkl'.Uc1, rkl'.stage - 2, rkl'.stages)
    BY <1>1, <2>1, <2>5, <2>7, <2>10, <2>11
  <2>15. rkl'.time = t' (+) First(conf'.rklOrder, rkl'.stage - 1, rkl'.stages)
    BY <1>1, <2>5, <2>8, <2>11
  <2>16. rkl'.Uc0 = Unit /\ rkl'.dU0 = Raise(Unit, 2)
    BY <2>1, <2>5
  <2> QED BY <1>3, <2>12, <2>13, <2>14, <2>15, <2>16 DEF RklInv, RklOn
<1> QED BY <1>1, <1>2, <1>3

LEMMA RklGoesOn == SolutionHyp /\ RklBoundaries => RklInv'
<1> SUFFICES ASSUME SolutionHyp, RklBoundaries PROVE RklInv'
  OBVIOUS
<1>1. pc = "RklBoundaries" /\ conf' = conf /\ ncycles' = ncycles /\ t' = t /\ Uc' = Uc
  BY DEF RklBoundaries
<1>2. CASE ~(rkl.stage <= rkl.stages)
  <2>1. rkl' = NoRkl /\ pc' \in {"SetBoundaries", "EndCycle"}
    BY <1>2 DEF RklBoundaries
  <2> QED BY <2>1 DEF RklInv, RklOn
<1>3. CASE rkl.stage <= rkl.stages
  <2>1. rkl' = rkl /\ pc' = "RklStage" /\ Vc'.val = Vc.val /\ Vc'.bc = rkl.time
    BY <1>3 DEF RklBoundaries, SolutionHyp, ArraysInv
  <2>2. Applied' = Applied
    BY <1>1, <2>1, AppliedStays DEF Stages, InStage
  <2> DEFINE f == Vc.val.y
  <2>3. /\ rkl.stages \in Nat /\ rkl.stages >= conf.rklOrder
        /\ rkl.stage \in Nat /\ rkl.stage >= 2 /\ rkl.stage <= rkl.stages + 1
        /\ Vc.val = Value(Applied, Unit, f) /\ Uc.val.y = f
        /\ IsY(conf.rklOrder, f, rkl.stage - 1, rkl.stages)
        /\ IsY(conf.rklOrder, rkl.Uc1, rkl.stage - 2, rkl.stages)
        /\ rkl.Uc0 = Unit /\ rkl.dU0 = Raise(Unit, 2)
        /\ conf.rklOrder = 1 \/ rkl.stage > 2 =>
             rkl.time = t (+) First(conf.rklOrder, rkl.stage - 1, rkl.stages)
    BY <1>1 DEF SolutionHyp, RklInv, RklOn
  <2>4. Vc'.val.y = f
    BY <2>1
  <2> HIDE DEF f
  <2>5. /\ Vc'.val = Value(Applied', Unit, Vc'.val.y) /\ Uc'.val.y = Vc'.val.y
        /\ IsY(conf'.rklOrder, Vc'.val.y, rkl'.stage - 1, rkl'.stages)
        /\ IsY(conf'.rklOrder, rkl'.Uc1, rkl'.stage - 2, rkl'.stages)
    BY <1>1, <2>1, <2>2, <2>3, <2>4
  <2>6. conf'.rklOrder = 1 \/ rkl'.stage > 2 =>
             rkl'.time = t' (+) First(conf'.rklOrder, rkl'.stage - 1, rkl'.stages)
    BY <1>1, <2>1, <2>3
  <2> QED BY <1>1, <1>3, <2>1, <2>3, <2>5, <2>6 DEF RklInv, RklOn
<1> QED BY <1>2, <1>3

LEMMA RklInvNext == SolutionHyp /\ [Next]_vars => RklInv'
<1> SUFFICES ASSUME SolutionHyp, [Next]_vars PROVE RklInv'
  OBVIOUS
<1>1. CASE RklStart \/ RklStage \/ RklBoundaries
  BY <1>1, RklStarts, RklSteps, RklGoesOn
<1>2. CASE \/ LaunchUserStepFirst \/ SetBoundaries \/ PrimToCons \/ EvolveStage \/ AddAndStore
           \/ ShiftSolution \/ Coarsen \/ ConsToPrim \/ AddVelocity \/ EndCycle
  <2>1. /\ pc \notin RklOn \cup {"Stopped", "Refused"} /\ pc' \notin RklOn /\ rkl' = rkl
    BY <1>2 DEF LaunchUserStepFirst, SetBoundaries, PrimToCons, EvolveStage, AddAndStore,
       ShiftSolution, Coarsen, ConsToPrim, AddVelocity, EndCycle, RklOn
  <2> QED BY <2>1 DEF SolutionHyp, RklInv, RklOn
<1>3. CASE End \/ UNCHANGED vars
  BY <1>3, Idle DEF End, SolutionHyp
<1> QED BY <1>1, <1>2, <1>3 DEF Next
-----------------------------------------------------------------------------
(* Theorems                                                                   *)

\* What holds at every place of a cycle.
LEMMA SolutionHypInit == Init => SolutionHyp
<1> SUFFICES ASSUME Init PROVE SolutionHyp
  OBVIOUS
<1>1. LoopInv /\ ArraysInv /\ StableInv
  BY Input DEF Init, LoopInv, ArraysInv, StableInv, Places, Stages, InStage, Outside, InRklCycle,
     Primitive, Array
<1>2. pc = "Top" /\ ncycles = 0 /\ t = Whole(0) /\ rkl = NoRkl /\ Vc.val = Start
  BY DEF Init, Primitive, Array
<1>3. Applied = <<>>
  <2>1. PerCycle * ncycles + InThisCycle = 0
    <3>1. PerCycle \in {1, 2} /\ InThisCycle = 0
      BY <1>2 DEF PerCycle, InThisCycle
    <3> QED BY <1>2, <3>1
  <2> QED BY <2>1, NoLetter DEF Applied
<1>4. SolutionInv
  BY <1>2, <1>3 DEF SolutionInv, Start, AfterSum, Stages, InStage
<1>5. TimeInv
  BY <1>2 DEF TimeInv, t0, AfterSum, InRklCycle
<1>6. RklInv
  BY <1>2 DEF RklInv, RklOn
<1> QED BY <1>1, <1>4, <1>5, <1>6 DEF SolutionHyp

LEMMA SolutionHypNext == SolutionHyp /\ [Next]_vars => SolutionHyp'
BY LoopInvNext, ArraysInvNext, StableInvNext, SolutionInvNext, TimeInvNext, RklInvNext DEF SolutionHyp

\* The letters of the applied operators.
LEMMA AppliedAtTop ==
  ASSUME SolutionHyp, pc = "Top"
  PROVE  /\ ncycles \in Nat /\ haveRKL \in BOOLEAN
         /\ Vc.val.word = Letters(haveRKL, PerCycle * ncycles)
<1>1. ncycles \in Nat /\ haveRKL \in BOOLEAN /\ PerCycle \in {1, 2}
  BY AppliedType DEF SolutionHyp
<1>2. Vc.val.word = Applied
  BY ValueIs DEF SolutionHyp, SolutionInv
<1>3. InThisCycle = 0
  BY DEF InThisCycle
<1>4. PerCycle * ncycles + InThisCycle = PerCycle * ncycles
  BY <1>1, <1>3
<1> QED BY <1>1, <1>2, <1>4 DEF Applied

\* Letters are those of the places, and as many as asked.
LEMMA LettersAre ==
  ASSUME NEW r, NEW n \in Nat
  PROVE  Len(Letters(r, n)) = n /\ \A k \in 1..n : Letters(r, n)[k] = Letter(r, k)
<1>1. Letters(r, n) \in Seq({"H", "P"})
  BY DEF Letters, Letter
<1> QED BY <1>1 DEF Letters

\* Every cycle applies each operator once, for the whole of dt and to the order
\* of its integrator, in any run: Runge-Kutta of 1 to 3 stages, and RKL of
\* order 1 and 2 with the number of stages that any ratio of the time steps asks.
THEOREM CyclesAreAccurate == Spec => []Accurate
<1>1. SolutionHyp => Accurate
  <2> SUFFICES ASSUME SolutionHyp, pc = "Top" PROVE Accurate
    BY DEF Accurate
  <2> DEFINE w == Letters(haveRKL, PerCycle * ncycles)
  <2>1. ncycles \in Nat /\ haveRKL \in BOOLEAN /\ Vc.val.word = w
    BY AppliedAtTop
  <2>2. CASE haveRKL
    <3>1. PerCycle * ncycles = 2 * ncycles /\ 2 * ncycles \in Nat
      BY <2>1, <2>2 DEF PerCycle
    <3>2. Len(w) = 2 * ncycles /\ \A k \in 1..(2 * ncycles) : w[k] = Letter(haveRKL, k)
      BY <3>1, LettersAre
    <3>3. ASSUME NEW c \in 1..ncycles PROVE {w[2 * c - 1], w[2 * c]} = {"H", "P"}
      <4>1. 2 * c - 1 \in 1..(2 * ncycles) /\ 2 * c \in 1..(2 * ncycles)
        BY <2>1
      <4>2. /\ (2 * c - 1) % 4 \in {0, 1} <=> ~((2 * c) % 4 \in {0, 1})
        OBVIOUS
      <4>3. w[2 * c - 1] = Letter(haveRKL, 2 * c - 1) /\ w[2 * c] = Letter(haveRKL, 2 * c)
        BY <3>2, <4>1
      <4> HIDE DEF w
      <4> QED BY <2>2, <4>2, <4>3 DEF Letter
    <3> HIDE DEF w
    <3> QED BY <2>1, <2>2, <3>2, <3>3 DEF Accurate
  <2>3. CASE ~haveRKL
    <3>1. PerCycle * ncycles = ncycles
      BY <2>1, <2>3 DEF PerCycle
    <3>2. Len(w) = ncycles /\ \A k \in 1..ncycles : w[k] = Letter(haveRKL, k)
      BY <2>1, <3>1, LettersAre
    <3> HIDE DEF w
    <3> QED BY <2>1, <2>3, <3>2 DEF Accurate, Letter
  <2> QED BY <2>2, <2>3
<1> QED BY <1>1, SolutionHypInit, SolutionHypNext, PTL DEF Spec

\* Two cycles apply the operators in an order that read backwards is the same,
\* in a run of any length.
THEOREM SplittingIsSymmetric == Spec => []Symmetric
<1>1. SolutionHyp => Symmetric
  <2> SUFFICES ASSUME SolutionHyp, pc = "Top", ncycles % 2 = 0 PROVE Symmetric
    BY DEF Symmetric
  <2> DEFINE n == PerCycle * ncycles
             w == Letters(haveRKL, n)
  <2>1. ncycles \in Nat /\ haveRKL \in BOOLEAN /\ Vc.val.word = w
    BY AppliedAtTop
  <2>2. n \in Nat /\ (haveRKL => n = 2 * ncycles)
    BY <2>1 DEF PerCycle
  <2>3. haveRKL => n % 4 = 0
    BY <2>1, <2>2
  <2> HIDE DEF n
  <2>4. Len(w) = n /\ \A k \in 1..n : w[k] = Letter(haveRKL, k)
    BY <2>2, LettersAre
  <2>5. ASSUME NEW i \in 1..n PROVE w[i] = w[n + 1 - i]
    <3>1. n + 1 - i \in 1..n
      BY <2>2
    <3>2. w[i] = Letter(haveRKL, i) /\ w[n + 1 - i] = Letter(haveRKL, n + 1 - i)
      BY <2>4, <3>1
    <3>3. haveRKL => (i % 4 \in {0, 1} <=> (n + 1 - i) % 4 \in {0, 1})
      BY <2>2, <2>3
    <3> HIDE DEF w
    <3> QED BY <3>2, <3>3 DEF Letter
  <2> HIDE DEF w
  <2> QED BY <2>1, <2>4, <2>5 DEF Symmetric
<1> QED BY <1>1, SolutionHypInit, SolutionHypNext, PTL DEF Spec

\* Fluxes, sources and boundaries are evaluated at the time the solution has
\* reached, and the stages end at t0 + dt, whatever their number; so are those
\* of RKL, but the first at order 2.
THEOREM StagesAreOnTime == Spec => []StageTimes
<1>1. SolutionHyp => StageTimes
  <2> SUFFICES ASSUME SolutionHyp PROVE StageTimes
    OBVIOUS
  <2>1. pc = "EvolveStage" => Vc.bc = t /\ t = t0 (+) Vc.val.z[1]
    <3> SUFFICES ASSUME pc = "EvolveStage" PROVE Vc.bc = t /\ t = t0 (+) Vc.val.z[1]
      OBVIOUS
    <3>1. Vc.val = Value(Applied, Early(stage), Unit)
      BY DEF SolutionHyp, SolutionInv
    <3>2. Vc.val.z = Early(stage)
      BY <3>1, ValueIs
    <3> QED BY <3>2 DEF SolutionHyp, TimeInv
  <2>2. pc = "RklStage" =>
          /\ Vc.bc = rkl.time
          /\ conf.rklOrder = 1 \/ rkl.stage > 2 => rkl.time = t (+) Vc.val.y[1]
    BY DEF SolutionHyp, RklInv, RklOn, IsY
  <2>3. pc = "EndCycle" => t = t0 (+) Whole(1)
    BY DEF SolutionHyp, TimeInv
  <2> QED BY <2>1, <2>2, <2>3 DEF StageTimes
<1> QED BY <1>1, SolutionHypInit, SolutionHypNext, PTL DEF Spec
=============================================================================
