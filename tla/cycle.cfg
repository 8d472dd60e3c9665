SPECIFICATION MCSpec
CONSTANTS
    Configs <- Inputs
    MaxCycles = 4
    NanCycles = {0, 1, 2}
    MaxStages = 6
    Cells = 10
    MaxShift = 2
    Q = 4
INVARIANTS Accurate Symmetric StageTimes Frames EvolvesCoarse RklStable ShiftExact EdgesAgree NanFound MCTrueResidual MCFiniteTermination
