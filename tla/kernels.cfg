SPECIFICATION Spec
CONSTANTS
  Configs <- Cases
INVARIANTS InBounds NoRace Centred StageComplete NothingIsLost FrameTermsBalance ViscousFrame
CHECK_DEADLOCK FALSE
