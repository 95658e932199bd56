SPECIFICATION Spec
CONSTANTS
  Off = Off
  None = None
  Pair = {a, b}
SYMMETRY PairSymmetry
INVARIANTS  LightsHonest QuietIsCurrent ShownAnswersAsked
PROPERTIES StoppedStays 
CHECK_DEADLOCK FALSE
