SPECIFICATION Spec
CONSTANTS
  t1 = t1
  t2 = t2
  s1 = s1
  domain = domain
  Threads = {t1, t2}
  Threats <- MCThreats
  WhitelistIps = {"ip1"}
  WhitelistHostnames = {}
  MinSamples = 1
  LearningRate = 100
  MaxVerdicts = 2
  MaxCrashes = 1
SYMMETRY Symmetry
INVARIANTS
  SoundSaveIsComplete
  LearnedShiftBounded
PROPERTIES
  VerdictsMoveReliability
CHECK_DEADLOCK FALSE
