SPECIFICATION FairSpec
CONSTANTS
  p1 = p1
  p2 = p2
  m1 = m1
  m2 = m2
  m3 = m3
  m4 = m4
  m5 = m5
  None = None
  Procs = {p1, p2}
  Messages = {m1}
  Origin <- OneOrigin
  Target <- OneTarget
  Chunks <- Five
  Brief = {m1}
  Undisturbed = TRUE
  MaxLost = 3
  MaxDoubled = 2
  MaxCopies <- Twice
CHECK_DEADLOCK FALSE
INVARIANTS OneFragment
PROPERTIES SendReturns
