SPECIFICATION FairSpec
CONSTANTS
  p1 = p1
  p2 = p2
  m1 = m1
  m2 = m2
  m3 = m3
  m4 = m4
  m5 = m5
  None = None
  Procs = {p1, p2}
  Messages = {m1, m2, m3, m4, m5}
  Origin <- BothWaysOrigin
  Target <- BothWaysTarget
  Chunks <- OddAndEven
  Brief = {m2, m4}
  Undisturbed = TRUE
  MaxLost = 0
  MaxDoubled = 0
  MaxCopies <- OneOrMore
CHECK_DEADLOCK FALSE
INVARIANTS TypeOK
PROPERTIES ImplementsChannel SendReturns
