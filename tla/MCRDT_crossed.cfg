SPECIFICATION Spec
CONSTANTS
  p1 = p1
  p2 = p2
  m1 = m1
  m2 = m2
  m3 = m3
  m4 = m4
  m5 = m5
  None = None
  Procs = {p1, p2}
  Messages = {m1, m2}
  Origin <- CrossedOrigin
  Target <- CrossedTarget
  Chunks <- TwoEach
  Brief = {}
  Undisturbed = FALSE
  MaxLost = 0
  MaxDoubled = 0
  MaxCopies <- OnceEach
CHECK_DEADLOCK FALSE
PROPERTIES OnlyAcksAdvance
