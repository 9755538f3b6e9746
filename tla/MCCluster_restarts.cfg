SPECIFICATION Spec
CONSTANTS
  srv = srv
  r1 = r1
  r2 = r2
  c1 = c1
  c2 = c2
  c3 = c3
  ann = ann
  bob = bob
  dan = dan
  Nothing = Nothing
  Master = srv
  Repos = {r1, r2}
  Names = {ann, bob, dan}
  Hash <- Letters
  Clients <- TwoClients
  MaxActive = 2
  Attached <- FirstAttached
  Stores <- Circle
  Requests <- WritesAndQuery
  Short = {}
  Mortal = {srv}
  MaxCrashes = 1
  MaxCopies = 2
  MaxFailures = 0
CHECK_DEADLOCK FALSE
SYMMETRY ClientSymmetry
INVARIANTS Frontier
