\* Two players, one of them a mage, whose programs call each other and are
\* compiled and uncompiled while they wait; limits small enough to be reached.
CONSTANTS
  NOTHING = NOTHING
  p1 = p1
  p2 = p2
  g1 = g1
  g2 = g2
  Players = {p1, p2}
  Programs = {g1, g2}
  Mages = {p2}
  MaxProcess = 1
  MaxPlyr = 0
  MaxRuns = 2
  Delays = {0, 1}
  MaxCall = 2
  MaxPid = 2
  MaxNow = 2
SPECIFICATION Spec
SYMMETRY SameProgram
INVARIANTS InstancesMatch NoDanglingCode PlayerLimit
