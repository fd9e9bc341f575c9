\* Due events leave the table and passes end.
CONSTANTS
  NOTHING = NOTHING
  p1 = p1
  g1 = g1
  Players = {p1}
  Programs = {g1}
  Mages = {}
  MaxProcess = 1
  MaxPlyr = 1
  MaxRuns = 2
  Delays = {0, 1}
  MaxCall = 2
  MaxPid = 2
  MaxNow = 2
SPECIFICATION FairSpec
PROPERTIES DueLeaves PassEnds
