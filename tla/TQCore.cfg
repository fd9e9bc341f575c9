\* One player whose programs sleep, read, fork, kill and queue; up to three
\* processes at a time.
CONSTANTS
  NOTHING = NOTHING
  p1 = p1
  g1 = g1
  Players = {p1}
  Programs = {g1}
  Mages = {}
  MaxProcess = 1
  MaxPlyr = 1
  MaxRuns = 2
  Delays = {0, 1}
  MaxCall = 2
  MaxPid = 3
  MaxNow = 2
SPECIFICATION Spec
INVARIANTS TypeOK QueueOrder FramesOwned CountNotOver
PROPERTIES ImplementsLife
