\* Two objects, two changes of each, both builds: two crashes in the default
\* one, two delta dumps in the one with property lists on disk.
CONSTANTS
    Obj = {a, b}
    a = a
    b = b
    Builds = {"memory", "disk"}
    Crashes = {"panic", "kill"}
    MaxCopies = 0
    MaxChanges = 2
    MaxCrashes <- TwoInMemory
    MaxFull = 0
    MaxDeltas = 2
SYMMETRY Symmetry
SPECIFICATION Spec
INVARIANTS
    FetchRight
    Recoverable
PROPERTY AskedIsSaved
CHECK_DEADLOCK FALSE
