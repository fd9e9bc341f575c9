\* One object, with copies of older dumps, a crash and a failed write: what
\* becomes of the files, and the restart.
CONSTANTS
    Obj = {a}
    a = a
    Builds = {"memory", "disk"}
    Crashes = {"panic", "kill"}
    MaxCopies = 1
    MaxChanges = 1
    MaxCrashes <- OneCrash
    MaxFull = 1
    MaxDeltas = 1
SPECIFICATION FairSpec
INVARIANTS
    KeepsOne
PROPERTY ComesBack
CHECK_DEADLOCK FALSE
