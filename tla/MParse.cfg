SPECIFICATION Spec
CONSTANTS
    MaxLevels = 2
    MaxVars = 5
    MaxFuncs = 1
    MaxCommands = 3
    MaxCalls = 1
    MaxArgs = 5
    MaxDenied = 1
    Inner = {"with", "func", "muf", "force"}
    VarNames = {"x", "how"}
INVARIANTS
    VariablesRight
    HowLive
    OperandsExist
    CountersRight
