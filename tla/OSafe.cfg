\* Every operation on a database of at most six objects, from two starts.
CONSTANTS
    MaxTop = 6
    MaxDepth = 3
    MaxCommands = 4
    Kinds = {"room", "player", "thing", "exit", "program"}
SPECIFICATION Spec
INVARIANTS
    ListsAgree
    FreeListSound
    References
    NoMetaLoops
PROPERTIES
    ParentsAcyclic
CHECK_DEADLOCK FALSE
