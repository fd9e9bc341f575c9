\* Two fields of one of two databases are changed at will.
CONSTANTS
    MaxTop = 9
    MaxChanges = 2
    MaxFixes = 1
    Fields = {"next", "exits", "contents", "loc", "owner", "link"}
SPECIFICATION Spec
INVARIANTS
    Repaired
    Detects
    Cautious
CHECK_DEADLOCK FALSE
