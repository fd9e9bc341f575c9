SPECIFICATION Spec
CONSTANTS
    StackSize = 9
    MaxCount = 3
INVARIANTS
    OperandsTyped
    OwnOperands
    InBounds
    Counted
