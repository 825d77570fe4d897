\* All relays reliable: the same-node RENAMENX path alone.
CONSTANTS
    n1 = n1
    n2 = n2
    n3 = n3
    a = a
    b = b
    None = None
    Src = Src
    Dst = Dst
    Nodes <- MCNodes
    Vals <- MCVals
    Faults = {}
SPECIFICATION Spec
CHECK_DEADLOCK FALSE
INVARIANT RenameNxNoOverwrite
