\* Prepare and commit relays may lose their request or reply; rollback
\* relays are delivered.
CONSTANTS
    n1 = n1
    n2 = n2
    n3 = n3
    a = a
    b = b
    None = None
    Src = Src
    Dst = Dst
    Nodes <- MCNodes
    Vals <- MCVals
    Faults = {"prepare", "commit"}
SPECIFICATION Spec
INVARIANT TypeOK
PROPERTY AtomicRenameRefined
INVARIANT NoStagedTxLeft
CHECK_DEADLOCK FALSE
