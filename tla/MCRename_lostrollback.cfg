\* Prepare and commit relays are delivered; a rollback relay may lose its
\* request or reply.
CONSTANTS
    n1 = n1
    n2 = n2
    n3 = n3
    a = a
    b = b
    None = None
    Src = Src
    Dst = Dst
    Nodes <- MCNodes
    Vals <- MCVals
    Faults = {"rollback"}
SPECIFICATION Spec
CHECK_DEADLOCK FALSE
INVARIANT NoStagedTxLeft
