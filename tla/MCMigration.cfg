\* One task; waitCommitted gives up after 2 polls instead of 50; the source
\* or the target may crash.  The task's life ends, so deadlock is not
\* checked.
CONSTANTS
    Leader = Leader
    Src = Src
    Tgt = Tgt
    None = None
    Joiner = Joiner
    MaxPolls = 2
SPECIFICATION Spec
CHECK_DEADLOCK FALSE
INVARIANT TypeOK
INVARIANT ChangeRouteConfirmed
PROPERTY ChangeRouteReturns
