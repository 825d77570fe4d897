\* Two concurrent first borrows to the same peer, MaxActive = 1: the
\* check-then-put in BorrowPeerClient registers two pools for one address.
\* Tasks stop after MaxBorrows borrows, so the model ends: deadlock is not
\* a property here.  No cluster password is configured (the default).
CONSTANTS
    t1 = t1
    t2 = t2
    Tasks <- MCTasks
    MaxActive = 1
    MaxIdle = 1
    MaxBorrows = 1
    NoPool = NoPool
    RequirePass = FALSE
SPECIFICATION Spec
CHECK_DEADLOCK FALSE
INVARIANT ConnectionsBounded
