\* Two connections accepted before shutdown; Close runs once.  The server
\* really stops after Close, so a final state is not a deadlock.
CONSTANTS
    c1 = c1
    c2 = c2
    Clients <- MCClients
    MaxRequests = 1
SPECIFICATION Spec
INVARIANT ShutdownClosesClients
CHECK_DEADLOCK FALSE
