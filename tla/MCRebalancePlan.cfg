\* Every distribution of 12 slots over 4 masters, every map order; one
\* pass may start tasks, any number of passes whose Proposes all fail.
CONSTANTS
    m1 = m1
    m2 = m2
    m3 = m3
    m4 = m4
    Masters <- MCMasters
    SlotCount = 12
    MaxPasses = 1
SPECIFICATION Spec
INVARIANT TypeOK
INVARIANT TasksNonEmpty
