\* Same bounds as MCRebalancePlan.cfg: one plan may overfill an importer.
CONSTANTS
    m1 = m1
    m2 = m2
    m3 = m3
    m4 = m4
    Masters <- MCMasters
    SlotCount = 12
    MaxPasses = 1
SPECIFICATION Spec
INVARIANT ImporterNotOverfilled
