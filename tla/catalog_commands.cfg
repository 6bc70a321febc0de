SPECIFICATION Spec
CONSTANTS
    Nil = Nil
    Keys = {k1, k2}
    Bodies <- MCBodies
    Patches <- MCPatches
    Capacity = 2
    MaxRev = 4
    MaxReloads = 1
SYMMETRY KeySymmetry
CHECK_DEADLOCK FALSE
INVARIANTS
    PastReadsExactUnlessReleased
    StampsSound
    FilteredViewExactUnlessRelabelled
