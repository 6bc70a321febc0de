SPECIFICATION Spec
CONSTANTS
    Managers = {m1, m2}
    Scalars = {"replicas"}
    Names = {x}
    ElementFields <- AroundName
    Values = {1, 2}
    ScalarValues = {1}
    MaxItems = 2
    Nil = Nil
SYMMETRY ManagerSymmetry
INVARIANTS
    OwnedExactlyUnlessLeftOver
    NoSilentOverwrite
