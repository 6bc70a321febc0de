SPECIFICATION Spec
CONSTANTS
    Nil = Nil
    Capacity = 1
    Setups <- MCSetups
CHECK_DEADLOCK FALSE
INVARIANTS
    TypeOK
PROPERTIES
    SweptIsGone
    CollectsExactlyOrphans
    NamespaceGoes
    ReplicaSetSettles
