SPECIFICATION Spec
CONSTANT
    Rounds = 2
INVARIANTS
    TypeOK
    NoDanglingOperation
    DeliveredWhole
    AbortsOnlyOnFailure
PROPERTIES
    ContractRespected
    RunsEnd
    ShutdownEnds
