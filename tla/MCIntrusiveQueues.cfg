\* Three producers race with each other and with the consumer.
CONSTANTS
    Ops = {o1, o2, o3, o4}
    Producers = {p1, p2, p3}
    NULL = null
    INACTIVE = inactive
SYMMETRY Symmetry
SPECIFICATION Spec
INVARIANTS
    TypeOK
    NoDanglingLink
PROPERTY Implements
\* All memory may be leaked by handlers that throw.
CHECK_DEADLOCK FALSE
