SPECIFICATION Spec
CONSTANTS
    Byte = {0, 1}
    SIZE = 4
    Backlog = 3
    Empty = Empty
    MaxBytes = 5
INVARIANTS
    TypeOK
    InterruptFollowsRing
    AllAccountedFor
PROPERTIES
    BytesInOrder
    EveryByteLeaves
\* A device that has nothing to pass on is at rest.
CHECK_DEADLOCK FALSE
