SPECIFICATION FairSpec
CONSTANTS
    Users = {u1, u2}
    Conns = {c1, c2, c3}
    None = None
    Capacity = 1
    MaxEvents = 2
INVARIANTS
    TypeOK
    RegisteredTaskIsAlive
    EventsAreRoutedOnceInOrder
PROPERTIES
    OrphanedConnectionEnds
    AcceptedEventIsForwarded
CHECK_DEADLOCK FALSE
