SPECIFICATION FairSpec
CONSTANTS
    Last = 4
    MaxSent <- MCSent
    Room = 1
PROPERTIES ImplementsStreams ConnectionsEnd
CHECK_DEADLOCK FALSE
