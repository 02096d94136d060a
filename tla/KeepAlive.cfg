\* The backlog takes exactly a keep-alive to work off; a download takes longer.
SPECIFICATION FairSpec
CONSTANTS
    Keep = 7
    SocketTimeout = 1
    Cycle = 2
    Overrun = 7
    Answer = 1
    Backlog = 2
    Patience = 9
INVARIANTS
    TypeOK
    BrokerServed
    DeadNoticed
PROPERTIES
    NoFalseTimeout
    DeadIsLeft
