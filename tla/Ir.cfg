\* Two transmissions of up to four edges in a buffer of three entries: noise,
\* a frame that fills the buffer exactly, and one that overflows it.
SPECIFICATION FairSpec
CONSTANTS
    BufSize = 3
    Threshold = 2
    MaxTx = 2
    MaxEdges = 4
INVARIANTS
    TypeOK
    CodeIsContiguous
PROPERTIES
    CopyStable
    FrameIsTaken
    ReceiverKept
