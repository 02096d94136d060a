\* Three captured codes, an empty one and one that is too long, in a heap of
\* one message and a few leaked parts; 16 bits are 5 and a 38 kHz pulse is 4.
SPECIFICATION FairSpec
CONSTANTS
    Captures <- MCCaptures
    Others <- MCOthers
    PacketSizes = {1, 4, 5, 8, 9}
    Tick = 2
    Width = 32
    Word = 64
    EndCode = 5
    SeriesMax = 4
    MaxPacket = 8
    Envelope = 0
    MaxHeap = 150
    Chars <- MCChars
    Cut <- MCCut
    Header = 1
    Grain = 2
    Inside = 3
    StringGrain = 4
    ContentCopies = 3
    Names = 2
    ValueCopies = 3
    OnTime = 2
    OffTime = 2
    Jitter = 1
INVARIANTS
    TypeOK
    PartsFit
    HeapAccounted
    Replays
PROPERTIES
    KeyIsPlayed
    PlaybackKept
    EmissionEnds
