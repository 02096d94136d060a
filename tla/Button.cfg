SPECIFICATION FairSpec
CONSTANTS
    Gap = 2
    Hold = 4
    Wrap = 9
    QuietMax = 20
    HeldMax = 8
INVARIANTS
    TypeOK
    OnlyLongPresses
    LongPressSeen
PROPERTY
    HeldResets
