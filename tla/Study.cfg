\* Two consoles, two remotes, three studies: a study can be superseded by one
\* of the other console and the same remote, then by one of the other remote.
SPECIFICATION FairSpec
CONSTANTS
    Consoles = {c1, c2}
    NoConsole = c0
    Remotes = {r1, r2}
    NoRemote = none
    Sizes = {"noise", "fits", "overPacket", "overDoc"}
    MaxStudies = 3
INVARIANTS
    TypeOK
    CompletedOwnRemote
    StudyInv
PROPERTIES
    ServiceKept
    QuietEventually
