\* One study whose outcome is handed to sendData offline or oversized.
SPECIFICATION Spec
CONSTANTS
    Consoles = {c1}
    NoConsole = c0
    Remotes = {r1}
    NoRemote = none
    Sizes = {"fits", "overPacket", "overDoc"}
    MaxStudies = 1
INVARIANT UploadedMeansSent
