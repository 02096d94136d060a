\* One study is enough: the ticker comes due while the kit is ready to study.
SPECIFICATION Spec
CONSTANTS
    Consoles = {c1}
    NoConsole = c0
    Remotes = {r1}
    NoRemote = none
    Sizes = {"fits", "overPacket", "overDoc"}
    MaxStudies = 1
INVARIANT ReadyListens
