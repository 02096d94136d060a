\* The SDK reconnects by itself.
SPECIFICATION Spec
CONSTANTS
    Reachable = {"aliot"}
    AliotRetryMax = 3
    EmqxRetryMax = 5
INVARIANT SubscribedListens
