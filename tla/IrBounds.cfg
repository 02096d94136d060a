SPECIFICATION Spec
CONSTANTS
    BufSize = 3
    Threshold = 2
    MaxTx = 2
    MaxEdges = 4
PROPERTY ClearsInBuffer
