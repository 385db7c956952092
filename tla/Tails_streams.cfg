\* Two requests for logs, one connection replaced by another.
SPECIFICATION TailsSpec
CONSTANTS
    Stream = {t1, t2}
    MaxConns = 2
    MaxAway = 1
    MaxLines = 1
    Buffer = 1
    None = None
INVARIANTS TailsTypeOK StoppedStaysStopped
PROPERTIES SessionEndsItsTails Released LastChunkArrives
CHECK_DEADLOCK FALSE
