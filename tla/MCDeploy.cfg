SPECIFICATION HostSpec
CONSTANTS
    NumServices = 3
    Layer <- TwoThenOne
    Unprobed = {2}
    Concurrency = 1
INVARIANTS TypeOK SuccessIsComplete QuietAtEnd LayerBarrier VerdictObserved
PROPERTIES Termination
CHECK_DEADLOCK FALSE
