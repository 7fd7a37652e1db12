SPECIFICATION FairSpec
CONSTANTS
    Pages = {p1, p2}
    MaxChain = 2
    MaxJobs = 3
    MaxRestarts = 1
    MaxWire = 2
INVARIANTS ConsoleOK ConclusionIsFinal
PROPERTIES PollEnds
CHECK_DEADLOCK FALSE
