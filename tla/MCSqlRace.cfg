SPECIFICATION Spec
CONSTANTS
    Order <- PairOrder
    Ddl <- PackageDdl
    Content = {old, new}
    Runners = {upgrade, command}
    MaxRuns = 3
INVARIANTS HistoryOK DmlExactlyOnce SuccessMeansApplied
CHECK_DEADLOCK FALSE
