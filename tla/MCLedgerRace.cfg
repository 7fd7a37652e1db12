CONSTANTS
    Writers = {w1, w2}
    Sites = {s1}
    AnySite = AnySite
    NoRecord = NoRecord
    MaxAppends = 4
SPECIFICATION LedgerSpec
INVARIANTS LatestIsNewest
CHECK_DEADLOCK FALSE
