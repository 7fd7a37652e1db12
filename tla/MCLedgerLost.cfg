CONSTANTS
    Writers = {w1, w2}
    Sites = {s1}
    AnySite = AnySite
    NoRecord = NoRecord
    MaxAppends = 2
SPECIFICATION LedgerSpec
INVARIANTS AckedKept
CHECK_DEADLOCK FALSE
