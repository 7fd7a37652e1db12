CONSTANTS
    Writers = {w1}
    Sites = {s1, s2}
    AnySite = AnySite
    NoRecord = NoRecord
    MaxAppends = 4
SPECIFICATION LedgerSpec
INVARIANTS LedgerTypeOK Durable
PROPERTIES ImplementsLog
CHECK_DEADLOCK FALSE
