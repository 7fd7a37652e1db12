SPECIFICATION Spec
CONSTANTS
    MaxEdits = 2
    MaxActs = 6
    MaxFaults = 1
    MaxNet = 2
    LastStep = 2
    Typed <- Bookmarks
    NoHash = NoHash
    Wait = Wait
    Ok = Ok
    Error = Error
INVARIANTS SessionOK ResetIsFinal
PROPERTIES ReopenRestores StaleAbsenceIgnored
CHECK_DEADLOCK FALSE
