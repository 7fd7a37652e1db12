SPECIFICATION Spec
CONSTANTS
    Service = {"mysql", "kafka", "nginx", "monitor"}
    IP = {"", "10.0.0.2"}
    Name = {"node2", "127.0.0.1"}
    NodeName <- Numbered
    MaxNodes = 3
    MaxEdits = 3
    ByHand <- Written
    NoFile = NoFile
    Unset = Unset
INVARIANTS PlanOK LoadSettles HostsFollowPlan JobsGoWhereShown
PROPERTIES PlanStaysSound SaveKeepsPlan
CHECK_DEADLOCK FALSE
