SPECIFICATION FairSpec
CONSTANTS
    Network = {n1, n2}
    NoNetwork = none
    MaxEvents = 1
    Sends = {1}
    Recalls = {2}
INVARIANTS
    Attended
    Isolation
    NothingLostUnasked
PROPERTIES
    CandidateEndsItself
    SwitchEnds
CHECK_DEADLOCK FALSE
