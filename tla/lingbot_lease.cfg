SPECIFICATION FairSpec
CONSTANTS
    s1 = s1
    s2 = s2
    NoSession = NoSession
    Sessions = {s1, s2}
    Messages <- MCMessages
    Events <- MCEvents
INVARIANTS
    ChunksExclusive
    LeaseIsUsable
PROPERTIES
    HolderYields
    SessionsLeave
CHECK_DEADLOCK FALSE
