SPECIFICATION Spec
CONSTANTS
    Sessions = {s1, s2}
    MaxSeq = 2
    MaxCalls = 2
INVARIANT
    FollowsGo
CHECK_DEADLOCK FALSE
