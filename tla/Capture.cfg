SPECIFICATION Spec
CONSTANTS
    None = None
    Prefix <- MCPrefix
    Rule <- MCRules
    Lists <- MCLists
    Contents <- MCContents
    Harmless <- MCHarmless
    SockCap = 1
    DhcpCap = 1
    LeaseCap = 1
    MaxReplies = 2
    MaxFaults = 1
    p1 = p1
    p2 = p2
    b1 = b1
    b2 = b2
    b3 = b3
    relay1 = relay1
CHECK_DEADLOCK FALSE
INVARIANT TypeOK
INVARIANT PrefixConverges
INVARIANT RulesConverge
INVARIANT WholeList
PROPERTY Settles
PROPERTY CaptureEnds
