SPECIFICATION FairSpec
CONSTANTS
    s1 = s1
    s2 = s2
    p1 = p1
    p2 = p2
    r1 = r1
    Server <- MCServer
    Offer <- MCOffer
    NoRules = NoRules
    Infinity = Infinity
    None = None
    Granted = Granted
    Refused = Refused
    NoPd = NoPd
    Anyone = Anyone
    Capacity = 1
    MaxXid = 4
    MaxAnswers = 4
    MaxAge = 3
CHECK_DEADLOCK FALSE
INVARIANT TypeOK
INVARIANT DaemonFollowsLease
INVARIANT RenewNamesLessor
PROPERTY NoStaleLease
PROPERTY RenewalKeepsRules
PROPERTY ExpiredIsGivenUp
