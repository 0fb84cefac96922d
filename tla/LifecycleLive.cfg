\* The v6plus static table instead of the rules of the network; calls fail, one crash.
SPECIFICATION FairSpec
CONSTANTS
    Prefix <- MCPrefix
    Prefix56 <- MCPrefix2
    Rule <- MCRule
    RuleLists <- MCRuleLists
    Derived <- MCDerived
    PortParams <- MCPortParams
    NoPortRanges = {"a8k8"}
    Ipv4 <- MCIpv4
    Psid = {1, 2}
    Br = {"br1", "br2"}
    UseStatic = TRUE
    StaticRules <- MCStatic
    AdminForward <- MCAdminForward
    MaxFaults = 2
    MaxCrashes = 1
    None = None
INVARIANT
    StaticParams
PROPERTY
    Recovers
