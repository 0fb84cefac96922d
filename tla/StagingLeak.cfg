\* No call fails, no crash: a change of prefix is enough.
SPECIFICATION Spec
CONSTANTS
    Prefix <- MCPrefix2
    Prefix56 <- MCPrefix2
    Rule <- MCRule
    RuleLists <- MCRuleLists
    Derived <- MCDerived2
    PortParams <- MCPortParams
    NoPortRanges = {"a8k8"}
    Ipv4 <- MCIpv4
    Psid = {1, 2}
    Br = {"br1", "br2"}
    UseStatic = FALSE
    StaticRules <- MCStatic
    AdminForward <- MCAdminForward
    MaxFaults = 0
    MaxCrashes = 0
    None = None
INVARIANT
    NoStagingLeak
