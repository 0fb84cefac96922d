\* Every branch of apply_if_ready, two failing calls or a crash anywhere.
SPECIFICATION Spec
CONSTANTS
    Prefix <- MCPrefix2
    Prefix56 <- MCPrefix2
    Rule <- MCRule
    RuleLists <- MCRuleLists
    Derived <- MCDerived2
    PortParams <- MCPortParams
    NoPortRanges = {"a8k8"}
    Ipv4 <- MCIpv4
    Psid = {1, 2}
    Br = {"br1", "br2"}
    UseStatic = FALSE
    StaticRules <- MCStatic
    AdminForward <- MCAdminForward
    MaxFaults = 2
    MaxCrashes = 1
    None = None
INVARIANTS
    TypeOK
    KernelMatchesParams
    TunnelHasParams
    ResidueExplained
    StagingGuarded
PROPERTY
    ImplementsService
