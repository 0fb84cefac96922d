SPECIFICATION Spec
CONSTANTS
    CE = {c1, c2}
    Mode <- MCMode
    Rules <- MCRules
    Pools <- MCPools
    None = None
INVARIANT TypeOK
INVARIANT AnswersReturn
INVARIANT OneUserPerPortSet
INVARIANT FollowsLease
SYMMETRY Symmetry
