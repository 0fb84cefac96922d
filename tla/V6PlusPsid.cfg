\* The rules of the generated table, with the layout that goes with it.
SPECIFICATION Spec
CONSTANTS
    CE = {c1, c2}
    Mode <- MCStaticOnly
    Rules <- MCRules
    Pools <- MCPools
    None = None
INVARIANT LayoutAsserted
SYMMETRY Symmetry
