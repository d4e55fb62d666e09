SPECIFICATION Spec
CONSTANTS
    Prims <- MCPrims
    Splittable <- MCSplittable
    MinWidth <- MCMinWidth
    GridSteps = 8
INVARIANTS
    BoundContainsSurface
