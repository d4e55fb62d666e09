SPECIFICATION Spec
CONSTANTS
    Prims <- MCPrims
    Splittable <- MCSplittableAll
    MinWidth <- MCMinWidth
    GridSteps = 8
INVARIANT
    BoundContainsSurface
