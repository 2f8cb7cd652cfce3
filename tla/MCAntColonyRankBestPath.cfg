CONSTANTS
    MAX_CITIES = 4
    MAX_ANTS = 4
    MAX_DIST = 10
    QVAL = 100
    Builds = {1, 2}
    Scale = 100
    Layouts <- MCLayouts
SPECIFICATION Spec
INVARIANTS
    BestPathAdded
