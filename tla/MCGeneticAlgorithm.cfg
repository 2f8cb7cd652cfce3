CONSTANTS
    MAXC = 4
    POPSIZE = 2
    NL = 1
    FOPT = 255
    Maps <- MCMaps
SPECIFICATION FairSpec
INVARIANTS
    PopulationsAreTours
    SortedPopulation
    BestOfPopulation
PROPERTIES
    KeepsBest
    Termination
