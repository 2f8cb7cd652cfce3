CONSTANTS
    INF = 9999999
    MaxN = 4
    Cases <- MCCases
    MaxCases = 2
    MaxQueries = 1
    cityNum = 4
    T = 2
    Rounds = 2
    IntMax = 2147483647
    Layouts <- MCLayouts
    Char <- MCChar
    Keys <- MCKeys
    Values = {v1, v2}
    null = null
    Queries <- MCQueries
    Alphabet <- MCChar
    Patterns <- MCPatterns
    Texts <- MCTexts
    Fields <- MCFields
    MaxBall = 4
    BallsFiles <- MCBallsFiles
SPECIFICATION RunSpec
CHECK_DEADLOCK FALSE
INVARIANTS
    PrintedIsShortest
    DistanceIsRealised
    PhaseInvariant
    DistanceRoundsUp
    ToursArePermutations
    NothingBetterSeen
    LongestPrefixFound
    SolutionIsShortest
    AnswerIsLeast
    EachStateOnce
    AutomatonFindsBorders
    NoOccurrencePassed
    WorkGivesLeast
PROPERTIES
    PivotStable
    FloydWarshellEnds
    KeepsBest
    AnnealingEnds
    ImplementsSymbolTable
    LeavesNoDeadEnds
    SearchSucceeds
