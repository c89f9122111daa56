SPECIFICATION SearchSpec
CONSTANTS
    Hosts <- MCHosts
    Patterns <- MCPatterns
    PartialLabels <- MCPartialLabels
    MaxPatterns = 2
    Tasks = {t1, t2}
    Capacity = 2
CONSTRAINT FewAreShared
INVARIANTS
    TypeOK
    RoutesAreSound
    RoutesAreComplete
    NarrowerPatternWins
    FileOrderDecidesLast
    CacheIsBounded
    CacheIsCoherent
    AnswersAreRoutes
PROPERTIES
    NewPatternTakesOnlyItsHosts
