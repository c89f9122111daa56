SPECIFICATION SearchSpec
CONSTANTS
    Hosts <- MCHosts
    Patterns <- RepeatedPatterns
    PartialLabels <- MCPartialLabels
    MaxPatterns = 2
    Tasks = {t1}
    Capacity = 2
CONSTRAINT FewAreShared
INVARIANT RoutesAreComplete
