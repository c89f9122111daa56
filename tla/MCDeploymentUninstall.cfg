SPECIFICATION Spec
CONSTANTS
    Durations <- MCDurations
    Disks <- MCDisks
    DefaultMain <- MCDefaultMain
INVARIANTS
    UninstallStopsIt
