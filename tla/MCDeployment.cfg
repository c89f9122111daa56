SPECIFICATION Spec
CONSTANTS
    Durations <- MCDurations
    Disks <- MCDisks
    DefaultMain <- MCDefaultMain
INVARIANTS
    TypeOK
    WhatStartsIsComplete
    WrittenTimersHold
    DeclaredTlsIsServed
    CheckCertsCoversTheStart
    
