SPECIFICATION TimerSpec
CONSTANTS
    FirstBuf = 2
    HeaderLimits <- MCLimits
    UsizeRange = 16
    Requests <- MCRequests
    GlobalUpstream <- MCGlobal
    ServiceUpstream <- MCService
INVARIANTS
    TypeOK
    ReadHasRoom
    FittingHeadIsAccepted
    OnlyCheckedRequestsAreForwarded
    UpstreamReadsOneLength
    UpstreamReadsOurHeaders
    AnswersDoNotMix
PROPERTIES
    WaitsOnlyForWrites
    ShutdownEndsIt
CHECK_DEADLOCK FALSE
