SPECIFICATION Spec
CONSTANTS
    FirstBuf = 2
    HeaderLimits = {5}
    UsizeRange = 16
    Requests <- MCRequests
    GlobalUpstream <- MCGlobal
    ServiceUpstream <- MCService
INVARIANT RejectedWith400
CHECK_DEADLOCK FALSE
