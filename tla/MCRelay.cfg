SPECIFICATION Spec
CONSTANTS
    FirstBuf = 1
    MaxBuf = 3
    CopyBuf = 1
    Uploads <- MCUploads
    Responses <- MCResponses
    GlobalMaps <- MCGlobalMaps
    ServiceMaps <- MCServiceMaps
INVARIANTS
    TypeOK
    ReturnsWhenAllIsPassed
PROPERTIES
    DownloadIsAPipe
    UploadIsAPipe
    UploadWaitsOnlyForTheHead
    DownloadArrives
CHECK_DEADLOCK FALSE
