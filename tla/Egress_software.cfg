CONSTANTS
    Ports <- MC_Ports
    Addrs <- MC_Addrs
    Recs <- SoftwareRecs
    InitStore <- SoftwareStore
    Inputs <- InputsSoftware
    AllocMayFail = TRUE
    InPlaceUpdate = FALSE
    MaxUpdates = 2
    NoMap = NoMap
    NoState = NoState
SPECIFICATION Spec
INVARIANT ForwardedFrameWellFormed
