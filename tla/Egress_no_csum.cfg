CONSTANTS
    Ports <- MC_Ports
    Addrs <- MC_Addrs
    Recs <- SoftwareRecs
    InitStore <- SoftwareStore
    Inputs <- InputsNoCsum
    AllocMayFail = FALSE
    InPlaceUpdate = FALSE
    MaxUpdates = 0
    NoMap = NoMap
    NoState = NoState
SPECIFICATION Spec
INVARIANT ForwardedFrameWellFormed
