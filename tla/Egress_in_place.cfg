CONSTANTS
    Ports <- MC_Ports
    Addrs <- MC_Addrs
    Recs <- AllRecs
    InitStore <- ChannelStore
    Inputs <- InputsPayload
    AllocMayFail = FALSE
    InPlaceUpdate = TRUE
    MaxUpdates = 2
    NoMap = NoMap
    NoState = NoState
SPECIFICATION Spec
INVARIANT SingleVersionApplied
