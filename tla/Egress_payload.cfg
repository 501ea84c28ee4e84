CONSTANTS
    Ports <- MC_Ports
    Addrs <- MC_Addrs
    Recs <- AllRecs
    InitStore <- ChannelStore
    Inputs <- InputsPayload
    AllocMayFail = FALSE
    InPlaceUpdate = FALSE
    MaxUpdates = 0
    NoMap = NoMap
    NoState = NoState
SPECIFICATION Spec
INVARIANT ChannelDataFramed
