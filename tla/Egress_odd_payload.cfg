\* Channel data for datagrams whose payload is not a whole number of
\* 32-bit words; offloaded checksums, no resize failure, no map writes.
CONSTANTS
    Ports <- MC_Ports
    Addrs <- MC_Addrs
    Recs <- AllRecs
    InitStore <- ChannelStore
    Inputs <- InputsOddPayload
    AllocMayFail = FALSE
    InPlaceUpdate = FALSE
    MaxUpdates = 0
    NoMap = NoMap
    NoState = NoState
SPECIFICATION Spec
PROPERTY
    ImplementsContract
