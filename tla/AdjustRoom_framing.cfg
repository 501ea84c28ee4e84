\* egress_adjust_room.h with every flow state, both checksum modes, IPv4
\* headers with and without options, and one racing map write.
CONSTANTS
    Ports <- MC_Ports
    Addrs <- MC_Addrs
    Recs <- AllRecs
    InitStore <- ChannelStore
    Inputs <- InputsRoom
    AllocMayFail = TRUE
    InPlaceUpdate = FALSE
    MaxUpdates = 1
    NoMap = NoMap
    NoState = NoState
SPECIFICATION AdjustRoomSpec
INVARIANT ChannelDataFramed
