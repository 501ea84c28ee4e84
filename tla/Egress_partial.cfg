\* Offloaded UDP checksums (CHECKSUM_PARTIAL), every flow state, the
\* control plane writing egress_map twice while the filter runs.
CONSTANTS
    Ports <- MC_Ports
    Addrs <- MC_Addrs
    Recs <- PartialRecs
    InitStore <- PartialStore
    Inputs <- InputsPartial
    AllocMayFail = TRUE
    InPlaceUpdate = FALSE
    MaxUpdates = 2
    NoMap = NoMap
    NoState = NoState
SPECIFICATION Spec
INVARIANT TypeOK
INVARIANT ForwardedFrameWellFormed
INVARIANT SingleVersionApplied
PROPERTY
    ImplementsContract
