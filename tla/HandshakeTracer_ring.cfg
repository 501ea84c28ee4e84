\* Three CPUs, four handshakes, room for two records.
CONSTANTS
    c1 = c1
    c2 = c2
    c3 = c3
    h1 = h1
    h2 = h2
    h3 = h3
    h4 = h4
    CPUs <- MC_CPUs
    Handshakes <- MC_Handshakes
    Capacity = 2
SPECIFICATION Spec
INVARIANT TypeOK
INVARIANT ConsumedRecordsFilled
PROPERTY ImplementsHandshakeLog
