\* Two entries, three peers; every kind of segment, every position of a payload.
SPECIFICATION Spec
CONSTANTS
    TCP_MAX_SESSION = 2
    TCP_TIMEOUT = 1
    a = a
    b = b
    c = c
    service = service
    other = other
    Remotes = {a, b, c}
    NoRemote = NoRemote
    Ports = {service}
    NoPort = NoPort
    SERVICE_PORT = service
    SeqMod = 4
    MSS = 4
    MaxLen = 2
    Segments <- MCSegments
SYMMETRY PeerSymmetry
INVARIANTS TypeOK OneSessionPerPeer
PROPERTIES NewcomersServed OnlyFullTableEvicts AcknowledgedIsPrinted ImplementsConnections
