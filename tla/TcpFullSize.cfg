\* Segments of the full size the SYN|ACK of the firmware allows.
SPECIFICATION Spec
CONSTANTS
    TCP_MAX_SESSION = 1
    TCP_TIMEOUT = 1
    a = a
    b = b
    c = c
    service = service
    other = other
    Remotes = {a, b}
    NoRemote = NoRemote
    Ports = {service}
    NoPort = NoPort
    SERVICE_PORT = service
    SeqMod = 4
    MSS = 2
    MaxLen = 2
    Segments <- MCFullSegments
PROPERTY AcknowledgedIsPrinted
