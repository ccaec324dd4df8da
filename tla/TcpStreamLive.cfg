\* Handshake and close get through; data and acknowledgements may get lost.
SPECIFICATION FairStreamSpec
CONSTANTS
    TCP_MAX_SESSION = 1
    TCP_TIMEOUT = 1
    service = service
    client = client
    Remotes = {client}
    NoRemote = NoRemote
    Ports = {service}
    NoPort = NoPort
    SERVICE_PORT = service
    SeqMod = 6
    MSS = 4
    MaxLen = 2
    Segments = {}
    ISN = 4
    Total = 2
    MaxInFlight = 9
    Patient = TRUE
    Duplicating = FALSE
    LossyHandshake = FALSE
PROPERTY StreamCompletes
CHECK_DEADLOCK FALSE
