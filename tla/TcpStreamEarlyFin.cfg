\* A client that sends its FIN right behind its data.
SPECIFICATION StreamSpec
CONSTANTS
    TCP_MAX_SESSION = 1
    TCP_TIMEOUT = 1
    service = service
    client = client
    Remotes = {client}
    NoRemote = NoRemote
    Ports = {service}
    NoPort = NoPort
    SERVICE_PORT = service
    SeqMod = 6
    MSS = 4
    MaxLen = 2
    Segments = {}
    ISN = 4
    Total = 2
    MaxInFlight = 2
    Patient = FALSE
    Duplicating = TRUE
    LossyHandshake = TRUE
INVARIANT AcknowledgedWasPrinted
CHECK_DEADLOCK FALSE
