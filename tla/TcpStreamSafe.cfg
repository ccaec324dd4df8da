\* Everything may get lost, duplicated or reordered; FIN waits for the data.
SPECIFICATION StreamSpec
CONSTANTS
    TCP_MAX_SESSION = 1
    TCP_TIMEOUT = 1
    service = service
    client = client
    Remotes = {client}
    NoRemote = NoRemote
    Ports = {service}
    NoPort = NoPort
    SERVICE_PORT = service
    SeqMod = 7
    MSS = 4
    MaxLen = 2
    Segments = {}
    ISN = 4
    Total = 3
    MaxInFlight = 2
    Patient = TRUE
    Duplicating = TRUE
    LossyHandshake = TRUE
INVARIANTS AcknowledgedWasPrinted PrintedInOrder
CHECK_DEADLOCK FALSE
