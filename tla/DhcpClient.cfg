\* Two servers over a faulty network, and a restart.
SPECIFICATION FairSpec
CONSTANTS
    S1 = S1
    S2 = S2
    Servers <- MCServers
    NoServer = NoServer
    Promiscuous = TRUE
    Unicasting = {}
    Neighbours = {S1}
    Routerless <- NoRouter
    DHCP_RETRIES = 2
    DHCP_TIMEOUT = 1
    LeaseTime = 2
    MaxDelay = 1
    MaxFaults = 1
INVARIANTS TypeOK AddressGranted LeaseCovered
PROPERTY StaysConfigured
