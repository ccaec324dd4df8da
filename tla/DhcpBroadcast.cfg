\* One server whose network card drops frames that are not for it.
SPECIFICATION FairSpec
CONSTANTS
    S1 = S1
    S2 = S2
    Servers = {S1}
    NoServer = NoServer
    Promiscuous = FALSE
    Unicasting = {}
    Neighbours = {S1}
    Routerless = {}
    DHCP_RETRIES = 3
    DHCP_TIMEOUT = 10
    LeaseTime = 20
    MaxDelay = 1
    MaxFaults = 0
PROPERTY DiscoverSolicitsOffers
