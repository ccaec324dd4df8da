\* Two hosts, and one lost answer, restart or change of the address.
SPECIFICATION FairSpec
CONSTANTS
    H1 = H1
    H2 = H2
    A1 = A1
    A2 = A2
    Hosts <- MCHosts
    Persistent <- MCPersistent
    Board = Board
    Leases = {A1, A2}
    Networks <- MCNetworks
    ARP_TABLE_SIZE = 2
    ARP_CACHE_TIME_TO_LIVE = 2
    TIMER_PERIOD = 2
    MaxWaiting = 2
    MaxFaults = 1
INVARIANTS TypeOK ArpAnswersTrue AnswersGoToLastAsker EntryShownForItsTime
PROPERTIES AskerServed ImplementsArpEntry
