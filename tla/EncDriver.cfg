\* The driver against the chip, with failing transmissions and restarts.
SPECIFICATION FairSpec
CONSTANTS
    RXSTOP_INIT = 9
    MemorySize = 12
    PointerSize = 24
    FrameSizes = {4, 6}
    MaxAnswers = 2
    MaxCount = 3
INVARIANTS TypeOK BankInSync PointerInSync FramesIntact RingReclaimed TransmitBufferFree
PROPERTY MainKeepsPolling
