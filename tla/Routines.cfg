\* An ordinary, a volatile and a MAC register; buffers and offers of up to two parts.
SPECIFICATION MCFairSpec
CONSTANTS
    e = e
    v = v
    m = m
    EthRegisters = {e, v}
    MacRegisters = {m}
    Volatile = {v}
    Bits = {1}
    MemSize = 2
    MaxLen = 2
    MaxStale = 1
    Radix = 3
    Modulus = 256
    MaxBytes = 5
    MaxOptions = 2
INVARIANTS TypeOK TransfersTrue ChecksumsRight ParsedAsSent RequestNamesOffer AnswersRight PayloadKept PrintedAsMeant
PROPERTY OperationsEnd
