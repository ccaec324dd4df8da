\* A user who waits for main before beginning a new line.
SPECIFICATION FairSpec
CONSTANTS
    Keywords <- MCKeywords
    Heads <- MCHeads
    Tails <- MCTails
    BufSize = 7
    Patient = TRUE
    MaxFifo = 2
    MaxLines = 3
INVARIANTS TypeOK ExecutedAsTyped
PROPERTY CommandsExecuted
