\* The same driver: is only memory freed that was read?
SPECIFICATION Spec
CONSTANTS
    RXSTOP_INIT = 9
    MemorySize = 12
    PointerSize = 24
    FrameSizes = {4, 6}
    MaxAnswers = 2
    MaxCount = 3
INVARIANT OnlyReadMemoryFreed
