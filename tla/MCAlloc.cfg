SPECIFICATION Spec
CONSTANTS
    CP32_MAX_MEM_BLOCKS = 4
    MemBase = 1
    MemSize = 6
    MAX_CLICKS = 5
    FS = FS
    U = U
    NoOwner = NoOwner
    Owner <- MCOwner
    Argument <- MCArgument
VIEW View
SYMMETRY Symmetry
INVARIANT BlocksPartitionArena
PROPERTIES
    RefusedOnlyWhenFull
    OthersKeepTheirMemory
    ImplementsHeap
