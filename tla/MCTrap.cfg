SPECIFICATION SimSpec
CONSTANTS
    BYTE = 4
    Reg = {0, 1, 2}
    X = X
    MIE = 8
    MPIE = 128
    Instr <- MCInstrs
    Dti = {}
    PowerUp = {9}
    Decode <- MCDecode
    RAMW = 14
    HALT = 13
    MTIME = 24
    MTIMECMP = 26
    IadrInit = {0}
    Program <- MCImages
    Mtime = {77}
INVARIANT
    NoUnknown
PROPERTIES
    TrapRecorded
    HandlerReturns
    ImplementsThreads
CHECK_DEADLOCK FALSE
