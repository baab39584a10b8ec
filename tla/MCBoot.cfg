SPECIFICATION SimSpec
CONSTANTS
    BYTE = 4
    Reg = {0, 1}
    X = X
    MIE = 8
    MPIE = 128
    Instr <- MCInstrs
    Dti = {}
    PowerUp = {9}
    Decode <- MCDecode
    RAMW = 6
    HALT = 5
    MTIME = 16
    MTIMECMP = 18
    IadrInit = {0, 1}
    Program <- MCImages
    Mtime = {77}
INVARIANT
    ResetVector
CHECK_DEADLOCK FALSE
