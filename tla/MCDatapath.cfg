SPECIFICATION Spec
CONSTANTS
    BYTE = 4
    Reg = {0}
    X = X
    Samples <- MCSamples
    ZEROBIT = ZEROBIT
INVARIANTS
    AluCorrect
    BranchCorrect
    LoadCorrect
    StoreCorrect
    ImmediatesDecoded
