SPECIFICATION CheckSpec
CONSTANTS
    Width = 5
    WordSize = 32
    WideWidth = 12
    WideSize = 4096
INVARIANTS
    AddmodCorrect
    MulmodCorrect
    ModpowCorrect
    PrimesAccepted
    IsPrimeCorrect
