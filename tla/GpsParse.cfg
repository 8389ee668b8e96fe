CONSTANTS
    Frame <- Frames
    MaxGsa = 2
    MaxGsv = 1
    FlagMod = 3
    MaxEmpty = 1
SPECIFICATION Spec
INVARIANTS ParsesEveryLine TablesOfThisFrame
PROPERTIES ReadsReported ParseReturns
