CONSTANTS
    MaxInt = 1023
    Char <- Chars
    MaxLength = 7
SPECIFICATION Spec
INVARIANTS ReadsTheNumbers FloatIsTruncation DegreesOfText
CHECK_DEADLOCK FALSE
