CONSTANTS
    b0 = b0
    b1 = b1
    b2 = b2
    Byte = {b0, b1, b2}
    Nul = b0
    Space = b1
    MaxSize = 4
    MaxLength = 3
SPECIFICATION Spec
INVARIANTS TypeOK QueryFindsFirst FrameEndsAtMatch
PROPERTY FifoSpec
