CONSTANTS
    Modulus = 64
    Start = 124
    Ahead <- Offsets
    TimeOut = 6
    PacketLen = 2
SPECIFICATION Spec
INVARIANTS NtpTimeIsUtc NtpSocketReleased
PROPERTY NtpReturns
