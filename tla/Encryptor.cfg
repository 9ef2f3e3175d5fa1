CONSTANTS
    ByteBits = 2
    Keys <- MCKeys
    SessionKey <- MCSessionKey
    Texts <- MCTexts
SPECIFICATION Spec
INVARIANTS TypeOK RoundTrip BlocksInside
CHECK_DEADLOCK FALSE
