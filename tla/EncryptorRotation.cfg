CONSTANTS
    ByteBits = 2
    Keys <- MCKeys
    SessionKey <- MCSessionKey
    Texts <- MCTexts
SPECIFICATION Spec
INVARIANT RotatedInput
CHECK_DEADLOCK FALSE
