\* Up to two accessor calls between and before two messages of each class.
CONSTANTS
    Kinds <- MCKinds
    Ints <- MCInts
    Texts <- MCTexts
    NotUtf8 = {"bad"}
    Floats <- MCFloats
    MaxEdits = 2
    MaxSends = 2
    NoClass = "none"
SPECIFICATION MsgSpec
INVARIANTS ReadIsWritten SizeIsExact UnknownSurvives
CHECK_DEADLOCK FALSE
