CONSTANTS
    IntBits = 8
    rightMargin_ = 12
    RealDigits = 4
    Texts <- MCTexts
    Scalars <- MCScalars
    Comments <- MCComments
    MaxIndex = 1
    MaxNodes = 3
    MaxNotes = 2
    MaxNoteLen = 2
SPECIFICATION MCSpec
INVARIANTS  ReaderSound AnswersAgree
CHECK_DEADLOCK FALSE
