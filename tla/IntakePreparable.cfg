SPECIFICATION IntakeSpec
CONSTANTS
    Texts <- MCTexts
    MaxArgs = 8
INVARIANT StoredNameCanBePrepared
CHECK_DEADLOCK FALSE
