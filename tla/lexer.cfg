CONSTANT Texts <- MCTexts
SPECIFICATION Spec
PROPERTIES ReadsTokens
CHECK_DEADLOCK FALSE
