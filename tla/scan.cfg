CONSTANTS
    Symbols <- AllSymbols
    Letters <- LetterWords
    Digits <- DigitWords
    TempSchema <- TempName
    Texts <- PrintedTexts
SPECIFICATION Spec
CHECK_DEADLOCK FALSE
INVARIANTS
    OnlyQualifiersDropped
