SPECIFICATION Spec
CONSTANTS
    Letters = {"a", "b"}
    MaxLength = 7
INVARIANTS
    KeepsToGrammar
    LettersKept
    RelayedReadsTheSame
CHECK_DEADLOCK FALSE
