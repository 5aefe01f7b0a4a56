\* Late, lost and damaged bytes and requests; two requests late at a time.
SPECIFICATION Spec
CONSTANTS
    Reads = {"encoderM1", "encoderM2"}
    Answer <- AnswerLength
    Ids = {1, 2, 3}
INVARIANTS
    TypeOK
    ReadsAreRight
    AckMeansDone
PROPERTIES
    ImplementsTransactions
