SPECIFICATION Spec
CONSTANTS
    Parts = 2
    Depth = 2
    Timeout = 3
    RecordHeaders <- MCRecords
    CarefulEnd = TRUE
INVARIANTS
    AnswersMatch
    QueuesFit
PROPERTIES
    
    AnswerComes
