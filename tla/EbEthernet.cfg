SPECIFICATION Spec
CONSTANTS
    Frames <- MCFrames
    MaxPieces = 6
    RuntPieces = 5
    EthWords = 2
    IpWords = 2
    UdpWords = 2
    IndexMod = 16
    CountMod = 4
    CoreDepth = 4
    BufWords = 16
    Mixed = FALSE
INVARIANTS
    AnswersTheAsker
    AsLongAsStated
PROPERTY
    EveryRequestEnds
