CONSTANTS
    tokA = tokA
    tokB = tokB
    img = img
    Images = {img}
    Models <- MCModels
    Tokens = {tokA, tokB, img}
    Prompts <- MCPrompts
    Answers <- MCAnswers
    RecBytes = 1
    SnapshotInterval = 4
    PreThinking = 2
    PrefillChunk = 2
    MaxPagedOutBytes = 3
    MaxRequests = 4
SPECIFICATION Spec
INVARIANTS
    TypeOK
    LiveStateIsOfTheStream
    NodesHoldTheirEdge
    BytesAreCounted
    NoPanic
PROPERTIES
    ResumesDeepest
CHECK_DEADLOCK FALSE
