SPECIFICATION FairSpec
CONSTANTS
    Tasks <- MCTasks
    Processes = {"p", "q"}
    Jobs = {"a", "b"}
    JobOf <- MCJobOf
    ProcessOf <- MCProcessOf
    Photos = {3}
    Finals <- MCFinals
    FinalOf <- MCFinalOf
    Sources <- MCSources
    Answers <- MCAnswers
    MaxPages = 2
    MaxPagePixels = 6
    MaxTotalPixels = 10
    NoTask = 0
    Capacity = 1
    MaxFaults = 1
CHECK_DEADLOCK FALSE
INVARIANTS
    TypeOK
    OneVersionPerJob
    DocumentsAreBounded
    NativeResultIsPublished
    LeftoversArePaidFor
PROPERTIES
    TasksEnd
