CONSTANTS
    Null = Null
    MainJob = MainJob
    None = None
    FreedText = FreedText
    Dot = Dot
    NJobs = 4
    Second = 2
    Programs <- MCPrograms
    MaxMainQuanta = 2
    StatusThreads = 3
    InitArraySize = 2
    MaxStatusCalls = 2
    Alignment = 2
    StructSize = 2
    HeapCapacity = 4
    MallocSizes = {1, 4, 7}
    HeapLimit = 28
    MaxLive = 3
    SizeofMetaData = 3
    MemcheckHeap = 6
    MemcheckSizes = {1, 2}
    MaxMemcheckCalls = 5
    ShellLines <- MCShellLines
    MaxShellLines = 3
    MaxShellSigints = 1
    MakefileLines <- MCMakefileLines
    MakefileGoals <- MCMakefileGoals
    MaxMakefileLines = 5
    FakefsFiles = {"a", "b"}
    FakefsRoot = "root"
    OpenMax = 3
    MaxFakefsOffset = 2
    MaxFakefsCalls = 5
    VMPids = {0, 1}
    NFrames = 7
    TableSize = 4
    MaxNodes = 2
    Segments <- MCSegments
    Touched = {1, 2}
    PageValues = {1, 2}
    MaxVMCalls = 9
SPECIFICATION MCSpec
INVARIANTS
    BlocksAreAccounted JobsAreInOnePlace CrackersTellTheTruth
    ResultsAreExact ReadsSeeWrites VectorIsItsList FilesKeepTheirOwn ShellKeepsItsWord
    FakefsIsFaithful ThreadsGiveBack ParsedAsWritten
PROPERTIES DispatchIsInOrder EverythingEnds
CHECK_DEADLOCK FALSE
