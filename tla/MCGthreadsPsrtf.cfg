CONSTANTS
    NJobs = 3
    Second = 2
    Programs <- MCPrograms
    MaxMainQuanta = 3
    Main = Main
    None = None
SPECIFICATION Spec
PROPERTY ShortestRemainingFirst
CHECK_DEADLOCK FALSE
