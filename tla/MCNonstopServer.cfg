CONSTANTS
    f = f
    g = g
    Names = {f, g}
    Unopenable = {g}
    Clients <- MCClients
    Workloads <- MCWorkloads
    Empty = Empty
    Garbled = Garbled
    None = None
SPECIFICATION FairSpec
INVARIANTS CatalogueAgrees PutAnswersAreTrue
PROPERTIES GetsAreExact EveryoneIsAnswered
CHECK_DEADLOCK FALSE
