CONSTANTS
    f = f
    g = g
    Names = {f, g}
    Unopenable = {g}
    Clients <- MCClients
    Workloads <- MCWorkloads
    Empty = Empty
    Garbled = Garbled
    None = None
SPECIFICATION Spec
PROPERTY NoSuchFileIsMissing
CHECK_DEADLOCK FALSE
