CONSTANTS
    Conns = {c1, c2, c3}
    MaxClients = 1
    MaxSent = 1
    Nobody = Nobody
SPECIFICATION FairSpec
PROPERTY ContinuesAccepting
CHECK_DEADLOCK FALSE
