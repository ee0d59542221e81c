SPECIFICATION FairSpec
CONSTANTS
    PamClients = {p1, p2}
    CliClients = {c1}
    Capacity = 1
    Timeout = 2
    MayCrash = FALSE
    NoClient = NoClient
PROPERTY
    EndsOnlyWhenTold
