\* Two processes use one adapter in every interleaving: they prepare and serve
\* profiles and probe it; it may be replugged once.
SPECIFICATION FairSpec
CONSTANTS
    NoClient = NoClient
    p1 = p1  p2 = p2
    Clients = {p1, p2}
    Addresses = {"flash", "a", "b"}
    Flash = "flash"
    Requests <- MCRequests
    MaxRuns = 2
    MaxReplugs = 1
INVARIANTS TypeOK ServesTarget DoubtReported ProbeHonest
PROPERTY PreparationEnds
CHECK_DEADLOCK FALSE
