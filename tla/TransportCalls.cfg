\* Two tasks call the transport in every order while the host connects twice.
SPECIFICATION FairSpec
CONSTANTS
    NoTask = NoTask
    c1 = c1  c2 = c2
    Clients = {c1, c2}
    Calls = {"open", "advertise", "bonded", "reconnect", "disconnect", "close"}
    Reopens = FALSE
    MaxOpens = 2
    MaxLinks = 2
    MaxCalls = 5
INVARIANTS TypeOK LinkUpIsReal HandleAccounted ClosedIsInvisible
PROPERTIES KeepsPromise CloseEnds
\* Idle tasks need not call the transport again.
CHECK_DEADLOCK FALSE
