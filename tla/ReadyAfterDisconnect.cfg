\* A direct controller whose link drops while the ready handshake is collected.
SPECIFICATION Spec
CONSTANTS
    NoTask = NoTask
    c1 = c1  c2 = c2  h1 = h1  h2 = h2
    Callers = {c1}
    HostTasks = {h1}
    Requests <- PairAndClose
    Reporting = {"direct"}
    Faults = {}
    MaxLinks = 1
    MaxCalls = 2
    MaxPayloads = 1
PROPERTIES DisconnectFailsAttempt
\* pair() without a deadline may wait for its host for ever.
CHECK_DEADLOCK FALSE
