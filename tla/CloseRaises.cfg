\* The transport refuses a report of the report loop, then close() is called.
SPECIFICATION Spec
CONSTANTS
    NoTask = NoTask
    c1 = c1  c2 = c2  h1 = h1  h2 = h2
    Callers = {c1}
    HostTasks = {h1}
    Requests <- PairAndClose
    Reporting = {"periodic"}
    Faults = {"send"}
    MaxLinks = 1
    MaxCalls = 2
    MaxPayloads = 1
PROPERTIES CloseNeverRaises
\* pair() without a deadline may wait for its host for ever.
CHECK_DEADLOCK FALSE
