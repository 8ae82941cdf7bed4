\* Every request of either kind of controller, and everything that may fail
\* but the cancellation of open().
SPECIFICATION Spec
CONSTANTS
    NoTask = NoTask
    c1 = c1  c2 = c2  h1 = h1  h2 = h2
    Callers = {c1}
    HostTasks = {h1}
    Requests <- EveryRequest
    Reporting = {"periodic", "direct"}
    Faults = {"timeout", "cancel", "open", "send", "subcommand", "teardown"}
    MaxLinks = 1
    MaxCalls = 3
    MaxPayloads = 1
INVARIANTS NothingLeftOpen
\* pair() without a deadline may wait for its host for ever.
CHECK_DEADLOCK FALSE
