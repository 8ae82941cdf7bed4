\* One task of the application pairs and closes, another closes; open() may fail,
\* the host may make the controller ready, deadlines pass and the transport
\* answers.
SPECIFICATION FairSpec
CONSTANTS
    NoTask = NoTask
    c1 = c1  c2 = c2  h1 = h1  h2 = h2
    Callers = {c1, c2}
    HostTasks = {h1}
    Requests <- OneOnlyCloses
    Reporting = {"periodic"}
    Faults = {"timeout", "open"}
    MaxLinks = 1
    MaxCalls = 2
    MaxPayloads = 1
PROPERTIES CallsEnd
\* pair() without a deadline may wait for its host for ever.
CHECK_DEADLOCK FALSE
