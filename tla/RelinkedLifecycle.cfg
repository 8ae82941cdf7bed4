\* A periodic controller; one task of the application pairs and closes, another
\* closes. The link may come up twice, and the host may take back what made the
\* controller ready.
SPECIFICATION Spec
CONSTANTS
    NoTask = NoTask
    c1 = c1  c2 = c2  h1 = h1  h2 = h2
    Callers = {c1, c2}
    HostTasks = {h1}
    Requests <- OneOnlyCloses
    Reporting = {"periodic"}
    Faults = {"open", "cancel open"}
    MaxLinks = 2
    MaxCalls = 3
    MaxPayloads = 2
INVARIANTS TypeOK OneReportLoop OneHandshake LifecycleExclusive
PROPERTIES PublishedReady
\* pair() without a deadline may wait for its host for ever.
CHECK_DEADLOCK FALSE
