\* Two tasks operate a controller of either kind, a third closes it, and the
\* link comes up twice.
SPECIFICATION FairSpec
CONSTANTS
    NoTask = NoTask
    t1 = t1  t2 = t2  closer = closer
    Tasks = {t1, t2}
    Closer = closer
    Reporting = {"periodic", "direct"}
    Operations <- MCOperations
    Buttons <- MCButtons
    Supported <- MCSupported
    SupportedSticks <- MCSticks
    MaxOps = 3
    MaxLinks = 2
INVARIANTS TypeOK StoreIsWire CandidateIsCurrent NothingStuck
PROPERTIES TapUninterrupted OperationsEnd
\* Idle tasks need not operate again.
CHECK_DEADLOCK FALSE
