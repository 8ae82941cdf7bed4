\* Every button, the ends of every axis and every request, over three profiles,
\* with a pacer that may wake up and send late by several periods.
SPECIFICATION Spec
CONSTANTS
    Refused = Refused
    Kinds = {"loop", "phase"}
    Period = 2
    PhaseLength = 4
    MaxTime = 7
    Profiles <- MCProfiles
    Edits <- MCEdits
    Requests <- MCRequests
    Orientations <- MCOrientations
    Timers = {255}
    Address <- MCAddress
    MaxEdits = 1
    MaxAsks = 1
    LastTurn = 0
INVARIANTS HostSees RepliesRight
PROPERTIES NoBurst
\* Nothing happens after the pacer and the bounds are done.
CHECK_DEADLOCK FALSE
