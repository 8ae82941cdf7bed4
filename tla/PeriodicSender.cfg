\* A periodic controller: taps, the report loop, the handshake and the wait for
\* input readiness against a host that sends its next subcommand when the last
\* one was answered.
SPECIFICATION FairSpec
CONSTANTS
    NoTask = NoTask
    r1 = r1  r2 = r2  i1 = i1  i2 = i2
    ReplyTasks = {r1}
    InputTasks = {i1, i2}
    InputKinds = {"input", "current", "periodic", "handshake", "await"}
    Subcommands = {"mode_0x30", "lights_on", "lights_off", "rejected"}
    TimerModulus = 3
    Holdoff = 2
    MaxEdits = 2
    MaxOps = 4
INVARIANTS TypeOK LockOwnership TimerFollowsWire SessionMatchesReplies UserInputAfterReadiness
PROPERTIES HoldoffRespected InputInOrder WaitersServed
