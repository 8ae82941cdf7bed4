\* A direct controller after and during initialization: one direct operation
\* at a time, the handshake, and a transport that starts a task per output
\* report, so that two replies may queue for the sender lock.
SPECIFICATION Spec
CONSTANTS
    NoTask = NoTask
    r1 = r1  r2 = r2  i1 = i1  i2 = i2
    ReplyTasks = {r1, r2}
    InputTasks = {i1, i2}
    InputKinds = {"direct", "handshake"}
    Subcommands = {"mode_0x30", "mode_other", "lights_on", "imu_quaternion", "vibration_on", "rejected"}
    TimerModulus = 4
    Holdoff = 1
    MaxEdits = 2
    MaxOps = 4
SYMMETRY MCSymmetry
INVARIANTS DirectInputIsAccepted
