# A TLA+ model of swbt

swbt makes a computer act as a Nintendo Switch controller (Pro Controller or
Joy-Con) over Bluetooth Classic HID. This directory holds TLA+ modules for the
parts of it whose correctness depends on the order of events, the TLC
configurations that check them on small instances, and proofs, checked with
TLAPS, of what holds for instances of every size. Source paths are relative to
the repository, with `swbt/` for `src/swbt/`.

1. [The system](#1-the-system)
2. [The modules](#2-the-modules)
3. [The runs](#3-the-runs)
4. [Where code and documents disagree](#4-where-code-and-documents-disagree)
5. [Fairness](#5-fairness)
6. [What is proved](#6-what-is-proved)
7. [What is not modelled, and why](#7-what-is-not-modelled-and-why)
8. [Plan](#8-plan)

`PROJECT.json` lists the components, runs, seeded bugs, hazards, theorems and,
for every definition, the lines of code it stands for.

## 1. The system

Everything runs in one asyncio event loop: a task is only interrupted where it
awaits. Four kinds of tasks meet in a controller: the application's (`pair`,
`close`, `press`, `tap`, ...), those of the transport's callbacks (one task per
event with Bumble), the handshake with the readiness wait, and the report loop.

```
 application ── Public API ── Controller runtime ── Protocol handshake
                                │        │   │             │
                 Input operations        │   └── Report loop
                                │        │             │
                          Input store ── Report sender ┘── Output dispatcher
                                         │                   │
                                         │            Session, responder
                                  HID transport (contract)
                                         │
                         Bumble transport ── key store, adapter identity
```

| Component | Code | State | Operations | What is hard, and what must hold |
|---|---|---|---|---|
| Report sender, input store, report loop | `report_loop.py`, `state_store.py` | sender lock, 8-bit timer, holdoff deadline, input state, loop task | send a reply, tap, report loop, automatic, trailing and direct input; wait for input readiness; edit the state | many tasks on one lock; refusals and cancellation inside it; the store is read before the lock is held. Reports are numbered in the order they are accepted; none is sent in the holdoff; input does not go back in time; no waiter is forgotten; a late loop sends no burst |
| Output report dispatcher | `gamepad/output.py` | none of its own | dispatch: remember the session, build the reply under the lock, send, restore on failure | two dispatches overlap. The session is what the host has been told |
| Protocol session, subcommand responder | `protocol/session.py`, `protocol/subcommand.py` | report mode, player lights, IMU mode and encoding state, vibration, observed subcommands | one transition per subcommand, IMU encoding | readiness changes while a reply is built; user input is shown only after it; missing and unknown arguments |
| Controller runtime: lifecycle | `gamepad/runtime.py` | lifecycle lock, state, open and closing flags, three events, sender, handshake, readiness task, report loop | open, pair, try_reconnect, connect, close; callbacks for output reports, connected, disconnected | concurrent requests, callbacks during close, failures half way, deadlines. One lifecycle operation at a time; connected is published once, for a link that is ready, and not after a close or failure; what is closed is closed altogether |
| Protocol handshake | `gamepad/protocol_handshake.py` | its task, a change event, a failure, stopped | start, notify, fail, complete_ready, stop, wait | the task, the reply and the disconnect callback end it at the same time; the outcome is told once |
| Input operations | `gamepad/interface.py`, `input.py`, `imu.py`, parts of `runtime.py` | input operation lock | press, release, tap, sticks, IMU, apply, send, neutral | taps overlap with other input and are refused or cancelled between press and release. No update is lost, no button left pressed; what a direct controller stores is what the host has |
| Transport contract, fake transport | `transport/base.py`, `transport/fake.py` | open, link, recorded calls | open, close, advertise, connect, disconnect, send; callbacks | any operation may suspend and fail; connected and disconnected alternate |
| Bumble transport | `transport/bumble.py`, `_bumble_lifecycle.py`, `_bumble_acl.py`, `_bumble_usb_devices.py` | HCI handle, device, two L2CAP channels, close lock, two flags | the contract over Bumble | channel events in any order; calls that race `close()` and `open()`. The contract is kept, no handle is lost, what is closed is not discoverable |
| Key store, pairing profile | `transport/_bumble_key_store.py`, `_pairing_profile.py` | a JSON file, temporary files | create, load, save, update to one current peer per adapter, delete | crash between temporary file and replacement; several processes. Old or new profile, of one identity; other adapters' bonds are kept |
| Adapter identity | `transport/_adapter_identity.py`, `_csr_bd_addr.py`, `_csr_bd_addr_harness.py`, the probes of `tools/` that share it | the adapter's address: in flash, volatile and active | read, write, warm reset, re-enumerate, read back, restore | commands executed after their sender has given up; other processes. No controller serves a foreign address; doubt is reported as doubt |
| Input and IMU reports | `protocol/input_report.py`, `imu_report.py`, `buttons.py`, `output_report.py`, `rumble.py` | IMU encoding state (in the session) | build and parse | fields across byte boundaries, signs, scales. The host reads what the caller asked for |
| SPI flash, profiles | `protocol/spi.py`, `protocol/profiles/` | constant segments | read | reads over the edge of a segment and of the address space |
| Send pacing of the credit probe | `tools/hci_credit_gyro_probe.py` | a deadline | send phases | as the report loop, with another rule for a deadline that is due just now |
| Descriptors, SDP, HIDP framing | `protocol/descriptors.py`, `transport/_bumble_sdp.py`, `_bumble_hidp.py` | none | tables, decoding a frame | none but the framing |
| Public API, configuration, errors | `gamepad/controllers.py`, `connection.py`, `_config.py`, `transport_factory.py`, `errors.py` | none | constructors that delegate | none |
| Diagnostics, discovery, probe | `diagnostics.py`, `adapter_discovery.py`, `probe.py` | none that matters here | logging, listing devices | none |

`connect()` and `try_connect()` call `try_reconnect` and then `pair`; they add
no state.

## 2. The modules

```
 AsyncLock ── AsyncLockProofs
    ├──────── ReportSender ── ReportSenderProofs
    ├──────── ControllerRuntime ── ControllerRuntimeProofs
    ├──────── InputOperations ── InputOperationsProofs
    └──────── BumbleTransport ── BumbleTransportProofs
                  └── implements HidLink
 ReportTiming ── ReportTimingProofs
    └──────── ReportWire ── ReportFormats
 PairingProfileStore ── PairingProfileStoreProofs
 AdapterIdentity ── AdapterIdentityProofs
```

Each `MC` module instantiates the module it is named after for TLC.

### AsyncLock

`asyncio.Lock` as a record of a holder and a queue of waiters. Two things about
it matter: a release does not hand the lock over, it wakes the first waiter,
which takes it when it runs; and a newcomer queues behind waiters even while
the lock is free. A cancelled waiter leaves the queue. Four modules use it; the
library is external to the repository and modelled from its use.

### ReportSender

The sender of one connection with all it is wired to. An action is the code
between two points where a task can be suspended: a contended lock, the
transport's `send_interrupt`, the sleep of the readiness wait. The input
store's own lock is never held across a suspension and disappears.

| TLA+ | Code |
|---|---|
| `lock` `timer` `holdoff` | `ReportSender._send_lock`, `_timer`, `_automatic_input_holdoff_until` (as time left) |
| `store` `session` | `InputStateStore._state`, `SwitchHidSession._state` |
| `pc` `op` | where each task is, with what it has read before the lock |
| `Dispatch`, `SubmitReply`, `RejectReply` | `OutputReportDispatcher.dispatch` and `build_reply` |
| `StartInput`, `StartDirect`, `SubmitInput`, `SkipHeldOff` | `send_current_input`, `ReportLoop.send_next_report`, `send_automatic_input`, direct operations |
| `LookAtHoldoff`, `EndSleep` | `wait_until_automatic_input_ready` |
| `InputAccepted`, `ReplyAccepted`, `SendFails` | what follows `send_interrupt`: return, return of a reply, raise or cancellation |
| `CancelWaiting`, `Wake`, `Tick` | cancellation in the queue, the woken waiter, the clock |
| `wire` `sent` `shown` `granted` `quiet` | history, for the properties: the timer the host has seen last, the newest input it got in a report that was read before the lock and in any report, the session it was told of, the time since its last reply |

An input state is the number of the edit that made it, so "newer" is `>`. A
subcommand is what it changes in the session; "read" stands for all that change
nothing, "rejected" for what the responder raises on.

### ControllerRuntime

The lifecycle of one controller. Many of its hazards depend on the order in
which asyncio runs what is ready, so that order is part of the model:
`gp.due` is the event loop's queue, `Run` executes its first entry up to the
next suspension, and everything outside the loop (the application, the
transport, the host, deadlines) only appends to it. Setting an event, ending a
task that is awaited, and releasing the lock append those that wait.

| TLA+ | Code |
|---|---|
| `gp` | the fields of `ControllerRuntime` (`sender`, `shake`, `ready`, `loop` name the link they came of; 0 is `None`), `protocolReady` for the session, and `due`; two histories: `initialized`, the host has made the session ready since `open()`, and `torn`, what `close()` or the disconnect callback asked of the transport has raised and left the controller open |
| `lock` | `_lifecycle_lock` |
| `run` | each agent: a caller's request, an output report's task, or a link's disconnect callback; `at` is where it is suspended |
| `shake` `ready` `loop` | the handshake, readiness and report loop tasks, which may outlive the field that named them |
| `tp` | the transport: open, visible to the host, its link |
| `Starts` ... `CloseAnswered` | `open`, `pair`, `try_reconnect`, `close` in pieces between suspensions |
| `StopShake`, `StopReady`, `StopLoop`, `Resume`, `Raise` | stopping the tasks, shared by `close()` and `_handle_disconnected` |
| `Connected`, `Down`, `ShakeAwaited`, `DownClosed` | `_handle_connected`, `_handle_disconnected` |
| `ShakeTurn`, `ShakeTold`, `Complete`, `AfterOutcome` | `ProtocolHandshake._run`, its done callback, `_complete`, `_handle_handshake_outcome` |
| `ReadyTurn`, `InTime`, `Published` | `_complete_periodic_input_readiness`, `_publish_input_ready` |
| `Dispatched`, `Built`, `ReplyAnswered`, `Restored`, `Rejected` | `_handle_output_report_data` over the dispatcher: an output report completes the initialization ("supported"), takes it back ("undoing": lights off, another report mode) or is rejected ("unsupported") |
| `Call` `Answer` `Cut` `LinkUp` `LinkDown` `Receive` `Stir` `HoldoffEnds` `LoopDies` | the world outside |

What reports carry and when automatic ones are sent is left to `ReportSender`.
A reply holds the sender's lock from `Built` to `ReplyAnswered` and others
queue; the order among several that queue is `ReportSender`'s subject.

Assumptions about the environment:

- Opening an adapter, and a new link, take longer than what the event loop
  already has to do and than a close under way. Otherwise a disconnect callback
  suspended in its clean-up could resume after `close()` and `open()` and reset
  the new sender (`runtime.py:1090`); the hazard is listed, not covered.
- With the fault "teardown", `request_disconnect()` and `transport.close()`
  raise whenever they are asked; the transport has forgotten its device then,
  as `BumbleTransport` does.
- `close()` is called with its default `neutral=True`. Preparing the adapter's
  identity inside `open()` is part of the suspended `transport.open()`;
  `AdapterIdentity` has it in full.
- The application cancels attempts (`pair`, `try_reconnect`) and `open()`, not
  `close()`.

### HidLink and BumbleTransport

`HidLink` is what a transport promises the controller: the connected callback
is not invoked again before the link it announced was announced as gone, and
closing takes the link away without a call. `BumbleTransport` implements it
(`KeepsPromise`), with the flags that its two L2CAP handlers, the connection
events, `open()` and `close()` share.

| TLA+ | Code |
|---|---|
| `tr` | `_handle`, `_runtime`, `_l2cap_connected_emitted`, `_disconnected_callback_emitted`; `link` and `call` are what the callbacks have told |
| `lock` | `_close_lock` |
| `dev` | what each `open()` made: HCI handle, Bumble device (power, scans, ACL connection, channels) |
| `op` | the call of each client and the await it is suspended at |
| `Open` ... `OpenCancelled` | `open()`, `_cleanup_open_failure()` |
| `StartAdvertising`, `BondedPeerAddress`, `ConnectBondedPeer`, `PoweredOn` ... `InterruptConnected` | the calls of these names, await by await |
| `RequestDisconnect`, `Drained`, `ChannelCut` | `request_disconnect()` |
| `Close`, `CloseLocked`, `TornDown`, `TeardownRaises` | `close()`, `_close_runtime()` |
| `Connection`, `ChannelOpen`, `ChannelClose`, `Disconnection` | the event handlers |
| `NotifyConnected`, `NotifyIfClosed`, `NotifyGoneOnce` | the functions that invoke the callbacks |

Assumptions: Bumble is external; a USB adapter is claimed by one HCI handle at
a time; a handle that is closing passes nothing on; powering a device off does
not stop its scans; losing the ACL connection closes both channels; a channel
opens once per ACL connection (`Reopens = FALSE`; with `TRUE` the second loss
is not told and `KeepsPromise` and `LinkUpIsReal` fail); the lifecycle lock of
the controller lets one `open()` run at a time, while `pair()` and reconnecting
hold no lock, and `close()` is also called by the disconnect callback
(`runtime.py:1094`).

### InputOperations

The operations of the public API on the input, against sends, the loss of the
link and `close()`.

| TLA+ | Code |
|---|---|
| `store` `opLock` | `_state_store`, `_input_operation_lock` |
| `gate` | `_connected_event`, whether `_report_sender` is there, the link, `_closing` |
| `out` | the queue of the sender lock: a send is taken or refused by the transport when it is first |
| `op` | the operation of each task and where it is suspended |
| `Transform`, `Acceptable`, `Representable` | the edits of `input.py`, what is refused before them, `validate_input_state` |
| `Update`, `AskDirect`, `DirectUpdate` | the periodic and the direct path of an operation |
| `HoldEnds`, `ReleasesTap`, `SendRaises` | `tap`: its hold, its release whatever became of its press |
| `BeginClose`, `TrailingNeutral`, `CloseDone` | `close()` as far as it concerns input |
| `Disconnected`, `DisconnectCleanUp`, `Connected` | the link, of which `ControllerRuntime` has the detail |
| `wire` `held` `old` | history: what the host has, what is pressed on purpose, and whether the store holds the input of a link whose `close()` no disconnection confirmed |

Buttons, the tilt of each stick and one motion value stand for an input state.
A new link becomes ready with an empty queue, after neutral reports of the
handshake, and `close()` leaves the connected flag to the disconnect callback,
as in the code.

### PairingProfileStore

The file of a pairing profile and the key store in it, used by several
processes. No coroutine of the key store suspends, so a process does one thing
at a time; between processes every file operation is a step.

| TLA+ | Code |
|---|---|
| `target` `temp` | the file at the profile path, the temporary file of each process: content, and whether it is on the disk |
| `durable` | what the disk has under the name (no directory is synced; `Flush`) |
| `proc` | what each process does, the profile its controller opened, the keys it is about to save |
| `CreateNew`, `WriteTemporary`, `Sync`, `Link`, `Unlink` | `PairingProfile.create_new()` |
| `Open`, `Close` | loading for a controller, and giving it up |
| `Edit` with `Update`, `Delete`, `DeleteAll`; `Reload`, `Replace` | the key store's operations: load, change one namespace, `save()` |
| `Kill`, `PowerFails`, `Survivor` | a process is killed; the power fails, and data that was not synced may be torn |
| `versions` `fresh` | history: the profiles that took the path; whether a process's keys have not been overtaken by another's save |

The disk may be full at every write. The JSON encoding is whole or torn. The
user does not remove the file while it is being saved.

### AdapterIdentity

One CSR adapter and the programs that use it: preparing a profile's address
(`prepare`, `confirm`), opening the transport for it (`serve`), and the
volatile, warm-reset and read probes. A program is the sequence of commands it
waits for, with the answers it expects.

| TLA+ | Code |
|---|---|
| `adapter` | flash, volatile (`psram`) and active address, on the bus or not, the commands it has not executed |
| `owner` | the session (an exclusive USB claim) |
| `client` | each process: program, step, whether its write was sent, outcome |
| `Steps`, `Opens`, `Asks`, `Answered` | `_prepare_adapter_identity`, `_power_on_expected`, the probes, over `CsrSession` |
| `Wait` | `state.write_started`, set when the write is sent |
| `PollOpens`, `PollFails`, `DeadlinePasses` | `_open_reenumerated_session()` |
| `TimesOut`, `Cancel`, `Raises`, `Failure`, `SessionCloses` | errors, cancellation, restoring, classification of the outcome |
| "blocked", `Unblocks` | the restoring waits for the command semaphore that the timed-out read still has |
| `Execute`, `Refuse`, `Reset`, `Reenumerate`, `Replug` | the adapter and its user |

Assumptions: the adapter executes commands in the order sent, also those whose
sender has given up; a late answer is dropped by its command number; the
default store reads the volatile value (`spec/hardware-test-log.md:349`); an
HCI reset leaves the address alone. Initialization is one command. Cancelling
the restoring itself, or the closing of a session, ends with the session
released.

### ReportTiming, ReportFormats, ReportWire

`ReportTiming` has the deadlines of `ReportLoop._run` and of the credit probe's
`_send_phase`, which differ where a deadline is due just now. `ReportFormats`
has what is packed: input states and their units, buttons, sticks, the IMU
block in its modes, profiles, flash, replies, and the parsing of requests.
`ReportWire` puts the two together as one connection: a pacer sends input
reports, a host makes requests over its three channels, a caller edits the
input. The properties decode the bytes as a host would, with definitions of
their own (`Unsigned`, `Signed`, `SeesControls`, `SeesOrientation`,
`FlashHolds`, `Legitimate`).

| TLA+ | Code |
|---|---|
| `now` `pace` | the clock and the pacer: `next_deadline`, `NextDeadline` |
| `input` `session` `timer` | `InputStateStore`, `SwitchHidSession` as far as reports depend on it, `ReportSender._timer` |
| `Applies`, `Edited` | `apply()` of an edited neutral state: `Stick`, `IMUFrame`, `InputState` |
| `Submits`, `Block`, `Build0x30` | `build_0x30`, `encode_imu` |
| `Asks`, `Received`, `Parsed`, `ReplyTo`, `Build0x21`, `Transition` | the way of a request: HIDP or SET_REPORT, `parse_output_report`, responder, reply, session |

A tick is a millisecond. One pacer and one host take turns; overlapping is the
subject of `ReportSender`. The rotation of the quaternion, floating-point
trigonometry, is a choice among `Orientations`, and none without a previous
report or with a gyroscope at rest. Refused values are the constant `Refused`.

### Bounds

Every bound is a CONSTANT: `MaxEdits`, `MaxOps`, `TimerModulus` (0x100 in the
code), `Holdoff` in ticks; `MaxLinks`, `MaxCalls`, `MaxPayloads`, `MaxOpens`,
`MaxCrashes`, `MaxRuns`, `MaxReplugs`, `MaxAsks`, `MaxTime`, `LastTurn`. The
bounds are guards on the world's actions only; no step of the program is cut
short. Definitions marked "Seeded bug" are wrong variants of the definition
that follows. Nothing uses them: each shows that a property notices the mistake
when it replaces the right definition.

## 3. The runs

| Run | Instance | Properties |
|---|---|---|
| `periodic_sender` | one reply task (a host that waits for each answer), two input tasks, taps, report loop, handshake, readiness wait, fairness; timer modulo 3, holdoff of 2 ticks, 2 edits, 4 operations | `TypeOK`, `LockOwnership`, `TimerFollowsWire`, `SessionMatchesReplies`, `UserInputAfterReadiness`, `HoldoffRespected`, `InputInOrder`, `WaitersServed` |
| `direct_sender` | two overlapping reply tasks, transitions of every kind, direct operations, handshake; 2 edits, 4 operations | `DirectInputIsAccepted` |
| `relinked_lifecycle` | periodic reporting, one caller that pairs and closes and one that closes, three calls, two links, two output reports; `open()` fails or is cancelled | `TypeOK`, `OneReportLoop`, `OneHandshake`, `LifecycleExclusive`, `PublishedReady` |
| `failing_requests` | both kinds of reporting, one caller with three calls of all four requests, one link, one output report; failing opens and sends, unsupported subcommands, deadlines, cancelled attempts, a transport whose disconnecting and closing raise | `NothingLeftOpen` |
| `competing_requests` | periodic reporting, one caller that pairs and closes and one that closes, one link, one output report; failing opens, deadlines, and fairness | `CallsEnd` |
| `ready_after_disconnect` | a violation, section 4 | `DisconnectFailsAttempt` |
| `close_raises` | a violation, section 4 | `CloseNeverRaises` |
| `transport_calls` | two clients, five calls of all six, two devices, two ACL connections, every await fails or is cancelled; fairness | `TypeOK`, `LinkUpIsReal`, `HandleAccounted`, `ClosedIsInvisible`, `KeepsPromise`, `CloseEnds` |
| `input_operations` | both kinds of controllers, a Joy-Con with A, B and one stick; two tasks and a closer, three operations, two links; fairness | `TypeOK`, `StoreIsWire`, `CandidateIsCurrent`, `NothingStuck`, `TapUninterrupted`, `OperationsEnd` |
| `profile_files` | two processes with an adapter each, three addresses, two kinds, two hosts; four operations, one kill or power failure | `TypeOK`, `OldOrNew`, `IdentityKept`, `OtherBondsKept` |
| `adapter_rewrites` | two processes and programs, three addresses, one replugging; fairness | `TypeOK`, `ServesTarget`, `DoubtReported`, `ProbeHonest`, `PreparationEnds` |
| `reports` | three profiles, every button alone and all together, ends and middle of every axis, 16-bit ends of samples, every subcommand with good and bad arguments over every channel; period of 2 ticks followed for 7, timer about to wrap; one edit and one request | `HostSees`, `RepliesRight`, `NoBurst` |

Why the bounds are enough.

- In the sender a conflict is between the holder of the lock, one waiter and a
  newcomer, so three tasks show every order; four operations let the timer wrap
  and let a reply start a second holdoff while something waits out the first.
  Two edits and the neutral state tell new input from old and both from none.
- In the runtime two callers put a close into every suspension of a pair; three
  calls close and pair again; the second link meets tasks that the first left
  behind. One output report is enough to make a session ready, so that the
  readiness wait, the report loop and the trailing neutral report are there to
  be stopped; a second one takes the readiness back while it is waited for.
- In the transport two clients put one call into every await of another, and
  five calls are an open, what it is used for, a close, a second open and one
  more; the second connection meets what the first left in the flags.
- Of three input operations two overlap and the third comes between; the lock
  has a holder and two waiters with the closer.
- A profile is created by one process against another and then saved twice; a
  second crash starts from a state that the first leaves. The proofs of
  section 6 hold for any number of processes and crashes.
- Two programs on an adapter are one that is disturbed and one that disturbs;
  each may leave commands behind. Three addresses are flash, own and foreign.
- Bytes depend on one input, one request and one session, so one edit and one
  request show every pair. Seven ticks make a pacer miss none, one and several
  of its periods; `NoBurst` is proved for every period.

What each property means:

- `TimerFollowsWire`: a report in flight carries the successor of the timer of
  the last report the transport accepted, whatever was refused, cancelled or
  held off in between.
- `HoldoffRespected`: no automatic report is submitted in the holdoff of the
  last accepted reply, even one accepted while that report queued.
- `InputInOrder`: taps, the report loop and direct operations read the store
  before they queue for the lock; among them none is accepted after a report of
  newer input, because they queue in the order in which they have read. Replies
  and trailing neutral reports read it in the lock and never show older input
  than any report accepted before. So input does go back on the wire, but in one
  way only: one of the latter overtakes a report that already queues with older
  input, which then follows it (`report_loop.py:205`, `gamepad/output.py:75`).
- `SessionMatchesReplies`: with no reply in flight the requested modes are those
  of the accepted replies. It holds for a host that waits for its answer, not
  for overlapping dispatches (section 4).
- `UserInputAfterReadiness`: a reply shows user input only when the mode and
  the lights were acknowledged before it.
- `DirectInputIsAccepted`: direct reporting stores, and shows in replies, only
  what the transport accepted.
- `OneReportLoop`: a running report loop is the one the runtime would stop.
- `OneHandshake`: at most one handshake sends its reports, and it is the one the
  runtime would stop.
- `PublishedReady`: connected is published in a session that the host has made
  ready since `open()`, with a sender, none of whose decisive replies is still in
  flight (one of an earlier sender may be), and not under a close. The session
  need not be ready still (section 4).
- `NothingLeftOpen`: once nothing is under way, an open controller has a sender
  and an open transport, and a closed one has neither and runs no loop. Excepted
  is a controller that is open because disconnecting or closing its transport
  raised (`torn`), until a `close()` succeeds.
- `LifecycleExclusive`: whoever is inside `open()` or `close()` has the
  lifecycle lock, over all suspensions and ways out.
- `KeepsPromise`, `LinkUpIsReal`: the callbacks alternate, and a link that was
  announced is there until its loss is announced or the transport closed.
- `HandleAccounted`: an open HCI handle belongs to the transport or to the call
  that is closing it, unless a step of its closing raised.
- `ClosedIsInvisible`: a closed device is not discoverable, unless a
  `start_advertising()` that was under way went on while it was closed.
- `StoreIsWire`: what a direct controller stores is what the host has got.
- `CandidateIsCurrent`: what a direct operation is about to send was computed
  from what is stored when it is sent.
- `NothingStuck`, `TapUninterrupted`: a pressed button is held on purpose; a
  direct tap lets no other input between its press and release.
- `OldOrNew`, `IdentityKept`, `OtherBondsKept`: the profile path has no file or a
  whole profile; its identity and kind never change; saving one adapter's keys
  keeps the others', unless another process saved in between.
- `ServesTarget`: a running controller has the address of its profile, whatever
  other processes and late commands have done to the adapter.
- `DoubtReported`, `ProbeHonest`: a preparation that fails after it sent a write
  asks for recovery; the volatile probe says the address is restored only if
  it is.
- `HostSees`, `RepliesRight`: the host decodes the controls, motion, number and
  data that were meant, and every answerable request, and no other, is answered.
- `NoBurst`: never more reports than periods have passed, deadlines stay on
  their grid, and the next one is at once or within a period.
- `CallsEnd`, `WaitersServed`, `CloseEnds`, `OperationsEnd`, `PreparationEnds`:
  requests with a deadline end; a waiter of the sender lock gets it or leaves,
  and the readiness wait ends once the host stops asking; a transport's close and
  an input operation come to an end; so does a preparation or probe, unless it is
  left waiting in one of the two places where the code has no timeout, powering
  on (`transport/bumble.py:767`) and the command semaphore that a timed-out
  standard read still has (`_csr_bd_addr_harness.py:147`).

What the passing runs leave out, because it is known to go wrong:

- `relinked_lifecycle` has no refused sends and no direct reporting. A refused
  decisive reply after readiness (section 4) publishes a session that is rolled
  back; direct reporting publishes without looking at `_closing`
  (`runtime.py:1025`), so `PublishedReady` fails for it.
- `failing_requests` does not cancel `open()`: `CancelledError` passes its
  `except Exception` (`runtime.py:157`), the transport may stay open with the
  state `opening`, and the next `close()` returns at once. With two links,
  two output reports and refused sends `NothingLeftOpen` also fails, by what the
  second entry of section 4 starts: the dead report loop raises out of the
  disconnect callback, a second link comes up during the close, and its
  readiness task, dead for want of a sender, raises out of `close()`.
- `failing_requests` lets the transport raise where the controller is taken
  down. What is left then is excepted by `torn` and not more: a raising
  `transport.close()` in the disconnect callback (`runtime.py:1094`) leaves the
  controller open without a sender and tells nobody; one in `close()` leaves it
  open with the state `disconnecting` and reaches the caller.
- `competing_requests` gives attempts a deadline. Nothing sets the attempt event
  on `close()`, so a `pair()` without one, in another task, waits for ever.
- `transport_calls` opens a channel once per connection (see `Reopens` above).
- `StoreIsWire` excepts a store that a `close()` left without a confirmed
  disconnection, `OtherBondsKept` two processes that save at the same time,
  `DoubtReported` a cancelled preparation.

Deadlock detection is on for the senders, where the readiness wait, taps and
timers always leave something to do. The other configurations turn it off: a
controller waiting for a host that never comes, an idle transport, a file
nobody saves any more and a finished program are at rest.

## 4. Where code and documents disagree

Two runs end with a counterexample, each to what a document states; both were
also reproduced with the repository's code and its fake transport.

- `ready_after_disconnect` (`gamepad/runtime.py:1082`): the disconnect callback
  awaits a handshake that `complete_ready` is cancelling and is cancelled with
  it; nothing is cleaned up and the dead link is published as connected.
  `spec/initial/lifecycle.md:121` has such a disconnect fail the attempt.
- `close_raises` (`gamepad/runtime.py:426`): a report loop that died of a
  refused report makes the next `close()` raise before it closes the
  transport. `spec/initial/api.md:258` says that `close()` raises nothing.

Three more need a `send_interrupt` that suspends, as `transport/base.py` allows;
the Bumble transport does not suspend there at present, so they are hazards and
not findings:

- `gamepad/output.py:69`: `dispatch` remembers the session before it has the
  sender lock and restores it after releasing it. With two dispatches under
  way, the second remembers the first's unacknowledged change and brings it
  back when it fails too. In the instance of `direct_sender`
  `SessionMatchesReplies` fails by this.
- `gamepad/protocol_handshake.py:124`: the handshake task sees `protocol_ready`
  while the reply that made it so is in `send_interrupt`. A direct controller is
  connected and `pair()` returns; if the reply is then refused the state becomes
  `failed`, where `docs/api.md:171` has readiness follow the completed send.
- `gamepad/runtime.py:1074`: the handshake task of a periodic controller ends the
  same way, and the link is lost before its done callback has run. `fail()` comes
  too late, so that `pair()` waits for its deadline. The done callback then starts
  a readiness wait for a sender that is gone; its task ends with `ClosedError`
  and stays in `_input_readiness_task`. The next session is never published, as
  `_handle_handshake_outcome` finds a readiness wait there, and the `close()` at
  its deadline raises that `ClosedError` and leaves the transport open. The same
  follows when a link comes up while `close()` is past its stop of the handshake
  (`runtime.py:424`). In the instance of `close_raises` with `Faults` of
  `{"timeout"}`, two links and two output reports `CloseNeverRaises` fails by
  this, without any refused report. It was met when a proof that periodic
  controllers have that property failed, and was reproduced with the code.

Two more have no run:

- `close()` after an `open()` that failed returns at once and leaves the state at
  `failed` (`runtime.py:413`), where `spec/initial/lifecycle.md:49` has it lead to
  `closed`.
- A periodic controller whose host turns the lights off, or chooses another
  report mode, during the holdoff of the readiness wait is published as connected
  all the same (`runtime.py:1009` looks at closing, attempt and sender).
  `docs/api.md:171` has `pair()` succeed once the session is ready and the holdoff
  over, and does not say what becomes of a session that is unready by then; so
  `PublishedReady` does not ask for it. In the instance of `relinked_lifecycle`
  it fails when `initialized` is replaced by `protocolReady`.

## 5. Fairness

Runs of safety alone assume none. Nowhere is anything assumed about the host,
callers, users or cancellation.

- `ReportSender!FairSpec`: a woken task runs and a sleep that is over resumes
  (asyncio's loop), a send returns or raises (any transport), time passes.
- `ControllerRuntime!FairSpec`: weak fairness of `Run` (the loop executes what
  is due), of deadlines, of the handshake's own wake-ups (`Stir`, a timeout of
  one report period) and of the end of a holdoff. `Answer` is strongly fair,
  because the model lets an open be answered only when the loop is idle, and
  other activity makes that come and go; the transport itself is only assumed
  to answer in the end.
- `BumbleTransport!FairSpec`: a client that the close lock has woken runs, and
  a command of the teardown answers or raises.
- `InputOperations!FairSpec`: the transport takes or refuses what is first in
  the queue, a woken task runs, the duration of a tap passes, the transport's
  close ends.
- `AdapterIdentity!FairSpec`: opening and closing a session come back by
  themselves (USB), polling has its deadline, and a command is answered or times
  out. Two awaits have no timeout and get none here: `power_on()`
  (`transport/bumble.py:767`) and `command_semaphore.acquire()`
  (`_csr_bd_addr_harness.py:147`), which is taken outside `wait_for` and may still
  be held by a standard read that timed out. `PreparationEnds` excepts a process
  that waits there. Nothing is assumed of the adapter.

## 6. What is proved

The proofs hold for every value of the constants that their modules' ASSUMEs
allow. Each theorem is `Spec` implies the property named, as an invariant or as
an action property. Every inductive invariant below was model-checked on the
instance of its run before it was proved.

| Module | Theorem | States |
|---|---|---|
| `ReportSenderProofs` | `TypeCorrect` | `TypeOK` |
| | `LockOwned` | `LockOwnership` |
| | `TimerConsecutive` | `TimerFollowsWire` |
| | `HoldoffKept` | `HoldoffRespected` |
| | `DirectShown` | `DirectInputIsAccepted`, for a `DirectController` |
| | `OrderedInput` | `InputInOrder`, for a controller of `OneMode` |
| | `SessionTold` | `SessionMatchesReplies`, for `OneRequest` |
| | `InputAfterReadiness` | `UserInputAfterReadiness`, for `OneRequest` |
| `ControllerRuntimeProofs` | `TypeCorrect` | `TypeOK` |
| | `Exclusion` | `LifecycleExclusive` |
| | `OneLoop` | `OneReportLoop` |
| | `PublishesReady` | `PublishedReady`, for a `Reliable` controller |
| | `PublishesInTime` | `PublishedInTime`: what is left of it for all others |
| | `NothingStaysOpen` | `NothingLeftOpen`, where no `close()` raises (`CloseNeverRaises`) and `open()` is not cancelled |
| | `DirectCloseNeverRaises` | `CloseNeverRaises`, for direct controllers over a transport that can be disconnected and closed without an error |
| | `DirectLeavesNothingOpen` | `NothingLeftOpen`, for direct controllers whose `open()` is not cancelled |
| `InputOperationsProofs` | `TypeCorrect` | `TypeOK` |
| | `NoUpdateLost` | `CandidateIsCurrent` |
| | `StoreShown` | `StoreIsWire` |
| | `NothingIsStuck` | `NothingStuck` |
| | `TapWhole` | `TapUninterrupted` |
| `BumbleTransportProofs` | `TypeCorrect` | `TypeOK` |
| | `HandlesKept` | `HandleAccounted` |
| | `ClosedHidden` | `ClosedIsInvisible` |
| | `LinkReal` | `LinkUpIsReal`, for `~Reopens` |
| | `Alternates` | `KeepsPromise` (it implements `HidLink`), for `~Reopens` |
| `AdapterIdentityProofs` | `TypeCorrect` | `TypeOK` |
| | `TargetServed` | `ServesTarget` |
| | `DoubtIsReported` | `DoubtReported` |
| | `ProbeIsHonest` | `ProbeHonest` |
| `PairingProfileStoreProofs` | `TypeCorrect` | `TypeOK` |
| | `CrashSafe` | `OldOrNew` |
| | `OneIdentity` | `IdentityKept` |
| | `BondsKept` | `OtherBondsKept` |
| `ReportTimingProofs` | `NeverBursts` | `NoBurst` of `PaceSpec` |

`AsyncLockProofs` has the lemmas about `asyncio.Lock` that the others share:
that its operations keep the type of a lock, and what joining, serving the head
and giving up do to the elements of a queue of distinct waiters
(`AppendWaiter`, `RemoveHead`, `RemoveWaiter`) and to their order
(`AppendOrder`, `TailOrder`, `RemoveOrder`).

### The report sender

For every set of tasks, selection of input kinds and subcommands, timer modulus
above 1 and every bound (`TaskAssumption`, `KindAssumption`,
`BoundAssumption`).

- `TypeOK` is inductive by itself. `LockOwnership` says that the task inside
  `send_interrupt` is the holder, and that the queue contains each waiting task
  once: without the second half, cancelling a waiter could leave a copy behind
  that is granted the lock later. `TimerFollowsWire` rests on it: an accepted
  report moves the timer, which would belie the number of any other report in
  flight, and the lock says there is none.
- `CriticalShape` and `ArrivedShape` reduce what asking for the lock and the
  critical section can do to five outcomes (`Ended`, `Slept`, `SentInput`,
  `SentReply`, `Enqueued`); `Roles` says which task runs what. The remaining
  proofs are about these outcomes.
- `HoldoffRespected` needs `Paced`: the time since the last accepted reply and
  the time left of the holdoff always add up to the holdoff.
- `InputInOrder` needs `InOrder` and `UpToDate`: of two tasks that read the store
  before the lock, the one that the lock serves first has the older input, and
  nobody has anything older than the last such report; and nothing the host has
  seen is newer than the store, so what is read in the lock is not older either.
  A task that reads the store reads the newest input and joins behind everybody,
  which is where it matters that a free lock with waiters is not given to a
  newcomer. `OneMode` is how controllers are built: direct operations, or report
  loop and taps.
- `Told` says that what a request falls back to is what the host was told, and
  that with its reply in flight the session is one transition ahead. `OneRequest`
  (a host that waits for its answer) is the hypothesis without which the code
  does not have the property (section 4); `periodic_sender` is an instance of it.

### The lifecycle

For every number of callers, output reports, links, requests and every set of
faults (`RuntimeAssumption`: callers, tasks of reports and links are distinct,
and the first two finite). Who runs next is decided by `gp.due`, so the
invariant has to say who is in it, and why nobody is who would do harm there:

- `Exclusive` is the property, and not inductive: a caller that is due while it
  waits for the lock takes it when it runs. `Handed` says that such a caller is
  due only when the lock is free and it is the first waiter, that is when the
  release has woken it, and `Queue` that the waiters are the callers at the
  lock, each once.
- `Awaiting` says that the agents a handshake will wake are there, once each,
  and not due yet, and `Once` that no agent is due twice. Together they are why
  a turn, which takes the agent's entry away, leaves nothing behind that would
  run it again at a place it has left.
- `Numbered` keeps the disconnect callback of a link apart from the link that
  is up: a link that comes down finds its callback idle.

`OneReportLoop` is not inductive either. It is `Known`, that a running loop is
the one in `gp.loop` and the controller is open, together with why no turn can
start a second loop, or take the runtime's knowledge of the first away:

- `Stopping`: who waits for the end of a loop is the only one who does, and it
  or the end of that loop is due. Until then no other loop starts, because the
  runtime still has the old one or has no sender.
- `PastLoop`, `Silent`: once `close()` is past its stop of the loop none runs,
  and while the transport is opened or closed there is no sender to start one
  with. `Sendless` says that only an open controller has a sender.
- `Closing`: `close()` has its flag up over all its suspensions, and that is
  what a readiness wait that ends in time looks at before it starts a loop.
- `Opening`: when the transport has been opened, `open()` goes on before
  anything else that is due, and nobody is stopping a loop or closing the
  transport then. This is where the model's assumption enters that opening an
  adapter takes longer than what was due when it was asked for (`Answer`).

`AtReaches` to `StopShakeReaches` follow an agent through the stopping of the
tasks, from one suspension to the next or to the exception that leaves it; each
other piece of code is one `...Turn` lemma. `AgentTurn` says, once for all of
them, which moves of an agent keep the invariant (`SoleKept` for the part about
loops), and `LoopStarts` when a loop may start. `RunKeeps` and `WorldStep` put
them together.

`PublishedReady` has two halves. That a periodic controller publishes with a
sender, none of whose replies is in flight, and never under a `close()`, is
`PublishedInTime` and holds whatever fails: `Sober` says that only a readiness
wait of the sender in use publishes (`MayPublish`), and it looks at all that in
the turn in which it publishes. That the host has made the session ready
(`initialized`) is known to nobody at that moment. It needs a second invariant,
`RInv`: what is on its way to publish or to complete a handshake, be it a
readiness wait, a handshake that ended or an output report being answered, was
started by a ready session, and the history of that session still says so unless
the sender is gone (`Pledged`, `Secure`); a session that is ready has been made
ready (`Certain`). The history starts anew only when the transport is opened, and
a rejected or failed reply takes back only what it added itself (`Restored`); so
the invariant has to say that nothing else is on its way then:

- `Emptied`: when the transport has been opened, what the loop had to do was
  done. `Rising`: a link that comes up is first in the loop and has no
  handshake yet. `Numbers`: no task has a sender that is not made yet.
- `Awoken`, `CreatedDue`: who completes a handshake and what was just started is
  due, so `Emptied` covers it.

`Reliable` excludes direct reporting and refused output reports, with which
`PublishedReady` is false (end of section 3), and a transport that raises while it
is taken down: it is closed then and refuses reports under a controller that is
open. Rejected subcommands, deadlines, cancellation, failing opens and sessions
that the host takes back remain.

`NothingLeftOpen` rests on a third invariant, `OInv`, of all controllers and
faults: the flag of `close()` is up only while `close()` has the lock (`Held`); a
caller is where its request can be, and has no error before it raises one
(`Fitting`); a cancelled loop has somebody who waits for it (`Watched`); who opens
the transport does so for a controller that is not open (`Unopened`); and, unless
`open()` was cancelled, the transport of a closed controller is closed and that of
an open one is open, or closing it raised (`Together`). What it lacks is
`Leaving`: an open controller without a sender is being closed, by `close()` or by
a disconnect callback, or its closing raised. Every step in which no `close()`
raises keeps it (`Keeps`), and a `close()` that raises need not; section 4 has two
ways to that, one of them without refused reports. `NothingStaysOpen` therefore
takes `CloseNeverRaises` as a hypothesis about the behaviour: but for a cancelled
`open()` and a transport that could not be closed in a disconnect callback, an
exception out of `close()` is the only thing that can leave the controller half
open. What `close()` raises is what it asks of the transport, or the failure of a
task that it stops, a report loop or a readiness wait. A direct controller never
has either task (`Bare`, `Waitless`), so only the transport makes its `close()`
raise (`DirectCloseNeverRaises`), and then it is `torn`:
`DirectLeavesNothingOpen` needs no hypothesis but the one about `open()`.

### Input operations

For every set of tasks, buttons and sticks, profile and number of operations and
links (`InputAssumption`: tasks, closer and `NoTask` are distinct). `Base` is
one inductive invariant of eight parts: types; what is stored, sent or about to
be sent suits the profile; each task waits where its operation can wait; the
sender's queue has each waiting task once (`InLine`); a direct controller has
one operation at a time, the holder of the lock (`Serialized`);
`CandidateIsCurrent`, which holds because of that; the store is what the host
has, or the link is gone (`Shown`); a stored button is held or belongs to a tap
that will release it (`Pressed`). The last two need each other and the lock:
without `Serialized` a second operation could commit over the first. Nearly all
steps of a task are one lemma, `MoveKeepsBase`.

### The Bumble transport

For every set of clients and number of opens, links and calls. `HandleAccounted`
is not inductive. What it lacks: a device not yet opened is known to nobody
(`Numbered`), one handle at a time is open or closing (`OneOpen`), a handle in
the hands of a closing call is nobody else's (`Held`), while `open()` runs the
transport has nothing but what it made (`Opening`), and a runtime that outlived
its handle is dark (`Stale`). `ClosedIsInvisible` adds `Shown`: who is
discoverable is the powered device of the transport or is about to be hidden.

`Alternates` is a step simulation: the link of `HidLink` is `tr.link` and its
call `tr.call`, so that each step of the transport has to be a step of `HidLink`
or leave them alone. It needs `Linked`: on a connection that was announced as
gone, some channel was opened and is closed, so that not all of them can come
up again. That is false when a channel may open twice on one connection, which
Bumble does not exclude and an ordinary host does not do; hence the hypothesis
`~Reopens` of the last two theorems, the same as that of the run.

### The adapter identity

For every number of processes, programs, addresses and replugs
(`AdapterAssumption`). The invariant has three layers. `Local` and `Written` are
about a process alone: where its program can be, and that it remembers a write
it sent. `Session` is about the one that has the claim: it waits for the last
command of the adapter's queue and all others were given up (`OnlyLast`), a
serving controller has seen its own address as the active one, and a probe that
reports success has seen its value with no write left to come
(`SeenRestored`). Commands that nobody waits for any more are what makes this
necessary: they are executed at any time, so the answer in hand has to be that
of the last one.

### The pairing profile

For every set of processes, addresses, kinds and hosts, and any number of
operations and crashes (`StoreAssumption`). `Typed` adds to `TypeOK` that a
process that writes has a profile to write and one that saves has keys.
`OldOrNew` is not inductive, as a power failure tears what was not synced:
`Whole` says in addition that what either name stands for is on the disk, which
holds because only a synced file takes the path. `Owned` is what the identity
rests on: a save in progress has the identity and kind of the file that is
there, and the name that the disk has is of the same profile or absent, so
neither `Replace` nor a power failure changes it; a profile path that is empty
has no save in progress, so `Link` changes it for nobody. `Carried` says that a
save which no other has overtaken holds the other adapters' keys as stored.
`StepShapes` reduces the steps to the six kinds that concern the path or begin a
save; `LinkShape`, `ReplaceShape`, `PowerShape`, `EditShape` and `ReloadShape`
say what each leaves.

### The pacing

For every period and phase length (`PeriodAssumption`). `RateBounded` is not
inductive: between two sends it is the deadline that says how far the pacer has
come. The invariant adds that the deadline is a multiple of the period, with the
multiple as a witness, and that the sends so far take no more than the time up
to the deadline. `NextDeadline` rounds up with `\div`, and a lemma gives what
that rounding is for a loop and for a phase. The steps of `ReportWire` are steps
of `PaceNext` or leave `pacing` alone.

### Model-checked only

- `NothingLeftOpen` of a periodic controller in behaviours where a `close()`
  raises: it can fail there, with two links and two output reports (end of
  section 3). `failing_requests`, which has refused reports and a transport that
  raises, shows it for one link and one output report. No set of `Faults` keeps
  `close()` from raising: of a periodic controller `CloseNeverRaises` is false
  even without refused reports (section 4), so the theorem has it as a hypothesis.
- `OneHandshake`, on the instance of `relinked_lifecycle`.
- `HostSees` and `RepliesRight` of `ReportWire`: they evaluate byte layouts on
  enumerated inputs, with definitions that are computed, not reasoned about.
- Liveness (`WaitersServed`, `CloseEnds`, `OperationsEnd`, `PreparationEnds`,
  `CallsEnd`): fairness and ENABLED are out of the provers' reach, and so is
  induction over data, that is what a recursive definition computes for every
  input.

## 7. What is not modelled, and why

- The schedule by which the handshake chooses between its neutral reports and
  waiting (`protocol_handshake.py`): `ReportSender` lets it send at any time.
- The bridge of the Bumble transport that answers connection requests, and
  reception and sending of data in it: a workaround inside Bumble, and byte
  queues without decisions of their own.
- The floating-point rotation of the quaternion and the rumble payload, which
  nothing reads. The repository's conversions of units are in `ReportFormats`
  on grids of eighths and hundredths.
- Descriptors and SDP records: constant tables.
- The instrumentation of HCI credits in `tools/hci_credit_gyro_probe.py`: it
  observes a live Bumble stack and writes a log. The same holds for the other
  tools that print plans.
- The fake transport: a double of the contract for tests.
- Constructors, configuration, diagnostics, discovery and the probe: no shared
  state.
- The Bumble stack and USB: external, seen through the code that uses them.
- The composition of `AdapterIdentity` with the lifecycle: `open()` awaits it
  under the lifecycle lock, which `ControllerRuntime` has as one suspended call.

Hazards without a property are in `PROJECT.json` with the reason; the largest
are the handshake started by a connected callback while `close()` is past its
stop of the handshake (`runtime.py:424`), and the disconnect callback that
resumes after `close()` and `open()` (`runtime.py:1090`).

## 8. Plan

Theorems: `CloseNeverRaises` of periodic controllers, once `close()` collects a
failed task without raising what it failed with; until then it is false.

Modules: `ProtocolHandshake`, when the task sends its neutral reports, against
notifications and holdoff; `GamepadLifecycle`, the states of
`spec/initial/lifecycle.md` and the edges the code takes between them,
implemented by `ControllerRuntime`.
