---------------------------- MODULE InputOperations ---------------------------
(***************************************************************************)
(* The input operations of a controller (swbt/gamepad/runtime.py, called   *)
(* through swbt/gamepad/interface.py) against the sends of its tasks, the  *)
(* loss of the link and close().                                           *)
(*                                                                         *)
(* A send joins the sender lock's queue with the state that was computed   *)
(* when it was asked for, and the transport takes or refuses what is first *)
(* there; how the queue, the timer and the holdoff work is the subject of  *)
(* ReportSender, and how links come and go that of ControllerRuntime.      *)
(* Inputs are abstracted to buttons, the tilt of each stick and one motion *)
(* value for the three IMU frames.                                         *)
(***************************************************************************)
EXTENDS AsyncLock

CONSTANTS
    Tasks,          \* tasks of the application that operate the input
    Closer,         \* the task that calls close()
    Reporting,      \* the kinds of controllers: "periodic", "direct"
    Operations,     \* the operations they ask for, a subset of Requests
    Supported,      \* the buttons of the profile
    SupportedSticks,\* the sticks of the profile
    Buttons,
    MaxOps,         \* bound: number of operations
    MaxLinks        \* bound: number of links

Sides == {"left", "right"}
InputStates == [buttons : SUBSET Buttons, sticks : [Sides -> {"center", "tilted"}],
                imu : {"rest", "moved"}]
Neutral == [buttons |-> {}, sticks |-> [side \in Sides |-> "center"], imu |-> "rest"]

(* An operation and its arguments; those it has no use for are neutral.    *)
Requests == [name : {"press", "release", "tap", "sticks", "imu", "neutral", "apply", "send"},
             input : InputStates, sides : SUBSET Sides]

ASSUME InputAssumption ==
    /\ Operations \subseteq Requests
    /\ Reporting \subseteq {"periodic", "direct"}
    /\ Supported \subseteq Buttons /\ SupportedSticks \subseteq Sides
    /\ Closer \notin Tasks /\ NoTask \notin Tasks \cup {Closer}
    /\ MaxOps \in Nat /\ MaxLinks \in Nat

VARIABLES
    reporting,  \* _reporting_mode
    store,      \* _state_store
    gate,       \* _connected_event, whether there is a sender, whether the
                \* link takes reports, and whether close() is under way
    opLock,     \* _input_operation_lock
    op,         \* the operation of each task and where it is suspended
    out,        \* tasks in the queue of the sender lock
    wire,       \* the last input the host has got on this link
    old,        \* whether the store may hold the input of the link before
    held,       \* the buttons that an operation other than a tap has pressed
    spent       \* what the bounds count

vars == <<reporting, store, gate, opLock, op, out, wire, old, held, spent>>

Agents == Tasks \cup {Closer}
NoRequest == [name |-> "none", input |-> Neutral, sides |-> {}]
NoOp == [req |-> NoRequest, at |-> "idle", state |-> Neutral]

Init ==
    /\ reporting \in Reporting
    /\ store = Neutral
    /\ gate = [connected |-> FALSE, sender |-> FALSE, link |-> FALSE, closing |-> FALSE]
    /\ opLock = FreeLock
    /\ op = [t \in Agents |-> NoOp]
    /\ out = << >>
    /\ wire = Neutral
    /\ old = FALSE
    /\ held = {}
    /\ spent = [ops |-> 0, links |-> 0]

-----------------------------------------------------------------------------
(* What an operation makes of the current input.                           *)

WithButtons(s, buttons) == [s EXCEPT !.buttons = buttons]

WithSticks(s, sticks, sides) ==
    [s EXCEPT !.sticks = [side \in Sides |-> IF side \in sides THEN sticks[side] ELSE @[side]]]

Without(s, buttons) == WithButtons(s, s.buttons \ buttons)

Transform(req, s) ==
    CASE req.name \in {"press", "tap"} -> WithButtons(s, s.buttons \cup req.input.buttons)
      [] req.name = "release" -> Without(s, req.input.buttons)
      [] req.name = "sticks" -> WithSticks(s, req.input.sticks, req.sides)
      [] req.name = "imu" -> [s EXCEPT !.imu = req.input.imu]
      [] req.name = "neutral" -> Neutral
      [] OTHER -> req.input

(* Seeded bug: input is not validated against the profile.                 *)
AnyInput(s) == TRUE

(* validate_input_state() of the profile.                                  *)
Representable(s) ==
    /\ s.buttons \subseteq Supported
    /\ \A side \in Sides \ SupportedSticks : s.sticks[side] = "center"

(* What is refused before the input is looked at.                          *)
Acceptable(req) ==
    /\ req.name = "release" => req.input.buttons \subseteq Supported
    /\ req.name = "sticks" => req.sides \subseteq SupportedSticks
    /\ req.name = "apply" => reporting = "periodic"
    /\ req.name = "send" => reporting = "direct"

RequireConnected == gate.sender /\ gate.connected

-----------------------------------------------------------------------------
(* Sends.                                                                  *)

Waits(t, at, s) == op' = [op EXCEPT ![t].at = at, ![t].state = s]

Ends(t) == op' = [op EXCEPT ![t] = NoOp]

(* Task t asks the sender for a report with state s.                       *)
Sends(t, at, s) == Waits(t, at, s) /\ out' = Append(out, t)

(* Seeded bug: an operation that ends does not give the lock back.         *)
LockKept == UNCHANGED opLock

(* The operation lock, which operations of a direct controller hold.       *)
LockFreed == opLock' = IF reporting = "direct" THEN Released(opLock) ELSE opLock

(* The buttons that are held after an operation, if they were h before.    *)
HeldAfter(req, h) ==
    CASE req.name = "press" -> h \cup req.input.buttons
      [] req.name \in {"release", "tap"} -> h \ req.input.buttons
      [] req.name \in {"sticks", "imu"} -> h
      [] OTHER -> req.input.buttons

(* What a direct tap that cannot be released leaves.                       *)
LeftPressed(t) == store.buttons \cap op[t].req.input.buttons

(* The release of the tap of t, whatever became of its press; the queue is *)
(* q.  The periodic controller takes the buttons from the store even when  *)
(* there is no sender any more, the direct one only if a report is taken.  *)
ReleasesTap(t, q) ==
    LET released == Without(store, op[t].req.input.buttons)
    IN  /\ store' = IF reporting = "periodic" THEN released ELSE store
        /\ held' = IF reporting = "periodic" THEN HeldAfter(op[t].req, held)
                   ELSE IF gate.sender THEN held ELSE held \cup LeftPressed(t)
        /\ IF gate.sender
           THEN Waits(t, "release", released) /\ out' = Append(q, t) /\ UNCHANGED opLock
           ELSE Ends(t) /\ out' = q /\ LockFreed

(* The transport takes the first report of the queue.  The trailing report *)
(* of a periodic controller is of what is stored by then.                  *)
Accept(t) ==
    /\ out # << >> /\ Head(out) = t /\ gate.link
    /\ out' = Tail(out)
    /\ wire' = IF op[t].at = "trailing" /\ reporting = "periodic" THEN store ELSE op[t].state
    /\ store' = IF reporting = "direct" THEN wire' ELSE store
    /\ old' = (old /\ reporting = "periodic")
    /\ \/ op[t].at = "press" /\ Waits(t, "hold", op[t].state) /\ UNCHANGED <<opLock, held>>
       \/ /\ op[t].at = "trailing" /\ Waits(t, "closing", Neutral) /\ LockFreed
          /\ held' = IF reporting = "direct" THEN {} ELSE held
       \/ /\ op[t].at \in {"send", "release"}
          /\ Ends(t) /\ LockFreed
          /\ held' = IF reporting = "direct" THEN HeldAfter(op[t].req, held) ELSE held
    /\ UNCHANGED <<reporting, gate, spent>>

(* Seeded bug: a tap whose press is refused ends without a release.        *)
SendRaisesThrough(t, q) == Ends(t) /\ LockFreed /\ out' = q /\ UNCHANGED <<store, held>>

(* The send of t, which leaves the queue q, raises: the transport refuses  *)
(* the report, or the task is cancelled while it waits for the sender.     *)
SendRaises(t, q) ==
    \/ /\ op[t].at = "press" /\ reporting = "periodic"
       /\ ReleasesTap(t, q)
    \/ /\ op[t].at \in {"press", "send", "release"} /\ ~(op[t].at = "press" /\ reporting = "periodic")
       /\ Ends(t) /\ LockFreed /\ out' = q
       /\ held' = IF op[t].at = "release" /\ reporting = "direct"
                  THEN held \cup LeftPressed(t) ELSE held
       /\ UNCHANGED store
    \/ /\ op[t].at = "trailing"
       /\ Waits(t, "closing", Neutral) /\ LockFreed /\ out' = q
       /\ UNCHANGED <<store, held>>

Refuse(t) ==
    /\ out # << >> /\ Head(out) = t
    /\ SendRaises(t, Tail(out))
    /\ UNCHANGED <<reporting, gate, wire, old, spent>>

(* A send that its task no longer waits for.                               *)
Withdrawn(t) == WithoutPlace(out, CHOOSE i \in 1 .. Len(out) : out[i] = t)

CancelSend(t) ==
    /\ op[t].at \in {"press", "send", "release"}
    /\ SendRaises(t, Withdrawn(t))
    /\ UNCHANGED <<reporting, gate, wire, old, spent>>

(* A report of the periodic loop, of what is then stored.                  *)
LoopSends ==
    /\ reporting = "periodic" /\ gate.connected /\ gate.link /\ out = << >>
    /\ op[Closer].at # "closing"
    /\ wire' = store
    /\ UNCHANGED <<reporting, store, gate, opLock, op, out, old, held, spent>>

-----------------------------------------------------------------------------
(* The operations.                                                         *)

(* A direct controller computes its candidate with the operation lock,     *)
(* which is then l.                                                        *)
DirectUpdate(t, req, l) ==
    LET asked == [op EXCEPT ![t] = [NoOp EXCEPT !.req = req]]
        candidate == Transform(req, store)
    IN  IF RequireConnected /\ Representable(candidate)
        THEN /\ op' = [asked EXCEPT ![t].at = IF req.name = "tap" THEN "press" ELSE "send",
                                    ![t].state = candidate]
             /\ out' = Append(out, t)
             /\ opLock' = l
        ELSE Ends(t) /\ opLock' = Released(l) /\ UNCHANGED out

(* Seeded bug: the operations of a direct controller are not serialized.   *)
AskUnlocked(t, req) == DirectUpdate(t, req, FreeLock) /\ UNCHANGED <<store, held>>

AskDirect(t, req) ==
    /\ IF Contended(opLock)
       THEN /\ op' = [op EXCEPT ![t] = [NoOp EXCEPT !.req = req, !.at = "lock"]]
            /\ opLock' = Queued(opLock, t)
            /\ UNCHANGED out
       ELSE DirectUpdate(t, req, Taken(opLock, t))
    /\ UNCHANGED <<store, held>>

(* A periodic controller edits the store; a tap sends what it then holds.  *)
Update(t, req) ==
    LET edited == Transform(req, store)
    IN  IF ~Representable(edited) \/ (req.name = "tap" /\ ~RequireConnected)
        THEN UNCHANGED <<store, held, op, out, opLock>>
        ELSE /\ store' = edited
             /\ UNCHANGED opLock
             /\ IF req.name = "tap"
                THEN /\ op' = [op EXCEPT ![t] = [req |-> req, at |-> "press", state |-> edited]]
                     /\ out' = Append(out, t)
                     /\ UNCHANGED held
                ELSE held' = HeldAfter(req, held) /\ UNCHANGED <<op, out>>

Ask(t, req) ==
    /\ op[t].at = "idle" /\ spent.ops < MaxOps
    /\ spent' = [spent EXCEPT !.ops = @ + 1]
    /\ IF ~Acceptable(req) THEN UNCHANGED <<store, held, op, out, opLock>>
       ELSE IF reporting = "direct" THEN AskDirect(t, req) ELSE Update(t, req)
    /\ UNCHANGED <<reporting, gate, wire, old>>

(* The duration of a tap is over, or its task is cancelled in it.          *)
HoldEnds(t) ==
    /\ op[t].at = "hold"
    /\ ReleasesTap(t, out)
    /\ UNCHANGED <<reporting, gate, wire, old, spent>>

CancelWait(t) ==
    /\ op[t].at = "lock" /\ t # Closer
    /\ Ends(t)
    /\ opLock' = Abandoned(opLock, t)
    /\ UNCHANGED <<reporting, store, gate, out, wire, old, held, spent>>

-----------------------------------------------------------------------------
(* close(), as far as it concerns the input.                               *)

(* _send_trailing_neutral_if_connected() with the operation lock, then l.  *)
TrailingNeutral(l) ==
    IF RequireConnected
    THEN Sends(Closer, "trailing", Neutral) /\ opLock' = l
    ELSE Waits(Closer, "closing", Neutral) /\ opLock' = Released(l) /\ UNCHANGED out

(* Seeded bug: close() does not wait for the operation lock.               *)
CloseUnlocked == TrailingNeutral(opLock) /\ UNCHANGED <<store, held>>

CloseDirect ==
    /\ IF Contended(opLock)
       THEN Waits(Closer, "lock", Neutral) /\ opLock' = Queued(opLock, Closer) /\ UNCHANGED out
       ELSE TrailingNeutral(Taken(opLock, Closer))
    /\ UNCHANGED <<store, held>>

ClosePeriodic ==
    /\ store' = Neutral /\ held' = {}
    /\ UNCHANGED opLock
    /\ IF gate.connected THEN Sends(Closer, "trailing", Neutral)
       ELSE Waits(Closer, "closing", Neutral) /\ UNCHANGED out

BeginClose ==
    /\ op[Closer].at = "idle" /\ gate.sender
    /\ gate' = [gate EXCEPT !.closing = TRUE]
    /\ \/ reporting = "direct" /\ CloseDirect
       \/ reporting = "periodic" /\ ClosePeriodic
       \/ /\ Waits(Closer, "closing", Neutral)      \* close(neutral=False)
          /\ UNCHANGED <<store, held, out, opLock>>
    /\ UNCHANGED <<reporting, wire, old, spent>>

(* The transport is closed, whether or not the host went before.           *)
CloseDone ==
    /\ op[Closer].at = "closing"
    /\ gate' = [gate EXCEPT !.sender = FALSE, !.link = FALSE, !.closing = FALSE]
    /\ old' = (store # Neutral)
    /\ Ends(Closer)
    /\ UNCHANGED <<reporting, store, opLock, out, wire, held, spent>>

(* The operation lock wakes its first waiter.                              *)
LockGranted(t) ==
    /\ Woken(opLock, t)
    /\ IF t = Closer THEN TrailingNeutral(Granted(opLock, t))
       ELSE DirectUpdate(t, op[t].req, Granted(opLock, t))
    /\ UNCHANGED <<reporting, store, gate, wire, old, held, spent>>

(* Seeded bug: a disconnection does not reset the input.                   *)
DisconnectedSilently ==
    /\ gate.link
    /\ gate' = [gate EXCEPT !.link = FALSE, !.connected = FALSE]
    /\ UNCHANGED <<reporting, store, opLock, op, out, wire, old, held, spent>>

(* _handle_disconnected(), to its first wait, and what it does at its end. *)
Disconnected ==
    /\ gate.link
    /\ gate' = [gate EXCEPT !.link = FALSE, !.connected = FALSE]
    /\ store' = Neutral /\ held' = {} /\ old' = FALSE
    /\ UNCHANGED <<reporting, opLock, op, out, wire, spent>>

DisconnectCleanUp ==
    /\ gate.sender /\ ~gate.link /\ ~gate.closing
    /\ gate' = [gate EXCEPT !.sender = FALSE]
    /\ UNCHANGED <<reporting, store, opLock, op, out, wire, old, held, spent>>

(* A new link is ready for input: the handshake has shown neutral reports. *)
Connected ==
    /\ ~gate.sender /\ ~gate.closing /\ out = << >>
    /\ spent.links < MaxLinks
    /\ gate' = [gate EXCEPT !.sender = TRUE, !.link = TRUE, !.connected = TRUE]
    /\ wire' = Neutral
    /\ spent' = [spent EXCEPT !.links = @ + 1]
    /\ UNCHANGED <<reporting, store, opLock, op, out, old, held>>

-----------------------------------------------------------------------------
Next ==
    \/ \E t \in Tasks, req \in Operations : Ask(t, req)
    \/ \E t \in Agents : Accept(t) \/ Refuse(t) \/ LockGranted(t)
    \/ \E t \in Tasks : CancelSend(t) \/ CancelWait(t) \/ HoldEnds(t)
    \/ LoopSends
    \/ BeginClose \/ CloseDone
    \/ Disconnected \/ DisconnectCleanUp \/ Connected

Spec == Init /\ [][Next]_vars

(* The transport answers, taps and closings come to an end, and a task the *)
(* operation lock has woken runs.                                          *)
FairSpec ==
    /\ Spec
    /\ \A t \in Agents : WF_vars(Accept(t) \/ Refuse(t)) /\ WF_vars(LockGranted(t))
    /\ \A t \in Tasks : WF_vars(HoldEnds(t))
    /\ WF_vars(CloseDone)

-----------------------------------------------------------------------------
(* The variables have their types, and neither the store nor the host ever *)
(* has an input that the profile of the controller does not support.       *)
TypeOK ==
    /\ store \in InputStates /\ wire \in InputStates
    /\ \A s \in {store, wire} :
           /\ s.buttons \subseteq Supported
           /\ \A side \in Sides \ SupportedSticks : s.sticks[side] = "center"
    /\ gate \in [connected : BOOLEAN, sender : BOOLEAN, link : BOOLEAN, closing : BOOLEAN]
    /\ opLock \in Locks(Agents)
    /\ \A t \in Agents : op[t].at \in {"idle", "lock", "send", "press", "hold", "release",
                                       "trailing", "closing"}
    /\ out \in Seq(Agents) /\ old \in BOOLEAN /\ held \subseteq Buttons
    /\ spent \in [ops : 0 .. MaxOps, links : 0 .. MaxLinks]

(* What a direct controller has stored is what the host has last got, over *)
(* refused and cancelled operations, taps and the loss of the link; only   *)
(* a close() that no disconnection confirmed leaves old input in the store *)
(* of the next link.                                                       *)
StoreIsWire ==
    reporting = "direct" /\ gate.link /\ gate.connected /\ ~old => store = wire

(* No update is lost: what a direct operation is about to send was         *)
(* computed from the input that is stored when it is sent.                 *)
CandidateIsCurrent ==
    reporting = "direct" /\ gate.link =>
        \A t \in Tasks :
            /\ op[t].at \in {"press", "send"} => op[t].state = Transform(op[t].req, store)
            /\ op[t].at = "release" =>
                   op[t].state = Without(store, op[t].req.input.buttons)

(* A pressed button is held by an operation or by a tap that is under way: *)
(* a tap whose press is refused, or that is cancelled where it waits, does *)
(* not leave its buttons pressed, unless the report of its release failed  *)
(* on a direct controller, which documents it (docs/api.md:224).           *)
NothingStuck ==
    store.buttons \subseteq
        held \cup UNION {op[t].req.input.buttons : t \in {u \in Tasks : op[u].req.name = "tap"}}

(* A tap of a direct controller lets no other input in between its press   *)
(* and its release (docs/api.md:224): another task's operation waits, and  *)
(* so does the trailing neutral report of close().                         *)
TapUninterrupted ==
    [][reporting = "direct" =>
          \A t \in Tasks : op[t].at \in {"hold", "release"} /\ gate.link =>
              wire' = wire \/ op'[t].at = "idle"]_vars

(* Every operation ends, and so does close(), which waits behind them.     *)
OperationsEnd == \A t \in Agents : op[t].at # "idle" ~> op[t].at = "idle"

=============================================================================
