---------------------------- MODULE ReportSender -----------------------------
(***************************************************************************)
(* The report sender of one HID connection (swbt/report_loop.py) with what *)
(* it is wired to: the subcommand dispatcher (gamepad/output.py), the host *)
(* session (protocol/session.py) and the input store (state_store.py).     *)
(*                                                                         *)
(* A task runs one operation at a time: it asks for the sender lock, runs  *)
(* the critical section up to transport.send_interrupt, and ends when the  *)
(* transport has accepted or refused the report.  An action is the code    *)
(* between two points where its task can be suspended: the wait for a      *)
(* contended sender lock, send_interrupt, and the sleep of the readiness   *)
(* wait.  The lock of the input store is never held across a suspension,   *)
(* so reading and writing the store is part of the action around it.       *)
(*                                                                         *)
(* An input state is the number of the edit that made it, 0 for neutral.   *)
(* Deadlines are kept as the time left until them, in clock ticks, so that *)
(* the clock needs no bound: comparing a deadline with monotonic() becomes *)
(* comparing what is left with zero.                                       *)
(***************************************************************************)
EXTENDS AsyncLock, Integers

CONSTANTS
    ReplyTasks,     \* tasks that dispatch an output report of the host
    InputTasks,     \* tasks of callers, of the report loop and of the handshake
    InputKinds,     \* the input operations of this instance
    Subcommands,    \* the subcommands the host may send in this instance
    TimerModulus,   \* the report timer counts modulo this (0x100 in the code)
    Holdoff,        \* REPLY_PERIODIC_HOLDOFF_SECONDS, in clock ticks
    MaxEdits,       \* bound: number of edits of the input state
    MaxOps          \* bound: number of operations started

Tasks == ReplyTasks \cup InputTasks

(* What a subcommand asks of the session.  "read" stands for those that    *)
(* change nothing, "rejected" for an unsupported or malformed one: the     *)
(* responder raises.                                                       *)
AllSubcommands ==
    {"mode_0x30", "mode_other", "lights_on", "lights_off", "imu_disabled",
     "imu_standard", "imu_quaternion", "vibration_on", "vibration_off",
     "read", "rejected"}

(* The input operations, by what they send and when they read the store.   *)
(*   input      a tap: the store is read before the lock is asked for      *)
(*   periodic   the report loop: the same, and subject to the holdoff      *)
(*   handshake  an automatic neutral report, subject to the holdoff        *)
(*   current    a trailing neutral: the store is read under the lock       *)
(*   direct     a candidate state, stored when the transport accepts it    *)
(*   await      wait_until_automatic_input_ready: sends nothing            *)
AllInputKinds ==
    {"input", "periodic", "handshake", "current", "direct", "await"}

ASSUME TaskAssumption ==
    /\ ReplyTasks \cap InputTasks = {}
    /\ NoTask \notin Tasks

ASSUME KindAssumption ==
    /\ InputKinds \subseteq AllInputKinds
    /\ Subcommands \subseteq AllSubcommands

ASSUME BoundAssumption ==
    /\ TimerModulus \in Nat /\ TimerModulus > 1
    /\ Holdoff \in Nat
    /\ MaxEdits \in Nat /\ MaxOps \in Nat

Automatic == {"periodic", "handshake"}

Inputs == 0 .. MaxEdits
Neutral == 0

VARIABLES
    pc,         \* where each task is
    op,         \* the operation each task runs
    lock,       \* ReportSender._send_lock
    timer,      \* ReportSender._timer
    holdoff,    \* time left until ReportSender._automatic_input_holdoff_until
    store,      \* InputStateStore._state
    session,    \* SwitchHidSession._state
    edits,      \* number of edits made so far, the name of the newest state
    ops,        \* number of operations started so far
    wire,       \* history: the timer of the last report that was accepted
    sent,       \* history: the input of the last accepted report of a task
                \* that had read the store before it asked for the lock
    shown,      \* history: the newest input an accepted report has carried
    granted,    \* history: the session as the accepted replies leave it
    quiet       \* history: time since the last accepted reply, up to Holdoff

boundVars == <<edits, ops>>
historyVars == <<wire, sent, shown, granted, quiet>>
vars == <<pc, op, lock, timer, holdoff, store, session, edits, ops,
          wire, sent, shown, granted, quiet>>

-----------------------------------------------------------------------------
(* The session of one connection.                                          *)

ImuModes == {"disabled", "standard", "quaternion"}

(* encoded counts the blocks the quaternion state of this epoch integrates.*)
Sessions ==
    [supported : BOOLEAN, lit : BOOLEAN, imu : ImuModes, encoded : Nat,
     vibration : BOOLEAN, observed : SUBSET Subcommands]

NewSession ==
    [supported |-> FALSE, lit |-> FALSE, imu |-> "disabled", encoded |-> 0,
     vibration |-> FALSE, observed |-> {}]

ProtocolReady(s) == s.supported /\ s.lit

(* The session after the responder has served sub.  Every accepted IMU     *)
(* mode starts a new encoding epoch.                                       *)
Transition(s, sub) ==
    CASE sub = "mode_0x30"      -> [s EXCEPT !.supported = TRUE]
      [] sub = "mode_other"     -> [s EXCEPT !.supported = FALSE]
      [] sub = "lights_on"      -> [s EXCEPT !.lit = TRUE]
      [] sub = "lights_off"     -> [s EXCEPT !.lit = FALSE]
      [] sub = "imu_disabled"   -> [s EXCEPT !.imu = "disabled", !.encoded = 0]
      [] sub = "imu_standard"   -> [s EXCEPT !.imu = "standard", !.encoded = 0]
      [] sub = "imu_quaternion" -> [s EXCEPT !.imu = "quaternion", !.encoded = 0]
      [] sub = "vibration_on"   -> [s EXCEPT !.vibration = TRUE]
      [] sub = "vibration_off"  -> [s EXCEPT !.vibration = FALSE]
      [] OTHER                  -> s

(* encode_imu: only a quaternion block leaves something behind.            *)
Encoded(s) ==
    [s EXCEPT !.encoded = IF s.imu = "quaternion" THEN @ + 1 ELSE 0]

Observing(s, sub) == [s EXCEPT !.observed = @ \cup {sub}]

(* What the host asked for, without the encoding state and diagnostics.    *)
Requested(s) ==
    [supported |-> s.supported, lit |-> s.lit, imu |-> s.imu,
     vibration |-> s.vibration]

-----------------------------------------------------------------------------
(* The operation of a task.  state is the input state it carries, before   *)
(* the session a reply falls back to, stamp the timer of its report, left  *)
(* the time it still sleeps.                                               *)

Ops == [kind : InputKinds \cup {"reply", "none"},
        state : Inputs,
        sub : Subcommands \cup {"none"},
        before : Sessions,
        stamp : 0 .. TimerModulus - 1,
        left : 0 .. Holdoff]

NoOp == [kind |-> "none", state |-> Neutral, sub |-> "none",
         before |-> NewSession, stamp |-> 0, left |-> 0]

Init ==
    /\ pc = [t \in Tasks |-> "idle"]
    /\ op = [t \in Tasks |-> NoOp]
    /\ lock = FreeLock
    /\ timer = 0
    /\ holdoff = 0
    /\ store = Neutral
    /\ session = NewSession
    /\ edits = 0
    /\ ops = 0
    /\ wire = TimerModulus - 1     \* so that the first report has timer 0
    /\ sent = Neutral
    /\ shown = Neutral
    /\ granted = NewSession
    /\ quiet = Holdoff

-----------------------------------------------------------------------------
(* The critical section, up to the call of the transport.  l is the lock   *)
(* with t as its holder, s the session t finds.                            *)

HeldOff == holdoff > 0

(* The task ends its operation and releases the lock.                      *)
Leave(t, l) ==
    /\ pc' = [pc EXCEPT ![t] = "idle"]
    /\ op' = [op EXCEPT ![t] = NoOp]
    /\ lock' = Released(l)

(* Seeded bug: the lock is released before the transport has answered.     *)
SubmitUnlocked(t, o, l, state) ==
    /\ pc' = [pc EXCEPT ![t] = "sending"]
    /\ op' = [op EXCEPT ![t] = [o EXCEPT !.state = state, !.stamp = timer]]
    /\ lock' = Released(l)

(* The task calls send_interrupt with a report of the given input state.   *)
Submit(t, o, l, state) ==
    /\ pc' = [pc EXCEPT ![t] = "sending"]
    /\ op' = [op EXCEPT ![t] = [o EXCEPT !.state = state, !.stamp = timer]]
    /\ lock' = l

(* send_automatic_input returns False without a report.                    *)
SkipHeldOff(t, o, l, s) ==
    /\ o.kind \in Automatic /\ HeldOff
    /\ Leave(t, l)
    /\ session' = s

(* _send_input_locked: encode the IMU block, build and submit the report.  *)
SubmitInput(t, o, l, s) ==
    /\ o.kind \in {"input", "current", "direct"} \cup Automatic
    /\ o.kind \in Automatic => ~HeldOff
    /\ Submit(t, o, l, IF o.kind = "current" THEN store ELSE o.state)
    /\ session' = Encoded(s)

(* Seeded bug: the prefix is chosen after the session transition.          *)
SubmitReplyLatePrefix(t, o, l, s) ==
    /\ o.kind = "reply" /\ o.sub # "rejected"
    /\ Submit(t, o, l,
              IF ProtocolReady(Transition(s, o.sub)) THEN store ELSE Neutral)
    /\ session' = Transition(s, o.sub)

(* build_reply: the prefix is the stored input only if the session was     *)
(* ready before this subcommand; then the responder changes the session.   *)
SubmitReply(t, o, l, s) ==
    /\ o.kind = "reply" /\ o.sub # "rejected"
    /\ Submit(t, o, l, IF ProtocolReady(s) THEN store ELSE Neutral)
    /\ session' = Transition(s, o.sub)

(* The responder raises: the lock is released, then dispatch restores the  *)
(* session it remembered.                                                  *)
RejectReply(t, o, l, s) ==
    /\ o.kind = "reply" /\ o.sub = "rejected"
    /\ Leave(t, l)
    /\ session' = o.before

(* Seeded bug: it sleeps with the lock held.                               *)
LookAtHoldoffLocked(t, o, l, s) ==
    /\ o.kind = "await"
    /\ IF HeldOff
       THEN /\ pc' = [pc EXCEPT ![t] = "sleeping"]
            /\ op' = [op EXCEPT ![t] = [o EXCEPT !.left = holdoff]]
            /\ lock' = l
       ELSE Leave(t, l)
    /\ session' = s

(* wait_until_automatic_input_ready looks at the holdoff under the lock;   *)
(* it sleeps until the end it has read, and looks again.                   *)
LookAtHoldoff(t, o, l, s) ==
    /\ o.kind = "await"
    /\ IF HeldOff
       THEN /\ pc' = [pc EXCEPT ![t] = "sleeping"]
            /\ op' = [op EXCEPT ![t] = [o EXCEPT !.left = holdoff]]
            /\ lock' = Released(l)
       ELSE Leave(t, l)
    /\ session' = s

Critical(t, o, l, s) ==
    \/ SkipHeldOff(t, o, l, s)
    \/ SubmitInput(t, o, l, s)
    \/ SubmitReply(t, o, l, s)
    \/ RejectReply(t, o, l, s)
    \/ LookAtHoldoff(t, o, l, s)

(* async with self._send_lock, on behalf of operation o.                   *)
AskForLock(t, o, s) ==
    \/ /\ ~Contended(lock)
       /\ Critical(t, o, Taken(lock, t), s)
    \/ /\ Contended(lock)
       /\ pc' = [pc EXCEPT ![t] = "waiting"]
       /\ op' = [op EXCEPT ![t] = o]
       /\ lock' = Queued(lock, t)
       /\ session' = s

-----------------------------------------------------------------------------
(* The operations.                                                         *)

(* OutputReportDispatcher.dispatch, up to the lock: the subcommand is      *)
(* noted as observed, and the session as it now is becomes the one to fall *)
(* back to.                                                                *)
Dispatch(t, sub) ==
    /\ pc[t] = "idle" /\ ops < MaxOps
    /\ LET s == Observing(session, sub)
       IN  AskForLock(t, [NoOp EXCEPT !.kind = "reply", !.sub = sub,
                                      !.before = s], s)
    /\ ops' = ops + 1
    /\ UNCHANGED <<timer, holdoff, store, edits, historyVars>>

(* tap, ReportLoop.send_next_report, the automatic reports of the          *)
(* handshake, the trailing neutral and the readiness wait, up to the lock. *)
StartInput(t, kind) ==
    /\ pc[t] = "idle" /\ ops < MaxOps
    /\ kind \in InputKinds \ {"direct"}
    /\ AskForLock(t, [NoOp EXCEPT
                        !.kind = kind,
                        !.state = IF kind \in {"input", "periodic"}
                                  THEN store ELSE Neutral], session)
    /\ ops' = ops + 1
    /\ UNCHANGED <<timer, holdoff, store, edits, historyVars>>

(* A direct operation: the candidate is a new state made from the store.   *)
(* The input operation lock of the runtime admits one at a time.           *)
StartDirect(t) ==
    /\ pc[t] = "idle" /\ ops < MaxOps /\ edits < MaxEdits
    /\ "direct" \in InputKinds
    /\ \A u \in Tasks : op[u].kind # "direct"
    /\ edits' = edits + 1
    /\ AskForLock(t, [NoOp EXCEPT !.kind = "direct", !.state = edits + 1],
                  session)
    /\ ops' = ops + 1
    /\ UNCHANGED <<timer, holdoff, store, historyVars>>

(* InputStateStore.update and apply: press, release, sticks, imu, apply    *)
(* and neutral of a periodic controller.  None of them sends anything.     *)
Edit ==
    /\ edits < MaxEdits /\ "direct" \notin InputKinds
    /\ edits' = edits + 1
    /\ store' = edits + 1
    /\ UNCHANGED <<pc, op, lock, timer, holdoff, session, ops,
                   historyVars>>

(* The first waiter is scheduled after the lock was released.              *)
Wake(t) ==
    /\ pc[t] = "waiting" /\ Woken(lock, t)
    /\ Critical(t, op[t], Granted(lock, t), session)
    /\ UNCHANGED <<timer, holdoff, store, boundVars, historyVars>>

(* The sleep of wait_until_automatic_input_ready ends.                     *)
EndSleep(t) ==
    /\ pc[t] = "sleeping" /\ op[t].left = 0
    /\ AskForLock(t, op[t], session)
    /\ UNCHANGED <<timer, holdoff, store, boundVars, historyVars>>

(* Seeded bug: the timer is not kept in one byte.                          *)
NextTimerUnmasked == timer + 1

(* _advance_timer                                                          *)
NextTimer == (timer + 1) % TimerModulus

Newer(a, b) == IF a < b THEN b ELSE a

(* send_interrupt returns: the transport has accepted an input report.     *)
InputAccepted(t) ==
    /\ pc[t] = "sending" /\ op[t].kind # "reply"
    /\ Leave(t, lock)
    /\ store' = IF op[t].kind = "direct" THEN op[t].state ELSE store
    /\ timer' = NextTimer
    /\ wire' = op[t].stamp
    /\ sent' = IF op[t].kind \in {"input", "periodic", "direct"}
               THEN op[t].state ELSE sent
    /\ shown' = Newer(shown, op[t].state)
    /\ UNCHANGED <<holdoff, session, boundVars, granted, quiet>>

(* Seeded bug: an accepted reply starts no holdoff.                        *)
ReplyAcceptedNoHoldoff(t) ==
    /\ pc[t] = "sending" /\ op[t].kind = "reply"
    /\ Leave(t, lock)
    /\ timer' = NextTimer
    /\ wire' = op[t].stamp
    /\ granted' = Transition(granted, op[t].sub)
    /\ quiet' = 0
    /\ shown' = Newer(shown, op[t].state)
    /\ UNCHANGED <<holdoff, store, session, boundVars, sent>>

(* send_interrupt returns for a reply: the timer moves on and the holdoff  *)
(* of automatic input starts over.                                         *)
ReplyAccepted(t) ==
    /\ pc[t] = "sending" /\ op[t].kind = "reply"
    /\ Leave(t, lock)
    /\ timer' = NextTimer
    /\ holdoff' = Holdoff
    /\ wire' = op[t].stamp
    /\ granted' = Transition(granted, op[t].sub)
    /\ quiet' = 0
    /\ shown' = Newer(shown, op[t].state)
    /\ UNCHANGED <<store, session, boundVars, sent>>

(* Seeded bugs in the failure path: the timer advances all the same; the   *)
(* session is not restored; the report queues again for a second attempt;  *)
(* the candidate is stored all the same; the lock is not released.         *)
SendFailsAdvancing(t) ==
    /\ pc[t] = "sending"
    /\ Leave(t, lock)
    /\ timer' = NextTimer
    /\ session' = IF op[t].kind = "reply" THEN op[t].before ELSE session
    /\ UNCHANGED <<holdoff, store, boundVars, historyVars>>

SendFailsUnrestored(t) ==
    /\ pc[t] = "sending"
    /\ Leave(t, lock)
    /\ UNCHANGED <<timer, holdoff, store, session, boundVars, historyVars>>

SendFailsRetrying(t) ==
    /\ pc[t] = "sending"
    /\ pc' = [pc EXCEPT ![t] = "waiting"]
    /\ lock' = Queued(Released(lock), t)
    /\ UNCHANGED <<op, timer, holdoff, store, session, boundVars, historyVars>>

SendFailsCommitting(t) ==
    /\ pc[t] = "sending"
    /\ Leave(t, lock)
    /\ store' = IF op[t].kind = "direct" THEN op[t].state ELSE store
    /\ session' = IF op[t].kind = "reply" THEN op[t].before ELSE session
    /\ UNCHANGED <<timer, holdoff, boundVars, historyVars>>

SendFailsHolding(t) ==
    /\ pc[t] = "sending"
    /\ pc' = [pc EXCEPT ![t] = "idle"]
    /\ op' = [op EXCEPT ![t] = NoOp]
    /\ session' = IF op[t].kind = "reply" THEN op[t].before ELSE session
    /\ UNCHANGED <<lock, timer, holdoff, store, boundVars, historyVars>>

(* send_interrupt raises, or the sending task of an input is cancelled in  *)
(* it.  A failed reply restores the session dispatch remembered.           *)
SendFails(t) ==
    /\ pc[t] = "sending"
    /\ Leave(t, lock)
    /\ session' = IF op[t].kind = "reply" THEN op[t].before ELSE session
    /\ UNCHANGED <<timer, holdoff, store, boundVars, historyVars>>

(* An input task is cancelled while it waits for the lock or sleeps: the   *)
(* report loop and the handshake are stopped that way.                     *)
CancelWaiting(t) ==
    /\ t \in InputTasks
    /\ \/ pc[t] = "waiting" /\ lock' = Abandoned(lock, t)
       \/ pc[t] = "sleeping" /\ lock' = lock
    /\ pc' = [pc EXCEPT ![t] = "idle"]
    /\ op' = [op EXCEPT ![t] = NoOp]
    /\ UNCHANGED <<timer, holdoff, store, session, boundVars, historyVars>>

(* A clock tick passes.                                                    *)
Elapsed(left) == IF left > 0 THEN left - 1 ELSE 0

Tick ==
    /\ \/ holdoff > 0 \/ quiet < Holdoff
       \/ \E t \in Tasks : op[t].left > 0
    /\ holdoff' = Elapsed(holdoff)
    /\ quiet' = IF quiet < Holdoff THEN quiet + 1 ELSE quiet
    /\ op' = [t \in Tasks |-> [op[t] EXCEPT !.left = Elapsed(@)]]
    /\ UNCHANGED <<pc, lock, timer, store, session, boundVars,
                   wire, sent, shown, granted>>

(* The bounds are used up and every task is done: the instance may stop.   *)
Exhausted ==
    /\ ops = MaxOps /\ \A t \in Tasks : pc[t] = "idle"
    /\ UNCHANGED vars

Next ==
    \/ \E t \in ReplyTasks, sub \in Subcommands : Dispatch(t, sub)
    \/ \E t \in InputTasks, kind \in InputKinds : StartInput(t, kind)
    \/ \E t \in InputTasks : StartDirect(t)
    \/ Edit
    \/ \E t \in Tasks : Wake(t)
    \/ \E t \in InputTasks : EndSleep(t)
    \/ \E t \in Tasks : InputAccepted(t)
    \/ \E t \in Tasks : ReplyAccepted(t)
    \/ \E t \in Tasks : SendFails(t)
    \/ \E t \in InputTasks : CancelWaiting(t)
    \/ Tick
    \/ Exhausted

Spec == Init /\ [][Next]_vars

(* The event loop runs a woken task, the transport answers a send, and     *)
(* time passes.                                                            *)
Fairness ==
    /\ \A t \in Tasks : WF_vars(Wake(t))
    /\ \A t \in InputTasks : WF_vars(EndSleep(t))
    /\ \A t \in Tasks :
          WF_vars(InputAccepted(t) \/ ReplyAccepted(t) \/ SendFails(t))
    /\ WF_vars(Tick)

FairSpec == Spec /\ Fairness

-----------------------------------------------------------------------------
(* Properties.                                                             *)

(* Every variable has its type.                                            *)
TypeOK ==
    /\ pc \in [Tasks -> {"idle", "waiting", "sending", "sleeping"}]
    /\ op \in [Tasks -> Ops]
    /\ lock \in Locks(Tasks)
    /\ timer \in 0 .. TimerModulus - 1
    /\ holdoff \in 0 .. Holdoff
    /\ store \in Inputs
    /\ session \in Sessions
    /\ edits \in Inputs
    /\ ops \in 0 .. MaxOps
    /\ wire \in 0 .. TimerModulus - 1
    /\ sent \in Inputs
    /\ shown \in Inputs
    /\ granted \in Sessions
    /\ quiet \in 0 .. Holdoff

(* The sender lock serialises the transport (report_loop.py, every         *)
(* "async with self._send_lock"): only its holder is inside                *)
(* send_interrupt, and the queue holds each waiting task exactly once, so  *)
(* that no task waits without a place and none is granted the lock twice.  *)
LockOwnership ==
    /\ \A t \in Tasks : pc[t] = "sending" <=> lock.holder = t
    /\ \A t \in Tasks :
          pc[t] = "waiting" <=>
              \E i \in 1 .. Len(lock.waiters) : lock.waiters[i] = t
    /\ \A i, j \in 1 .. Len(lock.waiters) :
          lock.waiters[i] = lock.waiters[j] => i = j

(* 0x30 and 0x21 reports share one timer (_timer, _advance_timer): a       *)
(* report in flight carries the successor, modulo 0x100, of the timer of   *)
(* the last report the transport accepted, whatever was refused, cancelled *)
(* or held off in between.                                                 *)
TimerFollowsWire ==
    /\ timer = (wire + 1) % TimerModulus
    /\ \A t \in Tasks : pc[t] = "sending" => op[t].stamp = timer

(* No automatic report is handed to the transport before the holdoff since *)
(* the last accepted reply is over (send_automatic_input), even when the   *)
(* reply was accepted while the report was waiting for the lock.           *)
HoldoffRespected ==
    [][\A t \in Tasks :
          /\ pc[t] # "sending" /\ pc'[t] = "sending"
          /\ op'[t].kind \in Automatic
          => quiet = Holdoff]_vars

(* Tap, the report loop and a direct operation read the store before they  *)
(* queue for the lock (_send_current_input, send_next_report); replies and *)
(* trailing neutrals read it under the lock (dispatch, send_current_input).*)
(* Among the former none is accepted after a report of newer input.  The   *)
(* latter never show older input than any report accepted before them.  So *)
(* input goes back on the wire in one way only, and in that way it does: a *)
(* reply or a trailing neutral overtakes a report that is already queued.  *)
InputInOrder ==
    /\ [][sent' >= sent]_vars
    /\ [](\A t \in Tasks :
             /\ pc[t] = "sending" /\ op[t].kind \in {"reply", "current"}
             /\ op[t].state # Neutral
             => op[t].state >= shown)

(* The session the device acts on is the one the host has been told of:    *)
(* unless a reply is in flight, the requested modes are exactly those of   *)
(* the replies the transport accepted (dispatch: respond, send, restore).  *)
SessionMatchesReplies ==
    (\A t \in Tasks : ~(pc[t] = "sending" /\ op[t].kind = "reply"))
        => Requested(session) = Requested(granted)

(* A reply shows user input only to a host whose report mode and player    *)
(* lights have already been acknowledged (build_reply).                    *)
UserInputAfterReadiness ==
    \A t \in Tasks :
        pc[t] = "sending" /\ op[t].kind = "reply" /\ op[t].state # Neutral
            => ProtocolReady(granted)

(* A direct controller: the stored input, which replies show, is the last  *)
(* one the transport accepted (commit_state_store); a candidate that is    *)
(* still in flight, or was refused, is never seen in a reply.              *)
DirectInputIsAccepted ==
    /\ store = sent
    /\ \A t \in Tasks :
          pc[t] = "sending" /\ op[t].kind = "reply"
              => op[t].state \in {Neutral, sent}

(* Whoever waits for the sender lock gets it or is cancelled: a release    *)
(* always wakes the next waiter, also after a refused send or a cancelled  *)
(* waiter (report_loop.py, asyncio.Lock).  And the wait of a periodic      *)
(* controller for its input readiness ends once the host leaves it a whole *)
(* holdoff without a reply (wait_until_automatic_input_ready); MaxOps      *)
(* bounds the replies.                                                     *)
WaitersServed ==
    /\ \A t \in Tasks : pc[t] = "waiting" ~> pc[t] # "waiting"
    /\ \A t \in InputTasks : op[t].kind = "await" ~> op[t].kind # "await"

=============================================================================
