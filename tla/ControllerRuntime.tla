--------------------------- MODULE ControllerRuntime --------------------------
(***************************************************************************)
(* The lifecycle of one controller (swbt/gamepad/runtime.py) with the      *)
(* tasks it owns: the protocol handshake of each link                      *)
(* (gamepad/protocol_handshake.py), the input readiness wait and the       *)
(* report loop (report_loop.py).                                           *)
(*                                                                         *)
(* The agents are the tasks of the callers (open, pair, try_reconnect,     *)
(* close), those that handle an output report of the host, and the         *)
(* disconnect callback of each link.  All tasks share one event loop: what *)
(* is due runs in the order it became due, from where it was suspended to  *)
(* its next suspension, and the world outside (the transport, the host,    *)
(* deadlines, the application) only adds to what is due.  What reports     *)
(* carry and when they are sent is the subject of ReportSender: here an    *)
(* agent that sends is suspended until the transport answers.              *)
(*                                                                         *)
(* A link, its disconnect callback and the handshake, the readiness wait   *)
(* and the report loop that came of it share one number, 0 for none.       *)
(***************************************************************************)
EXTENDS AsyncLock, SequencesExt

CONSTANTS
    Callers,        \* tasks of the application
    HostTasks,      \* tasks the transport starts for output reports
    Requests,       \* the requests each caller makes in this instance
    Reporting,      \* the kinds of controllers: "periodic", "direct"
    Faults,         \* what may go wrong: a subset of AllFaults
    MaxLinks,       \* bound: number of times the link comes up
    MaxCalls,       \* bound: number of requests
    MaxPayloads     \* bound: number of output reports that matter here

(* "teardown": what close() and the clean-ups ask of the transport raises. *)
AllFaults == {"timeout", "cancel", "cancel open", "open", "send", "subcommand", "teardown"}

Links == 1 .. MaxLinks
Agents == Callers \cup HostTasks \cup Links

ASSUME RuntimeAssumption ==
    /\ IsFiniteSet(Callers) /\ IsFiniteSet(HostTasks)
    /\ Callers \cap HostTasks = {} /\ (Callers \cup HostTasks) \cap Links = {}
    /\ NoTask \notin Agents
    /\ MaxLinks \in Nat /\ MaxCalls \in Nat /\ MaxPayloads \in Nat
    /\ Requests \in [Callers -> SUBSET {"open", "pair", "reconnect", "close"}]
    /\ Reporting \subseteq {"periodic", "direct"}
    /\ Faults \subseteq AllFaults

VARIABLES
    gp,         \* the fields of ControllerRuntime, what the event loop has due, and
                \* two histories: initialized, that the host has made the session
                \* ready since open(), whatever it asked for later, and torn, that
                \* closing the transport has raised and left the controller open
    lock,       \* _lifecycle_lock
    run,        \* where each agent is suspended
    shake,      \* the protocol handshake of each link
    ready,      \* the readiness wait of each link, and the sender it captured
    loop,       \* the report loop of each link
    tp,         \* the transport and its link
    spent       \* what the bounds count

vars == <<gp, lock, run, shake, ready, loop, tp, spent>>
tasks == <<shake, ready, loop>>

States == {"closed", "opening", "opened", "advertising", "reconnecting",
           "initializing", "connected", "disconnecting", "failed"}

(* An agent: the request it serves, where it is suspended, the operation   *)
(* it wants the lifecycle lock for, the task it waits for and its result.  *)
Asleep == [fn |-> "none", at |-> "idle", body |-> "none", obj |-> 0, res |-> "none"]

Init ==
    /\ \E reporting \in Reporting :
       gp = [reporting |-> reporting, state |-> "closed", open |-> FALSE, closing |-> FALSE,
             sender |-> 0, shake |-> 0, ready |-> 0, loop |-> 0, protocolReady |-> FALSE,
             connected |-> FALSE, attempt |-> FALSE, disconnected |-> FALSE,
             initialized |-> FALSE, torn |-> FALSE, due |-> << >>]
    /\ lock = FreeLock
    /\ run = [a \in Agents |-> Asleep]
    /\ shake = [i \in Links |->
                  [task |-> "none", stopped |-> FALSE, failure |-> FALSE, waiters |-> << >>]]
    /\ ready = [i \in Links |-> [task |-> "none", sender |-> 0]]
    /\ loop = [i \in Links |-> "none"]
    /\ tp = [open |-> FALSE, visible |-> FALSE, link |-> 0, opens |-> 0, links |-> 0]
    /\ spent = [calls |-> 0, payloads |-> 0]

-----------------------------------------------------------------------------
(* The event loop.                                                         *)

Due(s, x) == \E k \in DOMAIN s.due : s.due[k] = x

Post(s, x) == IF Due(s, x) THEN s ELSE [s EXCEPT !.due = Append(@, x)]

Agent(a) == <<"agent", a>>

(* The runtime once x, the first that is due, is taken from the queue.     *)
Turn(x) == gp.due # << >> /\ Head(gp.due) = x
Now == [gp EXCEPT !.due = Tail(@)]

(* The runtime becomes s, the lock l, and the agents are as in r.  Setting *)
(* an event wakes those that wait for it, whatever happens to it before    *)
(* they run; releasing the lock wakes its first waiter.                    *)
Settle(s, l, r) ==
    LET woken == {a \in Agents :
                    \/ r[a].at = "wait ready" /\ s.attempt
                    \/ r[a].at = "wait link" /\ s.disconnected}
        newly == {Agent(a) : a \in {b \in woken : ~Due(s, Agent(b))}}
        queued == [s EXCEPT !.due = @ \o SetToSeq(newly)]
    IN  /\ gp' = IF l.holder = NoTask /\ l.waiters # << >>
                 THEN Post(queued, Agent(Head(l.waiters)))
                 ELSE queued
        /\ lock' = l
        /\ run' = [a \in Agents |->
                      IF a \notin woken THEN r[a]
                      ELSE [r[a] EXCEPT !.at = IF @ = "wait ready" THEN "woken"
                                               ELSE "link gone"]]

Suspend(a, w, s, l) == Settle(s, l, [run EXCEPT ![a] = w])

(* Agent a, whose request is w, is suspended there, waiting for task i.    *)
At(there, i, a, w, s, l) == Suspend(a, [w EXCEPT !.at = there, !.obj = i], s, l)

Return(c, res, s, l) == Suspend(c, [Asleep EXCEPT !.res = res], s, l)

(* A step of no agent that changes the runtime to s.                       *)
Becomes(s) == Settle(s, lock, run)

(* What the end of task i makes due: the agent that stopped it.            *)
PostStopper(s, i, places) ==
    LET stoppers == {a \in Agents : run[a].at \in places /\ run[a].obj = i}
    IN  IF stoppers = {} THEN s ELSE Post(s, Agent(CHOOSE a \in stoppers : TRUE))

-----------------------------------------------------------------------------
(* The outcome of a connection attempt.                                    *)

Published(s) ==
    IF s.connected \/ s.attempt THEN s
    ELSE [s EXCEPT !.state = "connected", !.connected = TRUE, !.attempt = TRUE]

(* Seeded bug: a name that is no state of the controller.                  *)
FailedUnnamed(s) == [s EXCEPT !.state = "error", !.attempt = TRUE]

Failed(s) == [s EXCEPT !.state = "failed", !.attempt = TRUE]

(* _handle_handshake_outcome: the runtime after outcome o of handshake i.  *)
(* A ready outcome publishes at once in direct reporting, and starts the   *)
(* readiness wait in periodic reporting.                                   *)
StartsReady(s, o) ==
    o = "ready" /\ ~s.connected /\ s.reporting = "periodic" /\ s.ready = 0

AfterOutcome(s, i, o) ==
    LET n == [s EXCEPT !.shake = 0] IN
    IF o = "failed" THEN IF s.closing THEN n ELSE Failed(n)
    ELSE IF s.connected THEN s
    ELSE IF s.reporting = "direct" THEN Published(n)
    ELSE IF s.ready # 0 THEN n
    ELSE Post([n EXCEPT !.ready = i], <<"ready", i>>)

ReadyAfter(s, i, o) ==
    IF StartsReady(s, o) THEN [ready EXCEPT ![i].task = "created"] ELSE ready

-----------------------------------------------------------------------------
(* Stopping the tasks, in the order close() and _handle_disconnected share:*)
(* the handshake, the readiness wait, the report loop.  A task that is     *)
(* still running is cancelled and the agent waits for it; one that has     *)
(* ended lets the agent go on at once, and an exception it ended with      *)
(* leaves the agent.                                                       *)

Ended(t) == t \notin {"running", "cancelling"}

(* An exception leaves close() through its finally, the disconnect         *)
(* callback through its own.                                               *)
Raise(a, w, s, l) ==
    IF a \in Links
    THEN At("aborted", 0, a, w, [s EXCEPT !.disconnected = TRUE], l)
    ELSE Return(a, "error", [s EXCEPT !.closing = FALSE], Released(l))

(* The callback has stopped the tasks: it closes the transport unless      *)
(* close() is under way, which will.                                       *)
(* Seeded bug: the sender outlives its transport.                          *)
UnlinkedKeepingSender(i, w, s, l) ==
    LET over == [s EXCEPT !.loop = 0, !.disconnected = TRUE]
    IN  IF s.closing THEN At("handled", 0, i, w, over, l)
        ELSE IF s.open THEN At("down closing", 0, i, w, [s EXCEPT !.loop = 0], l)
        ELSE At("handled", 0, i, w, [over EXCEPT !.state = "closed"], l)

Unlinked(i, w, s, l) ==
    LET released == [s EXCEPT !.loop = 0, !.sender = 0]
        over == [released EXCEPT !.disconnected = TRUE]
    IN  IF s.closing THEN At("handled", 0, i, w, over, l)
        ELSE IF s.open THEN At("down closing", 0, i, w, released, l)
        ELSE At("handled", 0, i, w, [over EXCEPT !.state = "closed"], l)

TasksStopped(a, w, s, l) ==
    IF a \in Links THEN Unlinked(a, w, s, l)
    ELSE At("request", 0, a, w, [s EXCEPT !.disconnected = FALSE], l)

(* Seeded bug: the report loop is forgotten, not stopped.                  *)
StopLoopForgetting(a, w, s, l) ==
    UNCHANGED loop /\ TasksStopped(a, w, s, l)

StopLoop(a, w, s, l) ==
    LET i == s.loop IN
    \/ /\ i = 0 \/ (i # 0 /\ loop[i] \in {"cancelling", "stopped"})
       /\ UNCHANGED loop
       /\ TasksStopped(a, w, s, l)
    \/ /\ i # 0 /\ loop[i] = "running"
       /\ loop' = [loop EXCEPT ![i] = "cancelling"]
       /\ At("stop loop", i, a, w, Post(s, <<"loop", i>>), l)
    \/ /\ i # 0 /\ loop[i] = "dead"
       /\ loop' = [loop EXCEPT ![i] = "stopped"]
       /\ Raise(a, w, s, l)

(* _stop_input_readiness_wait, up to where the agent goes on.              *)
StopReady(a, w, s, l) ==
    LET i == s.ready
        n == [s EXCEPT !.ready = 0]
    IN
    \/ /\ i = 0
       /\ UNCHANGED ready
       /\ StopLoop(a, w, n, l)
    \/ /\ i # 0 /\ ready[i].task \in {"created", "waiting"}
       /\ ready' = [ready EXCEPT ![i].task = "cancelling"]
       /\ UNCHANGED loop
       /\ At("stop ready", i, a, w, Post(n, <<"ready", i>>), l)
    \/ /\ i # 0 /\ ready[i].task = "dead"
       /\ UNCHANGED <<ready, loop>>
       /\ Raise(a, w, n, l)

(* ProtocolHandshake._stop_task, for agent a.                              *)
(* Seeded bug in it: who stops a task that runs is not told of its end.    *)
StoppedShakeUntold(i, a) ==
    [shake EXCEPT ![i].stopped = TRUE,
                  ![i].task = IF Ended(@) THEN @ ELSE "cancelling"]

StoppedShake(i, a) ==
    LET h == shake[i] IN
    [shake EXCEPT ![i] =
        IF Ended(h.task) THEN [h EXCEPT !.stopped = TRUE]
        ELSE [h EXCEPT !.stopped = TRUE, !.task = "cancelling",
                       !.waiters = Append(h.waiters, a)]]

(* Seeded bug: a handshake is forgotten, not stopped.                      *)
StopShakeForgetting(a, w, s, l) ==
    UNCHANGED shake /\ StopReady(a, w, [s EXCEPT !.shake = 0], l)

StopShake(a, w, s, l) ==
    LET i == s.shake
        n == [s EXCEPT !.shake = 0]
    IN
    \/ /\ i = 0
       /\ UNCHANGED shake
       /\ StopReady(a, w, n, l)
    \/ /\ i # 0 /\ Ended(shake[i].task)
       /\ shake' = StoppedShake(i, a)
       /\ StopReady(a, w, n, l)
    \/ /\ i # 0 /\ ~Ended(shake[i].task)
       /\ shake' = StoppedShake(i, a)
       /\ UNCHANGED <<ready, loop>>
       /\ At("stop shake", i, a, w, Post(n, <<"shake", i>>), l)

(* The task the agent waited for has ended.                                *)
Resume(a) ==
    \/ /\ run[a].at = "stop shake"
       /\ UNCHANGED shake
       /\ StopReady(a, run[a], Now, lock)
    \/ /\ run[a].at = "stop ready"
       /\ UNCHANGED <<shake, ready>>
       /\ StopLoop(a, run[a], Now, lock)
    \/ /\ run[a].at = "stop loop"
       /\ UNCHANGED tasks
       /\ TasksStopped(a, run[a], Now, lock)

-----------------------------------------------------------------------------
(* The requests of callers.                                                *)

(* close() with the lock: nothing to do unless open; a trailing neutral    *)
(* report while connected, then the tasks are stopped.                     *)
CloseLocked(c, w, s, l) ==
    LET n == [s EXCEPT !.closing = TRUE, !.state = "disconnecting"]
        trailing == s.connected /\ (s.reporting = "direct" \/ s.loop # 0) IN
    /\ UNCHANGED tp
    /\ \/ /\ ~s.open
          /\ UNCHANGED tasks
          /\ Return(c, w.res, s, Released(l))
       \/ /\ s.open /\ trailing
          /\ UNCHANGED tasks
          /\ At("neutral", 0, c, w, n, l)
       \/ /\ s.open /\ ~trailing
          /\ StopShake(c, w, n, l)

(* A connection attempt starts over transport x, and the host may see the  *)
(* controller from now on.                                                 *)
Connect(c, w, s, l, x) ==
    LET n == [s EXCEPT !.connected = FALSE, !.attempt = FALSE,
                       !.state = IF w.fn = "pair" THEN "advertising" ELSE "reconnecting"]
    IN  /\ tp' = [x EXCEPT !.visible = x.open]
        /\ UNCHANGED tasks
        /\ At("connecting", 0, c, w, n, l)

(* What follows open() in the request that called it.                      *)
Opened(c, w, s, l, x) ==
    \/ /\ w.fn = "open"
       /\ tp' = x
       /\ UNCHANGED tasks
       /\ Return(c, "ok", s, l)
    \/ /\ w.fn = "pair"
       /\ Connect(c, w, s, l, x)
    \/ /\ w.fn = "reconnect"
       /\ tp' = x
       /\ UNCHANGED tasks
       /\ At("peer", 0, c, w, s, l)

(* open() with the lock: a fresh session and cleared events, then the      *)
(* transport is opened.                                                    *)
OpenLocked(c, w, s, l) ==
    \/ /\ s.open
       /\ Opened(c, w, s, Released(l), tp)
    \/ /\ ~s.open
       /\ UNCHANGED <<tasks, tp>>
       /\ At("opening", 0, c, w,
             [s EXCEPT !.state = "opening", !.protocolReady = FALSE,
                       !.initialized = FALSE, !.connected = FALSE, !.attempt = FALSE], l)

Locked(c, w, s, l) ==
    \/ w.body = "open" /\ OpenLocked(c, w, s, l)
    \/ w.body = "close" /\ CloseLocked(c, w, s, l)

(* async with self._lifecycle_lock                                         *)
(* Seeded bug: a lock somebody has is taken all the same.                  *)
AskForLockBarging(c, w, s) == Locked(c, w, s, Taken(lock, c))

AskForLock(c, w, s) ==
    \/ /\ Contended(lock)
       /\ UNCHANGED <<tasks, tp>>
       /\ At("lock", 0, c, w, s, Queued(lock, c))
    \/ /\ ~Contended(lock)
       /\ Locked(c, w, s, Taken(lock, c))

GetsLock(c) ==
    /\ run[c].at = "lock"
    /\ Locked(c, run[c], Now, Granted(lock, c))

(* The request starts; what it needs open it opens first.                  *)
Starts(c) ==
    /\ run[c].at = "called"
    /\ IF run[c].fn = "pair" /\ gp.open
       THEN Connect(c, run[c], Now, lock, tp)
       ELSE AskForLock(c, run[c], Now)

GivesUp(c, res) ==
    AskForLock(c, [run[c] EXCEPT !.body = "close", !.res = res], Now)

Finishes(c, res, s) == Return(c, res, s, lock) /\ UNCHANGED <<tasks, tp>>

(* What closing the transport leaves of it: callbacks under way still run. *)
TransportClosed == [tp EXCEPT !.open = FALSE, !.visible = FALSE, !.link = 0]

(* transport.open() returns, or raises and is closed before open() raises; *)
(* a cancelled open() is not an Exception and leaves everything as it is.  *)
OpenAnswered(c) ==
    LET x == [tp EXCEPT !.open = TRUE, !.opens = @ + 1] IN
    /\ run[c].at = "opening"
    /\ \/ /\ run[c].res = "none"
          /\ Opened(c, run[c], [Now EXCEPT !.state = "opened", !.open = TRUE,
                                           !.sender = x.opens],
                    Released(lock), x)
       \/ /\ run[c].res = "none" /\ "open" \in Faults
          /\ At("open closing", 0, c, run[c], [Now EXCEPT !.state = "failed"], lock)
          /\ UNCHANGED <<tasks, tp>>
       \/ /\ run[c].res = "cancelled"
          /\ Return(c, "cancelled", Now, Released(lock))
          /\ \E opened \in BOOLEAN : tp' = [tp EXCEPT !.open = opened \/ @]
          /\ UNCHANGED tasks

(* An exception of the closing replaces the first and skips what follows.  *)
OpenFailed(c) ==
    /\ run[c].at = "open closing"
    /\ \/ Return(c, "error", [Now EXCEPT !.loop = 0, !.sender = 0, !.open = FALSE],
                 Released(lock))
       \/ "teardown" \in Faults /\ Return(c, "error", Now, Released(lock))
    /\ tp' = TransportClosed
    /\ UNCHANGED tasks

(* try_reconnect asks for the bonded peer before its attempt.              *)
PeerAnswered(c) ==
    /\ run[c].at = "peer"
    /\ \/ tp.open /\ Connect(c, run[c], Now, lock, tp)
       \/ tp.open /\ Finishes(c, "no bond", Now)
       \/ ~tp.open /\ Finishes(c, "error", Now)

(* The attempt event is set: the caller is connected, or gives up.         *)
Decided(c) ==
    \/ gp.connected /\ Finishes(c, "ok", Now)
    \/ ~gp.connected /\ GivesUp(c, "failed")

(* start_advertising or connect_bonded_peer returns, or raises: that       *)
(* leaves pair() as things are, and makes try_reconnect close.             *)
ConnectAnswered(c) ==
    /\ run[c].at = "connecting" /\ run[c].res = "none"
    /\ \/ /\ tp.open /\ ~gp.attempt
          /\ At("wait ready", 0, c, run[c], Now, lock)
          /\ UNCHANGED <<tasks, tp>>
       \/ tp.open /\ gp.attempt /\ Decided(c)
       \/ run[c].fn = "pair" /\ ~tp.open /\ Finishes(c, "error", Now)
       \/ run[c].fn = "reconnect" /\ GivesUp(c, "failed")

AttemptOver(c) == run[c].at = "woken" /\ run[c].res = "none" /\ Decided(c)

(* The deadline of the attempt has cancelled what it was waiting for, or   *)
(* the application has cancelled the caller: then the readiness wait is    *)
(* stopped and the link left alone.                                        *)
Attempting(c) == run[c].at \in {"connecting", "wait ready", "woken"}

AttemptCut(c) ==
    LET i == gp.ready
        n == [Now EXCEPT !.ready = 0]
        cancels == i # 0 /\ ready[i].task \in {"created", "waiting"} IN
    /\ Attempting(c)
    /\ \/ /\ run[c].res = "timeout"
          /\ GivesUp(c, "timeout")
       \/ /\ run[c].res = "cancelled" /\ cancels
          /\ ready' = [ready EXCEPT ![i].task = "cancelling"]
          /\ At("cancel ready", i, c, run[c], Post(n, <<"ready", i>>), lock)
          /\ UNCHANGED <<shake, loop, tp>>
       \/ /\ run[c].res = "cancelled" /\ ~cancels
          /\ Finishes(c, IF i = 0 THEN "cancelled" ELSE "error", n)

AttemptCancelled(c) ==
    run[c].at = "cancel ready" /\ Finishes(c, "cancelled", Now)

(* close(), from the trailing neutral report on; a report that cannot be   *)
(* sent does not keep it from closing.                                     *)
NeutralSent(c) ==
    /\ run[c].at = "neutral"
    /\ StopShake(c, run[c], Now, lock)
    /\ UNCHANGED tp

(* The disconnect request, made while a link was open, has its caller wait *)
(* for the disconnect callback; otherwise it is unavailable.  Any error of *)
(* it but ClosedError leaves close().                                      *)
DisconnectRequested(c) ==
    /\ run[c].at = "request"
    /\ \/ /\ tp.open /\ tp.links # 0 /\ ~gp.disconnected
          /\ At("wait link", 0, c, run[c], Now, lock)
       \/ At("closing", 0, c, run[c], Now, lock)
       \/ "teardown" \in Faults /\ Raise(c, run[c], [Now EXCEPT !.torn = TRUE], lock)
    /\ UNCHANGED <<tasks, tp>>

(* The link is gone, or DISCONNECT_REQUEST_TIMEOUT_SECONDS have passed.    *)
LinkWaitEnds(c) ==
    /\ run[c].at \in {"wait link", "link gone"}
    /\ At("closing", 0, c, run[c], Now, lock)
    /\ UNCHANGED <<tasks, tp>>

(* An exception of the closing leaves close() before it forgets the sender *)
(* and the controller is closed; the transport has forgotten its device.   *)
CloseAnswered(c) ==
    /\ run[c].at = "closing"
    /\ tp' = TransportClosed
    /\ \/ Return(c, run[c].res,
                 [Now EXCEPT !.loop = 0, !.sender = 0, !.open = FALSE,
                             !.state = "closed", !.closing = FALSE, !.torn = FALSE],
                 Released(lock))
       \/ "teardown" \in Faults /\ Raise(c, run[c], [Now EXCEPT !.torn = TRUE], lock)
    /\ UNCHANGED tasks

-----------------------------------------------------------------------------
(* The callbacks of the link.                                              *)

(* _handle_connected starts the handshake of the link, unless one is there;*)
(* without a sender it raises.                                             *)
Connected(i) ==
    LET s == [Now EXCEPT !.state = "initializing"]
        starts == gp.shake = 0 /\ gp.sender # 0 IN
    /\ shake' = IF starts THEN [shake EXCEPT ![i].task = "running"] ELSE shake
    /\ Becomes(IF starts THEN Post([s EXCEPT !.shake = i], <<"shake", i>>) ELSE s)
    /\ UNCHANGED <<ready, loop, tp>>

(* _handle_disconnected.  Before the attempt is decided the link is what   *)
(* failed it: the handshake is told so and awaited.                        *)
Awaited(h, i) ==
    LET b == shake[h] IN
    [shake EXCEPT ![h] =
        IF Ended(b.task) THEN [b EXCEPT !.failure = TRUE]
        ELSE [b EXCEPT !.failure = TRUE, !.waiters = Append(b.waiters, i)]]

Down(i) ==
    LET h == gp.shake
        early == ~gp.connected /\ ~gp.attempt /\ ~gp.closing
        s == [Now EXCEPT !.connected = FALSE] IN
    /\ run[i].at = "down"
    /\ UNCHANGED tp
    /\ \/ /\ early /\ h = 0
          /\ StopShake(i, run[i], Failed(s), lock)
       \/ /\ ~early
          /\ StopShake(i, run[i], s, lock)
       \/ /\ early /\ h # 0
          /\ shake' = Awaited(h, i)
          /\ \/ /\ ~Ended(shake[h].task)
                /\ At("await shake", h, i, run[i], s, lock)
                /\ UNCHANGED <<ready, loop>>
             \/ /\ shake[h].task = "cancelled"
                /\ Raise(i, run[i], s, lock)
                /\ UNCHANGED <<ready, loop>>
             \/ /\ shake[h].task \in {"ready", "failed"}
                /\ StopReady(i, run[i], [s EXCEPT !.shake = 0], lock)

(* handshake.wait(): a handshake that was cancelled cancels who waits.     *)
ShakeAwaited(i) ==
    /\ run[i].at = "await shake"
    /\ UNCHANGED <<shake, tp>>
    /\ \/ /\ shake[run[i].obj].task = "cancelled"
          /\ Raise(i, run[i], Now, lock)
          /\ UNCHANGED <<ready, loop>>
       \/ /\ shake[run[i].obj].task # "cancelled"
          /\ StopReady(i, run[i], [Now EXCEPT !.shake = 0], lock)

(* An exception of the closing leaves the callback: the controller is open *)
(* without a sender.                                                       *)
DownClosed(i) ==
    /\ run[i].at = "down closing"
    /\ tp' = TransportClosed
    /\ \/ At("handled", 0, i, run[i],
             [Now EXCEPT !.open = FALSE, !.state = "closed", !.disconnected = TRUE,
                         !.torn = FALSE], lock)
       \/ "teardown" \in Faults /\ Raise(i, run[i], [Now EXCEPT !.torn = TRUE], lock)
    /\ UNCHANGED tasks

-----------------------------------------------------------------------------
(* The tasks of the runtime.                                               *)

(* A turn of ProtocolHandshake._run: it ends cancelled, told to fail,      *)
(* refused by the transport, or because it sees the session ready; or it   *)
(* goes on.  Its done callback is due before those that wait for it.       *)
ShakeTurn(i) ==
    LET mayFail == "send" \in Faults \/ ~tp.open
        Ends(o) ==
            /\ shake' = [shake EXCEPT ![i].task = o, ![i].waiters = << >>]
            /\ Becomes([Now EXCEPT !.due =
                          @ \o <<<<"told", i>>>>
                            \o [k \in DOMAIN shake[i].waiters |-> Agent(shake[i].waiters[k])]])
    IN
    /\ UNCHANGED <<ready, loop, tp>>
    /\ \/ shake[i].task = "cancelling" /\ Ends("cancelled")
       \/ shake[i].task = "running" /\ shake[i].failure /\ Ends("failed")
       \/ shake[i].task = "running" /\ mayFail /\ Ends("failed")
       \/ /\ shake[i].task = "running" /\ ~shake[i].failure /\ gp.protocolReady
          /\ Ends("ready")
       \/ /\ shake[i].task = "running" /\ ~shake[i].failure /\ ~gp.protocolReady
          /\ Becomes(Now)
          /\ UNCHANGED shake

(* _task_finished tells the runtime, unless the handshake was stopped.     *)
ShakeTold(i) ==
    LET o == shake[i].task
        tells == ~shake[i].stopped /\ o # "cancelled" IN
    /\ Becomes(IF tells THEN AfterOutcome(Now, i, o) ELSE Now)
    /\ ready' = IF tells THEN ReadyAfter(gp, i, o) ELSE ready
    /\ UNCHANGED <<shake, loop, tp>>

(* The readiness wait of a sender is over when no reply is being sent, and *)
(* none holds automatic input off: that is a matter of time.               *)
Replying(sender) == \E h \in HostTasks : run[h].at = "replying" /\ run[h].obj = sender

WaitOver(sender) == ~Replying(sender)

(* Seeded bug: what keeps a late wait from publishing does not compare the *)
(* sender.                                                                 *)
InTimeAnySender(sender) == ~gp.closing /\ ~gp.attempt

InTime(sender) == ~gp.closing /\ ~gp.attempt /\ gp.sender = sender

(* A turn of _complete_periodic_input_readiness.  It needs a sender before *)
(* its try.  In time, it starts the report loop and publishes.             *)
ReadyTurn(i) ==
    LET task == ready[i].task
        sender == IF task = "created" THEN gp.sender ELSE ready[i].sender
        n == [Now EXCEPT !.ready = IF @ = i THEN 0 ELSE @]
        goes == task \in {"created", "waiting"} /\ sender # 0 IN
    /\ UNCHANGED <<shake, tp>>
    /\ \/ /\ task = "cancelling"
          /\ ready' = [ready EXCEPT ![i].task = "done"]
          /\ Becomes(PostStopper(Now, i, {"stop ready", "cancel ready"}))
          /\ UNCHANGED loop
       \/ /\ task = "created" /\ sender = 0
          /\ ready' = [ready EXCEPT ![i].task = "dead"]
          /\ Becomes(Now)
          /\ UNCHANGED loop
       \/ /\ goes
          /\ ready' = [ready EXCEPT ![i] = [task |-> "waiting", sender |-> sender]]
          /\ Becomes(Now)
          /\ UNCHANGED loop
       \/ /\ goes /\ WaitOver(sender)
          /\ ready' = [ready EXCEPT ![i] = [task |-> "done", sender |-> sender]]
          /\ IF InTime(sender)
             THEN /\ Becomes(Published([n EXCEPT !.loop = IF @ = 0 THEN i ELSE @]))
                  /\ loop' = IF gp.loop = 0 THEN [loop EXCEPT ![i] = "running"] ELSE loop
             ELSE Becomes(n) /\ UNCHANGED loop

LoopTurn(i) ==
    /\ loop' = [loop EXCEPT ![i] = "stopped"]
    /\ Becomes(PostStopper(Now, i, {"stop loop"}))
    /\ UNCHANGED <<shake, ready, tp>>

-----------------------------------------------------------------------------
(* The output reports of the host that decide the handshake.               *)

(* ProtocolHandshake._complete: what agent h does with outcome o of the    *)
(* current handshake; the first to complete it tells the runtime once its  *)
(* task has ended.                                                         *)
Complete(h, o, s) ==
    LET i == s.shake
        told == IF shake[i].stopped THEN s ELSE AfterOutcome(s, i, o) IN
    /\ UNCHANGED loop
    /\ \/ /\ shake[i].stopped \/ Ended(shake[i].task)
          /\ shake' = IF shake[i].stopped THEN shake ELSE StoppedShake(i, h)
          /\ ready' = IF shake[i].stopped THEN ready ELSE ReadyAfter(s, i, o)
          /\ Suspend(h, Asleep, IF o = "ready" THEN [told EXCEPT !.shake = 0] ELSE told, lock)
       \/ /\ ~shake[i].stopped /\ ~Ended(shake[i].task)
          /\ shake' = StoppedShake(i, h)
          /\ UNCHANGED ready
          /\ At("completing", i, h, [run[h] EXCEPT !.res = o], Post(s, <<"shake", i>>), lock)

Completed(h) ==
    LET i == run[h].obj
        o == run[h].res
        told == AfterOutcome(Now, i, o) IN
    /\ run[h].at = "completing"
    /\ ready' = ReadyAfter(gp, i, o)
    /\ Suspend(h, Asleep,
               IF o = "ready" /\ told.shake = i THEN [told EXCEPT !.shake = 0] ELSE told, lock)
    /\ UNCHANGED <<shake, loop, tp>>

(* _fail_protocol_initialization                                           *)
Rejected(h, s) ==
    \/ /\ s.shake # 0
       /\ Complete(h, "failed", s)
    \/ /\ s.shake = 0
       /\ UNCHANGED tasks
       /\ Suspend(h, Asleep, Failed(s), lock)

(* The session is again what it was when the request w was dispatched.     *)
Restored(s, w) ==
    LET was == w.res = "was ready"
    IN  [s EXCEPT !.protocolReady = was,
                  !.initialized = was \/ (w.fn # "supported" /\ @)]

(* The sender's lock is agent h's: its reply is built and submitted.  A    *)
(* subcommand that completes the initialization makes the session ready    *)
(* from then on, one that takes the player lights or the report mode back  *)
(* makes it unready; one the responder does not support is rejected.       *)
Built(h, w, s) ==
    \/ /\ w.fn = "supported"
       /\ UNCHANGED tasks
       /\ At("replying", w.obj, h, w,
             [s EXCEPT !.protocolReady = TRUE, !.initialized = TRUE], lock)
    \/ /\ w.fn = "undoing"
       /\ UNCHANGED tasks
       /\ At("replying", w.obj, h, w, [s EXCEPT !.protocolReady = FALSE], lock)
    \/ /\ w.fn = "unsupported"
       /\ Rejected(h, Restored(s, w))

(* A subcommand is dispatched: it needs a sender, remembers the session as *)
(* it is, and waits for its turn to send.                                  *)
Dispatched(h) ==
    LET w == [run[h] EXCEPT !.obj = gp.sender,
                            !.res = IF gp.protocolReady THEN "was ready" ELSE "none"] IN
    /\ UNCHANGED tp
    /\ \/ /\ run[h].at = "received" /\ gp.sender = 0
          /\ Rejected(h, Now)
       \/ /\ run[h].at = "received" /\ gp.sender # 0 /\ Replying(gp.sender)
          /\ Suspend(h, [w EXCEPT !.at = "queued"], Now, lock)
          /\ UNCHANGED tasks
       \/ /\ run[h].at = "received" /\ gp.sender # 0 /\ ~Replying(gp.sender)
          /\ Built(h, w, Now)
       \/ /\ run[h].at = "queued"
          /\ IF Replying(run[h].obj)
             THEN Suspend(h, run[h], Now, lock) /\ UNCHANGED tasks
             ELSE Built(h, run[h], Now)

(* The transport takes the reply, or refuses it: then the session goes     *)
(* back to what it was.                                                    *)
ReplyAnswered(h) ==
    /\ run[h].at = "replying"
    /\ UNCHANGED tp
    /\ \/ /\ tp.open /\ gp.shake # 0 /\ gp.protocolReady
          /\ Complete(h, "ready", Now)
       \/ /\ tp.open /\ (gp.shake = 0 \/ ~gp.protocolReady)
          /\ Suspend(h, Asleep, Now, lock)
          /\ UNCHANGED tasks
       \/ /\ "send" \in Faults \/ ~tp.open
          /\ Rejected(h, Restored(Now, run[h]))

-----------------------------------------------------------------------------
CallerTurn(c) ==
    \/ Starts(c) \/ GetsLock(c) \/ OpenAnswered(c) \/ OpenFailed(c) \/ PeerAnswered(c)
    \/ ConnectAnswered(c) \/ AttemptOver(c) \/ AttemptCut(c) \/ AttemptCancelled(c)
    \/ NeutralSent(c) \/ (Resume(c) /\ UNCHANGED tp)
    \/ DisconnectRequested(c) \/ LinkWaitEnds(c) \/ CloseAnswered(c)

LinkTurn(i) ==
    \/ Down(i) \/ ShakeAwaited(i) \/ DownClosed(i)
    \/ Resume(i) /\ UNCHANGED tp

HostTurn(h) == Dispatched(h) \/ ReplyAnswered(h) \/ Completed(h)

(* The event loop runs what is due first.                                  *)
Run ==
    /\ UNCHANGED spent
    /\ \/ \E c \in Callers : Turn(Agent(c)) /\ CallerTurn(c)
       \/ \E h \in HostTasks : Turn(Agent(h)) /\ HostTurn(h)
       \/ \E i \in Links :
            \/ Turn(Agent(i)) /\ LinkTurn(i)
            \/ Turn(<<"up", i>>) /\ Connected(i)
            \/ Turn(<<"shake", i>>) /\ ShakeTurn(i)
            \/ Turn(<<"told", i>>) /\ ShakeTold(i)
            \/ Turn(<<"ready", i>>) /\ ReadyTurn(i)
            \/ Turn(<<"loop", i>>) /\ LoopTurn(i)

-----------------------------------------------------------------------------
(* The world outside.                                                      *)

Makes(x) == gp' = Post(gp, x) /\ ~Due(gp, x) /\ UNCHANGED <<lock, tasks>>

(* The application makes a request.                                        *)
Call(c, fn) ==
    /\ run[c].at = "idle" /\ spent.calls < MaxCalls
    /\ spent' = [spent EXCEPT !.calls = @ + 1]
    /\ run' = [run EXCEPT ![c] =
                 [fn |-> fn, at |-> "called", obj |-> 0,
                  body |-> IF fn = "close" THEN "close" ELSE "open",
                  res |-> IF fn = "close" THEN "ok" ELSE "none"]]
    /\ Makes(Agent(c))
    /\ UNCHANGED tp

ClosingTransport ==
    \E a \in Agents : run[a].at \in {"closing", "down closing", "open closing"}

(* The transport answers, or the wait for the link is over.  Opening an    *)
(* adapter takes longer than what the event loop already has to do, and    *)
(* than closing it.                                                        *)
Answer(a) ==
    /\ run[a].at \in {"opening", "open closing", "peer", "connecting", "neutral", "request",
                      "wait link", "closing", "down closing", "queued", "replying"}
    /\ run[a].at = "opening" => gp.due = << >> /\ ~ClosingTransport
    /\ run[a].at = "queued" => ~Replying(run[a].obj)
    /\ Makes(Agent(a))
    /\ UNCHANGED <<run, tp, spent>>

(* A deadline passes, or the application cancels a request.                *)
Cut(c, res) ==
    /\ run[c].res = "none"
    /\ \/ res = "timeout" /\ "timeout" \in Faults /\ Attempting(c)
       \/ res = "cancelled" /\ "cancel" \in Faults /\ Attempting(c)
       \/ res = "cancelled" /\ "cancel open" \in Faults /\ run[c].at = "opening"
    /\ run' = [run EXCEPT ![c].res = res]
    /\ gp' = Post(gp, Agent(c))
    /\ UNCHANGED <<lock, tasks, tp, spent>>

(* The host opens the link, which also takes longer than what is due, and  *)
(* drops it.                                                               *)
LinkUp ==
    LET i == tp.links + 1 IN
    /\ tp.open /\ tp.visible /\ tp.link = 0 /\ tp.links < MaxLinks
    /\ gp.due = << >> /\ ~ClosingTransport
    /\ tp' = [tp EXCEPT !.link = i, !.links = i]
    /\ Makes(<<"up", i>>)
    /\ UNCHANGED <<run, spent>>

LinkDown ==
    /\ tp.link # 0
    /\ tp' = [tp EXCEPT !.link = 0]
    /\ run' = [run EXCEPT ![tp.link].at = "down"]
    /\ Makes(Agent(tp.link))
    /\ UNCHANGED spent

(* An output report arrives: one that completes the initialization, one    *)
(* that takes it back, or one the responder does not support.              *)
Receive(h, what) ==
    /\ run[h].at = "idle" /\ tp.link # 0
    /\ spent.payloads < MaxPayloads
    /\ spent' = [spent EXCEPT !.payloads = @ + 1]
    /\ run' = [run EXCEPT ![h].at = "received", ![h].fn = what]
    /\ Makes(Agent(h))
    /\ UNCHANGED tp

(* What the handshake waits for happens: a report is taken or refused, or  *)
(* the time to the next one is over.                                       *)
Stir(i) == shake[i].task = "running" /\ Makes(<<"shake", i>>) /\ UNCHANGED <<run, tp, spent>>

HoldoffEnds(i) ==
    ready[i].task = "waiting" /\ Makes(<<"ready", i>>) /\ UNCHANGED <<run, tp, spent>>

(* ReportLoop._run has no handler: a refused report ends its task.         *)
LoopDies(i) ==
    /\ loop[i] = "running" /\ ("send" \in Faults \/ ~tp.open)
    /\ loop' = [loop EXCEPT ![i] = "dead"]
    /\ UNCHANGED <<gp, lock, run, shake, ready, tp, spent>>

Next ==
    \/ Run
    \/ \E c \in Callers : \E fn \in Requests[c] : Call(c, fn)
    \/ \E a \in Agents : Answer(a)
    \/ \E c \in Callers, res \in {"timeout", "cancelled"} : Cut(c, res)
    \/ LinkUp
    \/ LinkDown
    \/ \E h \in HostTasks, what \in {"supported", "undoing"} : Receive(h, what)
    \/ \E h \in HostTasks : "subcommand" \in Faults /\ Receive(h, "unsupported")
    \/ \E i \in Links : Stir(i) \/ HoldoffEnds(i) \/ LoopDies(i)

Spec == Init /\ [][Next]_vars

(* The event loop runs, the transport answers in the end, however busy the *)
(* loop is, and deadlines pass.                                            *)
FairSpec ==
    /\ Spec
    /\ WF_vars(Run)
    /\ \A a \in Agents : SF_vars(Answer(a))
    /\ \A c \in Callers : WF_vars(Cut(c, "timeout"))
    /\ \A i \in Links : WF_vars(Stir(i)) /\ WF_vars(HoldoffEnds(i))

-----------------------------------------------------------------------------
Dues == {Agent(a) : a \in Agents}
        \cup {<<k, i>> : k \in {"up", "shake", "told", "ready", "loop"}, i \in Links}

TypeOK ==
    /\ gp \in [reporting : Reporting, state : States, open : BOOLEAN, closing : BOOLEAN,
               sender : Nat,
               shake : 0 .. MaxLinks, ready : 0 .. MaxLinks, loop : 0 .. MaxLinks,
               protocolReady : BOOLEAN, connected : BOOLEAN, attempt : BOOLEAN,
               disconnected : BOOLEAN, initialized : BOOLEAN, torn : BOOLEAN,
               due : Seq(Dues)]
    /\ lock \in Locks(Agents)
    /\ \A i \in Links : loop[i] \in {"none", "running", "cancelling", "stopped", "dead"}

(* A report loop that runs is the one the runtime knows, and would stop:   *)
(* none outlives its connection to send on the timer of another.           *)
OneReportLoop ==
    \A i \in Links : loop[i] = "running" => gp.loop = i

(* open() and close() exclude one another over all their suspensions, and  *)
(* every way out of them, by error or cancellation, gives the lock back.   *)
InLocked(c) == run[c].at \in {"opening", "open closing", "neutral", "stop shake", "stop ready",
                              "stop loop", "request", "wait link", "link gone", "closing"}
LifecycleExclusive ==
    \A c \in Callers : InLocked(c) <=> lock.holder = c

(* At most one handshake sends its reports, and it is the one the runtime  *)
(* knows and would stop: none is forgotten while its task runs.            *)
OneHandshake ==
    \A i \in Links : shake[i].task = "running" => gp.shake = i

(* Whatever requests, link losses and failures came before, once open(),   *)
(* close() and the disconnect callbacks are through, a controller that is  *)
(* closed has no sender, no open transport and no report loop, and one     *)
(* that is open has a sender and an open transport, unless closing the     *)
(* transport raised: then a close() that succeeds makes it closed.         *)
Resting == lock.holder = NoTask /\ \A i \in Links : run[i].at \in {"idle", "handled", "aborted"}
NothingLeftOpen ==
    Resting =>
        /\ gp.open /\ ~gp.torn => gp.sender # 0 /\ tp.open
        /\ ~gp.open =>
              /\ gp.sender = 0 /\ ~tp.open
              /\ \A i \in Links : loop[i] \notin {"running", "cancelling"}

Publishes == ~gp.connected /\ gp'.connected

(* A connection is published only in a session that the host has made      *)
(* ready, none of whose sender's decisive replies is still in flight, in   *)
(* periodic reporting with a sender to use it with, and never under a      *)
(* close() that takes it down.  The session need not be ready still: what  *)
(* the host takes back during the holdoff of the readiness wait nobody     *)
(* looks at again (_complete_periodic_input_readiness).                    *)
PublishedReady ==
    [][Publishes =>
          /\ gp.initialized /\ ~gp.closing
          /\ gp.reporting = "periodic" => gp.sender # 0
          /\ ~\E h \in HostTasks :
                run[h].at = "replying" /\ run[h].obj = gp.sender /\ run[h].res # "was ready"]_vars

(* A link whose disconnect callback has run is not published any more: a   *)
(* disconnect before readiness is a failed connection.                     *)
DisconnectFailsAttempt ==
    [][Publishes => \A i \in Links : i = tp.links => run[i].at \in {"idle", "down"}]_vars

(* close() closes whatever went wrong before: it raises no error of its own.*)
CloseNeverRaises ==
    [][\A c \in Callers :
        run[c].body = "close" /\ lock.holder = c /\ lock'.holder # c
            => run'[c].res # "error"]_vars

(* Every request ends: an attempt by its outcome or its deadline, and then *)
(* close(), through every task it stops and the lock it waits for.         *)
CallsEnd == \A c \in Callers : run[c].at # "idle" ~> run[c].at = "idle"

=============================================================================
