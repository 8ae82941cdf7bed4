---------------------------- MODULE BumbleTransport ---------------------------
(***************************************************************************)
(* BumbleHidTransport (swbt/transport/bumble.py): the calls of its users,  *)
(* each suspended at its awaits, and the events of the Bumble devices it   *)
(* has opened.  Nothing orders the calls but the close lock and the        *)
(* lifecycle lock of the controller, which lets one open() run at a time:  *)
(* pair() and reconnect() hold no lock, and close() is also called by the  *)
(* disconnect callback.                                                    *)
(*                                                                         *)
(* Bumble is external: a command of a device completes or raises, a device *)
(* accepts no command once its HCI handle is closed, and losing the ACL    *)
(* connection closes both HID channels.  Powering a device off does not    *)
(* stop its scans.  A device is numbered by the open() that made it; 0     *)
(* stands for None.                                                        *)
(***************************************************************************)
EXTENDS AsyncLock

CONSTANTS
    Clients,        \* tasks that call the transport
    Calls,          \* the calls they make in this instance
    Reopens,        \* whether a HID channel may open twice on one connection
    MaxOpens,       \* bound: number of devices opened
    MaxLinks,       \* bound: number of ACL connections
    MaxCalls        \* bound: number of calls

ASSUME TransportAssumption ==
    /\ Calls \subseteq {"open", "advertise", "bonded", "reconnect", "disconnect", "close"}
    /\ Reopens \in BOOLEAN
    /\ MaxOpens \in Nat /\ MaxLinks \in Nat /\ MaxCalls \in Nat

VARIABLES
    tr,     \* _handle, _runtime, _l2cap_connected_emitted,
            \* _disconnected_callback_emitted, and what callbacks have told
    lock,   \* _close_lock
    dev,    \* the Bumble device, HCI handle and HID channels of each open()
    op,     \* where the call of each client is suspended
    spent   \* what the bounds count

vars == <<tr, lock, dev, op, spent>>

Devices == 1 .. MaxOpens
Channels == {"control", "interrupt"}

NoCall == [fn |-> "none", at |-> "idle", dev |-> 0, handle |-> 0]

Unopened == [handle |-> "none", power |-> FALSE, policy |-> FALSE, advertised |-> FALSE,
             connectable |-> FALSE, discoverable |-> FALSE, acl |-> FALSE,
             channels |-> {}, opened |-> {}, raised |-> FALSE, raced |-> FALSE]

Init ==
    /\ tr = [handle |-> 0, runtime |-> 0, up |-> FALSE, gone |-> FALSE,
             link |-> "down", call |-> 0]
    /\ lock = FreeLock
    /\ dev = [d \in Devices |-> Unopened]
    /\ op = [c \in Clients |-> NoCall]
    /\ spent = [opens |-> 0, links |-> 0, calls |-> 0]

-----------------------------------------------------------------------------
(* The callbacks of the controller; x are the fields of the transport and  *)
(* b the devices when they are considered.                                 *)

(* Seeded bug: every channel that opens may announce the link.             *)
NotifyConnectedAgain(x, b) ==
    IF x.runtime = 0 THEN x
    ELSE IF b[x.runtime].channels # Channels THEN x
    ELSE [x EXCEPT !.up = TRUE, !.link = "up", !.call = 1 - @]

NotifyConnected(x, b) ==
    IF x.runtime = 0 \/ x.up THEN x
    ELSE IF b[x.runtime].channels # Channels THEN x
    ELSE [x EXCEPT !.up = TRUE, !.link = "up", !.call = 1 - @]

(* Seeded bug: the calls are numbered.                                     *)
NotifyGoneCounted(x) ==
    IF x.gone THEN x ELSE [x EXCEPT !.gone = TRUE, !.link = "down", !.call = @ + 1]

NotifyGoneOnce(x) ==
    IF x.gone THEN x ELSE [x EXCEPT !.gone = TRUE, !.link = "down", !.call = 1 - @]

NotifyIfClosed(x, b) ==
    IF x.runtime = 0 THEN x
    ELSE IF b[x.runtime].channels # {} THEN x ELSE NotifyGoneOnce(x)

(* The handler of a closed channel, and of a connection that is gone.      *)
AfterChannelClose(x, b) == NotifyIfClosed([x EXCEPT !.up = FALSE], b)

AfterDisconnection(x) == NotifyGoneOnce([x EXCEPT !.up = FALSE])

(* Seeded bug: the flag that a disconnection was told is never reset.      *)
ConnectionKeepsFlag(x) == [x EXCEPT !.up = FALSE]

AfterConnection(x) == [x EXCEPT !.up = FALSE, !.gone = FALSE]

-----------------------------------------------------------------------------
(* Events of a device.  Bumble emits them while its handle is open.        *)

Registered(d) == dev[d].handle = "open" /\ dev[d].power

NewConnection(b, d) == [b EXCEPT ![d].acl = TRUE, ![d].channels = {}, ![d].opened = {}]

Connection(d) ==
    /\ Registered(d) /\ dev[d].connectable /\ ~dev[d].acl
    /\ spent.links < MaxLinks
    /\ dev' = NewConnection(dev, d)
    /\ tr' = AfterConnection(tr)
    /\ spent' = [spent EXCEPT !.links = @ + 1]
    /\ UNCHANGED <<lock, op>>

ChannelOpen(d, ch) ==
    /\ Registered(d) /\ dev[d].acl
    /\ ch \notin dev[d].channels
    /\ Reopens \/ ch \notin dev[d].opened
    /\ dev' = [dev EXCEPT ![d].channels = @ \cup {ch}, ![d].opened = @ \cup {ch}]
    /\ tr' = NotifyConnected(tr, dev')
    /\ UNCHANGED <<lock, op, spent>>

ChannelClose(d, ch) ==
    /\ dev[d].handle = "open" /\ ch \in dev[d].channels
    /\ dev' = [dev EXCEPT ![d].channels = @ \ {ch}]
    /\ tr' = AfterChannelClose(tr, dev')
    /\ UNCHANGED <<lock, op, spent>>

(* The channels close with the connection: whether their handler or that   *)
(* of the connection runs first makes no difference to what is told.       *)
Disconnection(d) ==
    /\ dev[d].handle = "open" /\ dev[d].acl
    /\ dev' = [dev EXCEPT ![d].acl = FALSE, ![d].channels = {}]
    /\ tr' = AfterDisconnection(IF dev[d].channels = {} THEN tr
                                ELSE AfterChannelClose(tr, dev'))
    /\ UNCHANGED <<lock, op, spent>>

-----------------------------------------------------------------------------
(* The calls.                                                              *)

Idle(c) == op[c].at = "idle"

Begins(c, fn) ==
    /\ Idle(c) /\ fn \in Calls /\ spent.calls < MaxCalls
    /\ spent' = [spent EXCEPT !.calls = @ + 1]

Waits(c, at, d) == op' = [op EXCEPT ![c].at = at, ![c].dev = d]

Starts(c, fn, at, d) == op' = [op EXCEPT ![c] = [NoCall EXCEPT !.fn = fn, !.at = at, !.dev = d]]

Ends(c) == op' = [op EXCEPT ![c] = NoCall]

(* The device of c takes the command c is suspended on.                    *)
Answers(c, at) == op[c].at = at /\ dev[op[c].dev].handle = "open"

(* What _close_runtime() has to do for device r, then the HCI handle h.    *)
Teardown == {"hide", "unconnect", "power off", "close handle"}

FirstOfTeardown(r, h) ==
    IF r # 0 /\ dev[r].power THEN "hide" ELSE IF h # 0 THEN "close handle" ELSE "idle"

(* A handle that is being closed passes nothing on any more.               *)
HandleClosing(b, at, h) == IF at = "close handle" THEN [b EXCEPT ![h].handle = "closing"] ELSE b

TearsDown(c, fn, r, h) ==
    LET at == FirstOfTeardown(r, h)
    IN  /\ op' = [op EXCEPT ![c] = IF at = "idle" THEN NoCall
                                   ELSE [fn |-> fn, at |-> at, dev |-> r, handle |-> h]]
        /\ dev' = HandleClosing(dev, at, h)

(* open(): the lifecycle lock lets no other open() run.                    *)
Open(c) ==
    /\ Begins(c, "open")
    /\ \A o \in Clients : op[o].fn # "open"
    /\ IF tr.handle # 0 THEN UNCHANGED op ELSE Starts(c, "open", "opening", 0)
    /\ UNCHANGED <<tr, lock, dev>>

(* The HCI handle of the adapter is open; it can be opened once at a time. *)
HandleOpened(c) ==
    LET d == spent.opens + 1
    IN  /\ op[c].at = "opening" /\ d <= MaxOpens
        /\ \A o \in Devices : dev[o].handle \in {"none", "closed"}
        /\ tr' = [tr EXCEPT !.handle = d]
        /\ dev' = [dev EXCEPT ![d].handle = "open"]
        /\ Waits(c, "initializing", d)
        /\ spent' = [spent EXCEPT !.opens = d]
        /\ UNCHANGED lock

Initialized(c) ==
    /\ op[c].at = "initializing"
    /\ tr' = [tr EXCEPT !.runtime = op[c].dev]
    /\ Ends(c)
    /\ UNCHANGED <<lock, dev, spent>>

(* Seeded bug: the cleanup takes only a device that was initialized.       *)
CleanupOfRuntime(c) ==
    /\ tr' = [tr EXCEPT !.handle = 0, !.runtime = 0, !.up = FALSE]
    /\ TearsDown(c, "open", tr.runtime, IF tr.runtime = 0 THEN 0 ELSE tr.handle)

CleanupOpenFailure(c) ==
    /\ tr' = [tr EXCEPT !.handle = 0, !.runtime = 0, !.up = FALSE]
    /\ TearsDown(c, "open", tr.runtime, tr.handle)

(* Opening the handle or initializing the device raises.                   *)
OpenFails(c) ==
    /\ op[c].at \in {"opening", "initializing"}
    /\ CleanupOpenFailure(c)
    /\ UNCHANGED <<lock, spent>>

(* A cancelled open() undoes nothing; a handle being opened is Bumble's.   *)
OpenCancelled(c) ==
    /\ op[c].at \in {"opening", "initializing"}
    /\ Ends(c)
    /\ UNCHANGED <<tr, lock, dev, spent>>

(* start_advertising(), bonded_peer_address() and connect_bonded_peer():   *)
(* a device that is not powered on is first of all.                        *)
Page(r) == IF ~dev[r].power THEN "power on" ELSE IF ~dev[r].policy THEN "policy" ELSE "page"

StartAdvertising(c) ==
    /\ Begins(c, "advertise")
    /\ IF tr.handle = 0 \/ tr.runtime = 0 THEN UNCHANGED op
       ELSE IF dev[tr.runtime].advertised THEN UNCHANGED op
       ELSE Starts(c, "advertise", IF dev[tr.runtime].power THEN "policy" ELSE "power on",
                   tr.runtime)
    /\ UNCHANGED <<tr, lock, dev>>

BondedPeerAddress(c) ==
    /\ Begins(c, "bonded")
    /\ IF tr.handle = 0 \/ tr.runtime = 0 \/ Page(tr.runtime) = "page" THEN UNCHANGED op
       ELSE Starts(c, "bonded", Page(tr.runtime), tr.runtime)
    /\ UNCHANGED <<tr, lock, dev>>

ConnectBondedPeer(c) ==
    /\ Begins(c, "reconnect")
    /\ IF tr.handle = 0 \/ tr.runtime = 0 THEN UNCHANGED op
       ELSE Starts(c, "reconnect", Page(tr.runtime), tr.runtime)
    /\ UNCHANGED <<tr, lock, dev>>

(* Where a call goes once the device is ready for Classic.                 *)
Proceeds(c) ==
    CASE op[c].fn = "advertise" -> Waits(c, "connectable", op[c].dev)
      [] op[c].fn = "bonded" -> Ends(c)
      [] OTHER -> IF tr.runtime = 0 THEN Ends(c) ELSE Waits(c, "page", tr.runtime)

(* The address the device shows may not be the expected one: the call ends.*)
PoweredOn(c) ==
    /\ Answers(c, "power on")
    /\ dev' = [dev EXCEPT ![op[c].dev].power = TRUE]
    /\ \/ Ends(c)
       \/ IF op[c].fn = "advertise" \/ ~dev[op[c].dev].policy
          THEN Waits(c, "policy", op[c].dev)
          ELSE Proceeds(c)
    /\ UNCHANGED <<tr, lock, spent>>

PolicyConfigured(c) ==
    /\ Answers(c, "policy")
    /\ dev' = [dev EXCEPT ![op[c].dev].policy = TRUE]
    /\ Proceeds(c)
    /\ UNCHANGED <<tr, lock, spent>>

(* A command of start_advertising() that the device takes after close()    *)
(* has taken the device is remembered.                                     *)
ScanOn(c, b) == [b EXCEPT !.raced = @ \/ tr.runtime # op[c].dev]

Connectable(c) ==
    /\ Answers(c, "connectable")
    /\ dev' = [dev EXCEPT ![op[c].dev] = [ScanOn(c, @) EXCEPT !.connectable = TRUE]]
    /\ Waits(c, "discoverable", op[c].dev)
    /\ UNCHANGED <<tr, lock, spent>>

(* The runtime that is marked is the one of the transport by now; there    *)
(* may be none, which raises, or one that advertises nothing yet.          *)
Discoverable(c) ==
    LET shown == [dev EXCEPT ![op[c].dev] = [ScanOn(c, @) EXCEPT !.discoverable = TRUE]]
    IN  /\ Answers(c, "discoverable")
        /\ dev' = IF tr.runtime = 0 THEN shown
                  ELSE [shown EXCEPT ![tr.runtime].advertised = TRUE]
        /\ Ends(c)
        /\ UNCHANGED <<tr, lock, spent>>

(* The connection of an active reconnect; its event comes with it.         *)
Paged(c) ==
    /\ Answers(c, "page") /\ ~dev[op[c].dev].acl
    /\ spent.links < MaxLinks
    /\ dev' = NewConnection(dev, op[c].dev)
    /\ tr' = AfterConnection(tr)
    /\ Waits(c, "secure", op[c].dev)
    /\ spent' = [spent EXCEPT !.links = @ + 1]
    /\ UNCHANGED lock

(* Authenticated and encrypted.                                            *)
Secured(c) ==
    /\ Answers(c, "secure") /\ dev[op[c].dev].acl
    /\ IF tr.runtime = 0 THEN Ends(c) ELSE Waits(c, "control", tr.runtime)
    /\ UNCHANGED <<tr, lock, dev, spent>>

(* A channel that the device itself opens is announced by an event, which  *)
(* is ChannelOpen above, or by none.                                       *)
Opens(c, ch) ==
    /\ Answers(c, ch) /\ dev[op[c].dev].acl
    /\ Reopens \/ ch \in dev[op[c].dev].channels \/ ch \notin dev[op[c].dev].opened
    /\ dev' = [dev EXCEPT ![op[c].dev].channels = @ \cup {ch},
                          ![op[c].dev].opened = @ \cup {ch}]

ControlConnected(c) ==
    /\ Opens(c, "control")
    /\ IF tr.runtime = 0 THEN Ends(c) ELSE Waits(c, "interrupt", tr.runtime)
    /\ UNCHANGED <<tr, lock, spent>>

InterruptConnected(c) ==
    /\ Opens(c, "interrupt")
    /\ tr' = NotifyConnected(tr, dev')
    /\ Ends(c)
    /\ UNCHANGED <<lock, spent>>

(* request_disconnect(): the interrupt channel first, once what is queued  *)
(* for it is out; the control channel counts if it is open by then.        *)
RequestDisconnect(c) ==
    /\ Begins(c, "disconnect")
    /\ LET r == tr.runtime
           channels == IF tr.handle = 0 \/ r = 0 THEN {} ELSE dev[r].channels
       IN  IF "interrupt" \in channels THEN Starts(c, "disconnect", "drain", r)
           ELSE IF "control" \in channels THEN Starts(c, "disconnect", "cut control", r)
           ELSE UNCHANGED op
    /\ UNCHANGED <<tr, lock, dev>>

Drained(c) ==
    /\ op[c].at = "drain"
    /\ Waits(c, IF "control" \in dev[op[c].dev].channels THEN "cut both" ELSE "cut interrupt",
             op[c].dev)
    /\ UNCHANGED <<tr, lock, dev, spent>>

ChannelCut(c) ==
    \/ /\ op[c].at = "cut both" /\ "interrupt" \notin dev[op[c].dev].channels
       /\ Waits(c, "cut control", op[c].dev)
       /\ UNCHANGED <<tr, lock, dev, spent>>
    \/ /\ \/ op[c].at = "cut interrupt" /\ "interrupt" \notin dev[op[c].dev].channels
          \/ op[c].at = "cut control" /\ "control" \notin dev[op[c].dev].channels
       /\ Ends(c)
       /\ UNCHANGED <<tr, lock, dev, spent>>

(* What the call awaits raises, or the call is cancelled.                  *)
Raises(c) ==
    /\ op[c].at \in {"power on", "policy", "connectable", "discoverable", "page", "secure",
                     "control", "interrupt", "drain", "cut both", "cut interrupt", "cut control"}
    /\ Ends(c)
    /\ UNCHANGED <<tr, lock, dev, spent>>

(* close(): the device and its handle are taken from the transport before  *)
(* the first await.                                                        *)
Close(c) ==
    /\ Begins(c, "close")
    /\ lock' = Queued(lock, c)
    /\ Starts(c, "close", "lock", 0)
    /\ UNCHANGED <<tr, dev>>

CloseLocked(c) ==
    /\ op[c].at = "lock" /\ Woken(lock, c)
    /\ IF tr.handle = 0
       THEN /\ Ends(c)
            /\ lock' = Released(Granted(lock, c))
            /\ UNCHANGED <<tr, dev>>
       ELSE /\ lock' = Granted(lock, c)
            /\ tr' = [tr EXCEPT !.handle = 0, !.runtime = 0, !.up = FALSE, !.gone = FALSE,
                                !.link = "down"]
            /\ TearsDown(c, "close", tr.runtime, tr.handle)
    /\ UNCHANGED spent

(* Seeded bug: a close() that raises keeps the close lock.                 *)
LockKept(c) == lock' = lock

(* The close lock, if it is a close() that ends.                           *)
TeardownEnds(c) == lock' = IF op[c].fn = "close" THEN Released(lock) ELSE lock

(* Seeded bug: close() leaves the inquiry scan on.                         *)
StillDiscoverable(b, d) == b

Undiscoverable(b, d) == [b EXCEPT ![d].discoverable = FALSE]

TornDown(c) ==
    /\ \/ /\ Answers(c, "hide")
          /\ dev' = Undiscoverable(dev, op[c].dev)
          /\ Waits(c, "unconnect", op[c].dev)
          /\ UNCHANGED lock
       \/ /\ Answers(c, "unconnect")
          /\ dev' = [dev EXCEPT ![op[c].dev].connectable = FALSE]
          /\ Waits(c, "power off", op[c].dev)
          /\ UNCHANGED lock
       \/ /\ Answers(c, "power off")
          /\ dev' = HandleClosing([dev EXCEPT ![op[c].dev].power = FALSE], "close handle",
                                  op[c].handle)
          /\ Waits(c, "close handle", op[c].dev)
          /\ UNCHANGED lock
       \/ /\ op[c].at = "close handle"
          /\ dev' = [dev EXCEPT ![op[c].handle].handle = "closed"]
          /\ Ends(c) /\ TeardownEnds(c)
    /\ UNCHANGED <<tr, spent>>

(* A step of it raises or is cancelled: the rest is not done.              *)
TeardownRaises(c) ==
    /\ op[c].at \in Teardown
    /\ dev' = IF op[c].handle = 0 THEN dev ELSE [dev EXCEPT ![op[c].handle].raised = TRUE]
    /\ Ends(c) /\ TeardownEnds(c)
    /\ UNCHANGED <<tr, spent>>

-----------------------------------------------------------------------------
DeviceEvent ==
    \E d \in Devices :
        \/ Connection(d)
        \/ Disconnection(d)
        \/ \E ch \in Channels : ChannelOpen(d, ch) \/ ChannelClose(d, ch)

Call ==
    \E c \in Clients :
        \/ Open(c) \/ StartAdvertising(c) \/ BondedPeerAddress(c)
        \/ ConnectBondedPeer(c) \/ RequestDisconnect(c) \/ Close(c)

Resumption ==
    \E c \in Clients :
        \/ HandleOpened(c) \/ Initialized(c) \/ OpenFails(c) \/ OpenCancelled(c)
        \/ PoweredOn(c) \/ PolicyConfigured(c) \/ Connectable(c) \/ Discoverable(c)
        \/ Paged(c) \/ Secured(c) \/ ControlConnected(c) \/ InterruptConnected(c)
        \/ Drained(c) \/ ChannelCut(c) \/ Raises(c)
        \/ CloseLocked(c) \/ TornDown(c) \/ TeardownRaises(c)

Next == DeviceEvent \/ Call \/ Resumption

Spec == Init /\ [][Next]_vars

(* A client that has the close lock, or is due to, runs, and what it       *)
(* awaits of a device answers or raises.                                   *)
FairSpec ==
    /\ Spec
    /\ \A c \in Clients : WF_vars(CloseLocked(c)) /\ WF_vars(TornDown(c) \/ TeardownRaises(c))

-----------------------------------------------------------------------------
Places == {"idle", "opening", "initializing", "power on", "policy", "connectable",
           "discoverable", "page", "secure", "control", "interrupt", "drain", "cut both",
           "cut interrupt", "cut control", "lock"} \cup Teardown

(* The fields of the transport, its devices and its callers have their     *)
(* types.                                                                  *)
TypeOK ==
    /\ tr \in [handle : 0 .. MaxOpens, runtime : 0 .. MaxOpens, up : BOOLEAN, gone : BOOLEAN,
               link : {"down", "up"}, call : 0 .. 1]
    /\ lock \in Locks(Clients)
    /\ \A d \in Devices : /\ DOMAIN dev[d] = DOMAIN Unopened
                          /\ dev[d].handle \in {"none", "open", "closing", "closed"}
                          /\ dev[d].channels \subseteq Channels
    /\ op \in [Clients -> [fn : Calls \cup {"none"}, at : Places, dev : 0 .. MaxOpens,
                           handle : 0 .. MaxOpens]]
    /\ spent \in [opens : 0 .. MaxOpens, links : 0 .. MaxLinks, calls : 0 .. MaxCalls]

(* The callbacks alternate as the controller relies on: the flags that     *)
(* two handlers, five events and close() share make one connected callback *)
(* per link and no second one before the disconnected callback.            *)
Promise == INSTANCE HidLink WITH link <- tr.link, call <- tr.call

KeepsPromise == Promise!Spec

(* A link that was announced, and not yet announced as gone, is there: the *)
(* disconnected callback is not lost, in whatever order channels and       *)
(* connection go.                                                          *)
LinkUpIsReal ==
    tr.link = "up" => /\ tr.runtime # 0
                      /\ dev[tr.runtime].acl
                      /\ dev[tr.runtime].channels # {}

(* An HCI handle is held by the transport or by the call that closes it    *)
(* until it is closed, unless a step of its closing raised: a failing or   *)
(* cancelled open() and a close() in the midst of open() lose none.        *)
HandleAccounted ==
    \A d \in Devices : dev[d].handle \in {"open", "closing"} =>
        \/ tr.handle = d
        \/ dev[d].raised
        \/ \E c \in Clients : op[c].handle = d /\ op[c].at \in Teardown

(* What was closed is not discoverable any more, unless a call to          *)
(* start_advertising() that was under way went on while it was closed.     *)
ClosedIsInvisible ==
    \A d \in Devices : dev[d].handle = "closed" => ~dev[d].discoverable \/ dev[d].raced

(* A close() ends whatever the device answers: the lock is given back when *)
(* a step raises.                                                          *)
CloseEnds == \A c \in Clients : op[c].fn = "close" ~> op[c].fn # "close"

=============================================================================
