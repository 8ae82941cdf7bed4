------------------------- MODULE BumbleTransportProofs -------------------------
(***************************************************************************)
(* For any number of tasks that call the transport, devices and links: an  *)
(* HCI handle is never lost, what was closed is not discoverable, and,     *)
(* when a channel opens once per connection, the callbacks keep the        *)
(* promise of HidLink.                                                     *)
(***************************************************************************)
EXTENDS BumbleTransport, AsyncLockProofs, TLAPS

DeviceStates ==
    [handle : {"none", "open", "closing", "closed"}, power : BOOLEAN, policy : BOOLEAN,
     advertised : BOOLEAN, connectable : BOOLEAN, discoverable : BOOLEAN, acl : BOOLEAN,
     channels : SUBSET Channels, opened : SUBSET Channels, raised : BOOLEAN, raced : BOOLEAN]

TransportStates ==
    [handle : 0 .. MaxOpens, runtime : 0 .. MaxOpens, up : BOOLEAN, gone : BOOLEAN,
     link : {"down", "up"}, call : 0 .. 1]

CallStates ==
    [fn : Calls \cup {"none"}, at : Places, dev : 0 .. MaxOpens, handle : 0 .. MaxOpens]

Counts == [opens : 0 .. MaxOpens, links : 0 .. MaxLinks, calls : 0 .. MaxCalls]

(* The type invariant, with the whole of the devices.                      *)
Typed ==
    /\ tr \in TransportStates
    /\ lock \in Locks(Clients)
    /\ dev \in [Devices -> DeviceStates]
    /\ op \in [Clients -> CallStates]
    /\ spent \in Counts

(* Places at which a call awaits a device that it has taken for open.      *)
Hiding == {"hide", "unconnect", "power off"}
Commands == {"power on", "policy", "connectable", "discoverable", "page", "secure", "control",
             "interrupt", "drain", "cut both", "cut interrupt", "cut control"}

(* A call waits where its function waits, for a device that there is.      *)
Placed ==
    \A c \in Clients :
        /\ op[c].at \in Hiding => op[c].dev = op[c].handle /\ op[c].handle # 0
        /\ op[c].at = "close handle" => op[c].handle # 0
        /\ op[c].at \in Commands \cup {"initializing"} => op[c].dev # 0
        /\ op[c].at \in {"opening", "initializing"} => op[c].fn = "open"
        /\ op[c].at = "lock" => op[c].fn = "close"
        /\ op[c].at \notin Teardown => op[c].handle = 0

(* A device that was not opened yet is unknown to everybody.               *)
Numbered ==
    /\ tr.handle <= spent.opens /\ tr.runtime <= spent.opens
    /\ \A c \in Clients : op[c].dev <= spent.opens /\ op[c].handle <= spent.opens
    /\ \A d \in Devices : d > spent.opens => dev[d] = Unopened

(* One open() runs at a time, and one handle is open or closing.           *)
OneOpen ==
    /\ \A c, e \in Clients : op[c].fn = "open" /\ op[e].fn = "open" => c = e
    /\ \A d, b \in Devices : /\ dev[d].handle \in {"open", "closing"}
                             /\ dev[b].handle \in {"open", "closing"}
                             => d = b

(* The transport has an open handle or none; a call that closes a handle   *)
(* is the only one to refer to it, as a closing one once it is at it, and  *)
(* a handle whose closing raised is nobody's.                              *)
Held ==
    /\ tr.handle # 0 => dev[tr.handle].handle = "open" /\ ~dev[tr.handle].raised
    /\ \A c \in Clients : op[c].at \in Teardown =>
           /\ op[c].handle # tr.handle
           /\ ~dev[op[c].handle].raised
           /\ dev[op[c].handle].handle = IF op[c].at = "close handle" THEN "closing" ELSE "open"
           /\ \A e \in Clients : op[e].at \in Teardown /\ op[e].handle = op[c].handle => e = c
    /\ \A d \in Devices : dev[d].raised => dev[d].handle \in {"open", "closing"}

(* A device that never was powered on.                                     *)
Dark(b) == ~b.power /\ ~b.acl /\ ~b.discoverable /\ b.channels = {}

(* While open() runs, the transport has nothing but the handle it made,    *)
(* and nobody else has its device.                                         *)
Opening ==
    \A c \in Clients :
        /\ op[c].at = "opening" => tr.handle = 0
        /\ op[c].at = "initializing" =>
               /\ tr.handle \in {0, op[c].dev} /\ tr.runtime # op[c].dev
               /\ Dark(dev[op[c].dev])
               /\ (dev[op[c].dev].handle = "open" => tr.handle = op[c].dev)
               /\ \A e \in Clients \ {c} : op[e].dev # op[c].dev

(* A device without its handle, left by a close() in the midst of open(),  *)
(* does nothing.                                                           *)
Stale ==
    tr.runtime # 0 /\ tr.runtime # tr.handle =>
        Dark(dev[tr.runtime]) /\ dev[tr.runtime].handle # "open"

Base ==
    Typed /\ Placed /\ Numbered /\ OneOpen /\ Held /\ Opening /\ Stale /\ HandleAccounted

(* A device that is discoverable is that of the transport and powered, or  *)
(* a call that closes it is about to hide it, or has raised.               *)
Shown ==
    /\ \A d \in Devices : dev[d].discoverable =>
           \/ dev[d].raced \/ dev[d].raised
           \/ tr.runtime = d /\ dev[d].power
           \/ \E c \in Clients : op[c].at = "hide" /\ op[c].dev = d
    /\ \A c \in Clients :
           op[c].at \in {"policy", "connectable", "discoverable"} /\ op[c].dev = tr.runtime =>
               dev[tr.runtime].power

(* On a connection that was announced as gone, or whose announcement as up *)
(* was taken back by a closed channel, not every channel can open again.   *)
Lost(d) == dev[d].opened \ dev[d].channels # {}

Linked ==
    /\ \A d \in Devices : dev[d].channels \subseteq dev[d].opened
    /\ \A d \in Devices : dev[d].handle = "open" /\ dev[d].acl /\ tr.gone => Lost(d)
    /\ tr.link = "up" =>
           /\ tr.handle # 0 /\ tr.runtime = tr.handle
           /\ dev[tr.handle].acl /\ dev[tr.handle].channels # {}
           /\ ~tr.gone
           /\ tr.up \/ Lost(tr.handle)

-----------------------------------------------------------------------------
(* Most steps are quiet: no handle changes hands, a device that was never  *)
(* powered on is only disturbed by a command, and a call goes on to await  *)
(* its own device or that of the transport.                                *)
QuietCalls ==
    /\ op' \in [Clients -> CallStates]
    /\ \A c \in Clients : op'[c] = op[c] \/
           /\ op[c].at \notin Teardown /\ op'[c].handle = 0
           /\ op'[c].at \notin Teardown \cup {"initializing"}
           /\ op'[c].at \in Commands => op'[c].dev # 0
           /\ op'[c].at = "opening" => op'[c].fn = "open" /\ tr.handle = 0
           /\ op'[c].at = "lock" => op'[c].fn = "close"
           /\ op'[c].dev \in {0, op[c].dev, tr.runtime}
           /\ op'[c].fn = "open" => \A e \in Clients \ {c} : op'[e].fn # "open"

QuietDevices ==
    /\ dev' \in [Devices -> DeviceStates]
    /\ \A d \in Devices :
           /\ dev'[d].handle = dev[d].handle /\ dev'[d].raised = dev[d].raised
           /\ d > spent.opens => dev'[d] = dev[d]
           /\ Dark(dev[d]) => \/ Dark(dev'[d])
                         \/ /\ dev[d].handle = "open"
                            /\ \E c \in Clients : op[c].at \in Commands /\ op[c].dev = d

QuietTransport ==
    tr' \in TransportStates /\ tr'.handle = tr.handle /\ tr'.runtime = tr.runtime

Quiet ==
    /\ QuietCalls /\ QuietDevices /\ QuietTransport
    /\ lock' \in Locks(Clients)
    /\ spent' \in Counts /\ spent'.opens = spent.opens

(* What the transport and the calls refer to is a device.                  *)
LEMMA NumberedDevices ==
    ASSUME Base
    PROVE  /\ tr.handle # 0 => tr.handle \in Devices
           /\ tr.runtime # 0 => tr.runtime \in Devices
           /\ \A c \in Clients :
                  /\ op[c].at \in Commands \cup {"initializing"} => op[c].dev \in Devices
                  /\ op[c].at \in Hiding => op[c].dev \in Devices
                  /\ op[c].at \in Teardown => op[c].handle \in Devices
<1> USE DEF Base
<1>1. \A x \in 0 .. MaxOpens : x # 0 => x \in Devices
  BY TransportAssumption DEF Devices
<1>2. tr.handle \in 0 .. MaxOpens /\ tr.runtime \in 0 .. MaxOpens
  BY DEF Typed, TransportStates
<1>3. ASSUME NEW c \in Clients
      PROVE  op[c].dev \in 0 .. MaxOpens /\ op[c].handle \in 0 .. MaxOpens
  BY DEF Typed, CallStates
<1>4. ASSUME NEW c \in Clients
      PROVE  /\ op[c].at \in Commands \cup {"initializing"} => op[c].dev # 0
             /\ op[c].at \in Hiding => op[c].dev # 0
             /\ op[c].at \in Teardown => op[c].handle # 0
  BY DEF Placed, Hiding, Teardown
<1> QED
  BY <1>1, <1>2, <1>3, <1>4

LEMMA DeviceNumbers ==
    ASSUME Base
    PROVE  /\ spent.opens \in Nat /\ 0 <= spent.opens
           /\ \A d \in Devices : d \in Nat /\ d # 0
           /\ \A d, b \in Devices : d > spent.opens /\ b <= spent.opens => d # b
<1>1. spent \in Counts
  BY DEF Base, Typed
<1>2. spent.opens \in 0 .. MaxOpens
  BY <1>1 DEF Counts
<1> QED
  BY <1>2, TransportAssumption DEF Devices

(* Nobody's handle changes.                                                *)
LEMMA HeldKept ==
    ASSUME Base, tr'.handle = tr.handle,
           \A d \in Devices : dev'[d].handle = dev[d].handle /\ dev'[d].raised = dev[d].raised,
           \A c \in Clients : op'[c].at \in Teardown => op'[c] = op[c]
    PROVE  Held'
<1> USE DEF Base
<1>1. tr'.handle # 0 => dev'[tr'.handle].handle = "open" /\ ~dev'[tr'.handle].raised
  <2>1. tr'.handle # 0 => tr.handle \in Devices /\ tr'.handle = tr.handle
    BY NumberedDevices
  <2> QED
    BY <2>1 DEF Held
<1>2. ASSUME NEW c \in Clients, op'[c].at \in Teardown
      PROVE  /\ op'[c].handle # tr'.handle
             /\ ~dev'[op'[c].handle].raised
             /\ dev'[op'[c].handle].handle =
                    IF op'[c].at = "close handle" THEN "closing" ELSE "open"
             /\ \A e \in Clients : op'[e].at \in Teardown /\ op'[e].handle = op'[c].handle
                                   => e = c
  <2>1. op'[c] = op[c] /\ op[c].handle \in Devices /\ op[c].at \in Teardown
    BY <1>2, NumberedDevices
  <2>2. /\ op[c].handle # tr.handle /\ ~dev[op[c].handle].raised
        /\ dev[op[c].handle].handle = IF op[c].at = "close handle" THEN "closing" ELSE "open"
        /\ \A e \in Clients : op[e].at \in Teardown /\ op[e].handle = op[c].handle => e = c
    BY <2>1 DEF Held
  <2>3. \A e \in Clients : op'[e].at \in Teardown /\ op'[e].handle = op'[c].handle => e = c
    BY <2>1, <2>2
  <2> QED
    BY <2>1, <2>2, <2>3
<1>3. \A d \in Devices : dev'[d].raised => dev'[d].handle \in {"open", "closing"}
  BY DEF Held
<1> QED
  BY <1>1, <1>2, <1>3 DEF Held

LEMMA QuietKeepsBase ==
    ASSUME Base, Quiet
    PROVE  Base'
<1> USE DEF Base
<1>1. Typed'
  BY DEF Quiet, QuietCalls, QuietDevices, QuietTransport, Typed
<1>2. Placed'
  BY DEF Quiet, QuietCalls, Placed, Teardown, Hiding, Commands
<1>3. Numbered'
  BY DEF Quiet, QuietCalls, QuietDevices, QuietTransport, Numbered, Typed, TransportStates,
         CallStates, Counts
<1>4. OneOpen'
  BY DEF Quiet, QuietCalls, QuietDevices, OneOpen
<1>5. Held'
  BY HeldKept DEF Quiet, QuietCalls, QuietDevices, QuietTransport
<1>6. Opening'
  <2>1. ASSUME NEW c \in Clients, op'[c].at = "initializing"
        PROVE  /\ op[c].at = "initializing" /\ op'[c] = op[c] /\ op[c].dev \in Devices
               /\ Dark(dev'[op[c].dev])
               /\ \A e \in Clients \ {c} : op'[e].dev # op[c].dev
    <3>1. op'[c] = op[c] /\ op[c].dev \in Devices
      BY <2>1, NumberedDevices DEF Quiet, QuietCalls
    <3>2. \A e \in Clients \ {c} : op'[e].dev # op[c].dev
      BY <2>1, <3>1 DEF Quiet, QuietCalls, Opening, Devices
    <3>3. Dark(dev[op[c].dev]) /\ \A e \in Clients : op[e].at \in Commands => op[e].dev # op[c].dev
      BY <2>1, <3>1 DEF Opening, Commands
    <3>4. Dark(dev'[op[c].dev])
      BY <3>1, <3>3 DEF Quiet, QuietDevices, Dark
    <3> QED
      BY <2>1, <3>1, <3>2, <3>4
  <2>2. \A c \in Clients : op'[c].at = "opening" => tr.handle = 0
    BY DEF Quiet, QuietCalls, Opening
  <2> QED
    BY <2>1, <2>2 DEF Quiet, QuietDevices, QuietTransport, Opening, Dark
<1>7. Stale'
  <2>1. ASSUME tr.runtime # 0, tr.runtime # tr.handle
        PROVE  Dark(dev'[tr.runtime]) /\ dev'[tr.runtime].handle # "open"
    <3>1. tr.runtime \in Devices /\ Dark(dev[tr.runtime]) /\ dev[tr.runtime].handle # "open"
      BY <2>1, NumberedDevices DEF Stale
    <3> QED
      BY <3>1 DEF Quiet, QuietDevices, QuietTransport, Dark
  <2> QED
    BY <2>1 DEF Quiet, QuietTransport, Stale, Dark
<1>8. HandleAccounted'
  BY DEF Quiet, QuietCalls, QuietDevices, QuietTransport, HandleAccounted
<1> QED
  BY <1>1, <1>2, <1>3, <1>4, <1>5, <1>6, <1>7, <1>8
-----------------------------------------------------------------------------
(* What the handlers make of the transport.                                *)
LEMMA CallbackTypes ==
    ASSUME NEW x \in TransportStates, NEW b
    PROVE  \A y \in {NotifyConnected(x, b), NotifyGoneOnce(x), NotifyIfClosed(x, b),
                     AfterChannelClose(x, b), AfterDisconnection(x), AfterConnection(x)} :
               y \in TransportStates /\ y.handle = x.handle /\ y.runtime = x.runtime
<1>0. \A y \in TransportStates :
          /\ y.call \in 0 .. 1 /\ 1 - y.call \in 0 .. 1
          /\ y.up \in BOOLEAN /\ y.gone \in BOOLEAN /\ y.link \in {"down", "up"}
  BY DEF TransportStates
<1>1. ASSUME NEW y \in TransportStates
      PROVE  LET z == NotifyGoneOnce(y)
             IN  z \in TransportStates /\ z.handle = y.handle /\ z.runtime = y.runtime
  <2> DEFINE z == [y EXCEPT !.gone = TRUE, !.link = "down", !.call = 1 - @]
  <2>2. z \in TransportStates /\ z.handle = y.handle /\ z.runtime = y.runtime
    BY <1>0 DEF TransportStates
  <2> QED
    BY <2>2 DEF NotifyGoneOnce
<1>2. \A y \in TransportStates :
          LET z == NotifyIfClosed(y, b)
          IN  z \in TransportStates /\ z.handle = y.handle /\ z.runtime = y.runtime
  BY <1>1 DEF NotifyIfClosed
<1>3. LET z == [x EXCEPT !.up = FALSE]
      IN  z \in TransportStates /\ z.handle = x.handle /\ z.runtime = x.runtime
  BY DEF TransportStates
<1>4. LET z == NotifyConnected(x, b)
      IN  z \in TransportStates /\ z.handle = x.handle /\ z.runtime = x.runtime
  <2> DEFINE z == [x EXCEPT !.up = TRUE, !.link = "up", !.call = 1 - @]
  <2>2. z \in TransportStates /\ z.handle = x.handle /\ z.runtime = x.runtime
    BY <1>0 DEF TransportStates
  <2> QED
    BY <2>2 DEF NotifyConnected
<1>5. LET z == AfterConnection(x)
      IN  z \in TransportStates /\ z.handle = x.handle /\ z.runtime = x.runtime
  BY DEF AfterConnection, TransportStates
<1> QED
  BY <1>1, <1>2, <1>3, <1>4, <1>5 DEF AfterChannelClose, AfterDisconnection

(* An open device changes, which is powered or to which a call has given   *)
(* a command.                                                              *)
LEMMA DeviceChange ==
    ASSUME Base, NEW d \in Devices, NEW new \in DeviceStates,
           dev' = [dev EXCEPT ![d] = new],
           dev[d].handle = "open", new.handle = dev[d].handle, new.raised = dev[d].raised,
           ~Dark(dev[d]) \/ \E c \in Clients : op[c].at \in Commands /\ op[c].dev = d
    PROVE  QuietDevices
<1>1. ~(d > spent.opens)
  BY DEF Base, Numbered, Unopened
<1> QED
  BY <1>1 DEF QuietDevices, Base, Typed, Dark

LEMMA EventQuiet ==
    ASSUME Base, DeviceEvent
    PROVE  Quiet
<1> USE DEF Base
<1>1. tr \in TransportStates /\ lock \in Locks(Clients) /\ spent \in Counts
  BY DEF Typed
<1>2. op' = op => QuietCalls
  BY DEF QuietCalls, Typed
<1>3. ASSUME NEW d \in Devices, Connection(d)
      PROVE  Quiet
  <2> DEFINE new == [dev[d] EXCEPT !.acl = TRUE, !.channels = {}, !.opened = {}]
  <2>1. dev' = [dev EXCEPT ![d] = new] /\ new \in DeviceStates
        /\ new.handle = dev[d].handle /\ new.raised = dev[d].raised
    BY <1>3 DEF Connection, NewConnection, Typed, DeviceStates
  <2>2. QuietDevices
    BY <1>3, <2>1, DeviceChange DEF Connection, Registered, Dark
  <2>3. QuietTransport
    BY <1>1, <1>3, CallbackTypes DEF Connection, QuietTransport
  <2>4. spent' \in Counts /\ spent'.opens = spent.opens
    BY <1>1, <1>3, TransportAssumption DEF Connection, Counts
  <2> QED
    BY <1>1, <1>2, <1>3, <2>2, <2>3, <2>4 DEF Connection, Quiet
<1>4. ASSUME NEW d \in Devices, NEW ch \in Channels, ChannelOpen(d, ch)
      PROVE  Quiet
  <2> DEFINE new == [dev[d] EXCEPT !.channels = @ \cup {ch}, !.opened = @ \cup {ch}]
  <2>1. dev' = [dev EXCEPT ![d] = new] /\ new \in DeviceStates
        /\ new.handle = dev[d].handle /\ new.raised = dev[d].raised
    BY <1>4 DEF ChannelOpen, Typed, DeviceStates
  <2>2. QuietDevices
    BY <1>4, <2>1, DeviceChange DEF ChannelOpen, Registered, Dark
  <2>3. QuietTransport
    BY <1>1, <1>4, CallbackTypes DEF ChannelOpen, QuietTransport
  <2> QED
    BY <1>1, <1>2, <1>4, <2>2, <2>3 DEF ChannelOpen, Quiet
<1>5. ASSUME NEW d \in Devices, NEW ch \in Channels, ChannelClose(d, ch)
      PROVE  Quiet
  <2> DEFINE new == [dev[d] EXCEPT !.channels = @ \ {ch}]
  <2>1. dev' = [dev EXCEPT ![d] = new] /\ new \in DeviceStates
        /\ new.handle = dev[d].handle /\ new.raised = dev[d].raised
    BY <1>5 DEF ChannelClose, Typed, DeviceStates
  <2>2. QuietDevices
    BY <1>5, <2>1, DeviceChange DEF ChannelClose, Dark
  <2>3. QuietTransport
    BY <1>1, <1>5, CallbackTypes DEF ChannelClose, QuietTransport
  <2> QED
    BY <1>1, <1>2, <1>5, <2>2, <2>3 DEF ChannelClose, Quiet
<1>6. ASSUME NEW d \in Devices, Disconnection(d)
      PROVE  Quiet
  <2> DEFINE new == [dev[d] EXCEPT !.acl = FALSE, !.channels = {}]
             x == IF dev[d].channels = {} THEN tr ELSE AfterChannelClose(tr, dev')
  <2>1. dev' = [dev EXCEPT ![d] = new] /\ new \in DeviceStates
        /\ new.handle = dev[d].handle /\ new.raised = dev[d].raised
    BY <1>6 DEF Disconnection, Typed, DeviceStates
  <2>2. QuietDevices
    BY <1>6, <2>1, DeviceChange DEF Disconnection, Dark
  <2>3. x \in TransportStates /\ x.handle = tr.handle /\ x.runtime = tr.runtime
    BY <1>1, CallbackTypes
  <2>4. tr' = AfterDisconnection(x)
    BY <1>6 DEF Disconnection
  <2>5. QuietTransport
    BY <2>3, <2>4, CallbackTypes DEF QuietTransport
  <2> QED
    BY <1>1, <1>2, <1>6, <2>2, <2>5 DEF Disconnection, Quiet
<1> QED
  BY <1>3, <1>4, <1>5, <1>6 DEF DeviceEvent
-----------------------------------------------------------------------------
(* A call goes on to what it awaits next, it ends, or it begins.           *)
LEMMA CallChange ==
    ASSUME Base, NEW c \in Clients, NEW o \in CallStates,
           op' = [op EXCEPT ![c] = o],
           op[c].at \notin Teardown, o.handle = 0,
           o.at \notin Teardown \cup {"initializing"},
           o.at \in Commands => o.dev # 0,
           o.at = "opening" => o.fn = "open" /\ tr.handle = 0,
           o.at = "lock" => o.fn = "close",
           o.dev \in {0, op[c].dev, tr.runtime},
           o.fn = "open" => \A e \in Clients \ {c} : op[e].fn # "open"
    PROVE  QuietCalls
<1>1. op \in [Clients -> CallStates]
  BY DEF Base, Typed
<1>2. op' \in [Clients -> CallStates] /\ op'[c] = o
      /\ \A e \in Clients \ {c} : op'[e] = op[e]
  BY <1>1
<1> QED
  BY <1>2 DEF QuietCalls

LEMMA WaitsQuiet ==
    ASSUME Base, NEW c \in Clients, NEW at \in Commands, NEW d \in Devices,
           op[c].at \in Commands, d \in {op[c].dev, tr.runtime}, Waits(c, at, d)
    PROVE  QuietCalls
<1> DEFINE o == [op[c] EXCEPT !.at = at, !.dev = d]
<1>1. op[c] \in CallStates /\ op' = [op EXCEPT ![c] = o]
  BY DEF Base, Typed, Waits
<1>2. at \in Places /\ at \notin Teardown \cup {"opening", "initializing", "lock"}
      /\ op[c].at \notin Teardown
  BY DEF Commands, Places, Teardown
<1>3. d \in 0 .. MaxOpens /\ d # 0
  BY TransportAssumption DEF Devices
<1>4. o \in CallStates /\ o.at = at /\ o.dev = d /\ o.fn = op[c].fn /\ o.handle = op[c].handle
  BY <1>1, <1>2, <1>3 DEF CallStates
<1>5. op[c].handle = 0
  BY <1>2 DEF Base, Placed
<1>6. op[c].fn = "open" => \A e \in Clients \ {c} : op[e].fn # "open"
  BY DEF Base, OneOpen
<1> HIDE DEF o
<1> QED
  BY <1>1, <1>2, <1>3, <1>4, <1>5, <1>6, CallChange

LEMMA NoCallType == NoCall \in CallStates /\ NoCall.at = "idle" /\ NoCall.fn = "none"
                    /\ NoCall.dev = 0 /\ NoCall.handle = 0
  BY TransportAssumption DEF NoCall, CallStates, Places

LEMMA EndsQuiet ==
    ASSUME Base, NEW c \in Clients, op[c].at \notin Teardown, Ends(c)
    PROVE  QuietCalls
<1>1. "idle" \notin Teardown \cup Commands \cup {"initializing", "opening", "lock"}
  BY DEF Teardown, Commands
<1> QED
  BY <1>1, NoCallType, CallChange DEF Ends

LEMMA StartsQuiet ==
    ASSUME Base, NEW c \in Clients, NEW fn \in Calls, NEW at \in Commands, NEW d \in Devices,
           Idle(c), fn # "open", d = tr.runtime, Starts(c, fn, at, d)
    PROVE  QuietCalls
<1> DEFINE o == [NoCall EXCEPT !.fn = fn, !.at = at, !.dev = d]
<1>1. op' = [op EXCEPT ![c] = o]
  BY DEF Starts
<1>2. at \in Places /\ at \notin Teardown \cup {"opening", "initializing", "lock"}
      /\ op[c].at \notin Teardown
  BY DEF Commands, Places, Teardown, Idle
<1>3. d \in 0 .. MaxOpens /\ d # 0
  BY TransportAssumption DEF Devices
<1>4. o \in CallStates /\ o.at = at /\ o.dev = d /\ o.fn = fn /\ o.handle = 0
  BY <1>2, <1>3, NoCallType DEF CallStates
<1>5. o.dev \in {0, op[c].dev, tr.runtime} /\ o.dev # 0 /\ o.fn # "open"
  BY <1>3, <1>4
<1>6. o.at \notin Teardown \cup {"initializing"} /\ o.at # "opening" /\ o.at # "lock"
  BY <1>2, <1>4
<1> HIDE DEF o
<1> QED
  BY <1>1, <1>2, <1>4, <1>5, <1>6, CallChange

LEMMA ProceedsQuiet ==
    ASSUME Base, NEW c \in Clients, op[c].at \in Commands, Proceeds(c)
    PROVE  QuietCalls
<1>1. op[c].dev \in Devices /\ (tr.runtime # 0 => tr.runtime \in Devices)
  BY NumberedDevices
<1>2. op[c].at \notin Teardown /\ {"connectable", "page"} \subseteq Commands
  BY DEF Commands, Teardown
<1>3. \/ Waits(c, "connectable", op[c].dev)
      \/ Ends(c)
      \/ tr.runtime # 0 /\ Waits(c, "page", tr.runtime)
  BY DEF Proceeds
<1> QED
  BY <1>1, <1>2, <1>3, WaitsQuiet, EndsQuiet
-----------------------------------------------------------------------------
LEMMA StillQuiet ==
    ASSUME Base
    PROVE  /\ op' = op => QuietCalls
           /\ dev' = dev => QuietDevices
           /\ tr' = tr => QuietTransport
           /\ lock' = lock => lock' \in Locks(Clients)
           /\ spent' = spent => spent' \in Counts /\ spent'.opens = spent.opens
  BY DEF Base, Typed, QuietCalls, QuietDevices, QuietTransport, Dark

(* A call that begins, if it is not a close().                             *)
LEMMA CallQuiet ==
    ASSUME Base, Call
    PROVE  Quiet
<1>1. PICK c \in Clients : \/ Open(c) \/ StartAdvertising(c) \/ BondedPeerAddress(c)
                           \/ ConnectBondedPeer(c) \/ RequestDisconnect(c) \/ Close(c)
  BY DEF Call
<1>2. /\ Idle(c) /\ tr' = tr /\ dev' = dev
      /\ spent' = [spent EXCEPT !.calls = @ + 1] /\ spent.calls < MaxCalls
      /\ op[c].at \notin Teardown
  BY <1>1 DEF Open, StartAdvertising, BondedPeerAddress, ConnectBondedPeer, RequestDisconnect,
              Close, Begins, Idle, Teardown
<1>3. spent' \in Counts /\ spent'.opens = spent.opens
  BY <1>2, TransportAssumption DEF Base, Typed, Counts
<1>4. tr.runtime # 0 => tr.runtime \in Devices
  BY NumberedDevices
<1>5. "opening" \in Places /\ "opening" \notin Teardown \cup Commands \cup {"initializing"}
      /\ "lock" \in Places /\ "lock" \notin Teardown \cup Commands \cup {"initializing"}
      /\ 0 \in 0 .. MaxOpens
  BY TransportAssumption DEF Places, Teardown, Commands
<1>6. ASSUME Open(c) PROVE QuietCalls /\ lock' = lock
  <2>1. CASE tr.handle = 0
    <3> DEFINE o == [NoCall EXCEPT !.fn = "open", !.at = "opening", !.dev = 0]
    <3>1. op' = [op EXCEPT ![c] = o] /\ "open" \in Calls
      BY <1>6, <2>1 DEF Open, Starts, Begins
    <3>2. o \in CallStates /\ o.at = "opening" /\ o.dev = 0 /\ o.fn = "open" /\ o.handle = 0
      BY <1>5, <3>1, NoCallType DEF CallStates
    <3>3. \A e \in Clients \ {c} : op[e].fn # "open"
      BY <1>6 DEF Open
    <3> HIDE DEF o
    <3> QED
      BY <1>2, <1>5, <1>6, <2>1, <3>1, <3>2, <3>3, CallChange DEF Open
  <2> QED
    BY <1>6, <2>1, StillQuiet DEF Open
<1>7. ASSUME StartAdvertising(c) PROVE QuietCalls /\ lock' = lock
  <2>1. {"policy", "power on"} \subseteq Commands
    BY DEF Commands
  <2> QED
    BY <1>2, <1>4, <1>7, <2>1, StillQuiet, StartsQuiet DEF StartAdvertising, Begins
<1>8. \A r : Page(r) \in Commands
  BY DEF Page, Commands
<1>9. ASSUME BondedPeerAddress(c) PROVE QuietCalls /\ lock' = lock
  BY <1>2, <1>4, <1>8, <1>9, StillQuiet, StartsQuiet DEF BondedPeerAddress, Begins
<1>10. ASSUME ConnectBondedPeer(c) PROVE QuietCalls /\ lock' = lock
  BY <1>2, <1>4, <1>8, <1>10, StillQuiet, StartsQuiet DEF ConnectBondedPeer, Begins
<1>11. ASSUME RequestDisconnect(c) PROVE QuietCalls /\ lock' = lock
  <2>1. {"drain", "cut control"} \subseteq Commands
    BY DEF Commands
  <2> QED
    BY <1>2, <1>4, <1>11, <2>1, StillQuiet, StartsQuiet DEF RequestDisconnect, Begins
<1>12. ASSUME Close(c) PROVE QuietCalls /\ lock' \in Locks(Clients)
  <2> DEFINE o == [NoCall EXCEPT !.fn = "close", !.at = "lock", !.dev = 0]
  <2>1. op' = [op EXCEPT ![c] = o] /\ "close" \in Calls
    BY <1>12 DEF Close, Starts, Begins
  <2>2. o \in CallStates /\ o.at = "lock" /\ o.dev = 0 /\ o.fn = "close" /\ o.handle = 0
    BY <1>5, <2>1, NoCallType DEF CallStates
  <2>3. lock' \in Locks(Clients)
    BY <1>12, LockTypes DEF Close, Base, Typed
  <2> HIDE DEF o
  <2> QED
    BY <1>2, <1>5, <2>1, <2>2, <2>3, CallChange
<1> QED
  BY <1>1, <1>2, <1>3, <1>6, <1>7, <1>9, <1>10, <1>11, <1>12, StillQuiet DEF Quiet
-----------------------------------------------------------------------------
(* The calls that go on, but for those that make or take a handle.         *)
GoesOn(c) ==
    \/ PoweredOn(c) \/ PolicyConfigured(c) \/ Connectable(c) \/ Discoverable(c)
    \/ Paged(c) \/ Secured(c) \/ ControlConnected(c) \/ InterruptConnected(c)
    \/ Drained(c) \/ ChannelCut(c) \/ Raises(c) \/ OpenCancelled(c)

(* Devices that differ in what they advertise or accept, if at all.        *)
SameDevice(b, a) ==
    /\ b.handle = a.handle /\ b.raised = a.raised /\ b.power = a.power /\ b.acl = a.acl
    /\ b.discoverable = a.discoverable /\ b.raced = a.raced
    /\ b.channels = a.channels /\ b.opened = a.opened

(* The device to which call c gave a command changes.                      *)
LEMMA CommandChange ==
    ASSUME Base, NEW c \in Clients, NEW at \in Commands, Answers(c, at),
           NEW new \in DeviceStates, dev' = [dev EXCEPT ![op[c].dev] = new],
           new.handle = dev[op[c].dev].handle, new.raised = dev[op[c].dev].raised
    PROVE  QuietDevices
<1>1. op[c].at \in Commands /\ op[c].dev \in Devices /\ dev[op[c].dev].handle = "open"
  BY NumberedDevices DEF Answers
<1> QED
  BY <1>1, DeviceChange

LEMMA GoesOnQuiet ==
    ASSUME Base, NEW c \in Clients, GoesOn(c)
    PROVE  Quiet
<1> DEFINE d == op[c].dev
<1>1. dev \in [Devices -> DeviceStates] /\ tr \in TransportStates /\ spent \in Counts
  BY DEF Base, Typed
<1>2. \A at \in Commands : at \notin Teardown \cup {"opening", "initializing"}
  BY DEF Commands, Teardown
<1>3. {"power on", "policy", "connectable", "discoverable", "page", "secure", "control",
       "interrupt", "drain", "cut both", "cut interrupt", "cut control"} \subseteq Commands
  BY DEF Commands
<1>4. op[c].at \in Commands => d \in Devices /\ dev[d] \in DeviceStates
  BY <1>1, NumberedDevices
<1>5. tr.runtime # 0 => tr.runtime \in Devices
  BY NumberedDevices
<1>6. \A at \in Commands, r \in Devices :
          op[c].at \in Commands /\ r \in {d, tr.runtime} /\ Waits(c, at, r) => QuietCalls
  BY WaitsQuiet
<1>7. op[c].at \in Commands /\ Ends(c) => QuietCalls
  BY <1>2, EndsQuiet
<1> HIDE DEF d
<1>8. ASSUME PoweredOn(c) PROVE Quiet
  <2> DEFINE new == [dev[d] EXCEPT !.power = TRUE]
  <2>1. op[c].at \in Commands /\ Answers(c, "power on")
    BY <1>3, <1>8 DEF PoweredOn, Answers
  <2>2. new \in DeviceStates /\ new.handle = dev[d].handle /\ new.raised = dev[d].raised
    BY <1>4, <2>1 DEF DeviceStates
  <2>3. dev' = [dev EXCEPT ![op[c].dev] = new]
    BY <1>8 DEF PoweredOn, d
  <2>4. QuietDevices
    BY <1>3, <2>1, <2>2, <2>3, CommandChange DEF d
  <2>5. QuietCalls
    BY <1>3, <1>4, <1>6, <1>7, <1>8, <2>1, ProceedsQuiet DEF PoweredOn, d
  <2> QED
    BY <1>8, <2>4, <2>5, StillQuiet DEF PoweredOn, Quiet, Base, Typed
<1>9. ASSUME PolicyConfigured(c) PROVE Quiet
  <2> DEFINE new == [dev[d] EXCEPT !.policy = TRUE]
  <2>1. op[c].at \in Commands /\ Answers(c, "policy")
    BY <1>3, <1>9 DEF PolicyConfigured, Answers
  <2>2. new \in DeviceStates /\ new.handle = dev[d].handle /\ new.raised = dev[d].raised
    BY <1>4, <2>1 DEF DeviceStates
  <2>3. dev' = [dev EXCEPT ![op[c].dev] = new]
    BY <1>9 DEF PolicyConfigured, d
  <2>4. QuietDevices
    BY <1>3, <2>1, <2>2, <2>3, CommandChange DEF d
  <2>5. QuietCalls
    BY <1>9, <2>1, ProceedsQuiet DEF PolicyConfigured
  <2> QED
    BY <1>9, <2>4, <2>5, StillQuiet DEF PolicyConfigured, Quiet, Base, Typed
<1>10. ASSUME Connectable(c) PROVE Quiet
  <2> DEFINE new == [ScanOn(c, dev[d]) EXCEPT !.connectable = TRUE]
  <2>1. op[c].at \in Commands /\ Answers(c, "connectable")
    BY <1>3, <1>10 DEF Connectable, Answers
  <2>2. new \in DeviceStates /\ new.handle = dev[d].handle /\ new.raised = dev[d].raised
    BY <1>4, <2>1 DEF DeviceStates, ScanOn
  <2>3. dev' = [dev EXCEPT ![op[c].dev] = new]
    BY <1>10 DEF Connectable, d
  <2>4. QuietDevices
    BY <1>3, <2>1, <2>2, <2>3, CommandChange DEF d
  <2>5. QuietCalls
    BY <1>3, <1>4, <1>6, <1>10, <2>1 DEF Connectable, d
  <2> QED
    BY <1>10, <2>4, <2>5, StillQuiet DEF Connectable, Quiet, Base, Typed
<1>11. ASSUME Discoverable(c) PROVE Quiet
  <2> DEFINE new == [ScanOn(c, dev[d]) EXCEPT !.discoverable = TRUE]
             shown == [dev EXCEPT ![d] = new]
             marked == [shown[tr.runtime] EXCEPT !.advertised = TRUE]
  <2>1. op[c].at \in Commands /\ Answers(c, "discoverable") /\ d \in Devices
        /\ dev[d].handle = "open"
    BY <1>3, <1>4, <1>11 DEF Discoverable, Answers, d
  <2>2. new \in DeviceStates /\ new.handle = dev[d].handle /\ new.raised = dev[d].raised
    BY <1>4, <2>1 DEF DeviceStates, ScanOn
  <2>3. shown \in [Devices -> DeviceStates]
    BY <1>1, <2>1, <2>2
  <2>4. \/ tr.runtime = 0 /\ dev' = shown
        \/ tr.runtime # 0 /\ dev' = [shown EXCEPT ![tr.runtime] = marked]
    BY <1>11 DEF Discoverable, d
  <2>5. tr.runtime # 0 =>
            marked \in DeviceStates /\ SameDevice(marked, shown[tr.runtime])
    <3>1. tr.runtime # 0 => shown[tr.runtime] \in DeviceStates
      BY <1>5, <2>3
    <3> HIDE DEF shown
    <3> QED
      BY <3>1 DEF DeviceStates, SameDevice
  <2>6. ~(d > spent.opens)
    BY <2>1 DEF Base, Numbered, Unopened
  <2>7. ~(tr.runtime > spent.opens)
    BY <1>1, <1>5 DEF Base, Numbered, Counts, TransportStates
  <2>8. QuietDevices
    <3>1. dev' \in [Devices -> DeviceStates]
      BY <1>5, <2>3, <2>4, <2>5
    <3>2. ASSUME NEW b \in Devices
          PROVE  /\ dev'[b].handle = dev[b].handle /\ dev'[b].raised = dev[b].raised
                 /\ (b > spent.opens => dev'[b] = dev[b])
                 /\ (Dark(dev[b]) => Dark(dev'[b]) \/ b = d)
      <4>1. b # d => shown[b] = dev[b]
        BY <1>1, <2>1
      <4>2. shown[b].handle = dev[b].handle /\ shown[b].raised = dev[b].raised
        BY <1>1, <2>1, <2>2, <4>1
      <4> HIDE DEF shown, marked, new
      <4>3. \/ dev'[b] = shown[b]
            \/ tr.runtime = b /\ b # 0 /\ dev'[b] = marked
        BY <1>5, <2>3, <2>4, <2>5
      <4>4. SameDevice(dev'[b], shown[b])
        BY <1>5, <2>5, <4>3 DEF SameDevice
      <4> QED
        BY <2>6, <2>7, <4>1, <4>2, <4>3, <4>4 DEF Dark, SameDevice
    <3> QED
      BY <2>1, <3>1, <3>2 DEF QuietDevices, d
  <2>9. QuietCalls
    BY <1>7, <1>11, <2>1 DEF Discoverable
  <2> QED
    BY <1>11, <2>8, <2>9, StillQuiet DEF Discoverable, Quiet, Base, Typed
<1>12. ASSUME Paged(c) PROVE Quiet
  <2> DEFINE new == [dev[d] EXCEPT !.acl = TRUE, !.channels = {}, !.opened = {}]
  <2>1. op[c].at \in Commands /\ Answers(c, "page")
    BY <1>3, <1>12 DEF Paged, Answers
  <2>2. new \in DeviceStates /\ new.handle = dev[d].handle /\ new.raised = dev[d].raised
    BY <1>4, <2>1 DEF DeviceStates
  <2>3. dev' = [dev EXCEPT ![op[c].dev] = new]
    BY <1>12 DEF Paged, NewConnection, d
  <2>4. QuietDevices
    BY <1>3, <2>1, <2>2, <2>3, CommandChange DEF d
  <2>5. QuietCalls
    BY <1>3, <1>4, <1>6, <1>12, <2>1 DEF Paged, d
  <2>6. QuietTransport
    BY <1>1, <1>12, CallbackTypes DEF Paged, QuietTransport
  <2>7. spent' \in Counts /\ spent'.opens = spent.opens
    BY <1>1, <1>12, TransportAssumption DEF Paged, Counts
  <2> QED
    BY <1>12, <2>4, <2>5, <2>6, <2>7, StillQuiet DEF Paged, Quiet, Base, Typed
<1>13. ASSUME Secured(c) PROVE Quiet
  <2>1. op[c].at \in Commands
    BY <1>3, <1>13 DEF Secured, Answers
  <2>2. QuietCalls
    BY <1>3, <1>5, <1>6, <1>7, <1>13, <2>1 DEF Secured
  <2> QED
    BY <1>13, <2>2, StillQuiet DEF Secured, Quiet, Base, Typed
<1>14. ASSUME NEW ch \in {"control", "interrupt"}, Opens(c, ch)
       PROVE  QuietDevices /\ op[c].at \in Commands
  <2> DEFINE new == [dev[d] EXCEPT !.channels = @ \cup {ch}, !.opened = @ \cup {ch}]
  <2>1. op[c].at \in Commands /\ Answers(c, ch) /\ ch \in Commands
    BY <1>3, <1>14 DEF Opens, Answers
  <2>2. new \in DeviceStates /\ new.handle = dev[d].handle /\ new.raised = dev[d].raised
    BY <1>4, <2>1 DEF DeviceStates, Channels
  <2>3. dev' = [dev EXCEPT ![op[c].dev] = new]
    BY <1>14 DEF Opens, d
  <2> QED
    BY <2>1, <2>2, <2>3, CommandChange DEF d
<1>15. ASSUME ControlConnected(c) PROVE Quiet
  <2>1. QuietDevices /\ op[c].at \in Commands
    BY <1>14, <1>15 DEF ControlConnected
  <2>2. QuietCalls
    BY <1>3, <1>5, <1>6, <1>7, <1>15, <2>1 DEF ControlConnected
  <2> QED
    BY <1>15, <2>1, <2>2, StillQuiet DEF ControlConnected, Quiet, Base, Typed
<1>16. ASSUME InterruptConnected(c) PROVE Quiet
  <2>1. QuietDevices /\ op[c].at \in Commands
    BY <1>14, <1>16 DEF InterruptConnected
  <2>2. QuietTransport
    BY <1>1, <1>16, CallbackTypes DEF InterruptConnected, QuietTransport
  <2> QED
    BY <1>7, <1>16, <2>1, <2>2, StillQuiet DEF InterruptConnected, Quiet, Base, Typed
<1>17. ASSUME Drained(c) \/ ChannelCut(c) \/ Raises(c) PROVE Quiet
  <2>1. op[c].at \in Commands
    BY <1>3, <1>17 DEF Drained, ChannelCut, Raises
  <2>2. QuietCalls
    BY <1>3, <1>4, <1>6, <1>7, <1>17, <2>1 DEF Drained, ChannelCut, Raises, d
  <2> QED
    BY <1>17, <2>2, StillQuiet DEF Drained, ChannelCut, Raises, Quiet, Base, Typed
<1>18. ASSUME OpenCancelled(c) PROVE Quiet
  <2>1. op[c].at \notin Teardown
    BY <1>18 DEF OpenCancelled, Teardown
  <2> QED
    BY <1>18, <2>1, EndsQuiet, StillQuiet DEF OpenCancelled, Quiet, Base, Typed
<1> QED
  BY <1>8, <1>9, <1>10, <1>11, <1>12, <1>13, <1>15, <1>16, <1>17, <1>18 DEF GoesOn
-----------------------------------------------------------------------------
(* The steps that make a handle, give it to the transport or take it.      *)

LEMMA OpenIsAlone ==
    ASSUME Base, NEW c \in Clients, op[c].at \in {"opening", "initializing"}
    PROVE  /\ op[c].fn = "open" /\ op[c].handle = 0
           /\ \A e \in Clients \ {c} :
                  op[e].fn # "open" /\ op[e].at \notin {"opening", "initializing"}
  BY DEF Base, Placed, OneOpen, Teardown

LEMMA HandleOpenedKeepsBase ==
    ASSUME Base, NEW c \in Clients, HandleOpened(c)
    PROVE  Base'
<1> DEFINE d == spent.opens + 1
           new == [Unopened EXCEPT !.handle = "open"]
           o == [op[c] EXCEPT !.at = "initializing", !.dev = d]
<1>1. /\ tr \in TransportStates /\ lock \in Locks(Clients) /\ dev \in [Devices -> DeviceStates]
      /\ op \in [Clients -> CallStates] /\ spent \in Counts
  BY DEF Base, Typed
<1>2. d \in Devices /\ d \in 0 .. MaxOpens /\ d > spent.opens /\ d # 0
  BY <1>1, TransportAssumption DEF HandleOpened, Counts, Devices
<1>3. tr.handle = 0 /\ op[c].at = "opening" /\ dev[d] = Unopened
  BY <1>2 DEF HandleOpened, Base, Opening, Numbered
<1>4. dev' = [dev EXCEPT ![d] = new] /\ op' = [op EXCEPT ![c] = o]
      /\ tr' = [tr EXCEPT !.handle = d] /\ spent' = [spent EXCEPT !.opens = d]
      /\ lock' = lock
  BY <1>1, <1>2, <1>3 DEF HandleOpened, Waits
<1>5. new \in DeviceStates /\ new.handle = "open" /\ ~new.raised /\ ~new.power /\ ~new.acl
      /\ ~new.discoverable /\ new.channels = {}
  BY DEF Unopened, DeviceStates
<1>6. o \in CallStates /\ o.at = "initializing" /\ o.dev = d /\ o.fn = op[c].fn
      /\ o.handle = op[c].handle
  BY <1>1, <1>2 DEF CallStates, Places
<1>7. tr' \in TransportStates /\ tr'.handle = d /\ tr'.runtime = tr.runtime
      /\ spent' \in Counts /\ spent'.opens = d
  BY <1>1, <1>2, <1>4 DEF TransportStates, Counts
<1>8. \A b \in Devices : dev[b].handle \in {"none", "closed"}
  BY DEF HandleOpened
<1>9. \A e \in Clients : op[e].at \notin Teardown
  BY <1>8, NumberedDevices DEF Base, Held
<1>10. op[c].fn = "open" /\ op[c].handle = 0
       /\ \A e \in Clients \ {c} :
              op[e].fn # "open" /\ op[e].at \notin {"opening", "initializing"}
  BY <1>3, OpenIsAlone
<1>11. /\ tr.runtime <= spent.opens /\ tr.runtime # d
       /\ \A e \in Clients : op[e].dev <= spent.opens /\ op[e].handle <= spent.opens
                            /\ op[e].dev # d
  BY <1>1, <1>2 DEF Base, Numbered, Counts, TransportStates, CallStates
<1>12. /\ op'[c] = o /\ \A e \in Clients \ {c} : op'[e] = op[e]
       /\ dev'[d] = new /\ \A b \in Devices \ {d} : dev'[b] = dev[b]
  BY <1>1, <1>2, <1>4
<1> HIDE DEF new, o
<1>13. Typed'
  BY <1>1, <1>2, <1>4, <1>5, <1>6, <1>7 DEF Typed
<1>14. Placed'
  <2>1. "initializing" \notin Hiding \cup Commands \cup Teardown
    BY DEF Hiding, Teardown, Commands
  <2>2. op'[c].at = "initializing" /\ op'[c].dev # 0 /\ op'[c].fn = "open" /\ op'[c].handle = 0
    BY <1>2, <1>6, <1>10, <1>12
  <2> QED
    BY <1>12, <2>1, <2>2 DEF Base, Placed
<1>15. Numbered'
  <2>1. tr'.handle <= spent'.opens /\ tr'.runtime <= spent'.opens
    BY <1>1, <1>2, <1>7, <1>11 DEF TransportStates, Counts
  <2>2. \A e \in Clients : op'[e].dev <= spent'.opens /\ op'[e].handle <= spent'.opens
    BY <1>1, <1>2, <1>6, <1>7, <1>10, <1>11, <1>12 DEF CallStates, Counts
  <2>3. ASSUME NEW b \in Devices, b > spent'.opens PROVE dev'[b] = Unopened
    BY <1>1, <1>7, <1>12, <2>3 DEF Base, Numbered, Counts, Devices
  <2> QED
    BY <2>1, <2>2, <2>3 DEF Numbered
<1>16. OneOpen'
  BY <1>6, <1>8, <1>10, <1>12 DEF OneOpen
<1>17. Held'
  <2>1. tr'.handle # 0 => dev'[tr'.handle].handle = "open" /\ ~dev'[tr'.handle].raised
    BY <1>5, <1>7, <1>12
  <2>2. \A e \in Clients : op'[e].at \notin Teardown
    BY <1>6, <1>9, <1>12 DEF Teardown
  <2>3. \A b \in Devices : dev'[b].raised => dev'[b].handle \in {"open", "closing"}
    BY <1>5, <1>12 DEF Base, Held
  <2> QED
    BY <2>1, <2>2, <2>3 DEF Held
<1>18. Opening'
  <2>1. \A e \in Clients : op'[e].at # "opening" /\ (op'[e].at = "initializing" => e = c)
    BY <1>6, <1>10, <1>12
  <2>2. \A e \in Clients \ {c} : op'[e].dev # op'[c].dev
    BY <1>6, <1>11, <1>12
  <2>3. tr'.handle = op'[c].dev /\ tr'.runtime # op'[c].dev
        /\ Dark(dev'[op'[c].dev])
    BY <1>5, <1>6, <1>7, <1>11, <1>12 DEF Dark
  <2> QED
    BY <2>1, <2>2, <2>3 DEF Opening, Dark
<1>19. Stale'
  <2>1. ASSUME tr.runtime # 0 PROVE Dark(dev'[tr.runtime]) /\ dev'[tr.runtime].handle # "open"
    <3>1. tr.runtime \in Devices /\ Dark(dev[tr.runtime]) /\ dev[tr.runtime].handle # "open"
      BY <1>3, <2>1, NumberedDevices DEF Base, Stale
    <3>2. dev'[tr.runtime] = dev[tr.runtime]
      BY <1>11, <1>12, <3>1
    <3> QED
      BY <1>7, <3>1, <3>2 DEF Dark
  <2> QED
    BY <1>7, <2>1 DEF Stale, Dark
<1>20. HandleAccounted'
  BY <1>7, <1>8, <1>12 DEF HandleAccounted
<1> QED
  BY <1>13, <1>14, <1>15, <1>16, <1>17, <1>18, <1>19, <1>20 DEF Base

LEMMA InitializedKeepsBase ==
    ASSUME Base, NEW c \in Clients, Initialized(c)
    PROVE  Base'
<1> DEFINE d == op[c].dev
<1>1. /\ tr \in TransportStates /\ lock \in Locks(Clients) /\ dev \in [Devices -> DeviceStates]
      /\ op \in [Clients -> CallStates] /\ spent \in Counts
  BY DEF Base, Typed
<1>2. op[c].at = "initializing" /\ d \in Devices /\ d \in 0 .. MaxOpens /\ d # 0
  BY TransportAssumption, NumberedDevices DEF Initialized, Devices
<1>3. tr' = [tr EXCEPT !.runtime = d] /\ op' = [op EXCEPT ![c] = NoCall]
      /\ dev' = dev /\ lock' = lock /\ spent' = spent
  BY DEF Initialized, Ends
<1>4. tr' \in TransportStates /\ tr'.handle = tr.handle /\ tr'.runtime = d
  BY <1>1, <1>2, <1>3 DEF TransportStates
<1>5. op'[c] = NoCall /\ \A e \in Clients \ {c} : op'[e] = op[e]
  BY <1>1, <1>3
<1>6. \A e \in Clients \ {c} : op[e].at \notin {"opening", "initializing"}
  BY <1>2, OpenIsAlone
<1>7. Typed'
  BY <1>1, <1>3, <1>4, NoCallType DEF Typed
<1>8. Placed'
  BY <1>5, NoCallType DEF Base, Placed, Hiding, Teardown, Commands
<1>9. Numbered'
  BY <1>1, <1>3, <1>4, <1>5, NoCallType DEF Base, Numbered, Counts
<1>10. OneOpen'
  BY <1>3, <1>5, NoCallType DEF Base, OneOpen
<1>11. Held'
  <2>1. \A e \in Clients : op'[e].at \in Teardown => op'[e] = op[e]
    BY <1>5, NoCallType DEF Teardown
  <2> QED
    BY <1>3, <1>4, <2>1, HeldKept
<1>12. Opening'
  BY <1>5, <1>6, NoCallType DEF Opening
<1>13. Stale'
  BY <1>2, <1>3, <1>4 DEF Base, Opening, Stale, Dark
<1>14. HandleAccounted'
  <2>1. \A e \in Clients : op[e].at \in Teardown => op'[e] = op[e]
    BY <1>2, <1>5 DEF Teardown
  <2> QED
    BY <1>3, <1>4, <2>1 DEF Base, HandleAccounted
<1> QED
  BY <1>7, <1>8, <1>9, <1>10, <1>11, <1>12, <1>13, <1>14 DEF Base
(* Three ways to begin the teardown of what the transport has.             *)
LEMMA TearsDownCases ==
    ASSUME Base, NEW c \in Clients, NEW fn, TearsDown(c, fn, tr.runtime, tr.handle)
    PROVE  \/ /\ tr.runtime = tr.handle /\ tr.handle # 0 /\ dev[tr.handle].power
              /\ op' = [op EXCEPT ![c] = [fn |-> fn, at |-> "hide", dev |-> tr.handle,
                                         handle |-> tr.handle]]
              /\ dev' = dev
           \/ /\ tr.handle # 0 /\ (tr.runtime # 0 => ~dev[tr.runtime].power)
              /\ op' = [op EXCEPT ![c] = [fn |-> fn, at |-> "close handle", dev |-> tr.runtime,
                                         handle |-> tr.handle]]
              /\ dev' = [dev EXCEPT ![tr.handle].handle = "closing"]
           \/ /\ tr.handle = 0
              /\ op' = [op EXCEPT ![c] = NoCall]
              /\ dev' = dev
<1>1. tr.runtime # 0 /\ dev[tr.runtime].power => tr.runtime = tr.handle
  BY DEF Base, Stale, Dark
<1> QED
  BY <1>1 DEF TearsDown, FirstOfTeardown, HandleClosing

LEMMA TakenKeepsBase ==
    ASSUME Base, NEW c \in Clients, NEW fn \in Calls,
           op[c].at \in {"lock", "opening", "initializing"},
           fn = "open" => op[c].fn = "open",
           TearsDown(c, fn, tr.runtime, tr.handle),
           tr' \in TransportStates, tr'.handle = 0, tr'.runtime = 0,
           lock' \in Locks(Clients), spent' = spent
    PROVE  Base'
<1> DEFINE h == tr.handle
           r == tr.runtime
<1>1. /\ tr \in TransportStates /\ dev \in [Devices -> DeviceStates]
      /\ op \in [Clients -> CallStates] /\ spent \in Counts
  BY DEF Base, Typed
<1>2. h \in 0 .. MaxOpens /\ r \in 0 .. MaxOpens /\ h <= spent.opens /\ r <= spent.opens
      /\ (h # 0 => h \in Devices) /\ (r # 0 => r \in Devices)
  BY <1>1, NumberedDevices DEF TransportStates, Base, Numbered
<1>3. PICK o \in CallStates :
          /\ op' = [op EXCEPT ![c] = o]
          /\ o.fn \in {fn, "none"}
          /\ \/ /\ o.at = "hide" /\ o.dev = h /\ o.handle = h /\ h # 0 /\ r = h /\ dev[h].power
                /\ dev' = dev
             \/ /\ o.at = "close handle" /\ o.dev = r /\ o.handle = h /\ h # 0
                /\ (r # 0 => ~dev[r].power)
                /\ dev' = [dev EXCEPT ![h].handle = "closing"]
             \/ /\ o.at = "idle" /\ o.dev = 0 /\ o.handle = 0 /\ o.fn = "none" /\ h = 0
                /\ dev' = dev
  <2>1. \A at \in {"hide", "close handle"}, b \in {h, r} :
            [fn |-> fn, at |-> at, dev |-> b, handle |-> h] \in CallStates
    BY <1>2 DEF CallStates, Places, Teardown
  <2>2. CASE /\ tr.runtime = tr.handle /\ tr.handle # 0 /\ dev[tr.handle].power
             /\ op' = [op EXCEPT ![c] = [fn |-> fn, at |-> "hide", dev |-> tr.handle,
                                        handle |-> tr.handle]]
             /\ dev' = dev
    BY <2>1, <2>2
  <2>3. CASE /\ tr.handle # 0 /\ (tr.runtime # 0 => ~dev[tr.runtime].power)
             /\ op' = [op EXCEPT ![c] = [fn |-> fn, at |-> "close handle", dev |-> tr.runtime,
                                        handle |-> tr.handle]]
             /\ dev' = [dev EXCEPT ![tr.handle].handle = "closing"]
    BY <2>1, <2>3
  <2>4. CASE /\ tr.handle = 0
             /\ op' = [op EXCEPT ![c] = NoCall]
             /\ dev' = dev
    BY <2>4, NoCallType
  <2> QED
    BY <2>2, <2>3, <2>4, TearsDownCases
<1>4. op'[c] = o /\ \A e \in Clients \ {c} : op'[e] = op[e]
  BY <1>1, <1>3
<1>5. /\ dev' \in [Devices -> DeviceStates]
      /\ \A d \in Devices : /\ dev'[d].raised = dev[d].raised
                            /\ d # h => dev'[d] = dev[d]
                            /\ Dark(dev[d]) => Dark(dev'[d])
                            /\ dev'[d].handle # dev[d].handle =>
                                   d = h /\ o.at = "close handle" /\ dev'[d].handle = "closing"
  <2>1. CASE dev' = dev
    BY <1>1, <2>1 DEF Dark
  <2>2. CASE dev' = [dev EXCEPT ![h].handle = "closing"] /\ o.at = "close handle" /\ h # 0
    <3>1. dev[h] \in DeviceStates /\ h \in Devices
      BY <1>1, <1>2, <2>2
    <3>2. [dev[h] EXCEPT !.handle = "closing"] \in DeviceStates
      BY <3>1 DEF DeviceStates
    <3>3. dev' \in [Devices -> DeviceStates] /\ \A d \in Devices \ {h} : dev'[d] = dev[d]
      BY <1>1, <2>2, <3>1, <3>2
    <3>4. dev'[h] = [dev[h] EXCEPT !.handle = "closing"]
      BY <1>1, <2>2, <3>1
    <3>5. dev'[h].handle = "closing" /\ dev'[h].raised = dev[h].raised /\ (Dark(dev[h]) => Dark(dev'[h]))
      BY <3>1, <3>4 DEF DeviceStates, Dark
    <3>6. \A d \in Devices \ {h} : Dark(dev[d]) => Dark(dev'[d])
      BY <3>3 DEF Dark
    <3> QED
      BY <2>2, <3>3, <3>5, <3>6
  <2> QED
    BY <1>3, <2>1, <2>2
<1>6. h # 0 => dev[h].handle = "open" /\ ~dev[h].raised
  BY DEF Base, Held
<1>7. dev'[h].handle = "closing" \/ o.at # "close handle"
  <2>1. CASE o.at = "close handle"
    <3>1. h \in Devices /\ dev' = [dev EXCEPT ![h].handle = "closing"]
      BY <1>2, <1>3, <2>1
    <3> QED
      BY <1>1, <3>1 DEF DeviceStates
  <2> QED
    BY <2>1
<1> HIDE DEF h, r
<1>8. Typed'
  BY <1>1, <1>3, <1>5 DEF Typed
<1>9. Placed'
  <2>1. o.at \notin Commands \cup {"initializing", "opening", "lock"}
    BY <1>3 DEF Commands
  <2>2. o.at \in Teardown => o.handle # 0
    BY <1>3 DEF Teardown
  <2>3. o.at \in Hiding => o.dev = o.handle /\ o.handle # 0
    BY <1>3 DEF Hiding
  <2>4. o.at \notin Teardown => o.handle = 0
    BY <1>3 DEF Teardown
  <2>5. o.at = "close handle" => o.handle # 0
    BY <1>3
  <2> QED
    BY <1>4, <2>1, <2>2, <2>3, <2>4, <2>5 DEF Base, Placed
<1>10. Numbered'
  <2>1. \A e \in Clients : op'[e].dev <= spent'.opens /\ op'[e].handle <= spent'.opens
    BY <1>1, <1>2, <1>3, <1>4 DEF Base, Numbered, Counts
  <2>2. 0 <= spent'.opens
    BY <1>1 DEF Counts
  <2>3. \A d \in Devices : d > spent'.opens => dev'[d] = Unopened
    <3>1. \A d \in Devices : d > spent.opens => d # h
      BY <1>1, <1>2 DEF Counts, Devices
    <3> QED
      BY <1>5, <3>1 DEF Base, Numbered
  <2> QED
    BY <2>1, <2>2, <2>3 DEF Numbered
<1>11. OneOpen'
  <2>1. \A e \in Clients : op'[e].fn = "open" => op[e].fn = "open"
    BY <1>3, <1>4
  <2>2. \A d \in Devices : dev'[d].handle \in {"open", "closing"} =>
                             dev[d].handle \in {"open", "closing"}
    BY <1>3, <1>5, <1>6
  <2> QED
    BY <2>1, <2>2 DEF Base, OneOpen
<1>12. Held'
  <2>1. ASSUME NEW e \in Clients \ {c}, op[e].at \in Teardown
        PROVE  /\ op[e].handle # h /\ op[e].handle # 0 /\ op[e].handle \in Devices
               /\ dev'[op[e].handle] = dev[op[e].handle]
    <3>1. op[e].handle # h
      BY <2>1 DEF Base, Held, h
    <3>2. op[e].handle \in Devices /\ op[e].handle # 0
      BY <2>1, NumberedDevices DEF Devices
    <3> QED
      BY <1>5, <3>1, <3>2
  <2>2. ASSUME o.at \in Teardown
        PROVE  /\ o.handle # 0 /\ o.handle = h /\ ~dev'[h].raised
               /\ dev'[h].handle = IF o.at = "close handle" THEN "closing" ELSE "open"
    BY <1>2, <1>3, <1>5, <1>6, <1>7, <2>2 DEF Teardown
  <2>3. ASSUME NEW e \in Clients \ {c}, op[e].at \in Teardown
        PROVE  /\ ~dev[op[e].handle].raised
               /\ dev[op[e].handle].handle =
                      IF op[e].at = "close handle" THEN "closing" ELSE "open"
               /\ \A f \in Clients : op[f].at \in Teardown /\ op[f].handle = op[e].handle
                                     => f = e
    BY <2>3 DEF Base, Held
  <2>4. ASSUME NEW e \in Clients, op'[e].at \in Teardown
        PROVE  /\ op'[e].handle # 0 /\ ~dev'[op'[e].handle].raised
               /\ dev'[op'[e].handle].handle =
                      IF op'[e].at = "close handle" THEN "closing" ELSE "open"
               /\ \A f \in Clients : op'[f].at \in Teardown /\ op'[f].handle = op'[e].handle
                                     => f = e
    <3>1. CASE e = c
      BY <1>4, <2>1, <2>2, <2>4, <3>1
    <3>2. CASE e # c
      <4>1. op'[e] = op[e] /\ op[e].at \in Teardown
        BY <1>4, <2>4, <3>2
      <4>2. \A f \in Clients : op'[f].at \in Teardown /\ op'[f].handle = op'[e].handle => f = e
        <5>1. op[e].handle # h /\ \A f \in Clients :
                  op[f].at \in Teardown /\ op[f].handle = op[e].handle => f = e
          BY <2>1, <2>3, <3>2, <4>1
        <5>2. op'[c].at \in Teardown => op'[c].handle = h
          BY <1>4, <2>2
        <5> QED
          BY <1>4, <4>1, <5>1, <5>2
      <4> QED
        BY <2>1, <2>3, <3>2, <4>1, <4>2
    <3> QED
      BY <3>1, <3>2
  <2>5. \A d \in Devices : dev'[d].raised => dev'[d].handle \in {"open", "closing"}
    BY <1>5 DEF Base, Held
  <2> QED
    BY <2>4, <2>5 DEF Held
<1>13. Opening'
  <2>1. o.at \notin {"opening", "initializing"}
    BY <1>3
  <2>2. ASSUME NEW e \in Clients \ {c}, op[e].at = "initializing"
        PROVE  /\ Dark(dev'[op[e].dev]) /\ op[e].dev # 0 /\ dev'[op[e].dev].handle # "open"
               /\ \A f \in Clients \ {e} : op'[f].dev # op[e].dev
    <3>1. op[e].dev \in Devices /\ op[e].dev # 0 /\ Dark(dev[op[e].dev]) /\ r # op[e].dev
          /\ (dev[op[e].dev].handle = "open" => h = op[e].dev)
          /\ \A f \in Clients \ {e} : op[f].dev # op[e].dev
      BY <2>2, NumberedDevices DEF Base, Opening, Devices, h, r
    <3>2. Dark(dev'[op[e].dev])
      BY <1>5, <3>1 DEF Dark
    <3>3. h # op[e].dev \/ o.at = "close handle"
      BY <1>3, <3>1
    <3>4. dev'[op[e].dev].handle # "open"
      BY <1>5, <1>7, <3>1, <3>3
    <3>5. o.dev # op[e].dev
      BY <1>3, <3>1 DEF Dark
    <3> QED
      BY <1>4, <3>1, <3>2, <3>4, <3>5
  <2>3. ASSUME NEW e \in Clients, op'[e].at = "initializing"
        PROVE  e # c /\ op'[e] = op[e] /\ op[e].at = "initializing"
    BY <1>4, <2>1, <2>3
  <2> QED
    BY <2>2, <2>3 DEF Opening, Dark
<1>14. Stale'
  BY DEF Stale
<1>15. HandleAccounted'
  <2>1. \A e \in Clients : op[e].at \in Teardown => e # c
    BY DEF Teardown
  <2>2. h # 0 => op'[c].handle = h /\ op'[c].at \in Teardown
    BY <1>3, <1>4 DEF Teardown
  <2>3. ASSUME NEW d \in Devices, dev'[d].handle \in {"open", "closing"}
        PROVE  \/ dev'[d].raised
               \/ \E e \in Clients : op'[e].handle = d /\ op'[e].at \in Teardown
    <3>1. dev[d].handle \in {"open", "closing"} /\ dev'[d].raised = dev[d].raised /\ d # 0
      BY <1>3, <1>5, <1>6, <2>3, DeviceNumbers
    <3>2. CASE d = h
      BY <2>2, <3>1, <3>2
    <3>3. CASE d # h
      BY <1>4, <2>1, <3>1, <3>3 DEF Base, HandleAccounted, h
    <3> QED
      BY <3>2, <3>3
  <2> QED
    BY <2>3 DEF HandleAccounted
<1> QED
  BY <1>8, <1>9, <1>10, <1>11, <1>12, <1>13, <1>14, <1>15 DEF Base
(* A step of the teardown of a handle, which goes on or ends.              *)
LEMMA TeardownKeepsBase ==
    ASSUME Base, NEW c \in Clients, op[c].at \in Teardown,
           NEW new \in DeviceStates, dev' = [dev EXCEPT ![op[c].handle] = new],
           Dark(dev[op[c].handle]) => Dark(new),
           new.handle = "open" => dev[op[c].handle].handle = "open",
           NEW o \in CallStates, op' = [op EXCEPT ![c] = o],
           \/ /\ o.at \in Teardown /\ o.fn = op[c].fn /\ o.dev = op[c].dev
              /\ o.handle = op[c].handle
              /\ o.at \in Hiding => o.dev = o.handle
              /\ new.handle = IF o.at = "close handle" THEN "closing" ELSE "open"
              /\ ~new.raised
           \/ /\ o = NoCall
              /\ \/ new.handle = "closed" /\ ~new.raised
                 \/ new.handle \in {"open", "closing"} /\ new.raised,
           UNCHANGED <<tr, spent>>, lock' \in Locks(Clients)
    PROVE  Base'
<1> DEFINE h == op[c].handle
<1>1. /\ tr \in TransportStates /\ dev \in [Devices -> DeviceStates]
      /\ op \in [Clients -> CallStates] /\ spent \in Counts /\ tr' = tr /\ spent' = spent
  BY DEF Base, Typed
<1>2. h \in Devices /\ h # 0 /\ h <= spent.opens /\ h # tr.handle
      /\ dev[h].handle \in {"open", "closing"}
      /\ \A e \in Clients : op[e].at \in Teardown /\ op[e].handle = h => e = c
  <2>1. h \in Devices /\ h # 0
    BY NumberedDevices, DeviceNumbers
  <2>2. h <= spent.opens
    BY DEF Base, Numbered
  <2>3. /\ h # tr.handle
        /\ dev[h].handle = IF op[c].at = "close handle" THEN "closing" ELSE "open"
        /\ \A e \in Clients : op[e].at \in Teardown /\ op[e].handle = h => e = c
    BY DEF Base, Held
  <2> QED
    BY <2>1, <2>2, <2>3
<1>3. /\ op'[c] = o /\ \A e \in Clients \ {c} : op'[e] = op[e]
      /\ dev'[h] = new /\ \A d \in Devices \ {h} : dev'[d] = dev[d]
      /\ dev' \in [Devices -> DeviceStates] /\ op' \in [Clients -> CallStates]
  BY <1>1, <1>2
<1>4. \/ /\ o.at \in Teardown /\ o.fn = op[c].fn /\ o.dev = op[c].dev /\ o.handle = h
         /\ o.at \in Hiding => o.dev = o.handle
         /\ new.handle = IF o.at = "close handle" THEN "closing" ELSE "open"
         /\ ~new.raised
      \/ /\ o.at = "idle" /\ o.fn = "none" /\ o.dev = 0 /\ o.handle = 0
         /\ \/ new.handle = "closed" /\ ~new.raised
            \/ new.handle \in {"open", "closing"} /\ new.raised
  BY NoCallType
<1>5. "idle" \notin Teardown \cup Hiding \cup Commands \cup {"initializing", "opening", "lock"}
      /\ \A at \in Teardown : at \notin Commands \cup {"initializing", "opening", "lock"}
      /\ Hiding \subseteq Teardown /\ "close handle" \in Teardown
  BY DEF Teardown, Hiding, Commands
<1>6. \A d \in Devices : /\ Dark(dev[d]) => Dark(dev'[d])
                         /\ dev'[d].handle = "open" => dev[d].handle = "open"
  BY <1>3
<1> HIDE DEF h
<1>7. Typed'
  BY <1>1, <1>3 DEF Typed
<1>8. Placed'
  <2>1. \A e \in Clients \ {c} : op'[e] = op[e]
    BY <1>3
  <2>2. /\ op'[c].at \in Hiding => op'[c].dev = op'[c].handle /\ op'[c].handle # 0
        /\ op'[c].at = "close handle" => op'[c].handle # 0
        /\ op'[c].at \notin Commands \cup {"initializing", "opening", "lock"}
        /\ op'[c].at \notin Teardown => op'[c].handle = 0
    BY <1>2, <1>3, <1>4, <1>5
  <2> QED
    <3>1. ASSUME NEW e \in Clients \ {c}
          PROVE  /\ op'[e].at \in Hiding => op'[e].dev = op'[e].handle /\ op'[e].handle # 0
                 /\ op'[e].at = "close handle" => op'[e].handle # 0
                 /\ op'[e].at \in Commands \cup {"initializing"} => op'[e].dev # 0
                 /\ op'[e].at \in {"opening", "initializing"} => op'[e].fn = "open"
                 /\ op'[e].at = "lock" => op'[e].fn = "close"
                 /\ op'[e].at \notin Teardown => op'[e].handle = 0
      BY <2>1 DEF Base, Placed
    <3> QED
      BY <2>2, <3>1 DEF Placed
<1>9. Numbered'
  <2>1. \A e \in Clients : op'[e].dev <= spent.opens /\ op'[e].handle <= spent.opens
    <3>1. \A e \in Clients : op[e].dev <= spent.opens /\ op[e].handle <= spent.opens
      BY DEF Base, Numbered
    <3>2. 0 <= spent.opens
      BY DeviceNumbers
    <3> QED
      BY <1>2, <1>3, <1>4, <3>1, <3>2
  <2>2. \A d \in Devices : d > spent.opens => d # h
    BY <1>2, DeviceNumbers
  <2> QED
    BY <1>1, <1>3, <2>1, <2>2 DEF Base, Numbered
<1>10. OneOpen'
  <2>1. \A e \in Clients : op'[e].fn = "open" => op[e].fn = "open"
    BY <1>3, <1>4
  <2>2. \A d \in Devices : dev'[d].handle \in {"open", "closing"} =>
                             dev[d].handle \in {"open", "closing"}
    BY <1>2, <1>3
  <2> QED
    BY <2>1, <2>2 DEF Base, OneOpen
<1>11. Held'
  <2>1. tr'.handle # 0 => dev'[tr'.handle].handle = "open" /\ ~dev'[tr'.handle].raised
    <3>1. tr.handle # 0 => tr.handle \in Devices \ {h}
      BY <1>2, NumberedDevices
    <3> QED
      BY <1>1, <1>3, <3>1 DEF Base, Held
  <2>2. ASSUME NEW e \in Clients \ {c}, op[e].at \in Teardown
        PROVE  op[e].handle # h /\ dev'[op[e].handle] = dev[op[e].handle]
    BY <1>2, <1>3, <2>2, NumberedDevices
  <2>3. ASSUME NEW e \in Clients, op'[e].at \in Teardown
        PROVE  /\ op'[e].handle # tr'.handle
               /\ ~dev'[op'[e].handle].raised
               /\ dev'[op'[e].handle].handle =
                      IF op'[e].at = "close handle" THEN "closing" ELSE "open"
               /\ \A f \in Clients : op'[f].at \in Teardown /\ op'[f].handle = op'[e].handle
                                     => f = e
    <3>1. CASE e = c
      <4>1. o.at \in Teardown /\ o.handle = h
        BY <1>3, <1>4, <1>5, <2>3, <3>1
      <4> QED
        BY <1>1, <1>2, <1>3, <1>4, <1>5, <2>2, <2>3, <3>1, <4>1
    <3>2. CASE e # c
      <4>1. op'[e] = op[e] /\ op[e].at \in Teardown
        BY <1>3, <2>3, <3>2
      <4>2. /\ op[e].handle # tr.handle /\ ~dev[op[e].handle].raised
            /\ dev[op[e].handle].handle = IF op[e].at = "close handle" THEN "closing" ELSE "open"
            /\ \A f \in Clients : op[f].at \in Teardown /\ op[f].handle = op[e].handle => f = e
        BY <4>1 DEF Base, Held
      <4>3. op'[c].at \in Teardown => op'[c].handle = h
        BY <1>3, <1>4, <1>5
      <4>4. \A f \in Clients : op'[f].at \in Teardown /\ op'[f].handle = op'[e].handle => f = e
        BY <1>3, <2>2, <3>2, <4>1, <4>2, <4>3
      <4> QED
        BY <1>1, <2>2, <3>2, <4>1, <4>2, <4>4
    <3> QED
      BY <3>1, <3>2
  <2>4. \A d \in Devices : dev'[d].raised => dev'[d].handle \in {"open", "closing"}
    BY <1>3, <1>4 DEF Base, Held
  <2> QED
    BY <2>1, <2>3, <2>4 DEF Held
<1>12. Opening'
  <2>1. ASSUME NEW e \in Clients, op'[e].at \in {"opening", "initializing"}
        PROVE  e # c /\ op'[e] = op[e]
    BY <1>3, <1>4, <1>5, <2>1
  <2>2. ASSUME NEW e \in Clients, op'[e].at = "initializing"
        PROVE  /\ Dark(dev'[op[e].dev]) /\ tr.handle \in {0, op[e].dev}
               /\ tr.runtime # op[e].dev
               /\ (dev'[op[e].dev].handle = "open" => tr.handle = op[e].dev)
               /\ \A f \in Clients \ {e} : op'[f].dev # op[e].dev
    <3>1. op[e].dev \in Devices /\ op[e].dev # 0 /\ Dark(dev[op[e].dev])
          /\ tr.handle \in {0, op[e].dev} /\ tr.runtime # op[e].dev
          /\ (dev[op[e].dev].handle = "open" => tr.handle = op[e].dev)
          /\ \A f \in Clients \ {e} : op[f].dev # op[e].dev
      <4>1. op[e].at = "initializing"
        BY <2>1, <2>2
      <4>2. op[e].dev \in Devices /\ op[e].dev # 0
        BY <4>1, NumberedDevices, DeviceNumbers
      <4> QED
        BY <4>1, <4>2 DEF Base, Opening
    <3>2. o.dev # op[e].dev
      BY <1>4, <2>1, <2>2, <3>1
    <3> QED
      BY <1>3, <1>6, <3>1, <3>2
  <2>3. \A e \in Clients : op'[e].at = "opening" => tr.handle = 0
    BY <2>1 DEF Base, Opening
  <2> QED
    BY <1>1, <2>1, <2>2, <2>3 DEF Opening
<1>13. Stale'
  BY <1>1, <1>6, NumberedDevices DEF Base, Stale
<1>14. HandleAccounted'
  <2>1. ASSUME NEW d \in Devices, dev'[d].handle \in {"open", "closing"}
        PROVE  \/ tr'.handle = d \/ dev'[d].raised
               \/ \E e \in Clients : op'[e].handle = d /\ op'[e].at \in Teardown
    <3>1. CASE d = h
      <4>1. dev'[d] = new
        BY <1>3, <3>1
      <4> QED
        BY <1>3, <1>4, <2>1, <3>1, <4>1
    <3>2. CASE d # h
      <4>1. \A e \in Clients : op[e].handle = d => e # c
        BY <3>2 DEF h
      <4> QED
        <5>1. dev'[d] = dev[d]
          BY <1>3, <3>2
        <5>2. \/ tr.handle = d \/ dev[d].raised
              \/ \E e \in Clients : op[e].handle = d /\ op[e].at \in Teardown
          BY <2>1, <5>1 DEF Base, HandleAccounted
        <5>3. \A e \in Clients : op[e].handle = d => op'[e] = op[e]
          BY <1>3, <4>1
        <5> QED
          BY <1>1, <5>1, <5>2, <5>3
    <3> QED
      BY <3>1, <3>2
  <2> QED
    BY <2>1 DEF HandleAccounted
<1> QED
  BY <1>7, <1>8, <1>9, <1>10, <1>11, <1>12, <1>13, <1>14 DEF Base
-----------------------------------------------------------------------------
LEMMA TakenType ==
    ASSUME NEW x \in TransportStates
    PROVE  LET y == [x EXCEPT !.handle = 0, !.runtime = 0, !.up = FALSE]
               z == [x EXCEPT !.handle = 0, !.runtime = 0, !.up = FALSE, !.gone = FALSE,
                              !.link = "down"]
           IN  /\ y \in TransportStates /\ y.handle = 0 /\ y.runtime = 0
               /\ z \in TransportStates /\ z.handle = 0 /\ z.runtime = 0
<1>1. 0 \in 0 .. MaxOpens
  BY TransportAssumption
<1> QED
  BY <1>1 DEF TransportStates

LEMMA CloseLockedKeepsBase ==
    ASSUME Base, NEW c \in Clients, CloseLocked(c)
    PROVE  Base'
<1>1. op[c].at = "lock" /\ op[c].fn = "close" /\ op[c].at \notin Teardown
  BY DEF CloseLocked, Base, Placed, Teardown
<1>2. "close" \in Calls
  BY <1>1 DEF Base, Typed, CallStates
<1>3. Granted(lock, c) \in Locks(Clients) /\ Released(Granted(lock, c)) \in Locks(Clients)
  BY LockTypes DEF CloseLocked, Woken, Base, Typed
<1>4. CASE tr.handle = 0
  <2>1. Quiet
    BY <1>1, <1>3, <1>4, EndsQuiet, StillQuiet DEF CloseLocked, Quiet
  <2> QED
    BY <2>1, QuietKeepsBase
<1>5. CASE tr.handle # 0
  <2>1. tr' \in TransportStates /\ tr'.handle = 0 /\ tr'.runtime = 0
    BY <1>5, TakenType DEF CloseLocked, Base, Typed
  <2> QED
    BY <1>1, <1>2, <1>3, <1>5, <2>1, TakenKeepsBase DEF CloseLocked
<1> QED
  BY <1>4, <1>5

LEMMA OpenFailsKeepsBase ==
    ASSUME Base, NEW c \in Clients, OpenFails(c)
    PROVE  Base'
<1>1. op[c].at \in {"opening", "initializing"} /\ op[c].fn = "open"
  BY DEF OpenFails, Base, Placed
<1>2. "open" \in Calls
  BY <1>1 DEF Base, Typed, CallStates
<1>3. tr' \in TransportStates /\ tr'.handle = 0 /\ tr'.runtime = 0
  BY TakenType DEF OpenFails, CleanupOpenFailure, Base, Typed
<1>4. lock' \in Locks(Clients) /\ spent' = spent
  BY DEF OpenFails, Base, Typed
<1> QED
  BY <1>1, <1>2, <1>3, <1>4, TakenKeepsBase DEF OpenFails, CleanupOpenFailure

LEMMA TornDownKeepsBase ==
    ASSUME Base, NEW c \in Clients, TornDown(c) \/ TeardownRaises(c)
    PROVE  Base'
<1> DEFINE h == op[c].handle
           x == dev[h]
<1>1. op[c].at \in Teardown
  BY DEF TornDown, TeardownRaises, Answers, Teardown
<1>2. h \in Devices /\ h # 0 /\ x \in DeviceStates /\ ~x.raised
      /\ x.handle = IF op[c].at = "close handle" THEN "closing" ELSE "open"
  BY <1>1, NumberedDevices, DeviceNumbers DEF Base, Held, Typed
<1>3. op[c] \in CallStates /\ dev \in [Devices -> DeviceStates] /\ lock \in Locks(Clients)
  BY DEF Base, Typed
<1>4. lock' \in Locks(Clients) /\ UNCHANGED <<tr, spent>>
  BY <1>3, LockTypes DEF TornDown, TeardownRaises, TeardownEnds
<1>5. op[c].at \in Hiding => op[c].dev = h
  BY DEF Base, Placed
<1>6. ASSUME NEW at \in Teardown
      PROVE  LET o == [op[c] EXCEPT !.at = at, !.dev = op[c].dev]
             IN  /\ o \in CallStates /\ o.at = at /\ o.fn = op[c].fn /\ o.dev = op[c].dev
                 /\ o.handle = h
  BY <1>3 DEF CallStates, Places
<1>7. {"unconnect", "power off", "close handle"} \subseteq Teardown /\ Hiding \subseteq Teardown
      /\ {"hide", "unconnect", "power off"} \subseteq Hiding
  BY DEF Teardown, Hiding
<1>8. ASSUME Answers(c, "hide"), dev' = Undiscoverable(dev, op[c].dev),
             Waits(c, "unconnect", op[c].dev)
      PROVE  Base'
  <2> DEFINE new == [x EXCEPT !.discoverable = FALSE]
             o == [op[c] EXCEPT !.at = "unconnect", !.dev = op[c].dev]
  <2>1. op[c].dev = h
    BY <1>5, <1>7, <1>8 DEF Answers
  <2>2. new \in DeviceStates /\ new.handle = x.handle /\ ~new.raised /\ (Dark(x) => Dark(new))
        /\ x.handle = "open"
    BY <1>2, <1>8 DEF DeviceStates, Dark, Answers
  <2>3. dev' = [dev EXCEPT ![h] = new] /\ op' = [op EXCEPT ![c] = o]
    BY <1>3, <1>8, <2>1 DEF Waits, Undiscoverable
  <2>4. o \in CallStates /\ o.at = "unconnect" /\ o.fn = op[c].fn /\ o.dev = op[c].dev
        /\ o.handle = h
    BY <1>6, <1>7
  <2> HIDE DEF new, o
  <2> QED
    BY <1>1, <1>4, <1>7, <2>1, <2>2, <2>3, <2>4, TeardownKeepsBase
<1>9. ASSUME Answers(c, "unconnect"), dev' = [dev EXCEPT ![op[c].dev].connectable = FALSE],
             Waits(c, "power off", op[c].dev)
      PROVE  Base'
  <2> DEFINE new == [x EXCEPT !.connectable = FALSE]
             o == [op[c] EXCEPT !.at = "power off", !.dev = op[c].dev]
  <2>1. op[c].dev = h
    BY <1>5, <1>7, <1>9 DEF Answers
  <2>2. new \in DeviceStates /\ new.handle = x.handle /\ ~new.raised /\ (Dark(x) => Dark(new))
        /\ x.handle = "open"
    BY <1>2, <1>9 DEF DeviceStates, Dark, Answers
  <2>3. dev' = [dev EXCEPT ![h] = new] /\ op' = [op EXCEPT ![c] = o]
    BY <1>3, <1>9, <2>1 DEF Waits
  <2>4. o \in CallStates /\ o.at = "power off" /\ o.fn = op[c].fn /\ o.dev = op[c].dev
        /\ o.handle = h
    BY <1>6, <1>7
  <2> HIDE DEF new, o
  <2> QED
    BY <1>1, <1>4, <1>7, <2>1, <2>2, <2>3, <2>4, TeardownKeepsBase
<1>10. ASSUME Answers(c, "power off"),
              dev' = HandleClosing([dev EXCEPT ![op[c].dev].power = FALSE], "close handle",
                                   op[c].handle),
              Waits(c, "close handle", op[c].dev)
       PROVE  Base'
  <2> DEFINE new == [x EXCEPT !.power = FALSE, !.handle = "closing"]
             o == [op[c] EXCEPT !.at = "close handle", !.dev = op[c].dev]
  <2>1. op[c].dev = h
    BY <1>5, <1>7, <1>10 DEF Answers
  <2>2. new \in DeviceStates /\ new.handle = "closing" /\ ~new.raised /\ (Dark(x) => Dark(new))
    BY <1>2 DEF DeviceStates, Dark
  <2>3. dev' = [[dev EXCEPT ![h].power = FALSE] EXCEPT ![h].handle = "closing"]
    BY <1>10, <2>1 DEF HandleClosing
  <2>4. dev' = [dev EXCEPT ![h] = new] /\ op' = [op EXCEPT ![c] = o]
    <3> DEFINE y == [x EXCEPT !.power = FALSE]
               off == [dev EXCEPT ![h] = y]
    <3>1. dev' = [off EXCEPT ![h] = [y EXCEPT !.handle = "closing"]]
      BY <1>2, <1>3, <2>3
    <3>2. new = [y EXCEPT !.handle = "closing"]
      BY <1>2 DEF DeviceStates
    <3> HIDE DEF new, y
    <3>3. dev' = [dev EXCEPT ![h] = new]
      BY <1>2, <1>3, <3>1, <3>2
    <3> QED
      BY <1>10, <3>3 DEF Waits
  <2>5. o \in CallStates /\ o.at = "close handle" /\ o.fn = op[c].fn /\ o.dev = op[c].dev
        /\ o.handle = h
    BY <1>6, <1>7
  <2>6. o.at \notin Hiding
    BY <2>5 DEF Hiding
  <2> HIDE DEF new, o
  <2> QED
    BY <1>1, <1>4, <1>7, <2>2, <2>4, <2>5, <2>6, TeardownKeepsBase
<1>11. ASSUME op[c].at = "close handle", dev' = [dev EXCEPT ![op[c].handle].handle = "closed"],
              Ends(c)
       PROVE  Base'
  <2> DEFINE new == [x EXCEPT !.handle = "closed"]
  <2>1. new \in DeviceStates /\ new.handle = "closed" /\ ~new.raised /\ (Dark(x) => Dark(new))
    BY <1>2 DEF DeviceStates, Dark
  <2>2. dev' = [dev EXCEPT ![h] = new] /\ op' = [op EXCEPT ![c] = NoCall]
    BY <1>3, <1>11 DEF Ends
  <2> HIDE DEF new
  <2> QED
    BY <1>1, <1>4, <2>1, <2>2, NoCallType, TeardownKeepsBase
<1>12. ASSUME TeardownRaises(c)
       PROVE  Base'
  <2> DEFINE new == [x EXCEPT !.raised = TRUE]
  <2>1. new \in DeviceStates /\ new.handle = x.handle /\ new.raised /\ (Dark(x) => Dark(new))
    BY <1>2 DEF DeviceStates, Dark
  <2>2. dev' = [dev EXCEPT ![h] = new] /\ op' = [op EXCEPT ![c] = NoCall]
    BY <1>2, <1>3, <1>12 DEF TeardownRaises, Ends
  <2>3. new.handle \in {"open", "closing"}
    BY <1>2, <2>1
  <2> HIDE DEF new
  <2> QED
    BY <1>1, <1>4, <2>1, <2>2, <2>3, NoCallType, TeardownKeepsBase
<1> QED
  BY <1>8, <1>9, <1>10, <1>11, <1>12 DEF TornDown

LEMMA BaseInit == Init => Base
<1> SUFFICES ASSUME Init PROVE Base
  OBVIOUS
<1>1. Unopened \in DeviceStates /\ Unopened.handle = "none" /\ ~Unopened.raised
  BY DEF Unopened, DeviceStates
<1>2. lock \in Locks(Clients)
  BY DEF Init, FreeLock, Locks
<1>3. /\ tr \in TransportStates /\ tr.handle = 0 /\ tr.runtime = 0
      /\ spent \in Counts /\ spent.opens = 0
  BY TransportAssumption DEF Init, TransportStates, Counts
<1>4. /\ \A d \in Devices : dev[d] = Unopened
      /\ \A c \in Clients : op[c] = NoCall
      /\ dev \in [Devices -> DeviceStates] /\ op \in [Clients -> CallStates]
  BY <1>1, NoCallType DEF Init
<1>5. "idle" \notin Hiding \cup Commands \cup Teardown
  BY DEF Hiding, Teardown, Commands
<1>6. Typed
  BY <1>2, <1>3, <1>4 DEF Typed
<1>7. Placed
  BY <1>4, <1>5, NoCallType DEF Placed
<1>8. Numbered
  BY <1>3, <1>4, NoCallType DEF Numbered
<1>9. OneOpen /\ Held /\ Opening /\ Stale /\ HandleAccounted
  BY <1>1, <1>3, <1>4, <1>5, NoCallType DEF OneOpen, Held, Opening, Stale, HandleAccounted
<1> QED
  BY <1>6, <1>7, <1>8, <1>9 DEF Base

LEMMA BaseStep == Base /\ [Next]_vars => Base'
<1> SUFFICES ASSUME Base, [Next]_vars PROVE Base'
  OBVIOUS
<1>1. ASSUME DeviceEvent PROVE Base'
  BY <1>1, EventQuiet, QuietKeepsBase
<1>2. ASSUME Call PROVE Base'
  BY <1>2, CallQuiet, QuietKeepsBase
<1>3. ASSUME NEW c \in Clients, GoesOn(c) PROVE Base'
  BY <1>3, GoesOnQuiet, QuietKeepsBase
<1>4. ASSUME Resumption PROVE Base'
  BY <1>3, <1>4, HandleOpenedKeepsBase, InitializedKeepsBase, OpenFailsKeepsBase,
     CloseLockedKeepsBase, TornDownKeepsBase DEF Resumption, GoesOn
<1>5. ASSUME UNCHANGED vars PROVE Base'
  <2>1. Quiet
    BY <1>5, StillQuiet DEF vars, Quiet
  <2> QED
    BY <2>1, QuietKeepsBase
<1> QED
  BY <1>1, <1>2, <1>4, <1>5 DEF Next

(* The transport, its devices and its callers keep their types.            *)
THEOREM TypeCorrect == Spec => []TypeOK
<1>1. Base => TypeOK
  <2> SUFFICES ASSUME Base PROVE TypeOK
    OBVIOUS
  <2>1. \A d \in Devices : /\ DOMAIN dev[d] = DOMAIN Unopened
                           /\ dev[d].handle \in {"none", "open", "closing", "closed"}
                           /\ dev[d].channels \subseteq Channels
    BY DEF Base, Typed, DeviceStates, Unopened
  <2> QED
    BY <2>1 DEF Base, Typed, TypeOK, TransportStates, CallStates, Counts
<1> QED
  BY BaseInit, BaseStep, <1>1, PTL DEF Spec

(* Whatever open() and close() are called while others of them fail, are   *)
(* cancelled or wait, an HCI handle is held by the transport or by the     *)
(* call that closes it until it is closed or its closing raises.           *)
THEOREM HandlesKept == Spec => []HandleAccounted
<1>1. Base => HandleAccounted
  BY DEF Base
<1> QED
  BY BaseInit, BaseStep, <1>1, PTL DEF Spec

-----------------------------------------------------------------------------
(* Nobody is taken a device, and one that starts to be discoverable is     *)
(* powered or marked.                                                      *)
LEMMA ShownKept ==
    ASSUME Base, Shown, tr'.runtime = tr.runtime,
           \A d \in Devices :
               /\ dev[d].raced => dev'[d].raced
               /\ dev[d].raised => dev'[d].raised
               /\ tr.runtime = d /\ dev[d].power => dev'[d].power
               /\ dev'[d].discoverable =>
                      dev[d].discoverable \/ dev'[d].raced \/ (tr.runtime = d /\ dev'[d].power),
           \A c \in Clients : op[c].at = "hide" =>
               op'[c] = op[c] \/ ~dev'[op[c].dev].discoverable \/ dev'[op[c].dev].raised,
           \A c \in Clients :
               \/ op'[c] = op[c]
               \/ op'[c].at \notin {"policy", "connectable", "discoverable"}
               \/ op'[c].dev # tr.runtime
               \/ tr.runtime # 0 /\ dev'[tr.runtime].power
    PROVE  Shown'
<1>1. tr.runtime # 0 => tr.runtime \in Devices
  BY NumberedDevices
<1>2. \A c \in Clients : op[c].at \in {"policy", "connectable", "discoverable"} => op[c].dev # 0
  BY DEF Base, Placed, Commands
<1>3. ASSUME NEW d \in Devices, dev'[d].discoverable
      PROVE  \/ dev'[d].raced \/ dev'[d].raised
             \/ tr'.runtime = d /\ dev'[d].power
             \/ \E c \in Clients : op'[c].at = "hide" /\ op'[c].dev = d
  <2>1. CASE dev[d].discoverable
    <3>1. \/ dev[d].raced \/ dev[d].raised
          \/ tr.runtime = d /\ dev[d].power
          \/ \E c \in Clients : op[c].at = "hide" /\ op[c].dev = d
      BY <2>1 DEF Shown
    <3> QED
      BY <1>3, <3>1
  <2> QED
    BY <1>3, <2>1
<1>4. ASSUME NEW c \in Clients, op'[c].at \in {"policy", "connectable", "discoverable"},
             op'[c].dev = tr'.runtime
      PROVE  dev'[tr'.runtime].power
  <2>1. CASE op'[c] = op[c]
    <3>1. tr.runtime \in Devices /\ dev[tr.runtime].power
      BY <1>1, <1>2, <1>4, <2>1 DEF Shown
    <3> QED
      BY <3>1
  <2> QED
    BY <1>4, <2>1
<1> QED
  BY <1>3, <1>4 DEF Shown

(* Nothing of a device that Shown speaks of.                               *)
SameScan(b, a) ==
    b.raced = a.raced /\ b.raised = a.raised /\ b.power = a.power
    /\ b.discoverable = a.discoverable

LEMMA SameScanKept ==
    ASSUME Base, Shown, tr'.runtime = tr.runtime,
           \A d \in Devices : SameScan(dev'[d], dev[d]),
           \A c \in Clients : op[c].at = "hide" => op'[c] = op[c],
           \A c \in Clients :
               \/ op'[c] = op[c]
               \/ op'[c].at \notin {"policy", "connectable", "discoverable"}
               \/ op'[c].dev # tr.runtime
               \/ tr.runtime # 0 /\ dev[tr.runtime].power
    PROVE  Shown'
<1>1. tr.runtime # 0 => tr.runtime \in Devices
  BY NumberedDevices
<1>2. \A d \in Devices :
          /\ dev[d].raced => dev'[d].raced
          /\ dev[d].raised => dev'[d].raised
          /\ dev[d].power => dev'[d].power
          /\ dev'[d].discoverable => dev[d].discoverable
  BY DEF SameScan
<1>3. tr.runtime # 0 /\ dev[tr.runtime].power => dev'[tr.runtime].power
  BY <1>1, <1>2
<1>4. \A d \in Devices :
          /\ dev[d].raced => dev'[d].raced
          /\ dev[d].raised => dev'[d].raised
          /\ tr.runtime = d /\ dev[d].power => dev'[d].power
          /\ dev'[d].discoverable =>
                 dev[d].discoverable \/ dev'[d].raced \/ (tr.runtime = d /\ dev'[d].power)
  BY <1>2
<1>5. \A c \in Clients : op[c].at = "hide" =>
          op'[c] = op[c] \/ ~dev'[op[c].dev].discoverable \/ dev'[op[c].dev].raised
  OBVIOUS
<1>6. \A c \in Clients :
          \/ op'[c] = op[c]
          \/ op'[c].at \notin {"policy", "connectable", "discoverable"}
          \/ op'[c].dev # tr.runtime
          \/ tr.runtime # 0 /\ dev'[tr.runtime].power
  BY <1>3
<1> QED
  BY <1>4, <1>5, <1>6, ShownKept

LEMMA EventShown ==
    ASSUME Base, Shown, DeviceEvent
    PROVE  Shown'
<1>1. QuietTransport /\ op' = op
  BY EventQuiet DEF Quiet, DeviceEvent, Connection, ChannelOpen, ChannelClose, Disconnection
<1>2. dev \in [Devices -> DeviceStates]
  BY DEF Base, Typed
<1>3. ASSUME NEW d \in Devices
      PROVE  SameScan(dev'[d], dev[d])
  <2>1. PICK b \in Devices :
            \/ Connection(b) \/ Disconnection(b)
            \/ \E ch \in Channels : ChannelOpen(b, ch) \/ ChannelClose(b, ch)
    BY DEF DeviceEvent
  <2>2. dev[d] \in DeviceStates /\ dev[b] \in DeviceStates
    BY <1>2
  <2>3. CASE Connection(b)
    BY <1>2, <2>2, <2>3 DEF Connection, NewConnection, SameScan, DeviceStates
  <2>4. CASE Disconnection(b)
    BY <1>2, <2>2, <2>4 DEF Disconnection, SameScan, DeviceStates
  <2>5. ASSUME NEW ch \in Channels, ChannelOpen(b, ch)
        PROVE  SameScan(dev'[d], dev[d])
    BY <1>2, <2>2, <2>5 DEF ChannelOpen, SameScan, DeviceStates
  <2>6. ASSUME NEW ch \in Channels, ChannelClose(b, ch)
        PROVE  SameScan(dev'[d], dev[d])
    BY <1>2, <2>2, <2>6 DEF ChannelClose, SameScan, DeviceStates
  <2> QED
    BY <2>1, <2>3, <2>4, <2>5, <2>6
<1> QED
  BY <1>1, <1>3, SameScanKept DEF QuietTransport

LEMMA BeginsShown ==
    ASSUME Base, Shown, Call
    PROVE  Shown'
<1>1. PICK c \in Clients : \/ Open(c) \/ StartAdvertising(c) \/ BondedPeerAddress(c)
                           \/ ConnectBondedPeer(c) \/ RequestDisconnect(c) \/ Close(c)
  BY DEF Call
<1>2. tr' = tr /\ dev' = dev /\ op[c].at = "idle"
  BY <1>1 DEF Open, StartAdvertising, BondedPeerAddress, ConnectBondedPeer, RequestDisconnect,
              Close, Begins, Idle
<1>3. op \in [Clients -> CallStates]
  BY DEF Base, Typed
<1>4. ASSUME NEW fn, NEW d, NEW at, Starts(c, fn, at, d),
             \/ at \notin {"policy", "connectable", "discoverable"}
             \/ d = tr.runtime /\ d # 0 /\ dev[d].power
      PROVE  Shown'
  <2>1. op'[c].at = at /\ \A e \in Clients \ {c} : op'[e] = op[e]
    BY <1>3, <1>4 DEF Starts, NoCall
  <2>2. \A d1 \in Devices : SameScan(dev'[d1], dev[d1])
    BY <1>2 DEF SameScan
  <2> QED
    BY <1>2, <1>4, <2>1, <2>2, SameScanKept
<1>5. CASE op' = op
  BY <1>2, <1>5, SameScanKept DEF SameScan
<1>6. ASSUME Open(c) \/ RequestDisconnect(c) \/ Close(c)
      PROVE  Shown'
  BY <1>4, <1>5, <1>6 DEF Open, RequestDisconnect, Close
<1>7. ASSUME StartAdvertising(c)
      PROVE  Shown'
  BY <1>4, <1>5, <1>7 DEF StartAdvertising
<1>8. ASSUME NEW r
      PROVE  Page(r) = "power on" \/ Page(r) = "page" \/ (Page(r) = "policy" /\ dev[r].power)
  <2>1. CASE dev[r].power
    BY <2>1 DEF Page
  <2>2. CASE ~dev[r].power
    BY <2>2 DEF Page
  <2> QED
    BY <2>1, <2>2
<1>9. ASSUME BondedPeerAddress(c) \/ ConnectBondedPeer(c)
      PROVE  Shown'
  BY <1>4, <1>5, <1>8, <1>9 DEF BondedPeerAddress, ConnectBondedPeer
<1> QED
  BY <1>1, <1>6, <1>7, <1>9

LEMMA GoesOnShown ==
    ASSUME Base, Shown, NEW c \in Clients, GoesOn(c)
    PROVE  Shown'
<1> DEFINE d == op[c].dev
           Scans == {"policy", "connectable", "discoverable"}
<1>1. dev \in [Devices -> DeviceStates] /\ op \in [Clients -> CallStates]
  BY DEF Base, Typed
<1>2. op[c].at \in Commands \cup {"opening", "initializing"}
  BY DEF GoesOn, PoweredOn, PolicyConfigured, Connectable, Discoverable, Paged, Secured,
         ControlConnected, InterruptConnected, Opens, Drained, ChannelCut, Raises, OpenCancelled,
         Answers, Commands
<1>3. "hide" \notin Commands \cup {"opening", "initializing"}
  BY DEF Commands
<1>4. op[c].at \in Commands => d \in Devices
  BY NumberedDevices
<1>5. Quiet
  BY GoesOnQuiet
<1>6. tr'.runtime = tr.runtime /\ \A b \in Devices : dev'[b].raised = dev[b].raised
  BY <1>5 DEF Quiet, QuietTransport, QuietDevices
<1>7. ASSUME NEW o, op' = [op EXCEPT ![c] = o]
      PROVE  op'[c] = o /\ \A e \in Clients \ {c} : op'[e] = op[e]
  BY <1>1, <1>7
<1>8. Ends(c) => op'[c].at = "idle" /\ \A e \in Clients \ {c} : op'[e] = op[e]
  BY <1>7, NoCallType DEF Ends
<1>9. ASSUME NEW at, NEW r, Waits(c, at, r)
      PROVE  op'[c].at = at /\ op'[c].dev = r /\ \A e \in Clients \ {c} : op'[e] = op[e]
  BY <1>1, <1>9 DEF Waits, CallStates
<1> HIDE DEF d
<1>10. ASSUME \A b \in Devices : SameScan(dev'[b], dev[b]),
              op' = op \/ \E o : op' = [op EXCEPT ![c] = o],
              \/ op'[c] = op[c] \/ op'[c].at \notin Scans \/ op'[c].dev # tr.runtime
              \/ tr.runtime # 0 /\ dev[tr.runtime].power
       PROVE  Shown'
  <2>1. \A e \in Clients \ {c} : op'[e] = op[e]
    BY <1>7, <1>10
  <2> QED
    BY <1>2, <1>3, <1>6, <1>10, <2>1, SameScanKept
<1>11. Ends(c) \/ (\E at, r : Waits(c, at, r)) => \E o : op' = [op EXCEPT ![c] = o]
  <2>1. ASSUME NEW at, NEW r, Waits(c, at, r) PROVE \E o : op' = [op EXCEPT ![c] = o]
    <3> DEFINE o == [op[c] EXCEPT !.at = at, !.dev = r]
    <3>1. op' = [op EXCEPT ![c] = o]
      BY <1>1, <2>1 DEF Waits
    <3> QED
      BY <3>1
  <2> QED
    BY <2>1 DEF Ends
<1>12. ASSUME PoweredOn(c) PROVE Shown'
  <2>1. /\ d \in Devices /\ dev' = [dev EXCEPT ![d].power = TRUE]
        /\ Ends(c) \/ (\E at : Waits(c, at, d)) \/ Proceeds(c)
    BY <1>2, <1>4, <1>12 DEF PoweredOn, d, Answers, Commands
  <2>2. dev'[d] = [dev[d] EXCEPT !.power = TRUE] /\ \A b \in Devices \ {d} : dev'[b] = dev[b]
    BY <1>1, <2>1
  <2>3. dev'[d].power /\ dev'[d].raced = dev[d].raced /\ dev'[d].discoverable = dev[d].discoverable
    BY <1>1, <2>1, <2>2 DEF DeviceStates
  <2>4. \A e \in Clients \ {c} : op'[e] = op[e]
    BY <1>8, <1>9, <2>1 DEF Proceeds
  <2>5. \/ op'[c].at \notin Scans \/ op'[c].dev = d
    BY <1>8, <1>9, <2>1 DEF Proceeds, d
  <2>6. d # 0
    BY <2>1, DeviceNumbers
  <2> QED
    BY <1>2, <1>3, <1>6, <2>2, <2>3, <2>4, <2>5, <2>6, ShownKept
<1>13. ASSUME PolicyConfigured(c) PROVE Shown'
  <2>1. /\ d \in Devices /\ dev' = [dev EXCEPT ![d].policy = TRUE]
        /\ Proceeds(c) /\ op[c].at = "policy"
    BY <1>2, <1>4, <1>13 DEF PolicyConfigured, d, Answers, Commands
  <2>2. \A b \in Devices : SameScan(dev'[b], dev[b])
    BY <1>1, <2>1 DEF DeviceStates, SameScan
  <2>3. d # 0 /\ (d = tr.runtime => dev[d].power)
    BY <2>1, DeviceNumbers DEF Shown, d
  <2>4. \/ op'[c].at \notin Scans \/ op'[c].dev = d
    BY <1>8, <1>9, <2>1 DEF Proceeds, d
  <2>5. \E o : op' = [op EXCEPT ![c] = o]
    BY <1>11, <2>1 DEF Proceeds
  <2> QED
    BY <1>10, <2>2, <2>3, <2>4, <2>5
<1>14. ASSUME Connectable(c) PROVE Shown'
  <2> DEFINE new == [ScanOn(c, dev[d]) EXCEPT !.connectable = TRUE]
  <2>1. /\ d \in Devices /\ dev' = [dev EXCEPT ![d] = new]
        /\ Waits(c, "discoverable", d) /\ op[c].at = "connectable"
    BY <1>2, <1>4, <1>14 DEF Connectable, d, Answers, Commands
  <2>2. /\ dev[d].raced => new.raced
        /\ new.raised = dev[d].raised /\ new.power = dev[d].power
        /\ new.discoverable = dev[d].discoverable
    BY <1>1, <2>1 DEF ScanOn, DeviceStates
  <2>3. d # 0 /\ (d = tr.runtime => dev[d].power)
    BY <2>1, DeviceNumbers DEF Shown, d
  <2>4. dev'[d] = new /\ \A b \in Devices \ {d} : dev'[b] = dev[b]
    BY <1>1, <2>1
  <2>5. op'[c].dev = d /\ \A e \in Clients \ {c} : op'[e] = op[e]
    BY <1>9, <2>1
  <2> HIDE DEF new
  <2>6. \A b \in Devices :
            /\ dev[b].raced => dev'[b].raced
            /\ dev[b].power => dev'[b].power
            /\ dev'[b].discoverable => dev[b].discoverable
    BY <2>2, <2>4
  <2>7. \/ op'[c].dev # tr.runtime
        \/ tr.runtime # 0 /\ dev'[tr.runtime].power
    BY <2>1, <2>2, <2>3, <2>4, <2>5
  <2> QED
    BY <1>2, <1>3, <1>6, <2>5, <2>6, <2>7, ShownKept
<1>15. ASSUME Discoverable(c) PROVE Shown'
  <2> DEFINE new == [ScanOn(c, dev[d]) EXCEPT !.discoverable = TRUE]
             shown == [dev EXCEPT ![d] = new]
  <2>1. /\ d \in Devices /\ Ends(c) /\ op[c].at = "discoverable"
        /\ dev' = IF tr.runtime = 0 THEN shown
                  ELSE [shown EXCEPT ![tr.runtime].advertised = TRUE]
    BY <1>2, <1>4, <1>15 DEF Discoverable, d, Answers, Commands
  <2>2. /\ dev[d].raced => new.raced
        /\ new.raised = dev[d].raised /\ new.power = dev[d].power
        /\ tr.runtime # d => new.raced
        /\ new \in DeviceStates
    <3>1. dev[d] \in DeviceStates /\ (dev[d].raced \/ tr.runtime # d) \in BOOLEAN
      BY <1>1, <2>1 DEF DeviceStates
    <3>2. new = [[dev[d] EXCEPT !.raced = (dev[d].raced \/ tr.runtime # d)]
                     EXCEPT !.discoverable = TRUE]
      BY DEF ScanOn, d
    <3>3. new.raced = (dev[d].raced \/ tr.runtime # d)
      BY <3>1, <3>2 DEF DeviceStates
    <3>4. new.raised = dev[d].raised /\ new.power = dev[d].power /\ new \in DeviceStates
      BY <3>1, <3>2 DEF DeviceStates
    <3> HIDE DEF new
    <3> QED
      BY <3>3, <3>4
  <2>3. d # 0 /\ (d = tr.runtime => dev[d].power)
    BY <2>1, DeviceNumbers DEF Shown, d
  <2>4. shown[d] = new /\ (\A b \in Devices \ {d} : shown[b] = dev[b])
        /\ shown \in [Devices -> DeviceStates]
    BY <1>1, <2>1, <2>2
  <2>5. op'[c].at = "idle" /\ \A e \in Clients \ {c} : op'[e] = op[e]
    BY <1>8, <2>1
  <2> HIDE DEF new, shown
  <2>6. \A b \in Devices : SameScan(dev'[b], shown[b])
    <3>1. tr.runtime # 0 => tr.runtime \in Devices
      BY NumberedDevices
    <3>2. CASE tr.runtime = 0
      BY <2>1, <3>2 DEF SameScan
    <3>3. CASE tr.runtime # 0
      <4>1. dev' = [shown EXCEPT ![tr.runtime] = [shown[tr.runtime] EXCEPT !.advertised = TRUE]]
        BY <2>1, <2>4, <3>1, <3>3
      <4>2. SameScan([shown[tr.runtime] EXCEPT !.advertised = TRUE], shown[tr.runtime])
        BY <2>4, <3>1, <3>3 DEF SameScan, DeviceStates
      <4>3. \A b \in Devices \ {tr.runtime} : dev'[b] = shown[b]
        BY <2>4, <4>1
      <4>4. dev'[tr.runtime] = [shown[tr.runtime] EXCEPT !.advertised = TRUE]
        BY <2>4, <3>1, <3>3, <4>1
      <4> QED
        BY <4>2, <4>3, <4>4 DEF SameScan
    <3> QED
      BY <3>2, <3>3
  <2>7. \A b \in Devices :
            /\ dev[b].raced => dev'[b].raced
            /\ dev[b].power => dev'[b].power
            /\ dev'[b].discoverable =>
                   dev[b].discoverable \/ dev'[b].raced \/ (tr.runtime = b /\ dev'[b].power)
    BY <2>2, <2>3, <2>4, <2>6 DEF SameScan
  <2> QED
    BY <1>2, <1>3, <1>6, <2>5, <2>7, ShownKept
<1>16. ASSUME NEW ch, Opens(c, ch)
       PROVE  op[c].at = ch /\ \A b \in Devices : SameScan(dev'[b], dev[b])
  <2>1. op[c].at = ch /\ dev' = [dev EXCEPT ![d].channels = @ \cup {ch}, ![d].opened = @ \cup {ch}]
    BY <1>16 DEF Opens, Answers, d
  <2> QED
    BY <1>1, <2>1 DEF SameScan, DeviceStates
<1>17. ASSUME Paged(c) PROVE Shown'
  <2>1. d \in Devices /\ dev' = NewConnection(dev, d) /\ Waits(c, "secure", d)
    BY <1>4, <1>17 DEF Paged, d, Answers, Commands
  <2>2. \A b \in Devices : SameScan(dev'[b], dev[b])
    BY <1>1, <2>1 DEF NewConnection, DeviceStates, SameScan
  <2> QED
    BY <1>9, <1>10, <1>11, <2>1, <2>2
<1>18. ASSUME Secured(c) \/ ControlConnected(c) \/ InterruptConnected(c) \/ Drained(c)
              \/ ChannelCut(c) \/ Raises(c) \/ OpenCancelled(c)
       PROVE  Shown'
  <2>1. \/ Ends(c)
        \/ \E at \in {"control", "interrupt", "cut both", "cut interrupt", "cut control"} :
               \E r : Waits(c, at, r)
    BY <1>18 DEF Secured, ControlConnected, InterruptConnected, Drained, ChannelCut, Raises,
                 OpenCancelled
  <2>2. \A b \in Devices : SameScan(dev'[b], dev[b])
    <3>1. dev' = dev \/ Opens(c, "control") \/ Opens(c, "interrupt")
      BY <1>18 DEF Secured, ControlConnected, InterruptConnected, Drained, ChannelCut, Raises,
                   OpenCancelled
    <3> QED
      BY <1>16, <3>1 DEF SameScan
  <2>3. op'[c].at \notin Scans
    BY <1>8, <1>9, <2>1
  <2> QED
    BY <1>10, <1>11, <2>1, <2>2, <2>3
<1> QED
  BY <1>12, <1>13, <1>14, <1>15, <1>17, <1>18 DEF GoesOn

(* The handle is taken from the transport, which is left without a device. *)
LEMMA TakenShown ==
    ASSUME Base, Shown, Base', NEW c \in Clients, NEW fn, op[c].at \notin Teardown,
           TearsDown(c, fn, tr.runtime, tr.handle), tr'.runtime = 0
    PROVE  Shown'
<1> DEFINE h == tr.handle
           r == tr.runtime
<1>1. dev \in [Devices -> DeviceStates] /\ op \in [Clients -> CallStates]
  BY DEF Base, Typed
<1>2. \A e \in Clients : op'[e].at \in {"policy", "connectable", "discoverable"} => op'[e].dev # 0
  BY DEF Base, Placed, Commands
<1>3. \A e \in Clients \ {c} : op'[e] = op[e]
  BY <1>1, TearsDownCases
<1>4. op[c].at # "hide"
  BY DEF Teardown
<1>5. \A d \in Devices : SameScan(dev'[d], dev[d])
  <2>1. dev' = dev \/ dev' = [dev EXCEPT ![h].handle = "closing"]
    BY TearsDownCases
  <2>2. CASE dev' = [dev EXCEPT ![h].handle = "closing"]
    BY <1>1, <2>2 DEF SameScan, DeviceStates
  <2> QED
    BY <2>1, <2>2 DEF SameScan
<1>6. r # 0 /\ dev[r].power => op'[c].at = "hide" /\ op'[c].dev = r
  <2>1. ASSUME r # 0, dev[r].power
        PROVE  op' = [op EXCEPT ![c] = [fn |-> fn, at |-> "hide", dev |-> r, handle |-> r]]
    <3>1. r = h
      BY <2>1 DEF Base, Stale, Dark
    <3> QED
      BY <2>1, <3>1 DEF TearsDown, FirstOfTeardown
  <2> QED
    BY <1>1, <2>1
<1>7. ASSUME NEW d \in Devices, dev'[d].discoverable
      PROVE  \/ dev'[d].raced \/ dev'[d].raised
             \/ \E e \in Clients : op'[e].at = "hide" /\ op'[e].dev = d
  <2>1. dev[d].discoverable /\ (dev[d].raced => dev'[d].raced) /\ (dev[d].raised => dev'[d].raised)
    BY <1>5, <1>7 DEF SameScan
  <2>2. \/ dev[d].raced \/ dev[d].raised \/ (r = d /\ dev[d].power)
        \/ \E e \in Clients : op[e].at = "hide" /\ op[e].dev = d
    BY <2>1 DEF Shown
  <2>3. d # 0
    BY DeviceNumbers
  <2> HIDE DEF h, r
  <2> QED
    BY <1>3, <1>4, <1>6, <2>1, <2>2, <2>3
<1> QED
  BY <1>2, <1>7 DEF Shown

LEMMA HandleOpenedShown ==
    ASSUME Base, Shown, NEW c \in Clients, HandleOpened(c)
    PROVE  Shown'
<1>1. dev \in [Devices -> DeviceStates] /\ op \in [Clients -> CallStates] /\ tr \in TransportStates
  BY DEF Base, Typed
<1>2. \A d \in Devices : SameScan(dev'[d], dev[d])
  BY <1>1 DEF HandleOpened, SameScan, DeviceStates
<1>3. /\ op[c].at = "opening" /\ op'[c].at = "initializing"
      /\ \A e \in Clients \ {c} : op'[e] = op[e]
  BY <1>1 DEF HandleOpened, Waits, CallStates
<1>4. tr'.runtime = tr.runtime
  BY <1>1 DEF HandleOpened, TransportStates
<1> QED
  BY <1>2, <1>3, <1>4, SameScanKept

(* A device that a close() left behind in the midst of open() is dark.     *)
LEMMA InitializedShown ==
    ASSUME Base, Shown, NEW c \in Clients, Initialized(c)
    PROVE  Shown'
<1> DEFINE d == op[c].dev
<1>1. op \in [Clients -> CallStates] /\ tr \in TransportStates
  BY DEF Base, Typed
<1>2. /\ op[c].at = "initializing" /\ dev' = dev /\ tr'.runtime = d
      /\ op'[c].at = "idle" /\ \A e \in Clients \ {c} : op'[e] = op[e]
  BY <1>1, NoCallType DEF Initialized, Ends, TransportStates
<1>3. /\ tr.handle \in {0, d} /\ tr.runtime # d
      /\ \A e \in Clients \ {c} : op[e].dev # d
  BY <1>2 DEF Base, Opening
<1>4. \A b \in Devices : tr.runtime = b => ~dev[b].power
  <2>1. ASSUME NEW b \in Devices, tr.runtime = b PROVE ~dev[b].power
    <3>1. b # 0
      BY DeviceNumbers
    <3> QED
      BY <1>3, <2>1, <3>1 DEF Base, Stale, Dark
  <2> QED
    BY <2>1
<1> HIDE DEF d
<1>5. ASSUME NEW b \in Devices, dev[b].discoverable
      PROVE  \/ dev[b].raced \/ dev[b].raised
             \/ \E e \in Clients : op'[e].at = "hide" /\ op'[e].dev = b
  <2>1. \/ dev[b].raced \/ dev[b].raised \/ (tr.runtime = b /\ dev[b].power)
        \/ \E e \in Clients : op[e].at = "hide" /\ op[e].dev = b
    BY <1>5 DEF Shown
  <2> QED
    BY <1>2, <1>4, <2>1
<1>6. \A e \in Clients :
          op'[e].at \in {"policy", "connectable", "discoverable"} => op'[e].dev # d
  BY <1>2, <1>3
<1> QED
  BY <1>2, <1>5, <1>6 DEF Shown

LEMMA TornDownShown ==
    ASSUME Base, Shown, NEW c \in Clients, TornDown(c) \/ TeardownRaises(c)
    PROVE  Shown'
<1> DEFINE h == op[c].handle
<1>1. dev \in [Devices -> DeviceStates] /\ op \in [Clients -> CallStates]
  BY DEF Base, Typed
<1>2. op[c].at \in Teardown /\ tr' = tr
  BY DEF TornDown, TeardownRaises, Answers, Teardown
<1>3. h \in Devices /\ h # 0 /\ (op[c].at \in Hiding => op[c].dev = h)
  BY <1>2, NumberedDevices, DeviceNumbers DEF Base, Placed
<1>4. "hide" \in Hiding
  BY DEF Hiding
<1>5. ASSUME NEW at, Ends(c) \/ Waits(c, at, op[c].dev), at # "hide",
             at \notin {"policy", "connectable", "discoverable"}
      PROVE  /\ op'[c].at \notin {"policy", "connectable", "discoverable", "hide"}
             /\ \A e \in Clients \ {c} : op'[e] = op[e]
  <2>1. Ends(c) => op'[c] = NoCall /\ \A e \in Clients \ {c} : op'[e] = op[e]
    BY <1>1 DEF Ends
  <2>2. Waits(c, at, op[c].dev) => op'[c].at = at /\ \A e \in Clients \ {c} : op'[e] = op[e]
    BY <1>1 DEF Waits, CallStates
  <2> QED
    BY <1>5, <2>1, <2>2, NoCallType
<1> HIDE DEF h
<1>6. ASSUME Answers(c, "hide"), dev' = Undiscoverable(dev, op[c].dev),
             Waits(c, "unconnect", op[c].dev)
      PROVE  Shown'
  <2>1. op[c].dev = h
    BY <1>3, <1>4, <1>6 DEF Answers
  <2>2. \A d \in Devices : /\ dev[d].raced => dev'[d].raced
                           /\ dev[d].raised => dev'[d].raised
                           /\ dev[d].power => dev'[d].power
                           /\ dev'[d].discoverable => dev[d].discoverable
    BY <1>1, <1>6 DEF Undiscoverable, DeviceStates
  <2>3. ~dev'[h].discoverable
    BY <1>1, <1>3, <1>6, <2>1 DEF Undiscoverable, DeviceStates
  <2>4. op'[c].at = "unconnect" /\ \A e \in Clients \ {c} : op'[e] = op[e]
    BY <1>1, <1>6 DEF Waits, CallStates
  <2>5. \A d \in Devices :
            /\ dev[d].raced => dev'[d].raced
            /\ dev[d].raised => dev'[d].raised
            /\ tr.runtime = d /\ dev[d].power => dev'[d].power
            /\ dev'[d].discoverable =>
                   dev[d].discoverable \/ dev'[d].raced \/ (tr.runtime = d /\ dev'[d].power)
    BY <2>2
  <2> QED
    BY <1>2, <2>1, <2>3, <2>4, <2>5, ShownKept
<1>7. ASSUME Answers(c, "unconnect"), dev' = [dev EXCEPT ![op[c].dev].connectable = FALSE],
             Waits(c, "power off", op[c].dev)
      PROVE  Shown'
  <2>1. \A d \in Devices : SameScan(dev'[d], dev[d])
    BY <1>1, <1>7 DEF SameScan, DeviceStates
  <2>2. /\ op'[c].at = "power off" /\ op[c].at = "unconnect"
        /\ \A e \in Clients \ {c} : op'[e] = op[e]
    BY <1>1, <1>7 DEF Waits, Answers, CallStates
  <2> QED
    BY <1>2, <2>1, <2>2, SameScanKept
<1>8. ASSUME Answers(c, "power off"),
             dev' = HandleClosing([dev EXCEPT ![op[c].dev].power = FALSE], "close handle",
                                  op[c].handle),
             Waits(c, "close handle", op[c].dev)
      PROVE  Shown'
  <2>1. op[c].dev = h /\ dev[h].handle = "open"
    BY <1>3, <1>8 DEF Answers, Hiding
  <2>2. dev' = [[dev EXCEPT ![h].power = FALSE] EXCEPT ![h].handle = "closing"]
    BY <1>8, <2>1 DEF HandleClosing, h
  <2>3. \A d \in Devices : /\ dev[d].raced => dev'[d].raced
                           /\ dev[d].raised => dev'[d].raised
                           /\ dev'[d].discoverable => dev[d].discoverable
                           /\ d # h /\ dev[d].power => dev'[d].power
    BY <1>1, <2>2 DEF DeviceStates
  <2>4. tr.runtime # h
    <3>1. h # tr.handle
      BY <1>2 DEF Base, Held, h
    <3> QED
      BY <1>3, <2>1, <3>1 DEF Base, Stale
  <2>5. /\ op'[c].at = "close handle" /\ op[c].at = "power off"
        /\ \A e \in Clients \ {c} : op'[e] = op[e]
    BY <1>1, <1>8 DEF Waits, Answers, CallStates
  <2>6. \A d \in Devices :
            /\ dev[d].raced => dev'[d].raced
            /\ dev[d].raised => dev'[d].raised
            /\ tr.runtime = d /\ dev[d].power => dev'[d].power
            /\ dev'[d].discoverable =>
                   dev[d].discoverable \/ dev'[d].raced \/ (tr.runtime = d /\ dev'[d].power)
    BY <2>3, <2>4
  <2> QED
    BY <1>2, <2>5, <2>6, ShownKept
<1>9. ASSUME op[c].at = "close handle", dev' = [dev EXCEPT ![op[c].handle].handle = "closed"],
             Ends(c)
      PROVE  Shown'
  <2>1. \A d \in Devices : SameScan(dev'[d], dev[d])
    BY <1>1, <1>9 DEF SameScan, DeviceStates
  <2>2. op'[c].at = "idle" /\ \A e \in Clients \ {c} : op'[e] = op[e]
    BY <1>1, <1>9, NoCallType DEF Ends
  <2> QED
    BY <1>2, <1>9, <2>1, <2>2, SameScanKept
<1>10. ASSUME TeardownRaises(c)
       PROVE  Shown'
  <2>1. dev' = [dev EXCEPT ![h].raised = TRUE] /\ op' = [op EXCEPT ![c] = NoCall]
    BY <1>3, <1>10 DEF TeardownRaises, Ends, h
  <2>2. /\ dev'[h].raised
        /\ \A d \in Devices : /\ dev'[d].raced = dev[d].raced /\ dev'[d].power = dev[d].power
                              /\ dev'[d].discoverable = dev[d].discoverable
                              /\ dev[d].raised => dev'[d].raised
    BY <1>1, <1>3, <2>1 DEF DeviceStates
  <2>3. op'[c].at = "idle" /\ \A e \in Clients \ {c} : op'[e] = op[e]
    BY <1>1, <2>1, NoCallType
  <2>4. op[c].at = "hide" => op[c].dev = h
    BY <1>3, <1>4
  <2>5. \A d \in Devices :
            /\ dev[d].raced => dev'[d].raced
            /\ dev[d].raised => dev'[d].raised
            /\ tr.runtime = d /\ dev[d].power => dev'[d].power
            /\ dev'[d].discoverable =>
                   dev[d].discoverable \/ dev'[d].raced \/ (tr.runtime = d /\ dev'[d].power)
    BY <2>2
  <2> QED
    BY <1>2, <2>2, <2>3, <2>4, <2>5, ShownKept
<1> QED
  BY <1>6, <1>7, <1>8, <1>9, <1>10 DEF TornDown

LEMMA CloseLockedShown ==
    ASSUME Base, Shown, NEW c \in Clients, CloseLocked(c)
    PROVE  Shown'
<1>1. op \in [Clients -> CallStates] /\ tr \in TransportStates
  BY DEF Base, Typed
<1>2. op[c].at = "lock" /\ op[c].at \notin Teardown
  BY DEF CloseLocked, Teardown
<1>3. CASE tr.handle = 0
  <2>1. /\ tr' = tr /\ dev' = dev /\ op'[c].at = "idle"
        /\ \A e \in Clients \ {c} : op'[e] = op[e]
    BY <1>1, <1>3, NoCallType DEF CloseLocked, Ends
  <2> QED
    BY <1>2, <2>1, SameScanKept DEF SameScan
<1>4. CASE tr.handle # 0
  <2>1. tr'.runtime = 0 /\ TearsDown(c, "close", tr.runtime, tr.handle)
    BY <1>1, <1>4, TakenType DEF CloseLocked
  <2> QED
    BY <1>2, <2>1, CloseLockedKeepsBase, TakenShown
<1> QED
  BY <1>3, <1>4

LEMMA ShownStep == Base /\ Shown /\ [Next]_vars => Shown'
<1> SUFFICES ASSUME Base, Shown, [Next]_vars PROVE Shown'
  OBVIOUS
<1>1. ASSUME NEW c \in Clients, OpenFails(c) PROVE Shown'
  <2>1. op[c].at \notin Teardown /\ TearsDown(c, "open", tr.runtime, tr.handle)
    BY <1>1 DEF OpenFails, CleanupOpenFailure, Teardown
  <2>2. tr'.runtime = 0
    BY <1>1, TakenType DEF OpenFails, CleanupOpenFailure, Base, Typed
  <2> QED
    BY <1>1, <2>1, <2>2, OpenFailsKeepsBase, TakenShown
<1>2. ASSUME Resumption PROVE Shown'
  <2>1. PICK c \in Clients :
            \/ GoesOn(c) \/ HandleOpened(c) \/ Initialized(c) \/ OpenFails(c)
            \/ CloseLocked(c) \/ TornDown(c) \/ TeardownRaises(c)
    BY <1>2 DEF Resumption, GoesOn
  <2> QED
    BY <1>1, <2>1, GoesOnShown, HandleOpenedShown, InitializedShown, CloseLockedShown,
       TornDownShown
<1>3. ASSUME UNCHANGED vars PROVE Shown'
  BY <1>3 DEF vars, Shown
<1> QED
  BY <1>2, <1>3, EventShown, BeginsShown DEF Next

(* What close() or a failed open() has closed is not discoverable, but     *)
(* for a call to start_advertising() that went on meanwhile.               *)
THEOREM ClosedHidden == Spec => []ClosedIsInvisible
<1>1. Init => Shown
  <2> SUFFICES ASSUME Init PROVE Shown
    OBVIOUS
  <2>1. \A d \in Devices : ~dev[d].discoverable
    BY DEF Init, Unopened
  <2>2. \A c \in Clients : op[c].at = "idle"
    BY NoCallType DEF Init
  <2> QED
    BY <2>1, <2>2 DEF Shown
<1>2. Base /\ Shown => ClosedIsInvisible
  <2> SUFFICES ASSUME Base, Shown, NEW d \in Devices, dev[d].handle = "closed",
                      dev[d].discoverable
               PROVE  dev[d].raced
    BY DEF ClosedIsInvisible
  <2>1. ~dev[d].raised
    BY DEF Base, Held
  <2>2. ~(tr.runtime = d /\ dev[d].power)
    <3>1. tr.handle # d \/ d = 0
      BY DEF Base, Held
    <3>2. d # 0
      BY DeviceNumbers
    <3> QED
      BY <3>1, <3>2 DEF Base, Stale, Dark
  <2>3. ASSUME NEW c \in Clients, op[c].at = "hide" PROVE op[c].dev # d
    <3>1. op[c].dev = op[c].handle /\ dev[op[c].handle].handle = "open"
      BY <2>3 DEF Base, Placed, Held, Hiding, Teardown
    <3> QED
      BY <3>1
  <2> QED
    BY <2>1, <2>2, <2>3 DEF Shown
<1> QED
  BY BaseInit, BaseStep, ShownStep, <1>1, <1>2, PTL DEF Spec

-----------------------------------------------------------------------------
(* The callbacks of the controller alternate.                              *)
Told ==
    \/ tr'.link = tr.link /\ tr'.call = tr.call
    \/ tr.link = "down" /\ tr'.link = "up" /\ tr'.call = 1 - tr.call
    \/ tr'.link = "down" /\ tr'.call \in {tr.call, 1 - tr.call}

LEMMA ToldIsPromise == Told => [Promise!Next]_<<tr.link, tr.call>>
  BY DEF Told, Promise!Next, Promise!Connected, Promise!Disconnected, Promise!Closed

LEMMA Fields ==
    ASSUME NEW x \in TransportStates
    PROVE  LET y == NotifyGoneOnce(x)
               z == [x EXCEPT !.up = FALSE]
               a == AfterConnection(x)
           IN  /\ y \in TransportStates /\ y.handle = x.handle /\ y.runtime = x.runtime
               /\ y.up = x.up /\ y.gone
               /\ x.gone => y = x
               /\ ~x.gone => y.link = "down" /\ y.call = 1 - x.call
               /\ z \in TransportStates /\ z.handle = x.handle /\ z.runtime = x.runtime
               /\ z.gone = x.gone /\ z.link = x.link /\ z.call = x.call /\ ~z.up
               /\ a.handle = x.handle /\ a.runtime = x.runtime /\ ~a.gone /\ a.link = x.link
               /\ a.call = x.call
<1>1. NotifyGoneOnce(x) \in TransportStates
  BY CallbackTypes
<1>2. LET y == NotifyGoneOnce(x)
      IN  /\ y.handle = x.handle /\ y.runtime = x.runtime
          /\ y.up = x.up /\ y.gone
          /\ x.gone => y = x
          /\ ~x.gone => y.link = "down" /\ y.call = 1 - x.call
  <2> DEFINE w == [x EXCEPT !.gone = TRUE, !.link = "down", !.call = 1 - @]
  <2>1. /\ w.handle = x.handle /\ w.runtime = x.runtime /\ w.up = x.up /\ w.gone
        /\ w.link = "down" /\ w.call = 1 - x.call
    BY DEF TransportStates
  <2> HIDE DEF w
  <2>2. NotifyGoneOnce(x) = IF x.gone THEN x ELSE w
    BY DEF NotifyGoneOnce, w
  <2> QED
    BY <2>1, <2>2
<1>3. LET z == [x EXCEPT !.up = FALSE]
      IN  /\ z \in TransportStates /\ z.handle = x.handle /\ z.runtime = x.runtime
          /\ z.gone = x.gone /\ z.link = x.link /\ z.call = x.call /\ ~z.up
  BY DEF TransportStates
<1>4. LET a == AfterConnection(x)
      IN  /\ a.handle = x.handle /\ a.runtime = x.runtime /\ ~a.gone /\ a.link = x.link
          /\ a.call = x.call
  BY DEF AfterConnection, TransportStates
<1> QED
  BY <1>1, <1>2, <1>3, <1>4

(* The connection and the channels of a device, which may have lost its    *)
(* handle.                                                                 *)
SameLink(b, a) ==
    /\ b.acl = a.acl /\ b.channels = a.channels /\ b.opened = a.opened
    /\ b.handle = "open" => a.handle = "open"

LEMMA LinkedKept ==
    ASSUME Base, Linked,
           \A d \in Devices : SameLink(dev'[d], dev[d]),
           tr'.gone => tr.gone,
           \/ tr'.link # "up"
           \/ /\ tr'.link = tr.link /\ tr'.handle = tr.handle /\ tr'.runtime = tr.runtime
              /\ tr'.gone = tr.gone /\ tr'.up = tr.up
    PROVE  Linked'
<1>1. tr.handle # 0 => tr.handle \in Devices
  BY NumberedDevices
<1>2. \A d \in Devices : dev'[d].channels \subseteq dev'[d].opened
  BY DEF SameLink, Linked
<1>3. \A d \in Devices : dev'[d].handle = "open" /\ dev'[d].acl /\ tr'.gone =>
                             dev'[d].opened \ dev'[d].channels # {}
  BY DEF SameLink, Linked, Lost
<1>4. ASSUME tr'.link = "up"
      PROVE  /\ tr'.handle # 0 /\ tr'.runtime = tr'.handle
             /\ dev'[tr'.handle].acl /\ dev'[tr'.handle].channels # {}
             /\ ~tr'.gone
             /\ tr'.up \/ dev'[tr'.handle].opened \ dev'[tr'.handle].channels # {}
  <2>1. /\ tr.handle # 0 /\ tr.runtime = tr.handle
        /\ dev[tr.handle].acl /\ dev[tr.handle].channels # {}
        /\ ~tr.gone
        /\ tr.up \/ dev[tr.handle].opened \ dev[tr.handle].channels # {}
    BY <1>4 DEF Linked, Lost
  <2>2. SameLink(dev'[tr.handle], dev[tr.handle])
    BY <1>1, <2>1
  <2> QED
    BY <1>4, <2>1, <2>2 DEF SameLink
<1> QED
  BY <1>2, <1>3, <1>4 DEF Linked, Lost

(* The device of a link that is up is the only open one.                   *)
LEMMA LinkedDevice ==
    ASSUME Base, NEW d \in Devices, dev[d].handle = "open"
    PROVE  /\ \A b \in Devices : dev[b].handle = "open" => b = d
           /\ tr.handle # 0 => tr.handle = d
<1>1. tr.handle # 0 => tr.handle \in Devices /\ dev[tr.handle].handle = "open"
  BY NumberedDevices DEF Base, Held
<1> QED
  BY <1>1 DEF Base, OneOpen

(* A new connection of a device that had none.                             *)
LEMMA ConnectionLinked ==
    ASSUME Base, Linked, NEW d \in Devices, dev[d].handle = "open", ~dev[d].acl,
           dev' = NewConnection(dev, d), tr' = AfterConnection(tr)
    PROVE  Linked' /\ Told
<1>1. tr \in TransportStates /\ dev \in [Devices -> DeviceStates]
  BY DEF Base, Typed
<1>2. tr.link # "up"
  BY LinkedDevice DEF Linked
<1>3. tr'.link # "up" /\ ~tr'.gone /\ Told
  BY <1>1, <1>2, Fields DEF Told
<1>4. \A b \in Devices : dev'[b].channels \subseteq dev'[b].opened
  BY <1>1 DEF NewConnection, DeviceStates, Linked
<1> QED
  BY <1>3, <1>4 DEF Linked

(* A channel opens that was not open on this connection, or is open.       *)
LEMMA ChannelOpenLinked ==
    ASSUME Base, Base', Linked, NEW d \in Devices, NEW ch \in Channels, dev[d].handle = "open",
           dev[d].acl, ch \in dev[d].channels \/ ch \notin dev[d].opened,
           dev' = [dev EXCEPT ![d].channels = @ \cup {ch}, ![d].opened = @ \cup {ch}],
           tr' = tr \/ tr' = NotifyConnected(tr, dev')
    PROVE  Linked' /\ Told
<1>1. /\ tr \in TransportStates /\ dev \in [Devices -> DeviceStates]
      /\ dev[d].opened \subseteq Channels /\ dev[d].channels \subseteq dev[d].opened
  BY DEF Base, Typed, DeviceStates, Linked
<1>2. /\ dev'[d].channels = dev[d].channels \cup {ch} /\ dev'[d].opened = dev[d].opened \cup {ch}
      /\ dev'[d].acl = dev[d].acl /\ dev'[d].handle = dev[d].handle
      /\ \A b \in Devices \ {d} : dev'[b] = dev[b]
  BY <1>1 DEF DeviceStates
<1>3. dev'[d].opened \ dev'[d].channels = dev[d].opened \ dev[d].channels
  BY <1>1, <1>2
<1>4. \A b \in Devices : dev'[b].channels \subseteq dev'[b].opened
  BY <1>1, <1>2 DEF Linked
<1>5. \A b \in Devices : /\ dev'[b].handle = dev[b].handle /\ dev'[b].acl = dev[b].acl
                         /\ dev'[b].opened \ dev'[b].channels = dev[b].opened \ dev[b].channels
  BY <1>2, <1>3
<1>6. CASE tr' = tr
  <2>1. \A b \in Devices : dev'[b].handle = "open" /\ dev'[b].acl /\ tr'.gone =>
                               dev'[b].opened \ dev'[b].channels # {}
    BY <1>5, <1>6 DEF Linked, Lost
  <2>2. ASSUME tr.link = "up"
        PROVE  /\ tr.handle # 0 /\ tr.runtime = tr.handle
               /\ dev'[tr.handle].acl /\ dev'[tr.handle].channels # {}
               /\ ~tr.gone
               /\ tr.up \/ dev'[tr.handle].opened \ dev'[tr.handle].channels # {}
    <3>1. tr.handle = d
      BY <2>2, LinkedDevice DEF Linked
    <3> QED
      BY <1>2, <1>3, <2>2, <3>1 DEF Linked, Lost
  <2> QED
    BY <1>4, <1>6, <2>1, <2>2 DEF Linked, Lost, Told
<1>7. CASE tr.runtime # 0 /\ ~tr.up /\ dev'[tr.runtime].channels = Channels
           /\ tr' = [tr EXCEPT !.up = TRUE, !.link = "up", !.call = 1 - @]
  <2>1. /\ tr'.up /\ tr'.link = "up" /\ tr'.call = 1 - tr.call /\ tr'.handle = tr.handle
        /\ tr'.runtime = tr.runtime /\ tr'.gone = tr.gone
    BY <1>1, <1>7 DEF TransportStates
  <2>2. tr.runtime = tr.handle
    <3>1. tr'.runtime # 0 /\ dev'[tr'.runtime].channels # {}
      BY <1>7, <2>1 DEF Channels
    <3> QED
      BY <2>1, <3>1 DEF Base, Stale, Dark
  <2>3. tr.handle = d
    BY <1>7, <2>2, LinkedDevice
  <2>4. dev[d].opened \ dev[d].channels = {}
    BY <1>1, <1>2, <1>3, <1>7, <2>2, <2>3
  <2>5. ~tr.gone
    BY <2>4 DEF Linked, Lost
  <2>6. tr.link = "down"
    <3>1. tr.link # "up"
      BY <1>7, <2>3, <2>4 DEF Linked, Lost
    <3> QED
      BY <1>1, <3>1 DEF TransportStates
  <2>7. dev'[d].channels # {}
    BY <1>2
  <2> QED
    BY <1>2, <1>4, <1>7, <2>1, <2>2, <2>3, <2>5, <2>6, <2>7 DEF Linked, Told
<1> QED
  BY <1>6, <1>7 DEF NotifyConnected

LEMMA ChannelCloseLinked ==
    ASSUME Base, Linked, NEW d \in Devices, NEW ch \in Channels, ChannelClose(d, ch)
    PROVE  Linked' /\ Told
<1> DEFINE x == [tr EXCEPT !.up = FALSE]
<1>1. /\ tr \in TransportStates /\ dev \in [Devices -> DeviceStates]
      /\ dev[d].handle = "open" /\ ch \in dev[d].channels
      /\ dev[d].channels \subseteq dev[d].opened
  BY DEF Base, Typed, Linked, ChannelClose
<1>2. /\ dev'[d].channels = dev[d].channels \ {ch} /\ dev'[d].opened = dev[d].opened
      /\ dev'[d].acl = dev[d].acl /\ dev'[d].handle = dev[d].handle
      /\ \A b \in Devices \ {d} : dev'[b] = dev[b]
  BY <1>1 DEF ChannelClose, DeviceStates
<1>3. dev'[d].opened \ dev'[d].channels # {}
  BY <1>1, <1>2
<1>4. \A b \in Devices : dev'[b].channels \subseteq dev'[b].opened
  BY <1>1, <1>2 DEF Linked
<1>5. \A b \in Devices : dev'[b].handle = "open" => b = d
  BY <1>1, <1>2, LinkedDevice
<1>6. /\ x \in TransportStates /\ x.handle = tr.handle /\ x.runtime = tr.runtime
      /\ x.gone = tr.gone /\ x.link = tr.link /\ x.call = tr.call
  BY <1>1, Fields
<1>7. tr.link = "up" => tr.handle = d /\ tr.runtime = d /\ dev[d].acl /\ ~tr.gone
  BY <1>1, LinkedDevice DEF Linked
<1>8. tr' = NotifyIfClosed(x, dev')
  BY DEF ChannelClose, AfterChannelClose
<1> HIDE DEF x
<1>9. CASE tr' = x /\ (tr.link = "up" => dev'[tr.runtime].channels # {})
  <2>1. ASSUME tr.link = "up"
        PROVE  tr.handle # 0 /\ dev'[d].channels # {}
    BY <1>7, <1>9, <2>1, DeviceNumbers
  <2> QED
    BY <1>2, <1>3, <1>4, <1>5, <1>6, <1>7, <1>9, <2>1 DEF Linked, Lost, Told
<1>10. CASE tr' = NotifyGoneOnce(x)
  <2>1. /\ tr'.handle = tr.handle /\ tr'.runtime = tr.runtime /\ tr'.gone
        /\ tr.gone => tr'.link = tr.link /\ tr'.call = tr.call
        /\ ~tr.gone => tr'.link = "down" /\ tr'.call = 1 - tr.call
    <3>1. LET y == NotifyGoneOnce(x)
          IN  /\ y.handle = x.handle /\ y.runtime = x.runtime /\ y.gone
              /\ x.gone => y = x
              /\ ~x.gone => y.link = "down" /\ y.call = 1 - x.call
      BY <1>6, Fields
    <3> QED
      BY <1>6, <1>10, <3>1
  <2>2. tr'.link # "up"
    BY <1>7, <2>1
  <2> QED
    BY <1>3, <1>4, <1>5, <2>1, <2>2 DEF Linked, Lost, Told
<1>11. tr.runtime = 0 => tr.link # "up"
  BY <1>7, DeviceNumbers
<1> QED
  BY <1>6, <1>8, <1>9, <1>10, <1>11 DEF NotifyIfClosed

LEMMA DisconnectionLinked ==
    ASSUME Base, Linked, NEW d \in Devices, Disconnection(d)
    PROVE  Linked' /\ Told
<1> DEFINE x == IF dev[d].channels = {} THEN tr ELSE AfterChannelClose(tr, dev')
           z == [tr EXCEPT !.up = FALSE]
           w == [x EXCEPT !.up = FALSE]
<1>1. /\ tr \in TransportStates /\ dev \in [Devices -> DeviceStates]
      /\ dev[d].handle = "open"
  BY DEF Base, Typed, Disconnection
<1>2. /\ dev'[d].channels = {} /\ dev'[d].opened = dev[d].opened
      /\ ~dev'[d].acl /\ dev'[d].handle = "open"
      /\ \A b \in Devices \ {d} : dev'[b] = dev[b]
  BY <1>1 DEF Disconnection, DeviceStates
<1>3. \A b \in Devices : dev'[b].channels \subseteq dev'[b].opened
  BY <1>1, <1>2 DEF Linked
<1>4. \A b \in Devices : dev'[b].handle = "open" => ~dev'[b].acl
  BY <1>1, <1>2, LinkedDevice
<1>5. tr.link = "up" => ~tr.gone
  BY DEF Linked
<1>6. tr.link \in {"down", "up"}
  BY <1>1 DEF TransportStates
<1>7. /\ z \in TransportStates /\ z.gone = tr.gone /\ z.link = tr.link /\ z.call = tr.call
  BY <1>1, Fields
<1>8. x = tr \/ x = z \/ x = NotifyGoneOnce(z)
  BY DEF AfterChannelClose, NotifyIfClosed
<1> HIDE DEF z
<1>9. x \in TransportStates
      /\ \/ x.gone = tr.gone /\ x.link = tr.link /\ x.call = tr.call
         \/ x.gone /\ x.link = "down" /\ x.call \in {tr.call, 1 - tr.call}
  <2>1. CASE x = NotifyGoneOnce(z)
    <3>1. LET y == NotifyGoneOnce(z)
          IN  /\ y \in TransportStates /\ y.gone
              /\ z.gone => y = z
              /\ ~z.gone => y.link = "down" /\ y.call = 1 - z.call
      BY <1>7, Fields
    <3> QED
      BY <1>5, <1>6, <1>7, <2>1, <3>1
  <2> QED
    BY <1>1, <1>7, <1>8, <2>1
<1> HIDE DEF x
<1>10. /\ w \in TransportStates /\ w.gone = x.gone /\ w.link = x.link /\ w.call = x.call
  BY <1>9, Fields
<1>11. tr' = NotifyGoneOnce(w)
  BY DEF Disconnection, AfterDisconnection, x
<1> HIDE DEF w
<1>12. /\ w.gone => tr'.link = w.link /\ tr'.call = w.call
       /\ ~w.gone => tr'.link = "down" /\ tr'.call = 1 - w.call
  BY <1>10, <1>11, Fields
<1>13. tr'.link = "down" /\ tr'.call \in {tr.call, 1 - tr.call}
  BY <1>5, <1>6, <1>9, <1>10, <1>12
<1> QED
  BY <1>3, <1>4, <1>13 DEF Linked, Told

LEMMA EventLinked ==
    ASSUME Base, Linked, ~Reopens, DeviceEvent
    PROVE  Linked' /\ Told
<1>1. PICK d \in Devices :
          \/ Connection(d) \/ Disconnection(d)
          \/ \E ch \in Channels : ChannelOpen(d, ch) \/ ChannelClose(d, ch)
  BY DEF DeviceEvent
<1>2. Base'
  BY EventQuiet, QuietKeepsBase
<1>3. CASE Connection(d)
  BY <1>3, ConnectionLinked DEF Connection, Registered
<1>4. ASSUME NEW ch \in Channels, ChannelOpen(d, ch)
      PROVE  Linked' /\ Told
  BY <1>2, <1>4, ChannelOpenLinked DEF ChannelOpen, Registered
<1> QED
  BY <1>1, <1>3, <1>4, ChannelCloseLinked, DisconnectionLinked

(* The calls that do not open a connection or a channel.                   *)
LEMMA CallLinked ==
    ASSUME Base, Linked, tr' = tr, \A d \in Devices : SameLink(dev'[d], dev[d])
    PROVE  Linked' /\ Told
  BY LinkedKept DEF Told

LEMMA GoesOnLinked ==
    ASSUME Base, Linked, ~Reopens, NEW c \in Clients, GoesOn(c)
    PROVE  Linked' /\ Told
<1> DEFINE d == op[c].dev
<1>1. dev \in [Devices -> DeviceStates]
  BY DEF Base, Typed
<1>2. Base'
  BY GoesOnQuiet, QuietKeepsBase
<1>3. op[c].at \in Commands => d \in Devices
  BY NumberedDevices
<1>4. CASE Paged(c)
  <2>1. d \in Devices
    BY <1>3, <1>4 DEF Paged, Answers, Commands
  <2> QED
    BY <1>4, <2>1, ConnectionLinked DEF Paged, Answers
<1>5. ASSUME NEW ch \in Channels, Opens(c, ch), tr' = tr \/ tr' = NotifyConnected(tr, dev')
      PROVE  Linked' /\ Told
  <2>1. d \in Devices
    BY <1>3, <1>5 DEF Opens, Answers, Commands, Channels
  <2> QED
    BY <1>2, <1>5, <2>1, ChannelOpenLinked DEF Opens, Answers
<1>6. CASE ControlConnected(c) \/ InterruptConnected(c)
  BY <1>5, <1>6 DEF ControlConnected, InterruptConnected, Channels
<1>7. CASE PoweredOn(c) \/ PolicyConfigured(c) \/ Connectable(c)
  <2> DEFINE new == [[dev[d] EXCEPT !.raced = (dev[d].raced \/ tr.runtime # d)]
                         EXCEPT !.connectable = TRUE]
  <2>1. \/ dev' = [dev EXCEPT ![d].power = TRUE] \/ dev' = [dev EXCEPT ![d].policy = TRUE]
        \/ dev' = [dev EXCEPT ![d] = new]
    BY <1>1, <1>7 DEF PoweredOn, PolicyConfigured, Connectable, ScanOn
  <2>2. d \in Devices
    BY <1>3, <1>7 DEF PoweredOn, PolicyConfigured, Connectable, Answers, Commands
  <2>3. SameLink(new, dev[d])
    <3>1. dev[d] \in DeviceStates /\ (dev[d].raced \/ tr.runtime # d) \in BOOLEAN
      BY <1>1, <2>2 DEF DeviceStates
    <3> HIDE DEF d
    <3> QED
      BY <3>1 DEF SameLink, DeviceStates
  <2> HIDE DEF new, d
  <2>4. \A b \in Devices : SameLink(dev'[b], dev[b])
    <3>1. CASE dev' = [dev EXCEPT ![d] = new]
      BY <1>1, <2>3, <3>1 DEF SameLink
    <3> QED
      BY <1>1, <2>1, <3>1 DEF SameLink, DeviceStates
  <2> QED
    BY <1>7, <2>4, CallLinked DEF PoweredOn, PolicyConfigured, Connectable
<1>8. CASE Discoverable(c)
  <2> DEFINE new == [ScanOn(c, dev[d]) EXCEPT !.discoverable = TRUE]
             shown == [dev EXCEPT ![d] = new]
  <2>1. d \in Devices
    BY <1>3, <1>8 DEF Discoverable, Answers, Commands
  <2>2. new \in DeviceStates /\ SameLink(new, dev[d])
    <3>1. dev[d] \in DeviceStates /\ (dev[d].raced \/ tr.runtime # d) \in BOOLEAN
      BY <1>1, <2>1 DEF DeviceStates
    <3>2. new = [[dev[d] EXCEPT !.raced = (dev[d].raced \/ tr.runtime # d)]
                     EXCEPT !.discoverable = TRUE]
      BY DEF ScanOn, d
    <3> HIDE DEF d
    <3> QED
      BY <3>1, <3>2 DEF SameLink, DeviceStates
  <2>3. /\ shown \in [Devices -> DeviceStates]
        /\ \A b \in Devices : SameLink(shown[b], dev[b])
    BY <1>1, <2>1, <2>2 DEF SameLink
  <2>4. dev' = shown \/ dev' = [shown EXCEPT ![tr.runtime].advertised = TRUE]
    BY <1>8 DEF Discoverable
  <2> HIDE DEF shown
  <2>5. \A b \in Devices : SameLink(dev'[b], shown[b])
    BY <2>3, <2>4 DEF SameLink, DeviceStates
  <2>6. \A b \in Devices : SameLink(dev'[b], dev[b])
    BY <2>3, <2>5 DEF SameLink
  <2> QED
    BY <1>8, <2>6, CallLinked DEF Discoverable
<1>9. CASE Secured(c) \/ Drained(c) \/ ChannelCut(c) \/ Raises(c) \/ OpenCancelled(c)
  <2>1. dev' = dev /\ tr' = tr
    BY <1>9 DEF Secured, Drained, ChannelCut, Raises, OpenCancelled
  <2> QED
    BY <2>1, CallLinked DEF SameLink
<1> QED
  BY <1>4, <1>6, <1>7, <1>8, <1>9 DEF GoesOn

(* While open() runs there is no link, and close() takes it away.          *)
LEMMA HandleLinked ==
    ASSUME Base, Linked, NEW c \in Clients,
           HandleOpened(c) \/ Initialized(c) \/ OpenFails(c) \/ CloseLocked(c)
    PROVE  Linked' /\ Told
<1>1. /\ tr \in TransportStates /\ dev \in [Devices -> DeviceStates]
      /\ op \in [Clients -> CallStates] /\ spent \in Counts
  BY DEF Base, Typed
<1>2. CASE HandleOpened(c)
  <2> DEFINE n == spent.opens + 1
  <2>1. n \in Devices /\ dev[n] = Unopened /\ tr.handle = 0
    BY <1>1, <1>2, TransportAssumption DEF HandleOpened, Counts, Devices, Base, Opening, Numbered
  <2>2. tr.link # "up"
    BY <2>1 DEF Linked
  <2>3. tr'.link = tr.link /\ tr'.call = tr.call /\ tr'.gone = tr.gone
    BY <1>1, <1>2 DEF HandleOpened, TransportStates
  <2>4. \A b \in Devices : dev'[b].acl = dev[b].acl /\ dev'[b].channels = dev[b].channels
                           /\ dev'[b].opened = dev[b].opened
                           /\ (b # n => dev'[b].handle = dev[b].handle)
    BY <1>1, <1>2 DEF HandleOpened, DeviceStates
  <2>5. ~dev[n].acl
    BY <2>1 DEF Unopened
  <2> HIDE DEF n
  <2> QED
    BY <2>1, <2>2, <2>3, <2>4, <2>5 DEF Linked, Lost, Told
<1>3. CASE Initialized(c)
  <2>1. tr.link # "up"
    BY <1>3 DEF Initialized, Base, Opening, Linked
  <2>2. tr'.link = tr.link /\ tr'.call = tr.call /\ tr'.gone = tr.gone /\ dev' = dev
    BY <1>1, <1>3 DEF Initialized, TransportStates
  <2> QED
    BY <2>1, <2>2, LinkedKept DEF SameLink, Told
<1>4. ASSUME NEW fn, TearsDown(c, fn, tr.runtime, tr.handle)
      PROVE  \A b \in Devices : SameLink(dev'[b], dev[b])
  <2>1. dev' = dev \/ dev' = [dev EXCEPT ![tr.handle].handle = "closing"]
    BY <1>4, TearsDownCases
  <2> QED
    BY <1>1, <2>1 DEF SameLink, DeviceStates
<1>5. CASE OpenFails(c)
  <2>1. tr.link # "up"
    BY <1>5 DEF OpenFails, Base, Opening, Linked
  <2>2. tr'.link = tr.link /\ tr'.call = tr.call /\ tr'.gone = tr.gone
    BY <1>1, <1>5 DEF OpenFails, CleanupOpenFailure, TransportStates
  <2>3. \A b \in Devices : SameLink(dev'[b], dev[b])
    BY <1>4, <1>5 DEF OpenFails, CleanupOpenFailure
  <2> QED
    BY <2>1, <2>2, <2>3, LinkedKept DEF Told
<1>6. CASE CloseLocked(c)
  <2>1. CASE tr.handle = 0
    BY <1>6, <2>1, CallLinked DEF CloseLocked, SameLink
  <2>2. CASE tr.handle # 0
    <3>1. tr'.link = "down" /\ tr'.call = tr.call /\ ~tr'.gone
      BY <1>1, <1>6, <2>2 DEF CloseLocked, TransportStates
    <3>2. \A b \in Devices : SameLink(dev'[b], dev[b])
      BY <1>4, <1>6, <2>2 DEF CloseLocked
    <3> QED
      BY <3>1, <3>2, LinkedKept DEF Told
  <2> QED
    BY <2>1, <2>2
<1> QED
  BY <1>2, <1>3, <1>5, <1>6

LEMMA TornDownLinked ==
    ASSUME Base, Linked, NEW c \in Clients, TornDown(c) \/ TeardownRaises(c)
    PROVE  Linked' /\ Told
<1>1. dev \in [Devices -> DeviceStates] /\ tr' = tr
  BY DEF Base, Typed, TornDown, TeardownRaises
<1>2. \/ dev' = dev
      \/ dev' = Undiscoverable(dev, op[c].dev)
      \/ dev' = [dev EXCEPT ![op[c].dev].connectable = FALSE]
      \/ dev' = [[dev EXCEPT ![op[c].dev].power = FALSE] EXCEPT ![op[c].handle].handle = "closing"]
      \/ dev' = [dev EXCEPT ![op[c].handle].handle = "closed"]
      \/ dev' = [dev EXCEPT ![op[c].handle].raised = TRUE]
  BY DEF TornDown, TeardownRaises, HandleClosing
<1>3. \A b \in Devices : SameLink(dev'[b], dev[b])
  BY <1>1, <1>2 DEF SameLink, Undiscoverable, DeviceStates
<1> QED
  BY <1>1, <1>3, CallLinked

LEMMA LinkedStep == ~Reopens /\ Base /\ Linked /\ [Next]_vars => Linked' /\ Told
<1> SUFFICES ASSUME ~Reopens, Base, Linked, [Next]_vars PROVE Linked' /\ Told
  OBVIOUS
<1>1. ASSUME Call \/ UNCHANGED vars PROVE Linked' /\ Told
  <2>1. tr' = tr /\ dev' = dev
    BY <1>1 DEF Call, Open, StartAdvertising, BondedPeerAddress, ConnectBondedPeer,
                RequestDisconnect, Close, vars
  <2> QED
    BY <2>1, CallLinked DEF SameLink
<1>2. ASSUME Resumption PROVE Linked' /\ Told
  <2>1. PICK c \in Clients :
            \/ GoesOn(c) \/ HandleOpened(c) \/ Initialized(c) \/ OpenFails(c)
            \/ CloseLocked(c) \/ TornDown(c) \/ TeardownRaises(c)
    BY <1>2 DEF Resumption, GoesOn
  <2> QED
    BY <2>1, GoesOnLinked, HandleLinked, TornDownLinked
<1> QED
  BY <1>1, <1>2, EventLinked DEF Next

LEMMA LinkedInit == Init => Linked
<1> SUFFICES ASSUME Init PROVE Linked
  OBVIOUS
<1>1. tr.link = "down" /\ tr.gone = FALSE /\ \A d \in Devices : dev[d] = Unopened
  BY DEF Init
<1> QED
  BY <1>1 DEF Linked, Unopened

(* When no channel opens twice on a connection, a link that was announced  *)
(* is there until the disconnected callback or close() takes it away.      *)
THEOREM LinkReal == ~Reopens => (Spec => []LinkUpIsReal)
<1> SUFFICES ASSUME ~Reopens PROVE Spec => []LinkUpIsReal
  OBVIOUS
<1>1. Linked => LinkUpIsReal
  BY DEF Linked, LinkUpIsReal
<1>2. Base /\ Linked /\ [Next]_vars => Linked'
  BY LinkedStep
<1> QED
  BY BaseInit, BaseStep, LinkedInit, <1>1, <1>2, PTL DEF Spec

(* When no channel opens twice on a connection, the callbacks that the     *)
(* handlers, the calls and close() make are those of HidLink: one          *)
(* connected callback per link and none before the disconnected one.       *)
THEOREM Alternates == ~Reopens => (Spec => KeepsPromise)
<1> SUFFICES ASSUME ~Reopens PROVE Spec => KeepsPromise
  OBVIOUS
<1>1. Init => Promise!Init
  BY DEF Init, Promise!Init
<1>2. Base /\ Linked /\ [Next]_vars => Linked'
  BY LinkedStep
<1>3. Base /\ Linked /\ [Next]_vars => [Promise!Next]_<<tr.link, tr.call>>
  BY LinkedStep, ToldIsPromise
<1> QED
  BY BaseInit, BaseStep, LinkedInit, <1>1, <1>2, <1>3, PTL DEF Spec, KeepsPromise, Promise!Spec

=============================================================================
