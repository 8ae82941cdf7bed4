------------------------- MODULE InputOperationsProofs -------------------------
(***************************************************************************)
(* For any number of tasks that operate the input and any buttons and      *)
(* sticks: no update is lost, the store of a direct controller is what the *)
(* host has got, no button is stuck, and nothing interrupts a direct tap.  *)
(***************************************************************************)
EXTENDS InputOperations, AsyncLockProofs, TLAPS

Places == {"idle", "lock", "send", "press", "hold", "release", "trailing", "closing"}

(* Where a task waits for a report it has asked for, and where the task of *)
(* a direct controller has the operation lock.                             *)
Sending == {"press", "send", "release", "trailing"}
Operating == Sending \cup {"hold"}
Tapping == {"press", "hold", "release"}

OpStates == [req : Requests \cup {NoRequest}, at : Places, state : InputStates]
Gates == [connected : BOOLEAN, sender : BOOLEAN, link : BOOLEAN, closing : BOOLEAN]
Counts == [ops : 0 .. MaxOps, links : 0 .. MaxLinks]

Typed ==
    /\ reporting \in {"periodic", "direct"}
    /\ store \in InputStates /\ wire \in InputStates
    /\ gate \in Gates
    /\ opLock \in Locks(Agents)
    /\ op \in [Agents -> OpStates]
    /\ out \in Seq(Agents)
    /\ old \in BOOLEAN /\ held \subseteq Buttons
    /\ spent \in Counts

(* What is stored, sent or about to be sent suits the profile.             *)
Suitable ==
    Representable(store) /\ Representable(wire) /\ \A t \in Agents : Representable(op[t].state)

(* A task waits where its operation can wait; close() sends neutral input. *)
Placed ==
    /\ \A t \in Tasks :
           /\ op[t].at \notin {"trailing", "closing"}
           /\ op[t].at \in Tapping => op[t].req.name = "tap"
           /\ op[t].at = "send" => op[t].req.name # "tap"
           /\ reporting = "periodic" => op[t].at # "send"
    /\ op[Closer].at \in {"idle", "lock", "trailing", "closing"}
    /\ op[Closer].at = "trailing" => op[Closer].state = Neutral
    /\ gate.link => gate.sender /\ gate.connected

(* The queue of the sender holds the tasks that wait for a report, once.   *)
InLine == Distinct(out) /\ \A t \in Agents : Among(t, out) <=> op[t].at \in Sending

(* One task of a direct controller operates at a time; a periodic one has  *)
(* no use for the lock.                                                    *)
Serialized ==
    /\ Distinct(opLock.waiters)
    /\ \A t \in Agents : Among(t, opLock.waiters) <=> op[t].at = "lock"
    /\ reporting = "direct" =>
           \A t \in Agents : op[t].at \in Operating <=> opLock.holder = t
    /\ reporting = "periodic" => opLock = FreeLock

(* What a direct controller has stored the host has got, or, when it has   *)
(* lost the link, nobody.                                                  *)
Shown ==
    reporting = "direct" /\ ~old => store = IF gate.link THEN wire ELSE Neutral

(* A stored button is held, or pressed by a tap that will release it.      *)
Pressing(t) ==
    op[t].at = "hold" \/ op[t].at = IF reporting = "periodic" THEN "press" ELSE "release"

Pressed ==
    \A b \in store.buttons :
        b \in held \/ \E t \in Tasks : Pressing(t) /\ b \in op[t].req.input.buttons

Base ==
    Typed /\ Suitable /\ Placed /\ InLine /\ Serialized /\ CandidateIsCurrent /\ Shown /\ Pressed

-----------------------------------------------------------------------------
(* Inputs and what the operations make of them.                            *)
Asked == Requests \cup {NoRequest}

LEMMA NeutralInput ==
    Neutral \in InputStates /\ Representable(Neutral) /\ Neutral.buttons = {}
  BY DEF Neutral, InputStates, Representable

LEMMA AskedInput ==
    ASSUME NEW req \in Asked
    PROVE  req.input \in InputStates /\ req.input.buttons \subseteq Buttons
<1>1. req.input \in InputStates
  BY NeutralInput DEF Asked, Requests, NoRequest
<1> QED
  BY <1>1 DEF InputStates

LEMMA NoOpType ==
    /\ NoOp \in OpStates /\ NoOp.at = "idle" /\ NoOp.state = Neutral /\ NoOp.req = NoRequest
    /\ NoRequest.name = "none"
  BY NeutralInput DEF NoOp, OpStates, NoRequest, Places

LEMMA WithoutInput ==
    ASSUME NEW s \in InputStates, NEW buttons
    PROVE  /\ Without(s, buttons) \in InputStates
           /\ Without(s, buttons).buttons = s.buttons \ buttons
           /\ Representable(s) => Representable(Without(s, buttons))
<1>1. s.buttons \ buttons \subseteq Buttons
  BY DEF InputStates
<1>2. /\ Without(s, buttons) = [s EXCEPT !.buttons = s.buttons \ buttons]
      /\ [s EXCEPT !.buttons = s.buttons \ buttons].sticks = s.sticks
      /\ [s EXCEPT !.buttons = s.buttons \ buttons].buttons = s.buttons \ buttons
  BY DEF Without, WithButtons, InputStates
<1>3. Without(s, buttons) \in InputStates
  BY <1>1 DEF Without, WithButtons, InputStates
<1> QED
  BY <1>2, <1>3 DEF Representable

LEMMA SticksInput ==
    ASSUME NEW s \in InputStates, NEW i \in InputStates, NEW sides
    PROVE  /\ WithSticks(s, i.sticks, sides) \in InputStates
           /\ WithSticks(s, i.sticks, sides).buttons = s.buttons
<1> DEFINE sticks == [side \in Sides |-> IF side \in sides THEN i.sticks[side] ELSE s.sticks[side]]
<1>1. sticks \in [Sides -> {"center", "tilted"}]
  BY DEF InputStates
<1>2. WithSticks(s, i.sticks, sides) = [s EXCEPT !.sticks = sticks]
  BY DEF WithSticks
<1> HIDE DEF sticks
<1> QED
  BY <1>1, <1>2 DEF InputStates

LEMMA TransformInput ==
    ASSUME NEW req \in Asked, NEW s \in InputStates
    PROVE  /\ Transform(req, s) \in InputStates
           /\ Transform(req, s).buttons =
                  IF req.name \in {"press", "tap"} THEN s.buttons \cup req.input.buttons
                  ELSE IF req.name = "release" THEN s.buttons \ req.input.buttons
                  ELSE IF req.name \in {"sticks", "imu"} THEN s.buttons
                  ELSE IF req.name = "neutral" THEN {}
                  ELSE req.input.buttons
<1>1. req.input \in InputStates /\ req.input.buttons \subseteq Buttons
  BY AskedInput
<1>2. CASE req.name \in {"press", "tap"}
  <2> DEFINE pressed == s.buttons \cup req.input.buttons
  <2>1. pressed \subseteq Buttons
    BY <1>1 DEF InputStates
  <2>2. Transform(req, s) = [s EXCEPT !.buttons = pressed]
    BY <1>2 DEF Transform, WithButtons
  <2> HIDE DEF pressed
  <2>3. [s EXCEPT !.buttons = pressed] \in InputStates
        /\ [s EXCEPT !.buttons = pressed].buttons = pressed
    BY <2>1 DEF InputStates
  <2> QED
    BY <1>2, <2>2, <2>3 DEF pressed
<1>3. CASE req.name = "release"
  BY <1>3, WithoutInput DEF Transform
<1>4. CASE req.name = "sticks"
  BY <1>1, <1>4, SticksInput DEF Transform
<1>5. CASE req.name = "imu"
  <2>1. Transform(req, s) = [s EXCEPT !.imu = req.input.imu] /\ req.input.imu \in {"rest", "moved"}
    BY <1>1, <1>5 DEF Transform, InputStates
  <2> QED
    BY <1>5, <2>1 DEF InputStates
<1>6. CASE req.name = "neutral"
  BY <1>6, NeutralInput DEF Transform
<1>7. CASE req.name \notin {"press", "tap", "release", "sticks", "imu", "neutral"}
  <2>1. Transform(req, s) = req.input
    BY <1>7 DEF Transform
  <2> QED
    BY <1>1, <1>7, <2>1
<1> QED
  BY <1>2, <1>3, <1>4, <1>5, <1>6, <1>7

(* A button that an operation other than a tap leaves pressed is held, or  *)
(* was pressed and not held before.                                        *)
LEMMA HeldOrHad ==
    ASSUME NEW req \in Asked, req.name # "tap", NEW s \in InputStates, NEW h \in SUBSET Buttons
    PROVE  /\ HeldAfter(req, h) \subseteq Buttons
           /\ \A b \in Transform(req, s).buttons : b \in HeldAfter(req, h) \/ b \in s.buttons \ h
  BY AskedInput, TransformInput DEF HeldAfter

-----------------------------------------------------------------------------
(* The queue of the sender.                                                *)

(* q is the queue without t.                                               *)
Dropped(q, t) ==
    /\ q \in Seq(Agents) /\ Distinct(q)
    /\ \A u \in Agents : Among(u, q) <=> u # t /\ Among(u, out)

LEMMA NotInLine ==
    ASSUME Base, NEW t \in Agents, op[t].at \notin Sending
    PROVE  Dropped(out, t)
  BY DEF Base, Typed, InLine, Dropped

LEMMA FirstInLine ==
    ASSUME Base, NEW t \in Agents, out # << >>, Head(out) = t
    PROVE  Dropped(Tail(out), t) /\ op[t].at \in Sending
<1>1. out \in Seq(Agents) /\ Distinct(out) /\ \A u \in Agents : Among(u, out) <=> op[u].at \in Sending
  BY DEF Base, Typed, InLine
<1>2. Tail(out) \in Seq(Agents) /\ Len(out) \in Nat /\ Len(out) # 0 /\ out[1] = t
  BY <1>1
<1>3. Among(t, out)
  BY <1>2 DEF Among
<1> QED
  BY <1>1, <1>2, <1>3, RemoveHead DEF Dropped

LEMMA SomewhereInLine ==
    ASSUME Base, NEW t \in Agents, op[t].at \in Sending
    PROVE  Dropped(Withdrawn(t), t)
<1> DEFINE i == CHOOSE k \in 1 .. Len(out) : out[k] = t
<1>1. out \in Seq(Agents) /\ Distinct(out) /\ Among(t, out)
  BY DEF Base, Typed, InLine
<1>2. i \in 1 .. Len(out) /\ out[i] = t
  BY <1>1 DEF Among
<1>3. Withdrawn(t) = WithoutPlace(out, i)
  BY DEF Withdrawn
<1> HIDE DEF i
<1> QED
  BY <1>1, <1>2, <1>3, WithoutPlaceType, RemoveWaiter DEF Dropped

(* What becomes of the queue when t goes on from there, or returns.        *)
Lined(q, t, at) == IF at \in Sending THEN Append(q, t) ELSE q

LEMMA LinedIsInLine ==
    ASSUME Base, NEW t \in Agents, NEW q, Dropped(q, t), NEW at
    PROVE  /\ Lined(q, t, at) \in Seq(Agents) /\ Distinct(Lined(q, t, at))
           /\ Among(t, Lined(q, t, at)) <=> at \in Sending
           /\ \A u \in Agents \ {t} : Among(u, Lined(q, t, at)) <=> op[u].at \in Sending
<1>1. q \in Seq(Agents) /\ Distinct(q) /\ ~Among(t, q)
      /\ \A u \in Agents \ {t} : Among(u, q) <=> op[u].at \in Sending
  BY DEF Dropped, Base, InLine
<1>2. CASE at \in Sending
  BY <1>1, <1>2, AppendWaiter DEF Lined
<1>3. CASE at \notin Sending
  BY <1>1, <1>3 DEF Lined
<1> QED
  BY <1>2, <1>3

-----------------------------------------------------------------------------
(* The operation lock.                                                     *)

(* The lock l suits t at its new place, and nothing changes for the rest.  *)
Fits(t, at, l) ==
    /\ l \in Locks(Agents) /\ Distinct(l.waiters)
    /\ \A u \in Agents \ {t} : Among(u, l.waiters) <=> Among(u, opLock.waiters)
    /\ Among(t, l.waiters) <=> at = "lock"
    /\ reporting = "direct" => ( /\ \A u \in Agents \ {t} : l.holder = u <=> opLock.holder = u
                                 /\ at \in Operating <=> l.holder = t )
    /\ reporting = "periodic" => l = FreeLock

LEMMA LockFacts ==
    ASSUME Base
    PROVE  /\ opLock \in Locks(Agents) /\ Distinct(opLock.waiters)
           /\ opLock.waiters \in Seq(Agents)
           /\ \A t \in Agents : Among(t, opLock.waiters) <=> op[t].at = "lock"
           /\ NoTask \notin Agents
           /\ reporting \in {"periodic", "direct"}
           /\ "lock" \notin Operating
  BY InputAssumption DEF Base, Typed, Serialized, Locks, Agents, Operating, Sending

LEMMA SameLockFits ==
    ASSUME Base, NEW t \in Agents, NEW at, op[t].at # "lock", at # "lock",
           reporting = "direct" => (at \in Operating <=> op[t].at \in Operating)
    PROVE  Fits(t, at, opLock)
  BY LockFacts DEF Base, Serialized, Fits

LEMMA FreedLockFits ==
    ASSUME Base, NEW t \in Agents, NEW at, op[t].at \in Operating, at \notin Operating \cup {"lock"}
    PROVE  Fits(t, at, IF reporting = "direct" THEN Released(opLock) ELSE opLock)
<1>1. CASE reporting = "direct"
  <2>1. opLock.holder = t
    BY <1>1 DEF Base, Serialized
  <2>2. Released(opLock) \in Locks(Agents) /\ Released(opLock).holder = NoTask
        /\ Released(opLock).waiters = opLock.waiters
    BY LockFacts, LockTypes DEF Released, Locks
  <2> QED
    BY <1>1, <2>1, <2>2, LockFacts DEF Fits
<1>2. CASE reporting = "periodic"
  BY <1>2, LockFacts, SameLockFits
<1> QED
  BY <1>1, <1>2, LockFacts

LEMMA QueuedLockFits ==
    ASSUME Base, NEW t \in Agents, reporting = "direct", op[t].at = "idle"
    PROVE  Fits(t, "lock", Queued(opLock, t))
<1> DEFINE l == Queued(opLock, t)
<1>1. l \in Locks(Agents) /\ l.holder = opLock.holder /\ l.waiters = Append(opLock.waiters, t)
  BY LockFacts, LockTypes DEF Queued, Locks
<1>2. ~Among(t, opLock.waiters) /\ opLock.holder # t
  BY LockFacts DEF Base, Serialized, Operating, Sending
<1> HIDE DEF l
<1>3. Fits(t, "lock", l)
  BY <1>1, <1>2, LockFacts, AppendWaiter DEF Fits
<1> QED
  BY <1>3 DEF l

(* t gets the lock l, and may give it back at once.                        *)
LEMMA GottenLockFits ==
    ASSUME Base, NEW t \in Agents, reporting = "direct", NEW l, NEW at,
           \/ op[t].at = "idle" /\ ~Contended(opLock) /\ l = Taken(opLock, t)
           \/ Woken(opLock, t) /\ l = Granted(opLock, t)
    PROVE  /\ at \in Operating => Fits(t, at, l)
           /\ at \notin Operating \cup {"lock"} => Fits(t, at, Released(l))
<1>1. /\ l \in Locks(Agents) /\ l.holder = t /\ Distinct(l.waiters) /\ ~Among(t, l.waiters)
      /\ \A u \in Agents \ {t} : Among(u, l.waiters) <=> Among(u, opLock.waiters)
      /\ opLock.holder = NoTask
  <2>1. CASE op[t].at = "idle" /\ ~Contended(opLock) /\ l = Taken(opLock, t)
    <3>1. l \in Locks(Agents) /\ l.holder = t /\ l.waiters = opLock.waiters
          /\ opLock.holder = NoTask
      BY <2>1, LockFacts, LockTypes DEF Taken, Locks, Contended
    <3> QED
      BY <2>1, <3>1, LockFacts
  <2>2. CASE Woken(opLock, t) /\ l = Granted(opLock, t)
    <3>1. l \in Locks(Agents) /\ l.holder = t /\ l.waiters = Tail(opLock.waiters)
          /\ opLock.waiters # << >> /\ Head(opLock.waiters) = t /\ opLock.holder = NoTask
      BY <2>2, LockFacts, LockTypes DEF Granted, Woken
    <3> QED
      BY <3>1, LockFacts, RemoveHead
  <2> QED
    BY <2>1, <2>2
<1>2. Released(l) \in Locks(Agents) /\ Released(l).holder = NoTask
      /\ Released(l).waiters = l.waiters
  BY <1>1, LockTypes DEF Released, Locks
<1> QED
  BY <1>1, <1>2, LockFacts DEF Fits

LEMMA AbandonedLockFits ==
    ASSUME Base, NEW t \in Agents, op[t].at = "lock", NEW at, at \notin Operating \cup {"lock"}
    PROVE  Fits(t, at, Abandoned(opLock, t)) /\ reporting = "direct"
<1> DEFINE i == CHOOSE k \in 1 .. Len(opLock.waiters) : opLock.waiters[k] = t
           l == Abandoned(opLock, t)
<1>1. Among(t, opLock.waiters)
  BY LockFacts
<1>2. i \in 1 .. Len(opLock.waiters) /\ opLock.waiters[i] = t
  BY <1>1 DEF Among
<1>3. l \in Locks(Agents) /\ l.holder = opLock.holder /\ l.waiters = WithoutPlace(opLock.waiters, i)
  <2>1. l = [opLock EXCEPT !.waiters = WithoutPlace(opLock.waiters, i)]
    BY DEF Abandoned
  <2>2. l \in Locks(Agents)
    BY LockFacts, LockTypes
  <2> HIDE DEF l, i
  <2> QED
    BY <2>1, <2>2, LockFacts DEF Locks
<1>4. reporting = "direct"
  <2>1. Len(opLock.waiters) # 0
    BY <1>2
  <2> QED
    BY <2>1, LockFacts DEF Base, Serialized, FreeLock
<1>5. opLock.holder # t
  BY <1>4, LockFacts DEF Base, Serialized
<1> HIDE DEF i, l
<1>6. Distinct(l.waiters)
      /\ \A u : Among(u, l.waiters) <=> u # t /\ Among(u, opLock.waiters)
  BY <1>2, <1>3, LockFacts, RemoveWaiter
<1>7. Fits(t, at, l)
  BY <1>3, <1>4, <1>5, <1>6, LockFacts DEF Fits
<1> QED
  BY <1>4, <1>7 DEF l

-----------------------------------------------------------------------------
(* A task goes on, asks for a report, or returns.                          *)

(* What an operation is about to send was computed from the store s.       *)
Current(o, s) ==
    /\ o.at \in {"press", "send"} => o.state = Transform(o.req, s)
    /\ o.at = "release" => o.state = Without(s, o.req.input.buttons)

PlacedAt(t, o) ==
    /\ t \in Tasks => ( /\ o.at \notin {"trailing", "closing"}
                        /\ o.at \in Tapping => o.req.name = "tap"
                        /\ o.at = "send" => o.req.name # "tap"
                        /\ reporting = "periodic" => o.at # "send" )
    /\ t = Closer => ( /\ o.at \in {"idle", "lock", "trailing", "closing"}
                       /\ o.at = "trailing" => o.state = Neutral )

Covers(o) == o.at = "hold" \/ o.at = IF reporting = "periodic" THEN "press" ELSE "release"

(* The operation of t becomes o.                                           *)
Moves(t, o) ==
    /\ o \in OpStates /\ op' = [op EXCEPT ![t] = o]
    /\ \E q : Dropped(q, t) /\ out' = Lined(q, t, o.at)
    /\ Fits(t, o.at, opLock')
    /\ PlacedAt(t, o)
    /\ Representable(o.state)

LEMMA MoveKeepsQueues ==
    ASSUME Base, NEW t \in Agents, NEW o, Moves(t, o), reporting' = reporting
    PROVE  /\ op' \in [Agents -> OpStates] /\ op'[t] = o
           /\ \A u \in Agents \ {t} : op'[u] = op[u]
           /\ out' \in Seq(Agents) /\ InLine' /\ Serialized' /\ opLock' \in Locks(Agents)
<1>1. /\ op' \in [Agents -> OpStates] /\ op'[t] = o
      /\ \A u \in Agents \ {t} : op'[u] = op[u]
  BY DEF Moves, Base, Typed
<1>2. PICK q : Dropped(q, t) /\ out' = Lined(q, t, o.at)
  BY DEF Moves
<1>3. out' \in Seq(Agents) /\ InLine'
  BY <1>1, <1>2, LinedIsInLine DEF InLine
<1>4. Fits(t, o.at, opLock')
  BY DEF Moves
<1>5. /\ Distinct(opLock'.waiters)
      /\ \A u \in Agents : Among(u, opLock'.waiters) <=> op'[u].at = "lock"
  BY <1>1, <1>4, LockFacts DEF Fits
<1>6. reporting = "direct" => \A u \in Agents : op'[u].at \in Operating <=> opLock'.holder = u
  BY <1>1, <1>4 DEF Fits, Base, Serialized
<1>7. (reporting = "periodic" => opLock' = FreeLock) /\ opLock' \in Locks(Agents)
  BY <1>4 DEF Fits
<1>8. Serialized'
  BY <1>5, <1>6, <1>7 DEF Serialized
<1> QED
  BY <1>1, <1>3, <1>7, <1>8

(* The rest of the state after the step, which shows what it has to.       *)
Consistent ==
    /\ reporting' = reporting /\ gate' \in Gates
    /\ gate'.link => gate.link /\ gate'.sender /\ gate'.connected
    /\ store' \in InputStates /\ Representable(store')
    /\ wire' \in InputStates /\ Representable(wire')
    /\ reporting = "direct" /\ ~old' => store' = IF gate'.link THEN wire' ELSE Neutral
    /\ old' \in BOOLEAN /\ held' \subseteq Buttons /\ spent' \in Counts

(* Only the task that has the operation lock changes what the others of a  *)
(* direct controller compute their input from.                             *)
Computed(t, o) ==
    /\ store' = store \/ reporting = "periodic" \/ op[t].at \in Operating
    /\ t \in Tasks /\ reporting = "direct" /\ gate'.link => Current(o, store')

(* A button that is stored after the step of t is held, pressed by its     *)
(* tap, or not an affair of t.                                             *)
Explained(t, o) ==
    \A b \in store'.buttons :
        \/ b \in held'
        \/ t \in Tasks /\ Covers(o) /\ b \in o.req.input.buttons
        \/ /\ b \in store.buttons \ held
           /\ ~(Pressing(t) /\ b \in op[t].req.input.buttons)

LEMMA MoveKeepsBase ==
    ASSUME Base, NEW t \in Agents, NEW o, Moves(t, o), Consistent, Computed(t, o), Explained(t, o)
    PROVE  Base'
<1>1. /\ op' \in [Agents -> OpStates] /\ op'[t] = o
      /\ \A u \in Agents \ {t} : op'[u] = op[u]
      /\ out' \in Seq(Agents) /\ InLine' /\ Serialized' /\ opLock' \in Locks(Agents)
  BY MoveKeepsQueues DEF Consistent
<1>2. Tasks \subseteq Agents /\ Closer \in Agents
  BY DEF Agents
<1>3. Typed'
  BY <1>1 DEF Base, Typed, Consistent
<1>4. Suitable'
  <2>1. \A u \in Agents : Representable(op'[u].state)
    BY <1>1 DEF Moves, Base, Suitable
  <2> QED
    BY <2>1 DEF Suitable, Representable, Consistent
<1>5. Placed'
  <2>1. PlacedAt(t, o)
    BY DEF Moves
  <2>2. \A u \in Tasks :
           /\ op'[u].at \notin {"trailing", "closing"}
           /\ op'[u].at \in Tapping => op'[u].req.name = "tap"
           /\ op'[u].at = "send" => op'[u].req.name # "tap"
           /\ reporting' = "periodic" => op'[u].at # "send"
    BY <1>1, <1>2, <2>1 DEF PlacedAt, Base, Placed, Consistent
  <2>3. /\ op'[Closer].at \in {"idle", "lock", "trailing", "closing"}
        /\ op'[Closer].at = "trailing" => op'[Closer].state = Neutral
    BY <1>1, <1>2, <2>1 DEF PlacedAt, Base, Placed, Consistent
  <2> QED
    BY <2>2, <2>3 DEF Placed, Consistent
<1>6. CandidateIsCurrent'
  <2>1. ASSUME NEW u \in Tasks, reporting = "direct", gate'.link
        PROVE  /\ op'[u].at \in {"press", "send"} => op'[u].state = Transform(op'[u].req, store')
               /\ op'[u].at = "release" =>
                      op'[u].state = Without(store', op'[u].req.input.buttons)
    <3>1. CASE u = t
      BY <1>1, <2>1, <3>1 DEF Current, Computed
    <3>2. CASE u # t /\ store' = store
      BY <1>1, <1>2, <2>1, <3>2 DEF Base, CandidateIsCurrent, Consistent
    <3>3. CASE u # t /\ op[t].at \in Operating
      <4>1. op'[u] = op[u] /\ op[u].at \notin Operating
        BY <1>1, <1>2, <2>1, <3>3 DEF Base, Serialized
      <4> QED
        BY <4>1 DEF Operating, Sending
    <3> QED
      BY <2>1, <3>1, <3>2, <3>3 DEF Computed
  <2> QED
    BY <2>1 DEF CandidateIsCurrent, Consistent, Transform, Without, WithButtons, WithSticks
<1>7. Shown'
  BY DEF Shown, Consistent
<1>8. Pressed'
  <2>1. ASSUME NEW b \in store'.buttons, b \notin held'
        PROVE  \E u \in Tasks : Covers(op'[u]) /\ b \in op'[u].req.input.buttons
    <3>1. CASE t \in Tasks /\ Covers(o) /\ b \in o.req.input.buttons
      BY <1>1, <3>1
    <3>2. CASE b \in store.buttons \ held /\ ~(Pressing(t) /\ b \in op[t].req.input.buttons)
      <4>1. PICK u \in Tasks : Pressing(u) /\ b \in op[u].req.input.buttons
        BY <3>2 DEF Base, Pressed
      <4>2. op'[u] = op[u]
        BY <1>1, <1>2, <3>2, <4>1
      <4> QED
        BY <4>1, <4>2 DEF Pressing, Covers
    <3> QED
      BY <2>1, <3>1, <3>2 DEF Explained
  <2> QED
    BY <2>1 DEF Pressed, Pressing, Covers, Consistent
<1> QED
  BY <1>1, <1>3, <1>4, <1>5, <1>6, <1>7, <1>8 DEF Base

-----------------------------------------------------------------------------
(* The steps that a send takes.                                            *)

(* The operation of t with a place and a state of its own.                 *)
Going(t, at, s) == [op[t] EXCEPT !.at = at, !.state = s]

LEMMA GoingType ==
    ASSUME Base, NEW t \in Agents, NEW at \in Places, NEW s \in InputStates
    PROVE  /\ Going(t, at, s) \in OpStates /\ op[t].req \in Asked
           /\ Going(t, at, s).req = op[t].req
           /\ Going(t, at, s).at = at /\ Going(t, at, s).state = s
           /\ Waits(t, at, s) => op' = [op EXCEPT ![t] = Going(t, at, s)]
<1>1. op[t] \in OpStates /\ op \in [Agents -> OpStates]
  BY DEF Base, Typed
<1>2. Waits(t, at, s) => op' = [op EXCEPT ![t] = Going(t, at, s)]
  BY <1>1 DEF Waits, Going
<1> QED
  BY <1>1, <1>2 DEF Going, OpStates, Asked

LEMMA BaseTypes ==
    ASSUME Base
    PROVE  /\ reporting \in {"periodic", "direct"}
           /\ store \in InputStates /\ wire \in InputStates
           /\ Representable(store) /\ Representable(wire)
           /\ \A t \in Agents : /\ op[t] \in OpStates /\ op[t].state \in InputStates
                                /\ Representable(op[t].state) /\ op[t].req \in Asked
           /\ gate \in Gates
           /\ gate.link => gate.sender /\ gate.connected
           /\ old \in BOOLEAN /\ held \subseteq Buttons /\ spent \in Counts
           /\ Tasks \subseteq Agents /\ Closer \in Agents /\ Agents = Tasks \cup {Closer}
           /\ Closer \notin Tasks
  BY InputAssumption DEF Base, Typed, Suitable, Placed, OpStates, Asked, Agents

LEMMA NoOpMoves ==
    ASSUME Base, NEW t \in Agents, NEW q, Dropped(q, t), out' = q, Ends(t), Fits(t, "idle", opLock')
    PROVE  Moves(t, NoOp)
<1>1. op' = [op EXCEPT ![t] = NoOp]
  BY DEF Ends
<1>2. out' = Lined(q, t, NoOp.at)
  BY NoOpType DEF Lined, Sending
<1>3. PlacedAt(t, NoOp) /\ Representable(NoOp.state)
  BY NoOpType, NeutralInput DEF PlacedAt, Tapping
<1> QED
  BY <1>1, <1>2, <1>3, NoOpType DEF Moves

LEMMA PressAccepted ==
    ASSUME Base, NEW t \in Agents, Accept(t), op[t].at = "press"
    PROVE  Base'
<1> DEFINE o == Going(t, "hold", op[t].state)
<1>1. t \in Tasks /\ op[t].req.name = "tap"
  BY BaseTypes DEF Base, Placed, Tapping
<1>2. o \in OpStates /\ o.req = op[t].req /\ o.at = "hold" /\ o.state = op[t].state
      /\ op' = [op EXCEPT ![t] = o]
  BY BaseTypes, GoingType DEF Accept, Places
<1>3. opLock' = opLock /\ held' = held /\ out' = Tail(out) /\ Dropped(Tail(out), t)
  BY FirstInLine DEF Accept
<1>4. Fits(t, "hold", opLock')
  BY <1>3, SameLockFits DEF Operating, Sending
<1> HIDE DEF o
<1>5. Moves(t, o)
  <2>1. out' = Lined(Tail(out), t, o.at)
    BY <1>2, <1>3 DEF Lined, Sending
  <2>2. PlacedAt(t, o) /\ Representable(o.state)
    BY <1>1, <1>2, BaseTypes DEF PlacedAt
  <2> QED
    BY <1>2, <1>3, <1>4, <2>1, <2>2 DEF Moves
<1>6. wire' = op[t].state /\ store' = IF reporting = "direct" THEN op[t].state ELSE store
  BY DEF Accept
<1>7. reporting = "direct" =>
          store'.buttons = store.buttons \cup op[t].req.input.buttons
  <2>1. reporting = "direct" => store' = Transform(op[t].req, store)
    BY <1>1, <1>6 DEF Accept, Base, CandidateIsCurrent
  <2> QED
    BY <1>1, <2>1, BaseTypes, TransformInput
<1>8. Explained(t, o)
  <2>1. Covers(o)
    BY <1>2 DEF Covers
  <2>2. CASE reporting = "direct"
    <3>1. ~Pressing(t)
      BY <2>2 DEF Pressing
    <3> QED
      BY <1>1, <1>2, <1>3, <1>7, <2>1, <2>2, <3>1 DEF Explained
  <2>3. CASE reporting = "periodic"
    BY <1>1, <1>2, <1>3, <1>6, <2>1, <2>3 DEF Explained
  <2> QED
    BY <2>2, <2>3, BaseTypes
<1>9. /\ reporting' = reporting /\ gate' = gate /\ spent' = spent
      /\ old' \in BOOLEAN /\ gate.link
  BY DEF Accept
<1>10. store' \in InputStates /\ Representable(store') /\ wire' \in InputStates
       /\ Representable(wire')
  BY <1>6, BaseTypes
<1>11. Consistent
  BY <1>3, <1>6, <1>9, <1>10, BaseTypes DEF Consistent
<1>12. Computed(t, o)
  BY <1>2 DEF Computed, Current, Operating, Sending
<1> QED
  BY <1>5, <1>8, <1>11, <1>12, MoveKeepsBase

LEMMA TrailingAccepted ==
    ASSUME Base, NEW t \in Agents, Accept(t), op[t].at = "trailing"
    PROVE  Base'
<1> DEFINE o == Going(t, "closing", Neutral)
<1>1. t = Closer /\ op[t].state = Neutral
  BY BaseTypes DEF Base, Placed
<1>2. o \in OpStates /\ o.req = op[t].req /\ o.at = "closing" /\ o.state = Neutral
      /\ op' = [op EXCEPT ![t] = o]
  BY NeutralInput, GoingType DEF Accept, Places
<1>3. /\ LockFreed /\ out' = Tail(out) /\ Dropped(Tail(out), t)
      /\ held' = IF reporting = "direct" THEN {} ELSE held
  BY FirstInLine DEF Accept
<1>4. Fits(t, "closing", opLock')
  BY <1>3, FreedLockFits DEF Operating, Sending, LockFreed
<1> HIDE DEF o
<1>5. Moves(t, o)
  <2>1. out' = Lined(Tail(out), t, o.at)
    BY <1>2, <1>3 DEF Lined, Sending
  <2>2. PlacedAt(t, o) /\ Representable(o.state)
    BY <1>1, <1>2, BaseTypes, NeutralInput DEF PlacedAt
  <2> QED
    BY <1>2, <1>3, <1>4, <2>1, <2>2 DEF Moves
<1>6. /\ wire' = IF reporting = "periodic" THEN store ELSE Neutral
      /\ store' = IF reporting = "direct" THEN Neutral ELSE store
  BY <1>1, BaseTypes DEF Accept
<1>7. ~Pressing(t)
  BY DEF Pressing
<1>8. Explained(t, o)
  BY <1>3, <1>6, <1>7, NeutralInput, BaseTypes DEF Explained
<1>9. /\ reporting' = reporting /\ gate' = gate /\ spent' = spent
      /\ old' \in BOOLEAN /\ gate.link
  BY DEF Accept
<1>10. store' \in InputStates /\ Representable(store') /\ wire' \in InputStates
       /\ Representable(wire') /\ held' \subseteq Buttons
  BY <1>3, <1>6, BaseTypes, NeutralInput
<1>11. Consistent
  BY <1>6, <1>9, <1>10, BaseTypes DEF Consistent
<1>12. Computed(t, o)
  BY <1>2 DEF Computed, Current, Operating, Sending
<1> QED
  BY <1>5, <1>8, <1>11, <1>12, MoveKeepsBase

LEMMA ReportAccepted ==
    ASSUME Base, NEW t \in Agents, Accept(t), op[t].at \in {"send", "release"}
    PROVE  Base'
<1>1. /\ t \in Tasks
      /\ op[t].at = "release" => op[t].req.name = "tap"
      /\ op[t].at = "send" => op[t].req.name # "tap" /\ reporting = "direct"
  BY BaseTypes DEF Base, Placed, Tapping
<1>2. /\ LockFreed /\ Ends(t) /\ out' = Tail(out) /\ Dropped(Tail(out), t)
      /\ held' = IF reporting = "direct" THEN HeldAfter(op[t].req, held) ELSE held
  BY FirstInLine DEF Accept
<1>3. Fits(t, "idle", opLock')
  BY <1>2, FreedLockFits DEF Operating, Sending, LockFreed
<1>4. Moves(t, NoOp)
  BY <1>2, <1>3, NoOpMoves
<1>5. wire' = op[t].state /\ store' = IF reporting = "direct" THEN op[t].state ELSE store
  BY DEF Accept
<1>6. /\ reporting = "direct" /\ op[t].at = "send" => store' = Transform(op[t].req, store)
      /\ reporting = "direct" /\ op[t].at = "release" =>
             store' = Without(store, op[t].req.input.buttons)
  BY <1>1, <1>5 DEF Accept, Base, CandidateIsCurrent
<1>7. /\ held' \subseteq Buttons
      /\ \A b \in store'.buttons :
             \/ b \in held'
             \/ /\ b \in store.buttons \ held
                /\ ~(Pressing(t) /\ b \in op[t].req.input.buttons)
  <2>1. CASE reporting = "direct" /\ op[t].at = "send"
    <3>1. ~Pressing(t)
      BY <2>1 DEF Pressing
    <3> QED
      BY <1>1, <1>2, <1>6, <2>1, <3>1, BaseTypes, HeldOrHad
  <2>2. CASE reporting = "direct" /\ op[t].at = "release"
    <3>1. held' = held \ op[t].req.input.buttons
      BY <1>1, <1>2, <2>2 DEF HeldAfter
    <3>2. store'.buttons = store.buttons \ op[t].req.input.buttons
      BY <1>6, <2>2, BaseTypes, WithoutInput
    <3> QED
      BY <3>1, <3>2, BaseTypes
  <2>3. CASE reporting = "periodic"
    <3>1. ~Pressing(t) /\ held' = held /\ store' = store
      BY <1>2, <1>5, <2>3 DEF Pressing
    <3> QED
      BY <3>1, BaseTypes
  <2> QED
    BY <2>1, <2>2, <2>3, BaseTypes
<1>8. /\ reporting' = reporting /\ gate' = gate /\ spent' = spent
      /\ old' \in BOOLEAN /\ gate.link
  BY DEF Accept
<1>9. store' \in InputStates /\ Representable(store') /\ wire' \in InputStates
      /\ Representable(wire')
  BY <1>5, BaseTypes
<1>10. Consistent /\ Explained(t, NoOp)
  BY <1>5, <1>7, <1>8, <1>9, BaseTypes DEF Consistent, Explained
<1>11. Computed(t, NoOp)
  BY NoOpType DEF Computed, Current, Operating, Sending
<1> QED
  BY <1>4, <1>10, <1>11, MoveKeepsBase

LEMMA AcceptKeepsBase ==
    ASSUME Base, NEW t \in Agents, Accept(t)
    PROVE  Base'
<1>1. op[t].at \in {"press", "trailing", "send", "release"}
  BY DEF Accept
<1> QED
  BY <1>1, PressAccepted, TrailingAccepted, ReportAccepted

-----------------------------------------------------------------------------
(* The steps in which a send raises, and the release of a tap.             *)

LEMMA UnshownStep ==
    ASSUME Base, UNCHANGED <<reporting, gate, wire, old, spent>>,
           store' \in InputStates, Representable(store'),
           store' = store \/ reporting = "periodic", held' \subseteq Buttons
    PROVE  Consistent
<1>1. reporting = "direct" /\ ~old' => store' = IF gate'.link THEN wire' ELSE Neutral
  BY DEF Base, Shown
<1> QED
  BY <1>1, BaseTypes DEF Consistent

LEMMA ReleaseKeepsBase ==
    ASSUME Base, NEW t \in Tasks, NEW q, Dropped(q, t),
           op[t].at = "hold" \/ (op[t].at = "press" /\ reporting = "periodic"),
           ReleasesTap(t, q), UNCHANGED <<reporting, gate, wire, old, spent>>
    PROVE  Base'
<1> DEFINE released == Without(store, op[t].req.input.buttons)
           o == Going(t, "release", released)
<1>1. t \in Agents /\ op[t].req.name = "tap" /\ op[t].req \in Asked
  BY BaseTypes DEF Base, Placed, Tapping
<1>2. /\ released \in InputStates /\ Representable(released)
      /\ released.buttons = store.buttons \ op[t].req.input.buttons
  BY BaseTypes, WithoutInput
<1>3. HeldAfter(op[t].req, held) = held \ op[t].req.input.buttons
  BY <1>1 DEF HeldAfter
<1>4. /\ store' = IF reporting = "periodic" THEN released ELSE store
      /\ held' = IF reporting = "periodic" THEN held \ op[t].req.input.buttons
                 ELSE IF gate.sender THEN held
                 ELSE held \cup (store.buttons \cap op[t].req.input.buttons)
  BY <1>3 DEF ReleasesTap, LeftPressed
<1>5. Consistent
  <2>1. held' \subseteq Buttons
    BY <1>1, <1>4, BaseTypes, AskedInput
  <2> QED
    BY <1>2, <1>4, <2>1, BaseTypes, UnshownStep
<1>6. CASE gate.sender
  <2>1. Waits(t, "release", released) /\ out' = Append(q, t) /\ opLock' = opLock
    BY <1>6 DEF ReleasesTap
  <2>2. o \in OpStates /\ o.req = op[t].req /\ o.at = "release" /\ o.state = released
        /\ op' = [op EXCEPT ![t] = o]
    BY <1>1, <1>2, <2>1, GoingType DEF Places
  <2>3. Fits(t, "release", opLock')
    BY <1>1, <2>1, SameLockFits, LockFacts DEF Operating, Sending
  <2> HIDE DEF released, o
  <2>4. Moves(t, o)
    <3>1. out' = Lined(q, t, o.at)
      BY <2>1, <2>2 DEF Lined, Sending
    <3>2. PlacedAt(t, o) /\ Representable(o.state)
      BY <1>1, <1>2, <2>2, BaseTypes DEF PlacedAt
    <3> QED
      BY <2>2, <2>3, <3>1, <3>2 DEF Moves
  <2>5. Computed(t, o)
    BY <1>4, <2>2, BaseTypes DEF Computed, Current, released
  <2>6. Explained(t, o)
    <3>1. CASE reporting = "periodic"
      BY <1>2, <1>4, <3>1 DEF Explained
    <3>2. CASE reporting = "direct"
      BY <1>4, <1>6, <2>2, <3>2 DEF Explained, Covers
    <3> QED
      BY <3>1, <3>2, BaseTypes
  <2> QED
    BY <1>1, <1>5, <2>4, <2>5, <2>6, MoveKeepsBase
<1>7. CASE ~gate.sender
  <2>1. Ends(t) /\ out' = q /\ LockFreed
    BY <1>7 DEF ReleasesTap
  <2>2. Fits(t, "idle", opLock')
    BY <1>1, <2>1, FreedLockFits DEF Operating, Sending, LockFreed
  <2>3. Moves(t, NoOp)
    BY <1>1, <2>1, <2>2, NoOpMoves
  <2> HIDE DEF released
  <2>4. Computed(t, NoOp)
    BY <1>4, NoOpType, BaseTypes DEF Computed, Current
  <2>5. Explained(t, NoOp)
    <3>1. CASE reporting = "periodic"
      BY <1>2, <1>4, <3>1 DEF Explained
    <3>2. CASE reporting = "direct"
      BY <1>4, <1>7, <3>2 DEF Explained
    <3> QED
      BY <3>1, <3>2, BaseTypes
  <2> QED
    BY <1>1, <1>5, <2>3, <2>4, <2>5, MoveKeepsBase
<1> QED
  BY <1>6, <1>7

LEMMA HoldEndsKeepsBase ==
    ASSUME Base, NEW t \in Tasks, HoldEnds(t)
    PROVE  Base'
<1>1. Dropped(out, t)
  BY BaseTypes, NotInLine DEF HoldEnds, Sending
<1>2. op[t].at = "hold" /\ ReleasesTap(t, out) /\ UNCHANGED <<reporting, gate, wire, old, spent>>
  BY DEF HoldEnds
<1> QED
  BY <1>1, <1>2, ReleaseKeepsBase

LEMMA SendRaisesKeepsBase ==
    ASSUME Base, NEW t \in Agents, NEW q, Dropped(q, t), SendRaises(t, q),
           UNCHANGED <<reporting, gate, wire, old, spent>>
    PROVE  Base'
<1>1. CASE op[t].at = "press" /\ reporting = "periodic"
  <2>1. ReleasesTap(t, q) /\ t \in Tasks
    BY <1>1, BaseTypes DEF SendRaises, Base, Placed
  <2> QED
    BY <1>1, <2>1, ReleaseKeepsBase
<1>2. CASE /\ op[t].at \in {"press", "send", "release"}
           /\ ~(op[t].at = "press" /\ reporting = "periodic")
  <2>1. /\ t \in Tasks /\ store' = store
        /\ Ends(t) /\ LockFreed /\ out' = q
        /\ held' = IF op[t].at = "release" /\ reporting = "direct"
                   THEN held \cup (store.buttons \cap op[t].req.input.buttons) ELSE held
    BY <1>2, BaseTypes DEF SendRaises, LeftPressed, Base, Placed
  <2>2. Fits(t, "idle", opLock')
    BY <1>2, <2>1, FreedLockFits DEF Operating, Sending, LockFreed
  <2>3. Moves(t, NoOp)
    BY <2>1, <2>2, NoOpMoves
  <2>4. Computed(t, NoOp)
    BY <2>1, NoOpType DEF Computed, Current
  <2>5. Explained(t, NoOp)
    <3>1. CASE op[t].at = "release" /\ reporting = "direct"
      BY <2>1, <3>1 DEF Explained
    <3>2. CASE ~(op[t].at = "release" /\ reporting = "direct")
      <4>1. ~Pressing(t)
        BY <1>2, <3>2, BaseTypes DEF Pressing
      <4> QED
        BY <2>1, <3>2, <4>1 DEF Explained
    <3> QED
      BY <3>1, <3>2
  <2>6. Consistent
    <3>1. held' \subseteq Buttons
      BY <2>1, BaseTypes, AskedInput
    <3> QED
      BY <2>1, <3>1, BaseTypes, UnshownStep
  <2> QED
    BY <2>3, <2>4, <2>5, <2>6, MoveKeepsBase
<1>3. CASE op[t].at = "trailing"
  <2> DEFINE o == Going(t, "closing", Neutral)
  <2>1. /\ Waits(t, "closing", Neutral) /\ LockFreed /\ out' = q
        /\ store' = store /\ held' = held
    BY <1>3 DEF SendRaises
  <2>2. o \in OpStates /\ o.req = op[t].req /\ o.at = "closing" /\ o.state = Neutral
        /\ op' = [op EXCEPT ![t] = o]
    BY <2>1, NeutralInput, GoingType DEF Places
  <2>3. Fits(t, "closing", opLock') /\ t = Closer
    BY <1>3, <2>1, FreedLockFits, BaseTypes DEF Operating, Sending, LockFreed, Base, Placed
  <2> HIDE DEF o
  <2>4. Moves(t, o)
    <3>1. out' = Lined(q, t, o.at)
      BY <2>1, <2>2 DEF Lined, Sending
    <3>2. PlacedAt(t, o) /\ Representable(o.state)
      BY <2>2, <2>3, BaseTypes, NeutralInput DEF PlacedAt
    <3> QED
      BY <2>2, <2>3, <3>1, <3>2 DEF Moves
  <2>5. Consistent
    BY <2>1, BaseTypes, UnshownStep
  <2>6. Explained(t, o) /\ Computed(t, o)
    BY <1>3, <2>1, <2>2 DEF Explained, Computed, Current, Pressing
  <2> QED
    BY <2>4, <2>5, <2>6, MoveKeepsBase
<1> QED
  BY <1>1, <1>2, <1>3 DEF SendRaises

LEMMA RefuseKeepsBase ==
    ASSUME Base, NEW t \in Agents, Refuse(t)
    PROVE  Base'
  BY FirstInLine, SendRaisesKeepsBase DEF Refuse

LEMMA CancelSendKeepsBase ==
    ASSUME Base, NEW t \in Tasks, CancelSend(t)
    PROVE  Base'
<1>1. t \in Agents /\ op[t].at \in Sending
  BY BaseTypes DEF CancelSend, Sending
<1> QED
  BY <1>1, SomewhereInLine, SendRaisesKeepsBase DEF CancelSend

-----------------------------------------------------------------------------
(* The steps that begin an operation.                                      *)

(* A direct controller computes its candidate with the lock, or gives the  *)
(* lock back because it cannot.                                            *)
LEMMA DirectUpdateKeepsBase ==
    ASSUME Base, NEW t \in Tasks, NEW req \in Asked, NEW l, DirectUpdate(t, req, l),
           reporting = "direct",
           \/ op[t].at = "idle" /\ ~Contended(opLock) /\ l = Taken(opLock, t)
           \/ Woken(opLock, t) /\ l = Granted(opLock, t),
           UNCHANGED <<reporting, store, gate, wire, old, held>>, spent' \in Counts
    PROVE  Base'
<1> DEFINE candidate == Transform(req, store)
           o == [req |-> req, at |-> IF req.name = "tap" THEN "press" ELSE "send",
                 state |-> candidate]
<1>1. t \in Agents /\ op[t].at \in {"idle", "lock"} /\ Dropped(out, t)
  <2>1. t \in Agents
    BY BaseTypes
  <2>2. op[t].at \in {"idle", "lock"}
    <3>1. CASE Woken(opLock, t)
      <4>1. Len(opLock.waiters) \in Nat \ {0} /\ opLock.waiters[1] = t
        BY <3>1, LockFacts DEF Woken
      <4> QED
        BY <2>1, <4>1, LockFacts DEF Among
    <3> QED
      BY <3>1
  <2> QED
    BY <2>1, <2>2, NotInLine DEF Sending
<1>2. candidate \in InputStates
  BY BaseTypes, TransformInput
<1>3. Consistent
  <2>1. reporting = "direct" /\ ~old' => store' = IF gate'.link THEN wire' ELSE Neutral
    BY DEF Base, Shown
  <2> QED
    BY <2>1, BaseTypes DEF Consistent
<1>4. \A at \in Places : Explained(t, [req |-> req, at |-> at, state |-> candidate])
                         /\ Explained(t, NoOp)
  <2>1. ~Pressing(t) /\ store' = store /\ held' = held
    BY <1>1 DEF Pressing
  <2> QED
    BY <2>1 DEF Explained
<1>5. CASE RequireConnected /\ Representable(candidate)
  <2>1. /\ op' = [[op EXCEPT ![t] = [NoOp EXCEPT !.req = req]]
                     EXCEPT ![t].at = IF req.name = "tap" THEN "press" ELSE "send",
                            ![t].state = candidate]
        /\ out' = Append(out, t) /\ opLock' = l
    BY <1>5 DEF DirectUpdate
  <2>2. op' = [op EXCEPT ![t] = o]
    BY <1>1, <2>1 DEF NoOp, Base, Typed
  <2>3. o \in OpStates /\ o.at \in {"press", "send"} /\ o.req = req /\ o.state = candidate
        /\ o.at = IF req.name = "tap" THEN "press" ELSE "send"
    BY <1>2 DEF OpStates, Places, Asked
  <2>4. Explained(t, o)
    BY <1>4, <2>3 DEF Places
  <2> HIDE DEF o
  <2>5. Fits(t, o.at, opLock')
    BY <1>1, <2>1, <2>3, GottenLockFits DEF Operating, Sending
  <2>6. Moves(t, o)
    <3>1. out' = Lined(out, t, o.at)
      BY <2>1, <2>3 DEF Lined, Sending
    <3>2. PlacedAt(t, o) /\ Representable(o.state)
      BY <1>5, <2>3, BaseTypes DEF PlacedAt, Tapping
    <3> QED
      BY <1>1, <2>2, <2>3, <2>5, <3>1, <3>2 DEF Moves
  <2>7. Computed(t, o)
    BY <2>3 DEF Computed, Current
  <2> QED
    BY <1>1, <1>3, <2>4, <2>6, <2>7, MoveKeepsBase
<1>6. CASE ~(RequireConnected /\ Representable(candidate))
  <2>1. Ends(t) /\ opLock' = Released(l) /\ out' = out
    BY <1>6 DEF DirectUpdate
  <2>2. Fits(t, "idle", opLock')
    BY <1>1, <2>1, GottenLockFits DEF Operating, Sending
  <2>3. Moves(t, NoOp)
    BY <1>1, <2>1, <2>2, NoOpMoves
  <2>4. Computed(t, NoOp)
    BY NoOpType DEF Computed, Current
  <2> QED
    BY <1>1, <1>3, <1>4, <2>3, <2>4, MoveKeepsBase DEF Places
<1> QED
  BY <1>5, <1>6

(* A periodic controller edits the store, or refuses to.                   *)
LEMMA UpdateKeepsBase ==
    ASSUME Base, NEW t \in Tasks, NEW req \in Requests, Update(t, req), op[t].at = "idle",
           reporting = "periodic",
           UNCHANGED <<reporting, gate, wire, old>>, spent' \in Counts
    PROVE  Base'
<1> DEFINE edited == Transform(req, store)
<1>1. t \in Agents /\ Dropped(out, t) /\ req \in Asked /\ ~Pressing(t)
  BY BaseTypes, NotInLine DEF Sending, Asked, Pressing
<1>2. edited \in InputStates
  BY <1>1, BaseTypes, TransformInput
<1>3. Fits(t, op[t].at, opLock)
  BY <1>1, SameLockFits
<1>4. CASE ~Representable(edited) \/ (req.name = "tap" /\ ~RequireConnected)
  <2>1. UNCHANGED <<store, held, op, out, opLock>>
    BY <1>4 DEF Update
  <2>2. Moves(t, op[t]) /\ Computed(t, op[t]) /\ Explained(t, op[t])
    <3>1. op' = [op EXCEPT ![t] = op[t]] /\ op[t] \in OpStates
      BY <1>1, <2>1, BaseTypes DEF Base, Typed
    <3>2. out' = Lined(out, t, op[t].at)
      BY <2>1 DEF Lined, Sending
    <3>3. PlacedAt(t, op[t]) /\ Representable(op[t].state)
      BY <1>1, BaseTypes DEF PlacedAt, Tapping
    <3>4. Computed(t, op[t]) /\ Explained(t, op[t])
      BY <1>1, <2>1 DEF Computed, Explained
    <3> QED
      BY <1>1, <1>3, <2>1, <3>1, <3>2, <3>3, <3>4 DEF Moves
  <2>3. Consistent
    BY <2>1, BaseTypes DEF Consistent
  <2> QED
    BY <1>1, <2>2, <2>3, MoveKeepsBase
<1>5. CASE /\ ~(~Representable(edited) \/ (req.name = "tap" /\ ~RequireConnected))
           /\ req.name = "tap"
  <2> DEFINE o == [req |-> req, at |-> "press", state |-> edited]
  <2>1. /\ store' = edited /\ opLock' = opLock /\ op' = [op EXCEPT ![t] = o]
        /\ out' = Append(out, t) /\ held' = held
    BY <1>5 DEF Update
  <2>2. o \in OpStates /\ o.at = "press" /\ o.req = req /\ o.state = edited
    BY <1>1, <1>2 DEF OpStates, Places, Asked
  <2>3. store'.buttons = store.buttons \cup req.input.buttons
    BY <1>1, <1>5, <2>1, BaseTypes, TransformInput
  <2> HIDE DEF o, edited
  <2>4. Moves(t, o)
    <3>1. out' = Lined(out, t, o.at)
      BY <2>1, <2>2 DEF Lined, Sending
    <3>2. PlacedAt(t, o) /\ Representable(o.state)
      BY <1>5, <2>2, BaseTypes DEF PlacedAt, Tapping
    <3>3. Fits(t, o.at, opLock')
      BY <1>1, <2>1, <2>2, SameLockFits
    <3> QED
      BY <1>1, <2>1, <2>2, <3>1, <3>2, <3>3 DEF Moves
  <2>5. Computed(t, o) /\ Explained(t, o)
    BY <1>1, <2>1, <2>2, <2>3 DEF Computed, Explained, Covers
  <2>6. Consistent
    BY <1>2, <1>5, <2>1, BaseTypes DEF Consistent
  <2> QED
    BY <1>1, <2>4, <2>5, <2>6, MoveKeepsBase
<1>6. CASE Representable(edited) /\ req.name # "tap"
  <2>1. /\ store' = edited /\ opLock' = opLock /\ op' = op /\ out' = out
        /\ held' = HeldAfter(req, held)
    BY <1>6 DEF Update
  <2>2. /\ held' \subseteq Buttons
        /\ \A b \in store'.buttons : b \in held' \/ b \in store.buttons \ held
    BY <1>1, <1>6, <2>1, BaseTypes, HeldOrHad
  <2> HIDE DEF edited
  <2>3. Moves(t, op[t])
    <3>1. op' = [op EXCEPT ![t] = op[t]] /\ op[t] \in OpStates
      BY <1>1, <2>1, BaseTypes DEF Base, Typed
    <3>2. out' = Lined(out, t, op[t].at)
      BY <2>1 DEF Lined, Sending
    <3>3. PlacedAt(t, op[t]) /\ Representable(op[t].state)
      BY <1>1, BaseTypes DEF PlacedAt, Tapping
    <3> QED
      BY <1>1, <1>3, <2>1, <3>1, <3>2, <3>3 DEF Moves
  <2>4. Computed(t, op[t]) /\ Explained(t, op[t])
    BY <1>1, <2>1, <2>2 DEF Computed, Explained
  <2>5. Consistent
    BY <1>2, <1>6, <2>1, <2>2, BaseTypes DEF Consistent
  <2> QED
    BY <1>1, <2>3, <2>4, <2>5, MoveKeepsBase
<1> QED
  BY <1>4, <1>5, <1>6

LEMMA AskKeepsBase ==
    ASSUME Base, NEW t \in Tasks, NEW req \in Operations, Ask(t, req)
    PROVE  Base'
<1>1. /\ t \in Agents /\ op[t].at = "idle" /\ req \in Requests /\ req \in Asked
      /\ reporting' = reporting /\ gate' = gate /\ wire' = wire /\ old' = old
      /\ Dropped(out, t) /\ ~Pressing(t) /\ Current(op[t], store)
  BY BaseTypes, InputAssumption, NotInLine DEF Ask, Asked, Sending, Pressing, Current
<1>2. spent' \in Counts
  BY BaseTypes, InputAssumption DEF Ask, Counts
<1>3. CASE ~Acceptable(req)
  <2>1. UNCHANGED <<store, held, op, out, opLock>>
    BY <1>3 DEF Ask
  <2>2. Moves(t, op[t])
    <3>1. op' = [op EXCEPT ![t] = op[t]] /\ op[t] \in OpStates
      BY <1>1, <2>1, BaseTypes DEF Base, Typed
    <3>2. out' = Lined(out, t, op[t].at)
      BY <1>1, <2>1 DEF Lined, Sending
    <3>3. PlacedAt(t, op[t]) /\ Representable(op[t].state)
      BY <1>1, BaseTypes DEF PlacedAt, Tapping
    <3>4. Fits(t, op[t].at, opLock')
      BY <1>1, <2>1, SameLockFits
    <3> QED
      BY <1>1, <3>1, <3>2, <3>3, <3>4 DEF Moves
  <2>3. Computed(t, op[t]) /\ Explained(t, op[t])
    BY <1>1, <2>1 DEF Computed, Explained
  <2>4. Consistent
    <3>1. reporting = "direct" /\ ~old' => store' = IF gate'.link THEN wire' ELSE Neutral
      BY <1>1, <2>1 DEF Base, Shown
    <3> QED
      BY <1>1, <1>2, <2>1, <3>1, BaseTypes DEF Consistent
  <2> QED
    BY <1>1, <2>2, <2>3, <2>4, MoveKeepsBase
<1>4. CASE Acceptable(req) /\ reporting = "direct"
  <2>1. AskDirect(t, req) /\ store' = store /\ held' = held
    BY <1>4 DEF Ask, AskDirect
  <2>2. CASE Contended(opLock)
    <3> DEFINE o == [req |-> req, at |-> "lock", state |-> Neutral]
    <3>1. op' = [op EXCEPT ![t] = o] /\ opLock' = Queued(opLock, t) /\ out' = out
      BY <2>1, <2>2 DEF AskDirect, NoOp
    <3>2. o \in OpStates /\ o.req = req /\ o.at = "lock" /\ o.state = Neutral
      BY <1>1, NeutralInput DEF OpStates, Places, Asked
    <3> HIDE DEF o
    <3>3. Fits(t, o.at, opLock')
      BY <1>1, <1>4, <3>1, <3>2, QueuedLockFits
    <3>4. out' = Lined(out, t, o.at)
      BY <3>1, <3>2 DEF Lined, Sending
    <3>5. PlacedAt(t, o) /\ Representable(o.state)
      BY <3>2, BaseTypes, NeutralInput DEF PlacedAt, Tapping
    <3>6. Moves(t, o)
      BY <1>1, <3>1, <3>2, <3>3, <3>4, <3>5 DEF Moves
    <3>7. Computed(t, o) /\ Explained(t, o)
      BY <1>1, <2>1, <3>2 DEF Computed, Current, Explained
    <3>8. Consistent
      <4>1. reporting = "direct" /\ ~old' => store' = IF gate'.link THEN wire' ELSE Neutral
        BY <1>1, <2>1 DEF Base, Shown
      <4> QED
        BY <1>1, <1>2, <2>1, <4>1, BaseTypes DEF Consistent
    <3> QED
      BY <1>1, <3>6, <3>7, <3>8, MoveKeepsBase
  <2>3. CASE ~Contended(opLock)
    <3>1. DirectUpdate(t, req, Taken(opLock, t))
      BY <2>1, <2>3 DEF AskDirect
    <3> QED
      BY <1>1, <1>2, <1>4, <2>1, <2>3, <3>1, DirectUpdateKeepsBase
  <2> QED
    BY <2>2, <2>3
<1>5. CASE Acceptable(req) /\ reporting = "periodic"
  <2>1. Update(t, req)
    BY <1>5 DEF Ask
  <2> QED
    BY <1>1, <1>2, <1>5, <2>1, UpdateKeepsBase
<1> QED
  BY <1>3, <1>4, <1>5, BaseTypes

LEMMA CancelWaitKeepsBase ==
    ASSUME Base, NEW t \in Tasks, CancelWait(t)
    PROVE  Base'
<1>1. t \in Agents /\ op[t].at = "lock" /\ Ends(t) /\ opLock' = Abandoned(opLock, t)
      /\ UNCHANGED <<reporting, store, gate, out, wire, old, held, spent>>
  BY BaseTypes DEF CancelWait
<1>2. Dropped(out, t)
  BY <1>1, NotInLine DEF Sending
<1>3. Moves(t, NoOp)
  BY <1>1, <1>2, AbandonedLockFits, NoOpMoves DEF Operating, Sending
<1>4. Computed(t, NoOp) /\ Explained(t, NoOp)
  BY <1>1, NoOpType DEF Computed, Current, Explained, Pressing
<1>5. Consistent
  BY <1>1, BaseTypes, UnshownStep
<1> QED
  BY <1>1, <1>3, <1>4, <1>5, MoveKeepsBase

-----------------------------------------------------------------------------
(* close() and the link.                                                   *)

(* close() goes on to a place of its own; the input is not touched, or is  *)
(* made neutral where nothing is held.                                     *)
LEMMA CloserMoves ==
    ASSUME Base, NEW at \in {"lock", "trailing", "closing"}, Waits(Closer, at, Neutral),
           op[Closer].at \notin Sending, Fits(Closer, at, opLock'),
           out' = IF at = "trailing" THEN Append(out, Closer) ELSE out,
           reporting' = reporting, wire' = wire, old' = old, spent' = spent,
           gate' \in Gates, gate'.link = gate.link,
           gate'.sender = gate.sender, gate'.connected = gate.connected,
           \/ store' = store /\ held' = held
           \/ store' = Neutral /\ held' = {} /\ reporting = "periodic"
    PROVE  Base'
<1> DEFINE o == Going(Closer, at, Neutral)
<1>1. o \in OpStates /\ o.at = at /\ o.state = Neutral /\ op' = [op EXCEPT ![Closer] = o]
  BY BaseTypes, NeutralInput, GoingType DEF Places
<1> HIDE DEF o
<1>2. Moves(Closer, o)
  <2>1. out' = Lined(out, Closer, o.at) /\ Dropped(out, Closer)
    BY <1>1, BaseTypes, NotInLine DEF Lined, Sending
  <2>2. PlacedAt(Closer, o) /\ Representable(o.state)
    BY <1>1, BaseTypes, NeutralInput DEF PlacedAt
  <2> QED
    BY <1>1, <2>1, <2>2 DEF Moves
<1>3. ~Pressing(Closer)
  BY DEF Pressing, Base, Placed, Sending
<1>4. Computed(Closer, o) /\ Explained(Closer, o)
  BY <1>3, BaseTypes, NeutralInput DEF Computed, Explained
<1>5. Consistent
  <2>1. reporting = "direct" /\ ~old' => store' = IF gate'.link THEN wire' ELSE Neutral
    BY DEF Base, Shown
  <2> QED
    BY <2>1, BaseTypes, NeutralInput DEF Consistent
<1> QED
  BY <1>2, <1>4, <1>5, BaseTypes, MoveKeepsBase

(* close() has the operation lock.                                         *)
LEMMA TrailingNeutralKeepsBase ==
    ASSUME Base, NEW l, TrailingNeutral(l), reporting = "direct",
           \/ op[Closer].at = "idle" /\ ~Contended(opLock) /\ l = Taken(opLock, Closer)
           \/ Woken(opLock, Closer) /\ l = Granted(opLock, Closer),
           UNCHANGED <<reporting, store, wire, old, held, spent>>,
           gate' \in Gates, gate'.link = gate.link,
           gate'.sender = gate.sender, gate'.connected = gate.connected
    PROVE  Base'
<1>1. op[Closer].at \notin Sending
  <2>1. CASE Woken(opLock, Closer)
    <3>1. Len(opLock.waiters) \in Nat \ {0} /\ opLock.waiters[1] = Closer
      BY <2>1, LockFacts DEF Woken
    <3> QED
      BY <3>1, LockFacts, BaseTypes DEF Among, Sending
  <2> QED
    BY <2>1 DEF Sending
<1>2. CASE RequireConnected
  <2>1. Waits(Closer, "trailing", Neutral) /\ out' = Append(out, Closer) /\ opLock' = l
    BY <1>2 DEF TrailingNeutral, Sends
  <2>2. Fits(Closer, "trailing", opLock')
    BY <2>1, BaseTypes, GottenLockFits DEF Operating, Sending
  <2> QED
    BY <1>1, <2>1, <2>2, CloserMoves
<1>3. CASE ~RequireConnected
  <2>1. Waits(Closer, "closing", Neutral) /\ out' = out /\ opLock' = Released(l)
    BY <1>3 DEF TrailingNeutral
  <2>2. Fits(Closer, "closing", opLock')
    BY <2>1, BaseTypes, GottenLockFits DEF Operating, Sending
  <2> QED
    BY <1>1, <2>1, <2>2, CloserMoves
<1> QED
  BY <1>2, <1>3

LEMMA BeginCloseKeepsBase ==
    ASSUME Base, BeginClose
    PROVE  Base'
<1>1. /\ op[Closer].at = "idle" /\ op[Closer].at \notin Sending /\ Closer \in Agents
      /\ reporting' = reporting /\ wire' = wire /\ old' = old /\ spent' = spent
      /\ gate' = [gate EXCEPT !.closing = TRUE]
  BY BaseTypes DEF BeginClose, Sending
<1>2. /\ gate' \in Gates /\ gate'.link = gate.link
      /\ gate'.sender = gate.sender /\ gate'.connected = gate.connected
  BY <1>1, BaseTypes DEF Gates
<1>3. \A at \in {"trailing", "closing"} :
          reporting = "periodic" \/ at = "closing" => Fits(Closer, at, opLock)
  BY <1>1, SameLockFits, LockFacts DEF Operating, Sending
<1>4. CASE reporting = "direct" /\ CloseDirect
  <2>1. CASE Contended(opLock)
    <3>1. /\ Waits(Closer, "lock", Neutral) /\ opLock' = Queued(opLock, Closer) /\ out' = out
          /\ store' = store /\ held' = held
      BY <1>4, <2>1 DEF CloseDirect
    <3>2. Fits(Closer, "lock", opLock')
      BY <1>1, <1>4, <3>1, QueuedLockFits
    <3> QED
      BY <1>1, <1>2, <3>1, <3>2, CloserMoves
  <2>2. CASE ~Contended(opLock)
    <3>1. TrailingNeutral(Taken(opLock, Closer)) /\ store' = store /\ held' = held
      BY <1>4, <2>2 DEF CloseDirect
    <3> QED
      BY <1>1, <1>2, <1>4, <2>2, <3>1, TrailingNeutralKeepsBase
  <2> QED
    BY <2>1, <2>2
<1>5. CASE reporting = "periodic" /\ ClosePeriodic
  <2>1. store' = Neutral /\ held' = {} /\ opLock' = opLock
    BY <1>5 DEF ClosePeriodic
  <2>2. CASE gate.connected
    <3>1. Waits(Closer, "trailing", Neutral) /\ out' = Append(out, Closer)
      BY <1>5, <2>2 DEF ClosePeriodic, Sends
    <3> QED
      BY <1>1, <1>2, <1>3, <1>5, <2>1, <3>1, CloserMoves
  <2>3. CASE ~gate.connected
    <3>1. Waits(Closer, "closing", Neutral) /\ out' = out
      BY <1>5, <2>3 DEF ClosePeriodic
    <3> QED
      BY <1>1, <1>2, <1>3, <1>5, <2>1, <3>1, CloserMoves
  <2> QED
    BY <2>2, <2>3
<1>6. CASE Waits(Closer, "closing", Neutral) /\ UNCHANGED <<store, held, out, opLock>>
  BY <1>1, <1>2, <1>3, <1>6, CloserMoves
<1> QED
  BY <1>4, <1>5, <1>6 DEF BeginClose

LEMMA CloseDoneKeepsBase ==
    ASSUME Base, CloseDone
    PROVE  Base'
<1>1. /\ op[Closer].at = "closing" /\ Closer \in Agents
      /\ gate' = [gate EXCEPT !.sender = FALSE, !.link = FALSE, !.closing = FALSE]
      /\ old' = (store # Neutral)
      /\ Ends(Closer) /\ out' = out
      /\ UNCHANGED <<reporting, store, opLock, wire, held, spent>>
  BY BaseTypes DEF CloseDone
<1>2. gate' \in Gates /\ ~gate'.link
  BY <1>1, BaseTypes DEF Gates
<1>3. Moves(Closer, NoOp)
  <2>1. Dropped(out, Closer) /\ Fits(Closer, "idle", opLock')
    BY <1>1, NotInLine, SameLockFits DEF Operating, Sending
  <2> QED
    BY <1>1, <2>1, NoOpMoves
<1>4. Computed(Closer, NoOp) /\ Explained(Closer, NoOp)
  BY <1>1, BaseTypes DEF Computed, Explained, Pressing
<1>5. Consistent
  BY <1>1, <1>2, BaseTypes DEF Consistent
<1> QED
  BY <1>1, <1>3, <1>4, <1>5, MoveKeepsBase

LEMMA LockGrantedKeepsBase ==
    ASSUME Base, NEW t \in Agents, LockGranted(t)
    PROVE  Base'
<1>1. /\ Woken(opLock, t) /\ reporting' = reporting /\ gate' = gate /\ spent' = spent
      /\ UNCHANGED <<store, wire, old, held>>
  BY DEF LockGranted
<1>2. reporting = "direct"
  <2>1. opLock.waiters # << >>
    BY <1>1 DEF Woken
  <2> QED
    BY <2>1, LockFacts DEF Base, Serialized, FreeLock
<1>3. CASE t = Closer
  BY <1>1, <1>2, <1>3, BaseTypes, TrailingNeutralKeepsBase DEF LockGranted
<1>4. CASE t # Closer
  <2>1. t \in Tasks /\ op[t].req \in Asked /\ spent' \in Counts
    BY <1>1, <1>4, BaseTypes
  <2>2. DirectUpdate(t, op[t].req, Granted(opLock, t))
    BY <1>4 DEF LockGranted
  <2> QED
    BY <1>1, <1>2, <2>1, <2>2, DirectUpdateKeepsBase
<1> QED
  BY <1>3, <1>4

(* No operation goes on.                                                   *)
LEMMA RestKeepsBase ==
    ASSUME Base, UNCHANGED <<reporting, opLock, op, out>>,
           store' \in InputStates, Representable(store'),
           wire' \in InputStates, Representable(wire'), gate' \in Gates,
           gate'.link => gate'.sender /\ gate'.connected,
           old' \in BOOLEAN, held' \subseteq Buttons, spent' \in Counts,
           CandidateIsCurrent', Shown', Pressed'
    PROVE  Base'
<1>1. Typed'
  BY DEF Base, Typed
<1>2. Suitable'
  BY DEF Base, Suitable, Representable
<1>3. Placed' /\ InLine'
  BY DEF Base, Placed, InLine, Distinct, Among
<1>4. Serialized'
  BY DEF Base, Serialized, Distinct, Among
<1> QED
  BY <1>1, <1>2, <1>3, <1>4 DEF Base

LEMMA LoopSendsKeepsBase ==
    ASSUME Base, LoopSends
    PROVE  Base'
<1>1. /\ reporting = "periodic" /\ wire' = store
      /\ UNCHANGED <<reporting, store, gate, opLock, op, out, old, held, spent>>
  BY DEF LoopSends
<1>2. CandidateIsCurrent' /\ Shown' /\ Pressed'
  BY <1>1 DEF Base, CandidateIsCurrent, Shown, Pressed, Pressing
<1> QED
  BY <1>1, <1>2, BaseTypes, RestKeepsBase

LEMMA DisconnectedKeepsBase ==
    ASSUME Base, Disconnected
    PROVE  Base'
<1>1. /\ gate' = [gate EXCEPT !.link = FALSE, !.connected = FALSE]
      /\ store' = Neutral /\ held' = {} /\ old' = FALSE
      /\ UNCHANGED <<reporting, opLock, op, out, wire, spent>>
  BY DEF Disconnected
<1>2. gate' \in Gates /\ ~gate'.link
  BY <1>1, BaseTypes DEF Gates
<1>3. CandidateIsCurrent' /\ Shown' /\ Pressed'
  BY <1>1, <1>2, NeutralInput DEF CandidateIsCurrent, Shown, Pressed
<1> QED
  BY <1>1, <1>2, <1>3, BaseTypes, NeutralInput, RestKeepsBase

LEMMA CleanUpKeepsBase ==
    ASSUME Base, DisconnectCleanUp
    PROVE  Base'
<1>1. /\ gate' = [gate EXCEPT !.sender = FALSE] /\ ~gate.link
      /\ UNCHANGED <<reporting, store, opLock, op, out, wire, old, held, spent>>
  BY DEF DisconnectCleanUp
<1>2. gate' \in Gates /\ ~gate'.link
  BY <1>1, BaseTypes DEF Gates
<1>3. CandidateIsCurrent' /\ Shown' /\ Pressed'
  BY <1>1, <1>2 DEF Base, CandidateIsCurrent, Shown, Pressed, Pressing
<1> QED
  BY <1>1, <1>2, <1>3, BaseTypes, RestKeepsBase

(* Nothing waits for the sender when a new link is ready for input.        *)
LEMMA ConnectedKeepsBase ==
    ASSUME Base, Connected
    PROVE  Base'
<1>1. /\ gate' = [gate EXCEPT !.sender = TRUE, !.link = TRUE, !.connected = TRUE]
      /\ ~gate.sender /\ out = << >> /\ wire' = Neutral
      /\ UNCHANGED <<reporting, store, opLock, op, out, old, held>>
  BY DEF Connected
<1>2. gate' \in Gates /\ gate'.sender /\ gate'.connected /\ ~gate.link
  BY <1>1, BaseTypes DEF Gates
<1>3. \A t \in Tasks : op[t].at \notin Sending
  <2>1. \A t \in Agents : ~Among(t, out)
    BY <1>1 DEF Among
  <2> QED
    BY <2>1, BaseTypes DEF Base, InLine
<1>4. CandidateIsCurrent'
  BY <1>1, <1>3 DEF CandidateIsCurrent, Sending
<1>5. Shown'
  BY <1>1, <1>2 DEF Base, Shown
<1>6. Pressed'
  BY <1>1 DEF Base, Pressed, Pressing
<1>7. spent' \in Counts
  BY BaseTypes, InputAssumption DEF Connected, Counts
<1> QED
  BY <1>1, <1>2, <1>4, <1>5, <1>6, <1>7, BaseTypes, NeutralInput, RestKeepsBase

-----------------------------------------------------------------------------
(* The invariant.                                                          *)

LEMMA BaseInit ==
    ASSUME Init
    PROVE  Base
<1>1. /\ op \in [Agents -> OpStates] /\ \A t \in Agents : op[t] = NoOp
  BY NoOpType DEF Init
<1>2. /\ opLock = FreeLock /\ FreeLock \in Locks(Agents)
      /\ FreeLock.waiters = << >> /\ FreeLock.holder = NoTask
  BY LockTypes DEF Init, FreeLock, Locks
<1>3. /\ NoTask \notin Agents /\ Tasks \subseteq Agents /\ Closer \in Agents
      /\ out = << >> /\ \A t : ~Among(t, << >>)
  BY InputAssumption DEF Init, Among, Agents
<1>4. Typed
  <2>1. gate \in Gates /\ spent \in Counts
    BY InputAssumption DEF Init, Gates, Counts
  <2>2. << >> \in Seq(Agents) /\ reporting \in {"periodic", "direct"}
    BY InputAssumption DEF Init
  <2> QED
    BY <1>1, <1>2, <2>1, <2>2, NeutralInput DEF Init, Typed
<1>5. Suitable
  BY <1>1, NoOpType, NeutralInput DEF Init, Suitable
<1>6. Placed
  BY <1>1, <1>3, NoOpType DEF Init, Placed, Tapping
<1>7. InLine
  BY <1>1, <1>3, NoOpType DEF InLine, Distinct, Sending
<1>8. Serialized
  BY <1>1, <1>2, <1>3, NoOpType DEF Serialized, Distinct, Operating, Sending
<1>9. CandidateIsCurrent /\ Shown /\ Pressed
  BY NeutralInput DEF Init, CandidateIsCurrent, Shown, Pressed
<1> QED
  BY <1>4, <1>5, <1>6, <1>7, <1>8, <1>9 DEF Base

LEMMA BaseStep ==
    ASSUME Base, [Next]_vars
    PROVE  Base'
<1>1. ASSUME NEW t \in Tasks, NEW req \in Operations, Ask(t, req)
      PROVE  Base'
  BY <1>1, AskKeepsBase
<1>2. ASSUME NEW t \in Agents, Accept(t) \/ Refuse(t) \/ LockGranted(t)
      PROVE  Base'
  BY <1>2, AcceptKeepsBase, RefuseKeepsBase, LockGrantedKeepsBase
<1>3. ASSUME NEW t \in Tasks, CancelSend(t) \/ CancelWait(t) \/ HoldEnds(t)
      PROVE  Base'
  BY <1>3, CancelSendKeepsBase, CancelWaitKeepsBase, HoldEndsKeepsBase
<1>4. CASE LoopSends
  BY <1>4, LoopSendsKeepsBase
<1>5. CASE BeginClose \/ CloseDone
  BY <1>5, BeginCloseKeepsBase, CloseDoneKeepsBase
<1>6. CASE Disconnected \/ DisconnectCleanUp \/ Connected
  BY <1>6, DisconnectedKeepsBase, CleanUpKeepsBase, ConnectedKeepsBase
<1>7. CASE UNCHANGED vars
  <2>1. UNCHANGED <<reporting, store, gate, opLock, op, out, wire, old, held, spent>>
    BY <1>7 DEF vars
  <2>2. CandidateIsCurrent' /\ Shown' /\ Pressed'
    BY <2>1 DEF Base, CandidateIsCurrent, Shown, Pressed, Pressing
  <2> QED
    BY <2>1, <2>2, BaseTypes, RestKeepsBase
<1> QED
  BY <1>1, <1>2, <1>3, <1>4, <1>5, <1>6, <1>7 DEF Next

LEMMA BaseAlways == Spec => []Base
<1>1. Init => Base
  BY BaseInit
<1>2. Base /\ [Next]_vars => Base'
  BY BaseStep
<1> QED
  BY <1>1, <1>2, PTL DEF Spec

-----------------------------------------------------------------------------
(* The variables keep their types, and neither what is stored nor what the *)
(* host gets ever goes beyond the profile of the controller: every path    *)
(* from an operation to a report is behind validate_input_state().         *)
THEOREM TypeCorrect == Spec => []TypeOK
<1>1. Base => TypeOK
  <2> SUFFICES ASSUME Base PROVE TypeOK
    OBVIOUS
  <2>1. \A t \in Agents : op[t].at \in Places
    BY BaseTypes DEF OpStates
  <2>2. \A s \in {store, wire} :
            /\ s.buttons \subseteq Supported
            /\ \A side \in Sides \ SupportedSticks : s.sticks[side] = "center"
    BY BaseTypes DEF Representable
  <2> QED
    BY <2>1, <2>2 DEF Base, Typed, TypeOK, Places, Gates, Counts
<1> QED
  BY <1>1, BaseAlways, PTL

(* No update of a direct controller is lost: what press(), release(),      *)
(* tap(), ... computed with _input_operation_lock is still what they make  *)
(* of the stored input when their report is sent, whatever other tasks     *)
(* ask for, are refused or cancel in the meantime.                         *)
THEOREM NoUpdateLost == Spec => []CandidateIsCurrent
<1>1. Base => CandidateIsCurrent
  BY DEF Base
<1> QED
  BY <1>1, BaseAlways, PTL

(* The store of a direct controller, which the next operation starts from, *)
(* is what the host has last got: it is written only when the transport    *)
(* has taken a report, and the loss of the link makes it neutral.          *)
THEOREM StoreShown == Spec => []StoreIsWire
<1>1. Base => StoreIsWire
  BY DEF Base, Shown, StoreIsWire
<1> QED
  BY <1>1, BaseAlways, PTL

(* Every button that is stored as pressed is held by an operation, or is   *)
(* of a tap that is under way: tap() releases in its finally, however its  *)
(* press or its wait ended.                                                *)
THEOREM NothingIsStuck == Spec => []NothingStuck
<1>1. Base => NothingStuck
  <2> SUFFICES ASSUME Base, NEW b \in store.buttons, b \notin held
               PROVE  \E t \in Tasks : op[t].req.name = "tap" /\ b \in op[t].req.input.buttons
    BY DEF NothingStuck
  <2>1. PICK t \in Tasks : Pressing(t) /\ b \in op[t].req.input.buttons
    BY DEF Base, Pressed
  <2>2. op[t].at \in Tapping
    BY <2>1 DEF Pressing, Tapping
  <2> QED
    BY <2>1, <2>2 DEF Base, Placed
<1> QED
  BY <1>1, BaseAlways, PTL

(* Nothing gets between the press and the release of a direct tap: its     *)
(* task has the operation lock in the hold, so the trailing report of      *)
(* close() and every other operation wait for it.                          *)
THEOREM TapWhole == Spec => TapUninterrupted
<1> DEFINE Whole == reporting = "direct" =>
                       \A t \in Tasks : op[t].at \in {"hold", "release"} /\ gate.link =>
                           wire' = wire \/ op'[t].at = "idle"
<1>1. Base /\ [Next]_vars => [Whole]_vars
  <2> SUFFICES ASSUME Base, Next, reporting = "direct",
                      NEW t \in Tasks, op[t].at \in {"hold", "release"}, gate.link,
                      wire' # wire
               PROVE  op'[t].at = "idle"
    BY DEF vars
  <2>1. t \in Agents /\ gate.sender
    BY BaseTypes
  <2>2. PICK u \in Agents : Accept(u)
    BY <2>1 DEF Next, Ask, Refuse, LockGranted, CancelSend, CancelWait, HoldEnds, LoopSends,
                BeginClose, CloseDone, Disconnected, DisconnectCleanUp, Connected
  <2>3. u = t
    <3>1. op[u].at \in Operating /\ op[t].at \in Operating
      BY <2>2, FirstInLine DEF Accept, Operating, Sending
    <3> QED
      BY <2>1, <3>1 DEF Base, Serialized
  <2>4. Ends(t)
    BY <2>2, <2>3 DEF Accept
  <2> QED
    BY <2>1, <2>4, NoOpType DEF Ends, Base, Typed
<1> QED
  BY <1>1, BaseAlways, PTL DEF Spec, TapUninterrupted

=============================================================================
