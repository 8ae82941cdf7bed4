------------------------ MODULE ControllerRuntimeProofs ------------------------
(***************************************************************************)
(* Proofs about the lifecycle of a controller, for every number of         *)
(* callers, output reports, links and requests.                            *)
(***************************************************************************)
EXTENDS ControllerRuntime, AsyncLockProofs, FiniteSetTheorems, SequenceTheorems, TLAPS

-----------------------------------------------------------------------------
(* The inductive invariant.                                                *)

Gps == [reporting : Reporting, state : States, open : BOOLEAN, closing : BOOLEAN, sender : Nat,
        shake : 0 .. MaxLinks, ready : 0 .. MaxLinks, loop : 0 .. MaxLinks,
        protocolReady : BOOLEAN, connected : BOOLEAN, attempt : BOOLEAN,
        disconnected : BOOLEAN, initialized : BOOLEAN, torn : BOOLEAN, due : Seq(Dues)]

Fns == {"none", "open", "pair", "reconnect", "close", "supported", "undoing", "unsupported"}

(* The places where the lifecycle lock is held, those where a handshake is *)
(* waited for, and those where the end of another task is.                 *)
Lockeds == {"opening", "open closing", "neutral", "stop shake", "stop ready",
            "stop loop", "request", "wait link", "link gone", "closing"}
Awaits == {"stop shake", "await shake", "completing"}
Stops == {"stop ready", "cancel ready", "stop loop"}
Places == Lockeds \cup Awaits \cup Stops \cup
          {"idle", "called", "lock", "peer", "connecting", "wait ready", "woken", "down",
           "down closing", "handled", "aborted", "received", "queued", "replying"}

Results == {"none", "ok", "error", "timeout", "cancelled", "failed", "no bond", "was ready",
            "ready"}
Runs == [fn : Fns, at : Places, body : {"none", "open", "close"}, obj : Nat, res : Results]
Shakes == [task : {"none", "running", "cancelling", "cancelled", "ready", "failed"},
           stopped : BOOLEAN, failure : BOOLEAN, waiters : Seq(Agents)]
Readies == [task : {"none", "created", "waiting", "cancelling", "done", "dead"}, sender : Nat]
Loops == {"none", "running", "cancelling", "stopped", "dead"}
Tps == [open : BOOLEAN, visible : BOOLEAN, link : 0 .. MaxLinks, opens : Nat,
        links : 0 .. MaxLinks]
Counts == [calls : Nat, payloads : Nat]

Typed ==
    /\ gp \in Gps
    /\ lock \in Locks(Callers)
    /\ run \in [Agents -> Runs]
    /\ shake \in [Links -> Shakes]
    /\ ready \in [Links -> Readies]
    /\ loop \in [Links -> Loops]
    /\ tp \in Tps

(* No agent is twice in the queue of the event loop.                       *)
Once(q) == \A a \in Agents : \A j, k \in 1 .. Len(q) :
                q[j] = Agent(a) /\ q[k] = Agent(a) => j = k

(* The callers at the lock are its waiters, each of them once.             *)
Queue(l, r) ==
    /\ Distinct(l.waiters)
    /\ \A c \in Callers : r[c].at = "lock" <=> Among(c, l.waiters)

(* A caller at the lock is due only once the lock was released to it.      *)
Handed(s, l, r) ==
    \A c \in Callers : r[c].at = "lock" /\ Due(s, Agent(c)) =>
        l.holder = NoTask /\ l.waiters # << >> /\ Head(l.waiters) = c

Exclusive(l, r) == \A c \in Callers : r[c].at \in Lockeds <=> l.holder = c

(* The agents that wait for handshake i are there, once each, and not due. *)
Awaiting(s, h, r) ==
    \A i \in Links :
        /\ Distinct(h[i].waiters)
        /\ \A a \in Agents : Among(a, h[i].waiters) =>
              r[a].at \in Awaits /\ r[a].obj = i /\ ~Due(s, Agent(a))

(* The callback of a link that is up, or was not up yet, does not run.     *)
Numbered(t, r) ==
    /\ t.link \in {0, t.links}
    /\ \A i \in Links : i > t.links \/ i = t.link => r[i].at = "idle"

(* Who completes a handshake completes one.                                *)
Completing(r) == \A a \in Agents : r[a].at = "completing" => r[a].obj \in Links

Ordered(s, l, r, h, t) ==
    /\ Once(s.due) /\ Queue(l, r) /\ Handed(s, l, r) /\ Exclusive(l, r)
    /\ Awaiting(s, h, r) /\ Numbered(t, r) /\ Completing(r)

NoneRuns(p) == \A i \in Links : p[i] # "running"

(* A report loop that runs is the one the runtime knows, and is open.      *)
Known(s, p) == \A i \in Links : p[i] = "running" => s.loop = i /\ s.open

Sendless(s) == s.open \/ s.sender = 0

(* Who waits for the end of a report loop is the only one, and is due when *)
(* it ends; until then another loop cannot start.                          *)
Stopping(s, p, r) ==
    \A a \in Agents : r[a].at = "stop loop" =>
        /\ NoneRuns(p) /\ (s.loop # 0 \/ s.sender = 0)
        /\ Due(s, <<"loop", r[a].obj>>) \/ Due(s, Agent(a))
        /\ \A b \in Agents : r[b].at = "stop loop" => b = a

(* Past its stop of the report loop close() finds none, and while the      *)
(* transport is opened or closed there is no sender one could start with.  *)
Pasts == {"request", "wait link", "link gone", "closing"}
PastLoop(p, r) == \A c \in Callers : r[c].at \in Pasts => NoneRuns(p)
Mute(a, at) == at = "down closing" \/ (a \in Callers /\ at \in {"opening", "open closing"})
Silent(s, p, r) == \A a \in Agents : Mute(a, r[a].at) => NoneRuns(p) /\ s.sender = 0

(* close() keeps its flag up over all its suspensions.                     *)
Closes == Pasts \cup {"neutral", "stop shake", "stop ready", "stop loop"}
Closing(s, r) == \A c \in Callers : r[c].at \in Closes => s.closing

(* When the transport has been opened, the event loop goes on with open(), *)
(* and nobody is about to stop a report loop or to close the transport.    *)
Quiet(r) == \A a \in Agents : r[a].at \notin {"stop loop", "down closing"}
Opening(s, r) ==
    \A c \in Callers : r[c].at = "opening" /\ r[c].res = "none" /\ Due(s, Agent(c)) =>
        s.due # << >> /\ Head(s.due) = Agent(c) /\ Quiet(r)

Sole(s, p, r) ==
    /\ Known(s, p) /\ Sendless(s) /\ Stopping(s, p, r) /\ PastLoop(p, r)
    /\ Silent(s, p, r) /\ Closing(s, r)

IInv ==
    /\ Typed /\ Ordered(gp, lock, run, shake, tp)
    /\ Sole(gp, loop, run) /\ Opening(gp, run)

(* A readiness wait of the sender in use may publish: no reply of the      *)
(* sender is in flight, and no close() takes it down.                      *)
MayPublish ==
    /\ gp.sender # 0 /\ ~gp.closing /\ ~Replying(gp.sender)
    /\ \E i \in Links :
          ready[i].task = "created" \/ (ready[i].task = "waiting" /\ ready[i].sender = gp.sender)

(* What no step does: publish an attempt that was decided otherwise, or in *)
(* periodic reporting but for such a readiness wait.                       *)
Sober(s) ==
    s.connected /\ ~gp.connected =>
        ~gp.attempt /\ (gp.reporting = "direct" \/ MayPublish)

-----------------------------------------------------------------------------
(* The queue of the event loop.                                            *)

LEMMA Zero == 0 \in 0 .. MaxLinks /\ Links \subseteq 0 .. MaxLinks /\ MaxLinks \in Nat
BY RuntimeAssumption DEF Links

(* The elements of a finite set in some order, each of them once.          *)
LEMMA Sequenced ==
    ASSUME NEW S, IsFiniteSet(S)
    PROVE  /\ SetToSeq(S) \in Seq(S)
           /\ Distinct(SetToSeq(S))
<1>1. Cardinality(S) \in Nat /\ ExistsBijection(1 .. Cardinality(S), S)
  BY FS_CardinalityType
<1>2. PICK f \in [1 .. Cardinality(S) -> S] : IsInjective(f)
  BY <1>1 DEF ExistsBijection, Bijection, Injection
<1>3. SetToSeq(S) \in [1 .. Cardinality(S) -> S] /\ IsInjective(SetToSeq(S))
  BY <1>2 DEF SetToSeq
<1>4. Len(SetToSeq(S)) = Cardinality(S) /\ SetToSeq(S) \in Seq(S)
  BY <1>1, <1>3
<1> QED
  BY <1>1, <1>3, <1>4 DEF IsInjective, Distinct

LEMMA AgentNames ==
    /\ \A a \in Agents : Agent(a) \in Dues
    /\ \A a, b : Agent(a) = Agent(b) => a = b
    /\ \A k \in {"up", "shake", "told", "ready", "loop"}, i \in Links :
          <<k, i>> \in Dues /\ \A a : <<k, i>> # Agent(a)
BY DEF Agent, Dues

(* Posting makes x due, and nothing else, and leaves the rest.             *)
LEMMA Posted ==
    ASSUME NEW s \in Gps, NEW x \in Dues
    PROVE  /\ Post(s, x) \in Gps
           /\ \E q \in Seq(Dues) : Post(s, x) = [s EXCEPT !.due = q]
           /\ \A y : Due(Post(s, x), y) <=> Due(s, y) \/ y = x
           /\ Once(s.due) => Once(Post(s, x).due)
<1> DEFINE q == Append(s.due, x)
           p == [s EXCEPT !.due = q]
<1>1. /\ s.due \in Seq(Dues) /\ q \in Seq(Dues)
      /\ s = [s EXCEPT !.due = s.due]
  BY DEF Gps
<1>2. p \in Gps /\ p.due = q
  BY <1>1 DEF Gps
<1>3. /\ Len(q) = Len(s.due) + 1 /\ Len(s.due) \in Nat
      /\ \A k \in 1 .. Len(s.due) : q[k] = s.due[k]
      /\ q[Len(s.due) + 1] = x
  BY <1>1
<1>4. DOMAIN q = 1 .. Len(q) /\ DOMAIN s.due = 1 .. Len(s.due)
  BY <1>1
<1>5. CASE Due(s, x)
  BY <1>1, <1>5 DEF Post
<1>6. CASE ~Due(s, x)
  <2>1. Post(s, x) = p
    BY <1>6 DEF Post
  <2> HIDE DEF q, p
  <2>2. \A y : Due(p, y) <=> Due(s, y) \/ y = x
    BY <1>2, <1>3, <1>4 DEF Due
  <2>3. Once(s.due) => Once(q)
    BY <1>3, <1>4, <1>6 DEF Due, Once
  <2> QED
    BY <1>1, <1>2, <2>1, <2>2, <2>3 DEF p
<1> QED
  BY <1>5, <1>6

(* Adding q to what is due makes due what is in q.                         *)
LEMMA Extended ==
    ASSUME NEW s \in Gps, NEW q \in Seq(Dues)
    PROVE  LET p == [s EXCEPT !.due = @ \o q] IN
           /\ p \in Gps
           /\ \A y : Due(p, y) <=> Due(s, y) \/ Among(y, q)
           /\ Once(s.due) /\ Once(q) /\ (\A a \in Agents : Among(Agent(a), q) => ~Due(s, Agent(a)))
                => Once(p.due)
<1> DEFINE o == s.due \o q
           p == [s EXCEPT !.due = o]
<1>1. s.due \in Seq(Dues) /\ o \in Seq(Dues)
  BY DEF Gps
<1>2. p \in Gps /\ p.due = o
  BY <1>1 DEF Gps
<1>3. /\ Len(o) = Len(s.due) + Len(q) /\ Len(s.due) \in Nat /\ Len(q) \in Nat
      /\ \A k \in 1 .. Len(s.due) : o[k] = s.due[k]
      /\ \A k \in 1 .. Len(q) : o[Len(s.due) + k] = q[k]
  BY <1>1
<1>4. DOMAIN o = 1 .. Len(o) /\ DOMAIN s.due = 1 .. Len(s.due)
  BY <1>1
<1> HIDE DEF o
<1>5. ASSUME NEW k \in 1 .. Len(o)
      PROVE  \/ k \in 1 .. Len(s.due) /\ o[k] = s.due[k]
             \/ k - Len(s.due) \in 1 .. Len(q) /\ o[k] = q[k - Len(s.due)]
  <2>1. CASE k \in 1 .. Len(s.due)
    BY <1>3, <2>1
  <2>2. CASE k \notin 1 .. Len(s.due)
    <3>1. k - Len(s.due) \in 1 .. Len(q) /\ Len(s.due) + (k - Len(s.due)) = k
      BY <1>3, <2>2
    <3>2. o[Len(s.due) + (k - Len(s.due))] = q[k - Len(s.due)]
      BY <1>3, <3>1
    <3> QED
      BY <3>1, <3>2
  <2> QED
    BY <2>1, <2>2
<1> HIDE DEF p
<1>6. ASSUME NEW y
      PROVE  Due(p, y) <=> Due(s, y) \/ Among(y, q)
  <2>1. ASSUME Due(p, y) PROVE Due(s, y) \/ Among(y, q)
    <3>1. PICK k \in 1 .. Len(o) : o[k] = y
      BY <1>2, <1>4, <2>1 DEF Due
    <3> QED
      BY <1>4, <1>5, <3>1 DEF Due, Among
  <2>2. ASSUME Due(s, y) PROVE Due(p, y)
    <3>1. PICK k \in 1 .. Len(s.due) : s.due[k] = y
      BY <1>4, <2>2 DEF Due
    <3>2. k \in 1 .. Len(o) /\ o[k] = y
      BY <1>3, <3>1
    <3> QED
      BY <1>2, <1>4, <3>2 DEF Due
  <2>3. ASSUME Among(y, q) PROVE Due(p, y)
    <3>1. PICK k \in 1 .. Len(q) : q[k] = y
      BY <2>3 DEF Among
    <3>2. Len(s.due) + k \in 1 .. Len(o) /\ o[Len(s.due) + k] = y
      BY <1>3, <3>1
    <3> QED
      BY <1>2, <1>4, <3>2 DEF Due
  <2> QED
    BY <2>1, <2>2, <2>3
<1>7. ASSUME Once(s.due), Once(q), \A a \in Agents : Among(Agent(a), q) => ~Due(s, Agent(a))
      PROVE  Once(o)
  <2> SUFFICES ASSUME NEW a \in Agents, NEW j \in 1 .. Len(o), NEW k \in 1 .. Len(o),
                      o[j] = Agent(a), o[k] = Agent(a)
               PROVE  j = k
    BY DEF Once
  <2>1. CASE Among(Agent(a), q)
    <3>1. \A n \in 1 .. Len(s.due) : s.due[n] # Agent(a)
      BY <1>4, <1>7, <2>1 DEF Due
    <3>2. /\ j - Len(s.due) \in 1 .. Len(q) /\ k - Len(s.due) \in 1 .. Len(q)
          /\ q[j - Len(s.due)] = Agent(a) /\ q[k - Len(s.due)] = Agent(a)
      BY <1>5, <3>1
    <3>3. j - Len(s.due) = k - Len(s.due)
      BY <1>7, <3>2 DEF Once
    <3> QED
      BY <1>3, <3>3
  <2>2. CASE ~Among(Agent(a), q)
    <3>1. /\ j \in 1 .. Len(s.due) /\ k \in 1 .. Len(s.due)
          /\ s.due[j] = Agent(a) /\ s.due[k] = Agent(a)
      BY <1>5, <2>2 DEF Among
    <3> QED
      BY <1>7, <3>1 DEF Once
  <2> QED
    BY <2>1, <2>2
<1>8. p = [s EXCEPT !.due = @ \o q]
  BY DEF p, o
<1> QED
  BY <1>2, <1>6, <1>7, <1>8

(* Once an agent has its turn it is not due any more.                      *)
LEMMA TurnTaken ==
    ASSUME IInv, NEW x, Turn(x)
    PROVE  /\ Now \in Gps
           /\ x \in Dues /\ Due(gp, x)
           /\ Once(Now.due)
           /\ \A a \in Agents : Due(Now, Agent(a)) <=> Due(gp, Agent(a)) /\ Agent(a) # x
           /\ \A y : Due(gp, y) /\ y # x => Due(Now, y)
<1> DEFINE b == Tail(gp.due)
<1>1. /\ gp \in Gps /\ gp.due \in Seq(Dues) /\ gp.due # << >> /\ Head(gp.due) = x
      /\ Once(gp.due)
  BY DEF IInv, Typed, Ordered, Gps, Turn
<1>2. /\ b \in Seq(Dues) /\ Len(b) = Len(gp.due) - 1 /\ Len(gp.due) \in Nat \ {0}
      /\ \A i \in 1 .. Len(b) : b[i] = gp.due[i + 1]
      /\ x = gp.due[1] /\ DOMAIN b = 1 .. Len(b) /\ DOMAIN gp.due = 1 .. Len(gp.due)
  BY <1>1
<1> HIDE DEF b
<1>3. Now \in Gps /\ Now.due = b
  BY <1>1, <1>2 DEF Gps, Now, b
<1>4. x \in Dues /\ Due(gp, x)
  BY <1>1, <1>2 DEF Due
<1>5. Once(b)
  <2> SUFFICES ASSUME NEW a \in Agents, NEW j \in 1 .. Len(b), NEW k \in 1 .. Len(b),
                      b[j] = Agent(a), b[k] = Agent(a)
               PROVE  j = k
    BY DEF Once
  <2>1. /\ j + 1 \in 1 .. Len(gp.due) /\ k + 1 \in 1 .. Len(gp.due)
        /\ gp.due[j + 1] = Agent(a) /\ gp.due[k + 1] = Agent(a)
    BY <1>2
  <2>2. j + 1 = k + 1
    BY <1>1, <2>1 DEF Once
  <2> QED
    BY <2>2
<1>6. ASSUME NEW y, Due(gp, y), y # x PROVE Due(Now, y)
  <2>1. PICK k \in 1 .. Len(gp.due) : gp.due[k] = y
    BY <1>2, <1>6 DEF Due
  <2>2. k # 1
    BY <1>2, <1>6, <2>1
  <2>3. k - 1 \in 1 .. Len(b) /\ b[k - 1] = gp.due[(k - 1) + 1] /\ (k - 1) + 1 = k
    BY <1>2, <2>1, <2>2
  <2> QED
    BY <1>2, <1>3, <2>1, <2>3 DEF Due
<1>7. ASSUME NEW a \in Agents, Due(Now, Agent(a))
      PROVE  Due(gp, Agent(a)) /\ Agent(a) # x
  <2>1. PICK k \in 1 .. Len(b) : b[k] = Agent(a)
    BY <1>2, <1>3, <1>7 DEF Due
  <2>2. k + 1 \in 1 .. Len(gp.due) /\ gp.due[k + 1] = Agent(a) /\ k + 1 # 1
    BY <1>2, <2>1
  <2>3. 1 \in 1 .. Len(gp.due)
    BY <1>2
  <2>4. Agent(a) # x
    BY <1>1, <1>2, <2>2, <2>3 DEF Once
  <2> QED
    BY <1>2, <2>2, <2>4 DEF Due
<1> QED
  BY <1>3, <1>4, <1>5, <1>6, <1>7

(* Taking a turn changes nothing but what is due.                          *)
LEMMA NowIsGp ==
    ASSUME gp \in Gps
    PROVE  /\ Now.state = gp.state /\ Now.open = gp.open /\ Now.closing = gp.closing
           /\ Now.sender = gp.sender /\ Now.shake = gp.shake /\ Now.ready = gp.ready
           /\ Now.loop = gp.loop /\ Now.connected = gp.connected
           /\ Now.attempt = gp.attempt /\ Now.reporting = gp.reporting /\ Now.torn = gp.torn
BY DEF Now, Gps

-----------------------------------------------------------------------------
(* What Settle does.                                                       *)

LEMMA NamesFinite ==
    ASSUME NEW A \in SUBSET Agents
    PROVE  IsFiniteSet({Agent(a) : a \in A})
<1> DEFINE T == {Agent(a) : a \in A}
           f == [a \in A |-> Agent(a)]
<1>1. IsFiniteSet(Links)
  BY Zero, FS_Interval DEF Links
<1>2. IsFiniteSet(Callers) /\ IsFiniteSet(HostTasks)
  BY RuntimeAssumption
<1>3. IsFiniteSet(Callers \cup HostTasks)
  BY <1>2, FS_Union
<1>4. IsFiniteSet(Agents)
  BY <1>1, <1>3, FS_Union DEF Agents
<1>5. IsFiniteSet(A)
  BY <1>4, FS_Subset
<1>6. f \in Surjection(A, T)
  BY DEF Surjection
<1> QED
  BY <1>5, <1>6, FS_Surjection

(* The agents of r that an event of s wakes.                               *)
Wakes(s, r) == {a \in Agents : \/ r[a].at = "wait ready" /\ s.attempt
                               \/ r[a].at = "wait link" /\ s.disconnected}

LEMMA SettleRuns ==
    ASSUME NEW s, NEW l, NEW r \in [Agents -> Runs], Settle(s, l, r)
    PROVE  /\ lock' = l
           /\ run' \in [Agents -> Runs]
           /\ \A a \in Agents :
                /\ run'[a].obj = r[a].obj /\ run'[a].res = r[a].res /\ run'[a].body = r[a].body
                /\ \/ run'[a].at = r[a].at
                   \/ r[a].at = "wait ready" /\ run'[a].at = "woken"
                   \/ r[a].at = "wait link" /\ run'[a].at = "link gone"
<1> DEFINE moved(a) == [r[a] EXCEPT !.at = IF @ = "wait ready" THEN "woken" ELSE "link gone"]
<1>1. /\ lock' = l
      /\ run' = [a \in Agents |-> IF a \notin Wakes(s, r) THEN r[a] ELSE moved(a)]
  BY DEF Settle, Wakes
<1>2. ASSUME NEW a \in Agents
      PROVE  /\ moved(a) \in Runs /\ moved(a).obj = r[a].obj /\ moved(a).res = r[a].res
             /\ moved(a).body = r[a].body
             /\ moved(a).at = IF r[a].at = "wait ready" THEN "woken" ELSE "link gone"
  <2>1. r[a] \in Runs
    OBVIOUS
  <2>2. "woken" \in Places /\ "link gone" \in Places
    BY DEF Places, Lockeds
  <2> QED
    BY <2>1, <2>2 DEF Runs
<1> HIDE DEF moved
<1>3. run' \in [Agents -> Runs]
  BY <1>1, <1>2
<1>4. ASSUME NEW a \in Agents, a \in Wakes(s, r)
      PROVE  r[a].at \in {"wait ready", "wait link"}
  BY <1>4 DEF Wakes
<1>5. ASSUME NEW a \in Agents
      PROVE  run'[a] = IF a \notin Wakes(s, r) THEN r[a] ELSE moved(a)
  BY <1>1
<1>6. ASSUME NEW a \in Agents
      PROVE  /\ run'[a].obj = r[a].obj /\ run'[a].res = r[a].res /\ run'[a].body = r[a].body
             /\ \/ run'[a].at = r[a].at
                \/ r[a].at = "wait ready" /\ run'[a].at = "woken"
                \/ r[a].at = "wait link" /\ run'[a].at = "link gone"
  BY <1>2, <1>4, <1>5
<1> QED
  BY <1>1, <1>3, <1>6

LEMMA SettleDue ==
    ASSUME NEW s \in Gps, NEW l \in Locks(Callers), NEW r, Once(s.due), Settle(s, l, r)
    PROVE  /\ \E q \in Seq(Dues) : gp' = [s EXCEPT !.due = q]
           /\ gp' \in Gps
           /\ Once(gp'.due)
           /\ \A y : Due(s, y) => Due(gp', y)
           /\ \A a \in Agents : Due(gp', Agent(a)) =>
                \/ Due(s, Agent(a))
                \/ r[a].at \in {"wait ready", "wait link"}
                \/ l.holder = NoTask /\ l.waiters # << >> /\ a = Head(l.waiters)
           /\ \A y : Due(gp', y) => Due(s, y) \/ \E a \in Agents : y = Agent(a)
<1> DEFINE W == {b \in Wakes(s, r) : ~Due(s, Agent(b))}
           N == {Agent(a) : a \in W}
           q == SetToSeq(N)
           queued == [s EXCEPT !.due = @ \o q]
<1>1. gp' = IF l.holder = NoTask /\ l.waiters # << >>
            THEN Post(queued, Agent(Head(l.waiters)))
            ELSE queued
  BY DEF Settle, Wakes
<1>2. W \in SUBSET Agents /\ N \subseteq Dues
  BY AgentNames DEF Wakes
<1>3. IsFiniteSet(N)
  BY <1>2, NamesFinite
<1>4. q \in Seq(N) /\ Distinct(q)
  BY <1>3, Sequenced
<1>5. /\ q \in Seq(Dues) /\ Len(q) \in Nat /\ \A k \in 1 .. Len(q) : q[k] \in N
  <2> HIDE DEF q, N
  <2>1. /\ q \in [1 .. Len(q) -> N] /\ Len(q) \in Nat
    BY <1>4
  <2>2. q \in [1 .. Len(q) -> Dues]
    BY <1>2, <2>1
  <2> QED
    BY <2>1, <2>2
<1>6. Once(q)
  BY <1>4 DEF Once, Distinct
<1>7. ASSUME NEW a \in Agents, Among(Agent(a), q)
      PROVE  ~Due(s, Agent(a)) /\ r[a].at \in {"wait ready", "wait link"}
  <2>1. Agent(a) \in N
    BY <1>5, <1>7 DEF Among
  <2>2. a \in W
    BY <2>1, AgentNames
  <2> QED
    BY <2>2 DEF Wakes
<1>12. ASSUME NEW y, Among(y, q) PROVE \E a \in Agents : y = Agent(a)
  <2>1. y \in N
    BY <1>5, <1>12 DEF Among
  <2> QED
    BY <1>2, <2>1
<1> HIDE DEF W, N, q
<1>8. /\ queued \in Gps
      /\ \A y : Due(queued, y) <=> Due(s, y) \/ Among(y, q)
      /\ Once(queued.due)
  BY <1>5, <1>6, <1>7, Extended
<1>9. \E o \in Seq(Dues) : queued = [s EXCEPT !.due = o]
  <2>1. s.due \o q \in Seq(Dues)
    BY <1>5 DEF Gps
  <2> QED
    BY <2>1
<1> HIDE DEF queued
<1>10. CASE l.holder = NoTask /\ l.waiters # << >>
  <2> DEFINE h == Head(l.waiters)
             x == Agent(h)
  <2>1. h \in Agents
    BY <1>10 DEF Locks, Agents
  <2>2. x \in Dues
    BY <2>1, AgentNames
  <2>3. gp' = Post(queued, x)
    BY <1>1, <1>10
  <2> HIDE DEF h
  <2>4. /\ gp' \in Gps
        /\ \E o \in Seq(Dues) : gp' = [queued EXCEPT !.due = o]
        /\ \A y : Due(gp', y) <=> Due(queued, y) \/ y = x
        /\ Once(gp'.due)
    BY <1>8, <2>2, <2>3, Posted
  <2>5. \E o \in Seq(Dues) : gp' = [s EXCEPT !.due = o]
    <3>1. PICK o \in Seq(Dues) : queued = [s EXCEPT !.due = o]
      BY <1>9
    <3>2. PICK p \in Seq(Dues) : gp' = [queued EXCEPT !.due = p]
      BY <2>4
    <3>3. gp' = [s EXCEPT !.due = p]
      BY <3>1, <3>2 DEF Gps
    <3> QED
      BY <3>3
  <2>6. ASSUME NEW a \in Agents, Due(gp', Agent(a))
        PROVE  Due(s, Agent(a)) \/ r[a].at \in {"wait ready", "wait link"} \/ a = h
    BY <1>7, <1>8, <2>4, <2>6, AgentNames
  <2>7. \A y : Due(gp', y) => Due(s, y) \/ \E a \in Agents : y = Agent(a)
    BY <1>8, <1>12, <2>1, <2>4
  <2> QED
    BY <1>8, <1>10, <2>4, <2>5, <2>6, <2>7 DEF h
<1>11. CASE ~(l.holder = NoTask /\ l.waiters # << >>)
  BY <1>1, <1>7, <1>8, <1>9, <1>11, <1>12
<1> QED
  BY <1>10, <1>11

(* No caller is due to whom the transport is opened.                       *)
Calm(s, r) == \A c \in Callers : r[c].at = "opening" /\ r[c].res = "none" => ~Due(s, Agent(c))

(* Settling keeps what orders the agents, and publishes nothing.           *)
LEMMA Settled ==
    ASSUME NEW s \in Gps, NEW l \in Locks(Callers), NEW r \in [Agents -> Runs],
           Settle(s, l, r), Ordered(s, l, r, shake', tp'), Sole(s, loop', r), Calm(s, r)
    PROVE  /\ gp' \in Gps /\ lock' \in Locks(Callers) /\ run' \in [Agents -> Runs]
           /\ Ordered(gp', lock', run', shake', tp')
           /\ Sole(gp', loop', run') /\ Opening(gp', run')
           /\ gp'.connected = s.connected
<1>1. /\ Once(s.due) /\ Queue(l, r) /\ Handed(s, l, r) /\ Exclusive(l, r)
      /\ Awaiting(s, shake', r) /\ Numbered(tp', r) /\ Completing(r)
  BY DEF Ordered
<1>2. /\ \E q \in Seq(Dues) : gp' = [s EXCEPT !.due = q]
      /\ gp' \in Gps
      /\ Once(gp'.due)
      /\ \A y : Due(s, y) => Due(gp', y)
      /\ \A a \in Agents : Due(gp', Agent(a)) =>
           \/ Due(s, Agent(a))
           \/ r[a].at \in {"wait ready", "wait link"}
           \/ l.holder = NoTask /\ l.waiters # << >> /\ a = Head(l.waiters)
  BY <1>1, SettleDue
<1>3. /\ lock' = l
      /\ run' \in [Agents -> Runs]
      /\ \A a \in Agents :
           /\ run'[a].obj = r[a].obj /\ run'[a].res = r[a].res
           /\ \/ run'[a].at = r[a].at
              \/ r[a].at = "wait ready" /\ run'[a].at = "woken"
              \/ r[a].at = "wait link" /\ run'[a].at = "link gone"
  BY SettleRuns
<1>4. /\ gp'.connected = s.connected /\ gp'.loop = s.loop /\ gp'.open = s.open
      /\ gp'.sender = s.sender /\ gp'.closing = s.closing
  BY <1>2 DEF Gps
<1>5. Callers \subseteq Agents /\ Links \subseteq Agents
  BY DEF Agents
<1>6. Queue(l, run')
  BY <1>1, <1>3, <1>5 DEF Queue
<1>7. Handed(gp', l, run')
  BY <1>1, <1>2, <1>3, <1>5 DEF Handed
<1>8. Exclusive(l, run')
  BY <1>1, <1>3, <1>5 DEF Exclusive, Lockeds
<1>9. Awaiting(gp', shake', run')
  <2> SUFFICES ASSUME NEW i \in Links, NEW a \in Agents, Among(a, shake'[i].waiters)
               PROVE  run'[a].at \in Awaits /\ run'[a].obj = i /\ ~Due(gp', Agent(a))
    BY <1>1 DEF Awaiting
  <2>1. r[a].at \in Awaits /\ r[a].obj = i /\ ~Due(s, Agent(a))
    BY <1>1 DEF Awaiting
  <2>2. l.waiters # << >> => Head(l.waiters) \in Callers /\ Among(Head(l.waiters), l.waiters)
    <3>1. ASSUME l.waiters # << >>
          PROVE  1 \in 1 .. Len(l.waiters) /\ Head(l.waiters) = l.waiters[1]
                 /\ l.waiters[1] \in Callers
      BY <3>1 DEF Locks
    <3> QED
      BY <3>1 DEF Among
  <2>3. l.waiters # << >> => a # Head(l.waiters)
    BY <1>1, <2>1, <2>2 DEF Queue, Awaits
  <2> QED
    BY <1>2, <1>3, <2>1, <2>3 DEF Awaits
<1>10. Numbered(tp', run')
  BY <1>1, <1>3, <1>5 DEF Numbered
<1>11. Completing(run')
  BY <1>1, <1>3 DEF Completing
<1>12. Known(gp', loop') /\ Sendless(gp')
  BY <1>4 DEF Sole, Known, Sendless
<1>13. Stopping(gp', loop', run')
  <2> SUFFICES ASSUME NEW a \in Agents, run'[a].at = "stop loop"
               PROVE  /\ NoneRuns(loop') /\ (gp'.loop # 0 \/ gp'.sender = 0)
                      /\ Due(gp', <<"loop", run'[a].obj>>) \/ Due(gp', Agent(a))
                      /\ \A b \in Agents : run'[b].at = "stop loop" => b = a
    BY DEF Stopping
  <2>1. \A b \in Agents : run'[b].at = "stop loop" => r[b].at = "stop loop"
    BY <1>3
  <2> QED
    BY <1>2, <1>3, <1>4, <2>1 DEF Sole, Stopping
<1>14. PastLoop(loop', run') /\ Closing(gp', run')
  BY <1>3, <1>4, <1>5 DEF Sole, PastLoop, Closing, Closes, Pasts
<1>15. Silent(gp', loop', run')
  BY <1>3, <1>4 DEF Sole, Silent, Mute
<1>16. Opening(gp', run')
  <2> SUFFICES ASSUME NEW c \in Callers, run'[c].at = "opening", run'[c].res = "none",
                      Due(gp', Agent(c))
               PROVE  FALSE
    BY DEF Opening
  <2>1. r[c].at = "opening" /\ r[c].res = "none" /\ c \in Agents
    BY <1>3, <1>5
  <2>2. l.waiters # << >> => Head(l.waiters) \in Callers /\ r[Head(l.waiters)].at = "lock"
    <3>1. ASSUME l.waiters # << >>
          PROVE  1 \in 1 .. Len(l.waiters) /\ Head(l.waiters) = l.waiters[1]
                 /\ l.waiters[1] \in Callers
      BY <3>1 DEF Locks
    <3> QED
      BY <1>1, <3>1 DEF Among, Queue
  <2> QED
    BY <1>2, <2>1, <2>2 DEF Calm
<1> QED
  BY <1>2, <1>3, <1>4, <1>6, <1>7, <1>8, <1>9, <1>10, <1>11, <1>12, <1>13, <1>14, <1>15, <1>16
     DEF Ordered, Sole

-----------------------------------------------------------------------------
(* The turn of an agent.                                                   *)

(* Agent a has the lifecycle lock, or finds it free and takes it.          *)
Leaves(a) == a \in Callers /\ (run[a].at \in Lockeds \/ lock.holder = NoTask)

(* Agent a has opened the transport.                                       *)
Opens(a) == a \in Callers /\ run[a].at = "opening" /\ Quiet(run)

(* What a turn of agent a does to the connection: it forgets a report loop *)
(* that is stopped, closes without a sender, makes a sender only when it   *)
(* has opened the transport, and ends a close() of its own.                *)
Kin(a, s) ==
    /\ s.loop = gp.loop \/ (s.loop = 0 /\ s.sender = 0 /\ NoneRuns(loop'))
    /\ gp.open => s.open \/ (s.sender = 0 /\ NoneRuns(loop'))
    /\ s.sender = gp.sender \/ s.sender = 0 \/ (s.open /\ Opens(a))
    /\ gp.closing => s.closing \/ Leaves(a)

(* The runtime s differs from gp, as far as agents go, in that a is not    *)
(* due any more.                                                           *)
Steady(a, s) ==
    /\ s \in Gps /\ Once(s.due) /\ Sober(s) /\ Kin(a, s)
    /\ \A b \in Agents : Due(s, Agent(b)) <=> Due(gp, Agent(b)) /\ b # a
    /\ \A i : Due(gp, <<"loop", i>>) => Due(s, <<"loop", i>>)

(* The lock l when agent a goes on to w: a caller joins the waiters, or    *)
(* holds the lock exactly where the lock is needed.                        *)
LockMove(a, w, l) ==
    /\ l \in Locks(Callers)
    /\ a \notin Callers => l = lock
    /\ a \in Callers =>
         IF w.at = "lock"
         THEN run[a].at \notin Lockeds \cup {"lock"} /\ Contended(lock) /\ l = Queued(lock, a)
         ELSE /\ run[a].at = "lock" =>
                   lock.waiters # << >> /\ Head(lock.waiters) = a /\ lock.holder = NoTask
              /\ l.waiters = IF run[a].at = "lock" THEN Tail(lock.waiters) ELSE lock.waiters
              /\ l.holder = IF w.at \in Lockeds THEN a
                            ELSE IF lock.holder = a THEN NoTask ELSE lock.holder
              /\ w.at \in Lockeds /\ run[a].at \notin Lockeds =>
                   lock.holder = NoTask /\ (run[a].at # "lock" => lock.waiters = << >>)

(* The handshakes when agent a goes on to w: it may have joined those that *)
(* wait for the handshake it now waits for.                                *)
ShakeMove(a, w) ==
    /\ shake' \in [Links -> Shakes]
    /\ \A i \in Links :
         \/ shake'[i].waiters = shake[i].waiters
         \/ /\ w.at \in Awaits /\ w.obj = i
            /\ shake'[i].waiters = Append(shake[i].waiters, a)

(* The link may only have gone.                                            *)
LinkMove == tp' \in Tps /\ tp'.links = tp.links /\ tp'.link \in {0, tp.link}

(* Report loops may only have ended.                                       *)
LoopMove ==
    /\ loop' \in [Links -> Loops]
    /\ \A i \in Links : loop'[i] = "running" => loop[i] = "running"

(* Where agent a may be, with task i, when the runtime is s.               *)
Placed(a, at, i, s) ==
    /\ at = "stop loop" =>
          /\ s.loop # 0 /\ Due(s, <<"loop", i>>) /\ NoneRuns(loop') /\ ~NoneRuns(loop)
    /\ a \in Callers /\ at \in Pasts => NoneRuns(loop')
    /\ Mute(a, at) => NoneRuns(loop') /\ s.sender = 0
    /\ a \in Callers /\ at \in Closes => s.closing

Acts(a, w, s, l) ==
    /\ Suspend(a, w, s, l)
    /\ w \in Runs /\ Steady(a, s) /\ LockMove(a, w, l) /\ ShakeMove(a, w) /\ LinkMove
    /\ ready' \in [Links -> Readies] /\ LoopMove /\ Placed(a, w.at, w.obj, s)
    /\ w.at = "completing" => w.obj \in Links
    /\ a \in Links => run[a].at # "idle"

LEMMA ParticipantsApart ==
    /\ NoTask \notin Agents
    /\ Callers \subseteq Agents /\ HostTasks \subseteq Agents /\ Links \subseteq Agents
    /\ Callers \cap Links = {} /\ Callers \cap HostTasks = {} /\ HostTasks \cap Links = {}
    /\ Links \subseteq Nat \ {0}
BY RuntimeAssumption DEF Agents, Links

(* The moves of the lock keep the callers at it in order.                  *)
LEMMA LockMoves ==
    ASSUME IInv, NEW a \in Agents, Due(gp, Agent(a)), NEW w \in Runs, NEW s, Steady(a, s),
           NEW l, LockMove(a, w, l), NEW r, r = [run EXCEPT ![a] = w]
    PROVE  Queue(l, r) /\ Handed(s, l, r) /\ Exclusive(l, r)
<1>1. /\ Queue(lock, run) /\ Handed(gp, lock, run) /\ Exclusive(lock, run)
      /\ lock \in Locks(Callers) /\ run \in [Agents -> Runs]
  BY DEF IInv, Typed, Ordered
<1>2. /\ r[a] = w /\ \A b \in Agents : b # a => r[b] = run[b]
  BY <1>1
<1>3. \A b \in Agents : Due(s, Agent(b)) <=> Due(gp, Agent(b)) /\ b # a
  BY DEF Steady
<1>4. lock.waiters \in Seq(Callers) /\ Distinct(lock.waiters)
  BY <1>1 DEF Locks, Queue
<1>5. CASE a \notin Callers
  <2>1. l = lock /\ \A c \in Callers : r[c] = run[c] /\ (Due(s, Agent(c)) => Due(gp, Agent(c)))
    BY <1>2, <1>3, <1>5, ParticipantsApart DEF LockMove
  <2> QED
    BY <1>1, <2>1 DEF Queue, Handed, Exclusive
<1>6. CASE a \in Callers /\ w.at = "lock"
  <2>1. /\ run[a].at \notin Lockeds \cup {"lock"}
        /\ l.waiters = Append(lock.waiters, a) /\ l.holder = lock.holder
        /\ lock.holder # NoTask \/ lock.waiters # << >>
    BY <1>1, <1>6 DEF LockMove, Queued, Locks, Contended
  <2>2. ~Among(a, lock.waiters)
    BY <1>1, <1>6, <2>1 DEF Queue
  <2>3. /\ Distinct(l.waiters)
        /\ \A u : Among(u, l.waiters) <=> u = a \/ Among(u, lock.waiters)
    BY <1>4, <1>6, <2>1, <2>2, AppendWaiter
  <2>4. Queue(l, r)
    BY <1>1, <1>2, <1>6, <2>3, ParticipantsApart DEF Queue
  <2>5. lock.waiters # << >> => l.waiters # << >> /\ Head(l.waiters) = Head(lock.waiters)
    BY <1>4, <2>1
  <2>6. Handed(s, l, r)
    BY <1>1, <1>2, <1>3, <2>1, <2>5, ParticipantsApart DEF Handed
  <2>7. Exclusive(l, r)
    BY <1>1, <1>2, <1>6, <2>1, ParticipantsApart DEF Exclusive, Lockeds
  <2> QED
    BY <2>4, <2>6, <2>7
<1>7. CASE a \in Callers /\ w.at # "lock"
  <2>1. /\ run[a].at = "lock" =>
             lock.waiters # << >> /\ Head(lock.waiters) = a /\ lock.holder = NoTask
        /\ l.waiters = IF run[a].at = "lock" THEN Tail(lock.waiters) ELSE lock.waiters
        /\ l.holder = IF w.at \in Lockeds THEN a
                      ELSE IF lock.holder = a THEN NoTask ELSE lock.holder
        /\ w.at \in Lockeds /\ run[a].at \notin Lockeds =>
             lock.holder = NoTask /\ (run[a].at # "lock" => lock.waiters = << >>)
    BY <1>7 DEF LockMove
  <2>2. CASE run[a].at = "lock"
    <3>1. /\ Distinct(l.waiters)
          /\ \A u : Among(u, l.waiters) <=> u # a /\ Among(u, lock.waiters)
      BY <1>4, <2>1, <2>2, RemoveHead
    <3>2. Queue(l, r)
      BY <1>1, <1>2, <1>7, <2>2, <3>1, ParticipantsApart DEF Queue
    <3>3. ASSUME NEW c \in Callers, r[c].at = "lock", Due(s, Agent(c))
          PROVE  FALSE
      BY <1>1, <1>2, <1>3, <2>1, <2>2, <3>3, ParticipantsApart DEF Handed
    <3>4. Exclusive(l, r)
      <4> SUFFICES ASSUME NEW c \in Callers
                   PROVE  r[c].at \in Lockeds <=> l.holder = c
        BY DEF Exclusive
      <4>1. CASE c = a
        BY <1>2, <1>7, <2>1, <2>2, <4>1, ParticipantsApart
      <4>2. CASE c # a
        BY <1>1, <1>2, <1>7, <2>1, <2>2, <4>2, ParticipantsApart DEF Exclusive
      <4> QED
        BY <4>1, <4>2
    <3> QED
      BY <3>2, <3>3, <3>4 DEF Handed
  <2>3. CASE run[a].at # "lock"
    <3>1. l.waiters = lock.waiters
      BY <2>1, <2>3
    <3>2. Queue(l, r)
      BY <1>1, <1>2, <1>7, <2>3, <3>1, ParticipantsApart DEF Queue
    <3>3. Handed(s, l, r)
      <4> SUFFICES ASSUME NEW c \in Callers, r[c].at = "lock", Due(s, Agent(c))
                   PROVE  l.holder = NoTask /\ lock.waiters # << >> /\ Head(lock.waiters) = c
        BY <3>1 DEF Handed
      <4>1. c # a /\ lock.holder = NoTask /\ lock.waiters # << >> /\ Head(lock.waiters) = c
        BY <1>1, <1>2, <1>3, <1>7, ParticipantsApart DEF Handed
      <4>2. w.at \notin Lockeds
        BY <1>1, <1>7, <2>1, <2>3, <4>1, ParticipantsApart DEF Exclusive
      <4> QED
        BY <2>1, <4>1, <4>2
    <3>4. Exclusive(l, r)
      <4> SUFFICES ASSUME NEW c \in Callers
                   PROVE  r[c].at \in Lockeds <=> l.holder = c
        BY DEF Exclusive
      <4>1. CASE c = a
        BY <1>2, <1>7, <2>1, <4>1, ParticipantsApart
      <4>2. CASE c # a
        BY <1>1, <1>2, <1>7, <2>1, <4>2, ParticipantsApart DEF Exclusive
      <4> QED
        BY <4>1, <4>2
    <3> QED
      BY <3>2, <3>3, <3>4
  <2> QED
    BY <2>2, <2>3
<1> QED
  BY <1>5, <1>6, <1>7

(* The turn of an agent, or of a task, keeps the report loops in order.    *)
LEMMA SoleKept ==
    ASSUME IInv, NEW a, NEW s, Steady(a, s), LoopMove,
           NEW r, \A b \in Agents : b # a => r[b] = run[b],
           a \in Agents => Placed(a, r[a].at, r[a].obj, s)
    PROVE  Sole(s, loop', r)
<1>1. /\ Known(gp, loop) /\ Sendless(gp) /\ Stopping(gp, loop, run) /\ PastLoop(loop, run)
      /\ Silent(gp, loop, run) /\ Closing(gp, run) /\ Exclusive(lock, run)
      /\ gp.open \in BOOLEAN /\ s.open \in BOOLEAN
  BY DEF IInv, Typed, Sole, Ordered, Gps, Steady
<1>2. NoneRuns(loop) => NoneRuns(loop')
  BY DEF LoopMove, NoneRuns
<1>3. /\ s.loop = gp.loop \/ (s.loop = 0 /\ s.sender = 0 /\ NoneRuns(loop'))
      /\ gp.open => s.open \/ (s.sender = 0 /\ NoneRuns(loop'))
      /\ s.sender = gp.sender \/ s.sender = 0 \/ (s.open /\ Opens(a))
      /\ gp.closing => s.closing \/ Leaves(a)
  BY DEF Steady, Kin
<1>4. Known(s, loop')
  BY <1>1, <1>3 DEF Known, LoopMove, NoneRuns
<1>5. Sendless(s)
  BY <1>1, <1>3 DEF Sendless
<1>6. \A b \in Agents : run[b].at \in {"stop loop", "down closing"} => ~Opens(a)
  BY DEF Opens, Quiet
<1>7. \A c \in Callers : c \in Agents /\ c # NoTask /\ (run[c].at \in Lockeds <=> lock.holder = c)
  BY <1>1, ParticipantsApart DEF Exclusive
<1>8. Stopping(s, loop', r)
  <2> SUFFICES ASSUME NEW b \in Agents, r[b].at = "stop loop"
               PROVE  /\ NoneRuns(loop') /\ (s.loop # 0 \/ s.sender = 0)
                      /\ Due(s, <<"loop", r[b].obj>>) \/ Due(s, Agent(b))
                      /\ \A d \in Agents : r[d].at = "stop loop" => d = b
    BY DEF Stopping
  <2>1. CASE b = a
    <3>1. s.loop # 0 /\ Due(s, <<"loop", r[b].obj>>) /\ NoneRuns(loop') /\ ~NoneRuns(loop)
      BY <2>1 DEF Placed
    <3>2. \A d \in Agents : d # a => r[d].at # "stop loop"
      BY <1>1, <3>1 DEF Stopping
    <3> QED
      BY <2>1, <3>1, <3>2
  <2>2. CASE b # a
    <3>1. /\ NoneRuns(loop) /\ (gp.loop # 0 \/ gp.sender = 0) /\ r[b] = run[b]
          /\ Due(gp, <<"loop", run[b].obj>>) \/ Due(gp, Agent(b))
          /\ \A d \in Agents : run[d].at = "stop loop" => d = b
      BY <1>1, <2>2 DEF Stopping
    <3>2. ~Opens(a)
      BY <1>6, <2>2
    <3>3. r[a].at = "stop loop" => a \notin Agents
      BY <3>1 DEF Placed
    <3>4. Due(s, <<"loop", r[b].obj>>) \/ Due(s, Agent(b))
      BY <2>2, <3>1 DEF Steady
    <3> QED
      BY <1>2, <1>3, <2>2, <3>1, <3>2, <3>3, <3>4
  <2> QED
    BY <2>1, <2>2
<1>9. PastLoop(loop', r)
  BY <1>1, <1>2, <1>7 DEF PastLoop, Placed
<1>10. Silent(s, loop', r)
  <2> SUFFICES ASSUME NEW b \in Agents, Mute(b, r[b].at)
               PROVE  NoneRuns(loop') /\ s.sender = 0
    BY DEF Silent
  <2>1. CASE b = a
    BY <2>1 DEF Placed
  <2>2. CASE b # a
    <3>1. Mute(b, run[b].at) /\ NoneRuns(loop) /\ gp.sender = 0
      BY <1>1, <2>2 DEF Silent
    <3>2. b \in Callers /\ run[b].at \in {"opening", "open closing"} => lock.holder = b
      BY <1>7 DEF Lockeds
    <3>3. a \in Callers /\ run[a].at = "opening" => lock.holder = a
      BY <1>7 DEF Lockeds
    <3>4. ~Opens(a)
      BY <1>6, <2>2, <3>1, <3>2, <3>3 DEF Mute, Opens
    <3> QED
      BY <1>2, <1>3, <3>1, <3>4
  <2> QED
    BY <2>1, <2>2
<1>11. Closing(s, r)
  <2> SUFFICES ASSUME NEW c \in Callers, r[c].at \in Closes
               PROVE  s.closing
    BY DEF Closing
  <2>1. CASE c = a
    BY <1>7, <2>1 DEF Placed
  <2>2. CASE c # a
    <3>1. run[c].at \in Closes /\ gp.closing
      BY <1>1, <1>7, <2>2 DEF Closing
    <3>2. lock.holder = c
      BY <1>7, <3>1 DEF Closes, Pasts, Lockeds
    <3>3. ~Leaves(a)
      BY <1>7, <2>2, <3>2 DEF Leaves
    <3> QED
      BY <1>3, <3>1, <3>3
  <2> QED
    BY <2>1, <2>2
<1> QED
  BY <1>4, <1>5, <1>8, <1>9, <1>10, <1>11 DEF Sole

(* Whoever has the turn, no other caller goes on with open().              *)
LEMMA NoneOpens ==
    ASSUME IInv, NEW x, Turn(x), NEW c \in Callers, run[c].at = "opening", run[c].res = "none",
           Due(gp, Agent(c))
    PROVE  x = Agent(c) /\ Quiet(run)
BY DEF IInv, Opening, Turn

LEMMA AgentTurn ==
    ASSUME IInv, NEW a \in Agents, Turn(Agent(a)), NEW w, NEW s, NEW l, Acts(a, w, s, l)
    PROVE  IInv' /\ Sober(gp')
<1> DEFINE r == [run EXCEPT ![a] = w]
<1>1. /\ Settle(s, l, r) /\ w \in Runs /\ Steady(a, s) /\ LockMove(a, w, l) /\ ShakeMove(a, w)
      /\ LinkMove /\ ready' \in [Links -> Readies] /\ LoopMove /\ Placed(a, w.at, w.obj, s)
      /\ w.at = "completing" => w.obj \in Links
      /\ a \in Links => run[a].at # "idle"
  BY DEF Acts, Suspend
<1>2. /\ run \in [Agents -> Runs] /\ Awaiting(gp, shake, run) /\ Numbered(tp, run)
      /\ Completing(run) /\ shake \in [Links -> Shakes]
  BY DEF IInv, Typed, Ordered
<1>3. /\ r \in [Agents -> Runs] /\ r[a] = w /\ \A b \in Agents : b # a => r[b] = run[b]
  BY <1>1, <1>2
<1>4. /\ s \in Gps /\ Once(s.due) /\ Sober(s) /\ l \in Locks(Callers)
      /\ \A b \in Agents : Due(s, Agent(b)) <=> Due(gp, Agent(b)) /\ b # a
  BY <1>1 DEF Steady, LockMove
<1>5. Queue(l, r) /\ Handed(s, l, r) /\ Exclusive(l, r)
  <2>1. Due(gp, Agent(a))
    BY TurnTaken
  <2> QED
    BY <1>1, <2>1, LockMoves
<1> HIDE DEF r
<1>6. Awaiting(s, shake', r)
  <2> SUFFICES ASSUME NEW i \in Links
               PROVE  /\ Distinct(shake'[i].waiters)
                      /\ \A b \in Agents : Among(b, shake'[i].waiters) =>
                            r[b].at \in Awaits /\ r[b].obj = i /\ ~Due(s, Agent(b))
    BY DEF Awaiting
  <2>1. /\ Distinct(shake[i].waiters) /\ ~Among(a, shake[i].waiters)
        /\ \A b \in Agents : Among(b, shake[i].waiters) =>
              run[b].at \in Awaits /\ run[b].obj = i /\ ~Due(gp, Agent(b))
    BY <1>2, TurnTaken DEF Awaiting
  <2>2. shake[i].waiters \in Seq(Agents)
    BY <1>2 DEF Shakes
  <2>3. CASE shake'[i].waiters = shake[i].waiters
    BY <1>3, <1>4, <2>1, <2>3
  <2>4. CASE /\ w.at \in Awaits /\ w.obj = i
             /\ shake'[i].waiters = Append(shake[i].waiters, a)
    <3>1. /\ Distinct(shake'[i].waiters)
          /\ \A u : Among(u, shake'[i].waiters) <=> u = a \/ Among(u, shake[i].waiters)
      BY <2>1, <2>2, <2>4, AppendWaiter
    <3> QED
      BY <1>3, <1>4, <2>1, <2>4, <3>1
  <2> QED
    BY <1>1, <2>3, <2>4 DEF ShakeMove
<1>7. Numbered(tp', r)
  <2>1. \A i \in Links : i # 0
    BY ParticipantsApart
  <2>2. \A i \in Links : i > tp.links \/ i = tp.link => run[i].at = "idle" /\ r[i] = run[i]
    BY <1>1, <1>2, <1>3, ParticipantsApart DEF Numbered
  <2> QED
    BY <1>1, <1>2, <2>1, <2>2 DEF Numbered, LinkMove
<1>8. Completing(r)
  BY <1>1, <1>2, <1>3 DEF Completing
<1>9. Ordered(s, l, r, shake', tp')
  BY <1>4, <1>5, <1>6, <1>7, <1>8 DEF Ordered
<1>10. Settle(s, l, r)
  BY <1>1 DEF r
<1>11. Sole(s, loop', r)
  BY <1>1, <1>3, SoleKept
<1>12. Calm(s, r)
  <2> SUFFICES ASSUME NEW c \in Callers, r[c].at = "opening", r[c].res = "none",
                      Due(s, Agent(c))
               PROVE  FALSE
    BY DEF Calm
  <2>1. c \in Agents /\ c # a /\ Due(gp, Agent(c)) /\ r[c] = run[c]
    BY <1>3, <1>4, ParticipantsApart
  <2>2. Agent(a) = Agent(c)
    BY <2>1, NoneOpens
  <2> QED
    BY <2>1, <2>2, AgentNames
<1>13. /\ gp' \in Gps /\ lock' \in Locks(Callers) /\ run' \in [Agents -> Runs]
       /\ Ordered(gp', lock', run', shake', tp') /\ gp'.connected = s.connected
       /\ Sole(gp', loop', run') /\ Opening(gp', run')
  BY <1>3, <1>4, <1>9, <1>10, <1>11, <1>12, Settled
<1> QED
  BY <1>1, <1>4, <1>13 DEF IInv, Typed, ShakeMove, LinkMove, LoopMove, Sober

(* A turn of a task: it makes only who waits for its end due.              *)
LEMMA TaskTurn ==
    ASSUME IInv, NEW x, Turn(x), \A a \in Agents : x # Agent(a),
           NEW s \in Gps, Once(s.due), Sober(s), Becomes(s), UNCHANGED tp,
           \A b \in Agents : Due(s, Agent(b)) => Due(gp, Agent(b)) \/ run[b].at \in Stops,
           shake' \in [Links -> Shakes],
           \A i \in Links : shake'[i].waiters = shake[i].waiters,
           ready' \in [Links -> Readies], loop' \in [Links -> Loops], Sole(s, loop', run)
    PROVE  IInv' /\ Sober(gp')
<1>1. /\ Ordered(gp, lock, run, shake, tp)
      /\ lock \in Locks(Callers) /\ run \in [Agents -> Runs] /\ tp \in Tps
  BY DEF IInv, Typed
<1>2. Handed(s, lock, run)
  BY <1>1, ParticipantsApart DEF Ordered, Handed, Stops
<1>3. Awaiting(s, shake', run)
  <2> SUFFICES ASSUME NEW i \in Links
               PROVE  /\ Distinct(shake'[i].waiters)
                      /\ \A b \in Agents : Among(b, shake'[i].waiters) =>
                            run[b].at \in Awaits /\ run[b].obj = i /\ ~Due(s, Agent(b))
    BY DEF Awaiting
  <2>1. /\ Distinct(shake[i].waiters)
        /\ \A b \in Agents : Among(b, shake[i].waiters) =>
              run[b].at \in Awaits /\ run[b].obj = i /\ ~Due(gp, Agent(b))
    BY <1>1 DEF Ordered, Awaiting
  <2>2. \A b \in Agents : run[b].at \in Awaits => run[b].at \notin Stops
    BY DEF Awaits, Stops
  <2> QED
    BY <2>1, <2>2
<1>4. Ordered(s, lock, run, shake', tp')
  BY <1>1, <1>2, <1>3 DEF Ordered
<1>5. Settle(s, lock, run)
  BY DEF Becomes
<1>6. /\ gp' \in Gps /\ lock' \in Locks(Callers) /\ run' \in [Agents -> Runs]
      /\ Ordered(gp', lock', run', shake', tp') /\ gp'.connected = s.connected
      /\ Sole(gp', loop', run') /\ Opening(gp', run')
  <2>1. Calm(s, run)
    <3> SUFFICES ASSUME NEW c \in Callers, run[c].at = "opening", run[c].res = "none",
                        Due(s, Agent(c))
                 PROVE  FALSE
      BY DEF Calm
    <3>1. c \in Agents /\ Due(gp, Agent(c))
      BY ParticipantsApart DEF Stops
    <3> QED
      BY <3>1, NoneOpens
  <2> QED
    BY <1>1, <1>4, <1>5, <2>1, Settled
<1> QED
  BY <1>1, <1>6 DEF IInv, Typed, Sober

-----------------------------------------------------------------------------
(* Steps that leave an agent's turn steady.                                *)

LEMMA SteadyKin ==
    ASSUME NEW a, NEW s, Steady(a, s), NEW t \in Gps, t.due = s.due, t.connected => s.connected,
           Kin(a, t)
    PROVE  Steady(a, t)
BY DEF Steady, Sober, Due, Gps

(* The runtime t is s as far as report loops are concerned.                *)
Alike(t, s) ==
    /\ t.due = s.due /\ t.loop = s.loop /\ t.open = s.open
    /\ t.sender = s.sender /\ t.closing = s.closing /\ t.reporting = s.reporting

LEMMA SteadyFields ==
    ASSUME NEW a, NEW s, Steady(a, s), NEW t \in Gps, Alike(t, s), t.connected => s.connected
    PROVE  Steady(a, t)
BY DEF Steady, Sober, Due, Gps, Alike, Kin

LEMMA SteadyPost ==
    ASSUME NEW a, NEW s, Steady(a, s), NEW k \in {"up", "shake", "told", "ready", "loop"},
           NEW i \in Links
    PROVE  Steady(a, Post(s, <<k, i>>))
<1>1. s \in Gps /\ Once(s.due) /\ <<k, i>> \in Dues
  BY AgentNames DEF Steady
<1>2. /\ Post(s, <<k, i>>) \in Gps
      /\ \E q \in Seq(Dues) : Post(s, <<k, i>>) = [s EXCEPT !.due = q]
      /\ \A y : Due(Post(s, <<k, i>>), y) <=> Due(s, y) \/ y = <<k, i>>
      /\ Once(Post(s, <<k, i>>).due)
  BY <1>1, Posted
<1> DEFINE p == Post(s, <<k, i>>)
<1>3. /\ p.connected = s.connected /\ p.loop = s.loop /\ p.open = s.open
      /\ p.sender = s.sender /\ p.closing = s.closing
  BY <1>1, <1>2 DEF Gps
<1>4. \A b \in Agents : Due(Post(s, <<k, i>>), Agent(b)) <=> Due(s, Agent(b))
  BY <1>2, AgentNames
<1>5. \A j : Due(gp, <<"loop", j>>) => Due(p, <<"loop", j>>)
  BY <1>2 DEF Steady
<1>6. Kin(a, p)
  BY <1>3 DEF Steady, Kin
<1>7. Sober(p)
  BY <1>3 DEF Steady, Sober
<1>8. \A b \in Agents : Due(p, Agent(b)) <=> Due(gp, Agent(b)) /\ b # a
  BY <1>4 DEF Steady
<1>9. p \in Gps /\ Once(p.due)
  BY <1>2
<1> QED
  BY <1>5, <1>6, <1>7, <1>8, <1>9 DEF Steady

LEMMA SteadyNow ==
    ASSUME IInv, NEW a \in Agents, Turn(Agent(a))
    PROVE  Steady(a, Now) /\ Due(gp, Agent(a))
<1>1. gp \in Gps
  BY DEF IInv, Typed
<1>2. \A i : <<"loop", i>> # Agent(a)
  BY DEF Agent
<1>3. Kin(a, Now)
  BY <1>1, NowIsGp DEF Kin
<1>4. \A i : Due(gp, <<"loop", i>>) => Due(Now, <<"loop", i>>)
  BY <1>2, TurnTaken
<1> QED
  BY <1>1, <1>3, <1>4, TurnTaken, NowIsGp, AgentNames DEF Steady, Sober

LEMMA GpFields ==
    ASSUME NEW s \in Gps
    PROVE  /\ s.shake \in 0 .. MaxLinks /\ s.ready \in 0 .. MaxLinks /\ s.loop \in 0 .. MaxLinks
           /\ \A i \in 0 .. MaxLinks : i # 0 => i \in Links
           /\ s.sender \in Nat /\ s.reporting \in Reporting
           /\ s.connected \in BOOLEAN /\ s.attempt \in BOOLEAN
BY Zero DEF Gps, Links

LEMMA Idle ==
    ASSUME NEW res \in Results
    PROVE  LET v == [Asleep EXCEPT !.res = res] IN v \in Runs /\ v.at = "idle"
BY DEF Asleep, Runs, Fns, Places

SameWaiters ==
    /\ shake' \in [Links -> Shakes]
    /\ \A i \in Links : shake'[i].waiters = shake[i].waiters

LEMMA SameWaitersMove ==
    ASSUME SameWaiters
    PROVE  \A a, w : ShakeMove(a, w)
BY DEF SameWaiters, ShakeMove

LEMMA ShakeKept ==
    ASSUME IInv, UNCHANGED shake
    PROVE  SameWaiters
BY DEF IInv, Typed, SameWaiters

-----------------------------------------------------------------------------
(* Stopping the tasks.                                                     *)

(* Agent a is suspended well, and a caller that had the lock l has it now  *)
(* or is through with it.                                                  *)
Reached(a, l, w, s, m) ==
    /\ Suspend(a, w, s, m)
    /\ w \in Runs /\ Steady(a, s) /\ ShakeMove(a, w) /\ Placed(a, w.at, w.obj, s)
    /\ w.at \notin {"lock", "completing"}
    /\ IF a \in Callers
       THEN \/ m = l /\ w.at \in Lockeds
            \/ m = Released(l) /\ w.at = "idle"
       ELSE m = l

Reaches(a, l) == \E w, s, m : Reached(a, l, w, s, m)

(* The places where no report loop matters.                                *)
Plains == Places \ (Closes \cup {"stop loop", "down closing", "opening", "open closing"})

LEMMA PlainPlaced ==
    ASSUME NEW at \in Plains
    PROVE  \A a, i, s : Placed(a, at, i, s)
BY DEF Plains, Placed, Mute, Closes

(* Agent a stops tasks: a caller has the lock and its close() is under way. *)
Stopper(a, s) == a \in Callers => Leaves(a) /\ s.closing

LEMMA AtReaches ==
    ASSUME NEW a, NEW l, NEW s, Steady(a, s), NEW w \in Runs, NEW i \in Nat,
           NEW there, Placed(a, there, i, s),
           there \in Places \ {"lock", "completing"}, a \in Callers => there \in Lockeds,
           At(there, i, a, w, s, l), ShakeMove(a, [w EXCEPT !.at = there, !.obj = i])
    PROVE  Reaches(a, l)
<1> DEFINE v == [w EXCEPT !.at = there, !.obj = i]
<1>1. v \in Runs /\ v.at = there /\ v.obj = i
  BY DEF Runs
<1>2. Suspend(a, v, s, l)
  BY DEF At
<1> HIDE DEF v
<1>3. ShakeMove(a, v)
  BY DEF v
<1>4. Placed(a, v.at, v.obj, s)
  BY <1>1
<1>5. Reached(a, l, v, s, l)
  BY <1>1, <1>2, <1>3, <1>4 DEF Reached
<1> QED
  BY <1>5 DEF Reaches

LEMMA ReturnReaches ==
    ASSUME NEW a \in Callers, NEW l, NEW s, Steady(a, s), NEW res \in Results,
           Return(a, res, s, Released(l)), SameWaiters
    PROVE  Reaches(a, l)
<1> DEFINE v == [Asleep EXCEPT !.res = res]
<1>1. v \in Runs /\ v.at = "idle"
  BY Idle
<1>2. Suspend(a, v, s, Released(l))
  BY DEF Return
<1> HIDE DEF v
<1>3. Placed(a, v.at, v.obj, s)
  BY <1>1, PlainPlaced DEF Plains, Places, Closes, Pasts
<1>4. Reached(a, l, v, s, Released(l))
  BY <1>1, <1>2, <1>3, SameWaitersMove DEF Reached
<1> QED
  BY <1>4 DEF Reaches

LEMMA RaiseReaches ==
    ASSUME NEW a \in Callers \cup Links, NEW l, NEW s, Steady(a, s), NEW w \in Runs,
           Raise(a, w, s, l), SameWaiters, Stopper(a, s)
    PROVE  Reaches(a, l)
<1>1. s \in Gps
  BY DEF Steady
<1>2. CASE a \in Links
  <2> DEFINE t == [s EXCEPT !.disconnected = TRUE]
  <2>1. t \in Gps /\ Alike(t, s) /\ t.connected = s.connected
    BY <1>1 DEF Gps, Alike
  <2>2. At("aborted", 0, a, w, t, l)
    BY <1>2 DEF Raise
  <2> HIDE DEF t
  <2>3. Steady(a, t) /\ a \notin Callers /\ "aborted" \in Places \ {"lock", "completing"}
    BY <1>2, <2>1, SteadyFields, ParticipantsApart DEF Places
  <2>4. Placed(a, "aborted", 0, t)
    BY PlainPlaced DEF Plains, Places, Closes, Pasts
  <2> QED
    BY <2>2, <2>3, <2>4, AtReaches, SameWaitersMove
<1>3. CASE a \notin Links
  <2> DEFINE t == [s EXCEPT !.closing = FALSE]
  <2>1. /\ t \in Gps /\ t.due = s.due /\ t.connected = s.connected
        /\ t.loop = s.loop /\ t.open = s.open /\ t.sender = s.sender
    BY <1>1 DEF Gps
  <2>2. Return(a, "error", t, Released(l))
    BY <1>3 DEF Raise
  <2> HIDE DEF t
  <2>3. Kin(a, t)
    BY <1>3, <2>1 DEF Steady, Kin, Stopper
  <2>4. Steady(a, t) /\ "error" \in Results
    BY <2>1, <2>3, SteadyKin DEF Results
  <2> QED
    BY <1>3, <2>2, <2>4, ReturnReaches
<1> QED
  BY <1>2, <1>3

LEMMA TasksStoppedReaches ==
    ASSUME NEW a \in Callers \cup Links, NEW l, NEW s, Steady(a, s), NEW w \in Runs,
           TasksStopped(a, w, s, l), SameWaiters, Stopper(a, s), NoneRuns(loop')
    PROVE  Reaches(a, l)
<1>1. s \in Gps /\ 0 \in 0 .. MaxLinks
  BY Zero DEF Steady
<1>2. CASE a \notin Links
  <2> DEFINE t == [s EXCEPT !.disconnected = FALSE]
  <2>1. t \in Gps /\ Alike(t, s) /\ t.connected = s.connected
    BY <1>1 DEF Gps, Alike
  <2>2. At("request", 0, a, w, t, l)
    BY <1>2 DEF TasksStopped
  <2> HIDE DEF t
  <2>3. Steady(a, t) /\ "request" \in Lockeds /\ "request" \in Places \ {"lock", "completing"}
    BY <2>1, SteadyFields DEF Places, Lockeds
  <2>4. Placed(a, "request", 0, t)
    BY <1>2, <2>1 DEF Placed, Mute, Stopper, Alike
  <2> QED
    BY <2>2, <2>3, <2>4, AtReaches, SameWaitersMove
<1>3. CASE a \in Links
  <2> DEFINE released == [s EXCEPT !.loop = 0, !.sender = 0]
             over == [released EXCEPT !.disconnected = TRUE]
             closed == [over EXCEPT !.state = "closed"]
  <2>1. /\ released \in Gps /\ released.due = s.due /\ released.connected = s.connected
        /\ released.loop = 0 /\ released.sender = 0
        /\ released.open = s.open /\ released.closing = s.closing
    BY <1>1 DEF Gps
  <2>2. over \in Gps /\ Alike(over, released) /\ over.connected = s.connected
    BY <1>1 DEF Gps, Alike
  <2>3. closed \in Gps /\ Alike(closed, released) /\ closed.connected = s.connected
    BY <1>1 DEF Gps, States, Alike
  <2>4. \/ At("handled", 0, a, w, over, l)
        \/ At("down closing", 0, a, w, released, l)
        \/ At("handled", 0, a, w, closed, l)
    BY <1>3 DEF TasksStopped, Unlinked
  <2> HIDE DEF released, over, closed
  <2>5. Steady(a, released)
    <3>1. Kin(a, released)
      BY <2>1 DEF Steady, Kin
    <3> QED
      BY <2>1, <3>1, SteadyKin
  <2>6. Steady(a, over) /\ Steady(a, closed)
    BY <2>1, <2>2, <2>3, <2>5, SteadyFields
  <2>7. Placed(a, "down closing", 0, released)
    BY <1>3, <2>1, ParticipantsApart DEF Placed
  <2>8. Placed(a, "handled", 0, over) /\ Placed(a, "handled", 0, closed)
    BY PlainPlaced DEF Plains, Places, Closes, Pasts
  <2>9. /\ a \notin Callers /\ "handled" \in Places \ {"lock", "completing"}
        /\ "down closing" \in Places \ {"lock", "completing"}
    BY <1>3, ParticipantsApart DEF Places
  <2> QED
    BY <2>4, <2>5, <2>6, <2>7, <2>8, <2>9, AtReaches, SameWaitersMove
<1> QED
  BY <1>2, <1>3

LEMMA StopLoopReaches ==
    ASSUME IInv, NEW a \in Callers \cup Links, NEW l, NEW s, Steady(a, s), NEW w \in Runs,
           StopLoop(a, w, s, l), SameWaiters, Stopper(a, s), s.loop = gp.loop
    PROVE  Reaches(a, l) /\ LoopMove
<1> DEFINE i == s.loop
<1>1. s \in Gps /\ loop \in [Links -> Loops]
  BY DEF IInv, Typed, Steady
<1>2. i \in 0 .. MaxLinks /\ (i # 0 => i \in Links) /\ i \in Nat
  BY <1>1, GpFields, Zero
<1> HIDE DEF i
<1>3. \A j \in Links : loop[j] = "running" => j = i /\ i # 0
  BY ParticipantsApart DEF IInv, Sole, Known, i
<1>4. CASE /\ TasksStopped(a, w, s, l) /\ UNCHANGED loop
           /\ i # 0 => loop[i] \in {"cancelling", "stopped"}
  <2>1. NoneRuns(loop') /\ LoopMove
    BY <1>1, <1>3, <1>4 DEF NoneRuns, LoopMove
  <2> QED
    BY <1>1, <1>4, <2>1, TasksStoppedReaches
<1>5. CASE /\ i # 0 /\ loop[i] = "running" /\ loop' = [loop EXCEPT ![i] = "cancelling"]
           /\ At("stop loop", i, a, w, Post(s, <<"loop", i>>), l)
  <2> DEFINE p == Post(s, <<"loop", i>>)
  <2>1. LoopMove /\ NoneRuns(loop') /\ ~NoneRuns(loop)
    BY <1>1, <1>2, <1>3, <1>5 DEF Loops, LoopMove, NoneRuns
  <2>2. Steady(a, p)
    BY <1>2, <1>5, SteadyPost
  <2>3. Placed(a, "stop loop", i, p)
    <3>1. Due(p, <<"loop", i>>) /\ p.loop = s.loop /\ p.closing = s.closing
      <4>1. <<"loop", i>> \in Dues
        BY <1>2, <1>5, AgentNames
      <4>2. /\ \E q \in Seq(Dues) : p = [s EXCEPT !.due = q]
            /\ \A y : Due(p, y) <=> Due(s, y) \/ y = <<"loop", i>>
        BY <1>1, <4>1, Posted
      <4> QED
        BY <1>1, <4>2 DEF Gps
    <3> QED
      BY <1>5, <2>1, <3>1 DEF Placed, Mute, Pasts, Stopper, i
  <2>4. "stop loop" \in Places \ {"lock", "completing"} /\ "stop loop" \in Lockeds
    BY DEF Places, Lockeds
  <2> QED
    BY <1>2, <1>5, <2>1, <2>2, <2>3, <2>4, AtReaches, SameWaitersMove
<1>6. CASE /\ i # 0 /\ loop' = [loop EXCEPT ![i] = "stopped"]
           /\ Raise(a, w, s, l)
  <2>1. LoopMove
    BY <1>1, <1>2, <1>6 DEF Loops, LoopMove
  <2> QED
    BY <1>6, <2>1, RaiseReaches
<1> QED
  BY <1>4, <1>5, <1>6 DEF StopLoop, i

(* A stop before that of the report loop needs no more than the flag.      *)
LEMMA StopPlaced ==
    ASSUME NEW a, NEW s, Steady(a, s), Stopper(a, s), NEW k, NEW i \in Links,
           k \in {"shake", "ready"}
    PROVE  \A at \in {"stop shake", "stop ready"} : \A j : Placed(a, at, j, Post(s, <<k, i>>))
<1> DEFINE p == Post(s, <<k, i>>)
<1>1. s \in Gps /\ <<k, i>> \in Dues
  BY AgentNames DEF Steady
<1>2. \E q \in Seq(Dues) : p = [s EXCEPT !.due = q]
  BY <1>1, Posted
<1>3. p.closing = s.closing
  BY <1>1, <1>2 DEF Gps
<1> HIDE DEF p
<1>4. \A at \in {"stop shake", "stop ready"} : \A j : Placed(a, at, j, p)
  BY <1>3 DEF Placed, Mute, Pasts, Stopper
<1> QED
  BY <1>4 DEF p

LEMMA LoopKept ==
    ASSUME IInv, UNCHANGED loop
    PROVE  LoopMove
BY DEF IInv, Typed, LoopMove

LEMMA StopReadyReaches ==
    ASSUME IInv, NEW a \in Callers \cup Links, NEW l, NEW s, Steady(a, s), NEW w \in Runs,
           StopReady(a, w, s, l), SameWaiters,
           Stopper(a, s), s.loop = gp.loop
    PROVE  /\ Reaches(a, l)
           /\ ready' \in [Links -> Readies] /\ LoopMove
<1> DEFINE i == s.ready
           n == [s EXCEPT !.ready = 0]
<1>1. s \in Gps /\ loop \in [Links -> Loops] /\ ready \in [Links -> Readies]
  BY DEF IInv, Typed, Steady
<1>2. i \in 0 .. MaxLinks /\ (i # 0 => i \in Links) /\ i \in Nat
  BY <1>1, GpFields, Zero
<1>3. n \in Gps /\ Alike(n, s) /\ n.connected = s.connected
  BY <1>1, Zero DEF Gps, Alike
<1>4. \/ UNCHANGED ready /\ StopLoop(a, w, n, l)
      \/ /\ i # 0 /\ ready' = [ready EXCEPT ![i].task = "cancelling"]
         /\ UNCHANGED loop
         /\ At("stop ready", i, a, w, Post(n, <<"ready", i>>), l)
      \/ UNCHANGED <<ready, loop>> /\ Raise(a, w, n, l)
  BY DEF StopReady
<1> HIDE DEF i, n
<1>5. Steady(a, n) /\ Stopper(a, n) /\ n.loop = gp.loop
  BY <1>3, SteadyFields DEF Alike, Stopper
<1>6. CASE UNCHANGED ready /\ StopLoop(a, w, n, l)
  BY <1>1, <1>5, <1>6, StopLoopReaches
<1>7. CASE /\ i # 0 /\ ready' = [ready EXCEPT ![i].task = "cancelling"]
           /\ UNCHANGED loop
           /\ At("stop ready", i, a, w, Post(n, <<"ready", i>>), l)
  <2>1. ready' \in [Links -> Readies]
    BY <1>1, <1>2, <1>7 DEF Readies
  <2>2. Steady(a, Post(n, <<"ready", i>>))
    BY <1>2, <1>5, <1>7, SteadyPost
  <2>3. "stop ready" \in Places \ {"lock", "completing"} /\ "stop ready" \in Lockeds
    BY DEF Places, Lockeds
  <2>4. Placed(a, "stop ready", i, Post(n, <<"ready", i>>))
    BY <1>2, <1>5, <1>7, StopPlaced
  <2> QED
    BY <1>2, <1>7, <2>1, <2>2, <2>3, <2>4, AtReaches, SameWaitersMove, LoopKept
<1>8. CASE UNCHANGED <<ready, loop>> /\ Raise(a, w, n, l)
  BY <1>1, <1>5, <1>8, RaiseReaches, LoopKept
<1> QED
  BY <1>4, <1>6, <1>7, <1>8

(* Stopping a handshake keeps the waiters of every handshake, but for the  *)
(* agent that stops one that runs.                                         *)
LEMMA StoppedShakeWaiters ==
    ASSUME IInv, NEW i \in Links, NEW a \in Agents, shake' = StoppedShake(i, a)
    PROVE  /\ shake' \in [Links -> Shakes]
           /\ Ended(shake[i].task) => SameWaiters
           /\ \A w : w.at \in Awaits /\ w.obj = i => ShakeMove(a, w)
<1>1. shake \in [Links -> Shakes] /\ shake[i] \in Shakes
  BY DEF IInv, Typed
<1> DEFINE e == [shake[i] EXCEPT !.stopped = TRUE]
           c == [shake[i] EXCEPT !.stopped = TRUE, !.task = "cancelling",
                                 !.waiters = Append(@, a)]
           v == IF Ended(shake[i].task) THEN e ELSE c
<1>2. shake' = [shake EXCEPT ![i] = v]
  BY DEF StoppedShake
<1>3. e \in Shakes /\ e.waiters = shake[i].waiters
  BY <1>1 DEF Shakes
<1>4. c \in Shakes /\ c.waiters = Append(shake[i].waiters, a)
  <2> DEFINE q == Append(shake[i].waiters, a)
  <2>1. q \in Seq(Agents)
    BY <1>1 DEF Shakes
  <2>2. c = [shake[i] EXCEPT !.stopped = TRUE, !.task = "cancelling", !.waiters = q]
    OBVIOUS
  <2> HIDE DEF q, c
  <2>3. c \in Shakes /\ c.waiters = q
    BY <1>1, <2>1, <2>2 DEF Shakes
  <2> QED
    BY <2>3 DEF q
<1> HIDE DEF e, c
<1>5. /\ shake' \in [Links -> Shakes]
      /\ shake'[i].waiters = IF Ended(shake[i].task) THEN shake[i].waiters
                             ELSE Append(shake[i].waiters, a)
      /\ \A j \in Links : j # i => shake'[j] = shake[j]
  BY <1>1, <1>2, <1>3, <1>4
<1> QED
  BY <1>5 DEF SameWaiters, ShakeMove

LEMMA StopShakeReaches ==
    ASSUME IInv, NEW a \in Callers \cup Links, NEW l, NEW s, Steady(a, s), NEW w \in Runs,
           StopShake(a, w, s, l),
           Stopper(a, s), s.loop = gp.loop
    PROVE  /\ Reaches(a, l)
           /\ ready' \in [Links -> Readies] /\ LoopMove
           /\ shake' \in [Links -> Shakes]
<1> DEFINE i == s.shake
           n == [s EXCEPT !.shake = 0]
<1>1. /\ s \in Gps /\ loop \in [Links -> Loops] /\ ready \in [Links -> Readies]
      /\ shake \in [Links -> Shakes] /\ a \in Agents
  BY ParticipantsApart DEF IInv, Typed, Steady
<1>2. i \in 0 .. MaxLinks /\ (i # 0 => i \in Links) /\ i \in Nat
  BY <1>1, GpFields, Zero
<1>3. n \in Gps /\ Alike(n, s) /\ n.connected = s.connected
  BY <1>1, Zero DEF Gps, Alike
<1>4. \/ UNCHANGED shake /\ StopReady(a, w, n, l)
      \/ /\ i # 0 /\ Ended(shake[i].task) /\ shake' = StoppedShake(i, a)
         /\ StopReady(a, w, n, l)
      \/ /\ i # 0 /\ shake' = StoppedShake(i, a) /\ UNCHANGED <<ready, loop>>
         /\ At("stop shake", i, a, w, Post(n, <<"shake", i>>), l)
  BY DEF StopShake
<1> HIDE DEF i, n
<1>5. Steady(a, n) /\ Stopper(a, n) /\ n.loop = gp.loop
  BY <1>3, SteadyFields DEF Alike, Stopper
<1>6. CASE UNCHANGED shake /\ StopReady(a, w, n, l)
  BY <1>1, <1>5, <1>6, StopReadyReaches, ShakeKept
<1>7. CASE /\ i # 0 /\ Ended(shake[i].task) /\ shake' = StoppedShake(i, a)
           /\ StopReady(a, w, n, l)
  <2>1. SameWaiters /\ shake' \in [Links -> Shakes]
    BY <1>1, <1>2, <1>7, StoppedShakeWaiters
  <2> QED
    BY <1>5, <1>7, <2>1, StopReadyReaches
<1>8. CASE /\ i # 0 /\ shake' = StoppedShake(i, a) /\ UNCHANGED <<ready, loop>>
           /\ At("stop shake", i, a, w, Post(n, <<"shake", i>>), l)
  <2> DEFINE v == [w EXCEPT !.at = "stop shake", !.obj = i]
  <2>1. v.at \in Awaits /\ v.obj = i
    BY DEF Awaits, Runs
  <2>2. shake' \in [Links -> Shakes] /\ ShakeMove(a, v)
    BY <1>1, <1>2, <1>8, <2>1, StoppedShakeWaiters
  <2>3. Steady(a, Post(n, <<"shake", i>>))
    BY <1>2, <1>5, <1>8, SteadyPost
  <2>4. "stop shake" \in Places \ {"lock", "completing"} /\ "stop shake" \in Lockeds
    BY DEF Places, Lockeds
  <2>5. Placed(a, "stop shake", i, Post(n, <<"shake", i>>))
    BY <1>2, <1>5, <1>8, StopPlaced
  <2> QED
    BY <1>1, <1>2, <1>8, <2>2, <2>3, <2>4, <2>5, AtReaches, LoopKept
<1> QED
  BY <1>4, <1>6, <1>7, <1>8

-----------------------------------------------------------------------------
(* The turns of a caller.                                                  *)

(* Caller c has the lock l: it had it, takes it, or was woken for it.      *)
Holding(c, l) ==
    \/ run[c].at \in Lockeds /\ l = lock
    \/ run[c].at \notin Lockeds \cup {"lock"} /\ ~Contended(lock) /\ l = Taken(lock, c)
    \/ run[c].at = "lock" /\ l = Granted(lock, c)

(* Caller c may go on, with the lock l, where the lock is not needed.      *)
Outside(c, l) == \A w : w.at \notin Lockeds \cup {"lock"} => LockMove(c, w, l)

Inside(c, l) == \A w : w.at \in Lockeds => LockMove(c, w, l)

LEMMA HoldingMoves ==
    ASSUME IInv, NEW c \in Callers, Due(gp, Agent(c)), NEW l, Holding(c, l)
    PROVE  Inside(c, l) /\ Outside(c, Released(l)) /\ Leaves(c)
<1>1. /\ Queue(lock, run) /\ Handed(gp, lock, run) /\ Exclusive(lock, run)
      /\ lock \in Locks(Callers) /\ lock.waiters \in Seq(Callers)
  BY DEF IInv, Typed, Ordered, Locks
<1>2. c # NoTask
  BY ParticipantsApart
<1>3. run[c].at = "lock" =>
          lock.waiters # << >> /\ Head(lock.waiters) = c /\ lock.holder = NoTask
  BY <1>1 DEF Handed
<1>4. run[c].at \in Lockeds <=> lock.holder = c
  BY <1>1 DEF Exclusive
<1>5. "lock" \notin Lockeds
  BY DEF Lockeds
<1>6. /\ l \in Locks(Callers) /\ l.holder = c
      /\ l.waiters = IF run[c].at = "lock" THEN Tail(lock.waiters) ELSE lock.waiters
      /\ run[c].at \notin Lockeds =>
            lock.holder = NoTask /\ (run[c].at # "lock" => lock.waiters = << >>)
  <2>1. CASE run[c].at \in Lockeds /\ l = lock
    BY <1>1, <1>4, <1>5, <2>1
  <2>2. CASE run[c].at \notin Lockeds \cup {"lock"} /\ ~Contended(lock) /\ l = Taken(lock, c)
    BY <1>1, <2>2 DEF Taken, Contended, Locks
  <2>3. CASE run[c].at = "lock" /\ l = Granted(lock, c)
    BY <1>1, <1>3, <1>5, <2>3 DEF Granted, Locks
  <2> QED
    BY <2>1, <2>2, <2>3 DEF Holding
<1> DEFINE f == Released(l)
<1>7. f \in Locks(Callers) /\ f.holder = NoTask /\ f.waiters = l.waiters
  BY <1>6 DEF Released, Locks
<1> HIDE DEF f
<1>8. Inside(c, l)
  BY <1>3, <1>5, <1>6 DEF Inside, LockMove
<1>9. \A w : w.at \notin Lockeds \cup {"lock"} => LockMove(c, w, f)
  <2> SUFFICES ASSUME NEW w, w.at \notin Lockeds \cup {"lock"}
               PROVE  LockMove(c, w, f)
    OBVIOUS
  <2>1. NoTask = IF lock.holder = c THEN NoTask ELSE lock.holder
    BY <1>4, <1>6
  <2> QED
    BY <1>3, <1>6, <1>7, <2>1 DEF LockMove
<1> QED
  BY <1>6, <1>8, <1>9 DEF Outside, f, Leaves

LEMMA PlainMoves ==
    ASSUME IInv, NEW c \in Callers, run[c].at \notin Lockeds \cup {"lock"}
    PROVE  Outside(c, lock)
<1>1. Exclusive(lock, run) /\ lock \in Locks(Callers)
  BY DEF IInv, Typed, Ordered
<1>2. lock.holder # c
  BY <1>1 DEF Exclusive
<1> QED
  BY <1>1, <1>2 DEF Outside, LockMove

(* What the turns below share.                                             *)
Starting(c, s) == IInv /\ c \in Callers /\ Turn(Agent(c)) /\ Steady(c, s)

Proper == IInv' /\ Sober(gp')

(* The runtime s has the connection as the turn found it.                  *)
Fresh(s) == s.loop = gp.loop /\ s.open = gp.open /\ s.sender = gp.sender

LEMMA CallerTurns ==
    ASSUME NEW c, NEW s, Starting(c, s), NEW w \in Runs, NEW l, Suspend(c, w, s, l),
           LockMove(c, w, l), ShakeMove(c, w), LinkMove, w.at # "completing",
           Placed(c, w.at, w.obj, s),
           ready' \in [Links -> Readies], LoopMove
    PROVE  Proper
<1>1. IInv /\ c \in Callers /\ c \in Agents /\ Turn(Agent(c)) /\ Steady(c, s)
  BY ParticipantsApart DEF Starting
<1>2. Acts(c, w, s, l)
  BY <1>1, ParticipantsApart DEF Acts
<1> QED
  BY <1>1, <1>2, AgentTurn DEF Proper

LEMMA ReachesTurn ==
    ASSUME NEW c, NEW s, Starting(c, s), NEW l, Holding(c, l), Reaches(c, l), LinkMove,
           ready' \in [Links -> Readies], LoopMove
    PROVE  Proper
<1>1. IInv /\ c \in Callers /\ c \in Agents /\ Due(gp, Agent(c))
  BY ParticipantsApart, SteadyNow DEF Starting
<1>2. PICK w, t, m : Reached(c, l, w, t, m)
  BY DEF Reaches
<1>3. /\ Suspend(c, w, t, m) /\ w \in Runs /\ Steady(c, t) /\ ShakeMove(c, w)
      /\ w.at # "completing" /\ Placed(c, w.at, w.obj, t)
      /\ \/ m = l /\ w.at \in Lockeds
         \/ m = Released(l) /\ w.at = "idle"
  BY <1>1, <1>2 DEF Reached
<1>4. Inside(c, l) /\ Outside(c, Released(l))
  BY <1>1, HoldingMoves
<1>5. "idle" \notin Lockeds \cup {"lock"}
  BY DEF Lockeds
<1>6. LockMove(c, w, m)
  BY <1>3, <1>4, <1>5 DEF Inside, Outside
<1>7. Starting(c, t)
  BY <1>3 DEF Starting
<1> QED
  BY <1>3, <1>6, <1>7, CallerTurns

LEMMA TasksKept ==
    ASSUME IInv, UNCHANGED tasks
    PROVE  /\ SameWaiters
           /\ ready' \in [Links -> Readies] /\ LoopMove
           /\ shake' \in [Links -> Shakes]
BY ShakeKept, LoopKept DEF IInv, Typed, tasks

LEMMA LinkKept ==
    ASSUME IInv, UNCHANGED tp
    PROVE  LinkMove
BY DEF IInv, Typed, LinkMove

(* The places of callers where the lock is not needed.                     *)
Frees == {"idle", "peer", "connecting", "wait ready", "cancel ready"}

LEMMA FreeTurn ==
    ASSUME NEW c, NEW s, Starting(c, s), NEW w \in Runs, NEW l, Suspend(c, w, s, l),
           Outside(c, l), w.at \in Frees, LinkMove, SameWaiters,
           ready' \in [Links -> Readies], LoopMove
    PROVE  Proper
<1>1. w.at \notin Lockeds \cup {"lock"} /\ w.at # "completing"
  BY DEF Frees, Lockeds
<1>2. LockMove(c, w, l) /\ ShakeMove(c, w)
  BY <1>1, SameWaitersMove DEF Outside
<1>3. w.at \in Plains
  BY DEF Frees, Plains, Places, Stops, Closes, Pasts
<1>4. Placed(c, w.at, w.obj, s)
  BY <1>3, PlainPlaced
<1> QED
  BY <1>1, <1>2, <1>4, CallerTurns

LEMMA FreeAt ==
    ASSUME NEW c, NEW s, Starting(c, s), NEW w \in Runs, NEW l, NEW there \in Frees,
           NEW i \in Nat, At(there, i, c, w, s, l),
           Outside(c, l), LinkMove, SameWaiters,
           ready' \in [Links -> Readies], LoopMove
    PROVE  Proper
<1> DEFINE v == [w EXCEPT !.at = there, !.obj = i]
<1>1. there \in Places
  BY DEF Frees, Places, Stops
<1>2. v \in Runs /\ v.at = there
  BY <1>1 DEF Runs
<1>3. Suspend(c, v, s, l)
  BY DEF At
<1> HIDE DEF v
<1> QED
  BY <1>2, <1>3, FreeTurn

LEMMA ReturnTurn ==
    ASSUME NEW c, NEW s, Starting(c, s), NEW l, NEW res \in Results, Return(c, res, s, l),
           Outside(c, l), LinkMove, UNCHANGED tasks
    PROVE  Proper
<1> DEFINE v == [Asleep EXCEPT !.res = res]
<1>1. v \in Runs /\ v.at = "idle"
  BY Idle
<1>2. Suspend(c, v, s, l)
  BY DEF Return
<1> HIDE DEF v
<1>3. IInv /\ v.at \in Frees
  BY <1>1 DEF Starting, Frees
<1> QED
  BY <1>1, <1>2, <1>3, FreeTurn, TasksKept

LEMMA HoldAt ==
    ASSUME NEW c, NEW s, Starting(c, s), NEW w \in Runs, NEW l, Holding(c, l),
           NEW there \in Lockeds, NEW i \in Nat, At(there, i, c, w, s, l),
           LinkMove, UNCHANGED tasks, Placed(c, there, i, s)
    PROVE  Proper
<1> DEFINE v == [w EXCEPT !.at = there, !.obj = i]
<1>1. there \in Places /\ there # "completing"
  BY DEF Places, Lockeds
<1>2. v \in Runs /\ v.at = there /\ v.obj = i
  BY <1>1 DEF Runs
<1>3. Suspend(c, v, s, l)
  BY DEF At
<1> HIDE DEF v
<1>4. IInv /\ c \in Callers /\ c \in Agents /\ Due(gp, Agent(c))
  BY ParticipantsApart, SteadyNow DEF Starting
<1>5. LockMove(c, v, l)
  BY <1>2, <1>4, HoldingMoves DEF Inside
<1>6. ShakeMove(c, v) /\ ready' \in [Links -> Readies] /\ LoopMove
  BY <1>4, TasksKept, SameWaitersMove
<1>7. Placed(c, v.at, v.obj, s)
  BY <1>2
<1> QED
  BY <1>1, <1>2, <1>3, <1>5, <1>6, <1>7, CallerTurns

LEMMA StartingKin ==
    ASSUME NEW c, NEW s, Starting(c, s), NEW t \in Gps, t.due = s.due,
           t.connected => s.connected, Kin(c, t)
    PROVE  Starting(c, t)
BY SteadyKin DEF Starting

LEMMA StartingFields ==
    ASSUME NEW c, NEW s, Starting(c, s), NEW t \in Gps, Alike(t, s), t.connected => s.connected
    PROVE  Starting(c, t)
BY SteadyFields DEF Starting

LEMMA StartingGp ==
    ASSUME NEW c, NEW s, Starting(c, s)
    PROVE  IInv /\ s \in Gps /\ c \in Callers /\ Due(gp, Agent(c)) /\ 0 \in 0 .. MaxLinks
BY SteadyNow, ParticipantsApart, Zero DEF Starting, Steady

LEMMA CloseLockedTurn ==
    ASSUME NEW c, NEW s, Starting(c, s), NEW w \in Runs, NEW l, Holding(c, l),
           CloseLocked(c, w, s, l), Fresh(s)
    PROVE  Proper
<1> DEFINE n == [s EXCEPT !.closing = TRUE, !.state = "disconnecting"]
<1>1. IInv /\ s \in Gps /\ c \in Callers /\ Due(gp, Agent(c))
  BY StartingGp
<1>2. /\ n \in Gps /\ n.due = s.due /\ n.connected = s.connected /\ n.closing
      /\ n.loop = s.loop /\ n.open = s.open /\ n.sender = s.sender
  BY <1>1 DEF Gps, States
<1>3. /\ UNCHANGED tp
      /\ \/ UNCHANGED tasks /\ Return(c, w.res, s, Released(l))
         \/ UNCHANGED tasks /\ At("neutral", 0, c, w, n, l)
         \/ StopShake(c, w, n, l)
  BY DEF CloseLocked
<1> HIDE DEF n
<1>4. Starting(c, n)
  <2>1. Kin(c, n)
    BY <1>2 DEF Kin, Fresh
  <2> QED
    BY <1>2, <2>1, StartingKin
<1>5. LinkMove
  BY <1>1, <1>3, LinkKept
<1>6. CASE UNCHANGED tasks /\ Return(c, w.res, s, Released(l))
  <2>1. w.res \in Results
    BY DEF Runs
  <2>2. Outside(c, Released(l))
    BY <1>1, HoldingMoves
  <2> QED
    BY <1>5, <1>6, <2>1, <2>2, ReturnTurn
<1>7. CASE UNCHANGED tasks /\ At("neutral", 0, c, w, n, l)
  <2>1. "neutral" \in Lockeds /\ Placed(c, "neutral", 0, n)
    BY <1>2 DEF Lockeds, Placed, Mute, Pasts
  <2> QED
    BY <1>4, <1>5, <1>7, <2>1, HoldAt
<1>8. CASE StopShake(c, w, n, l)
  <2>1. /\ Reaches(c, l)
        /\ ready' \in [Links -> Readies] /\ LoopMove
    <3>1. Stopper(c, n) /\ n.loop = gp.loop
      BY <1>1, <1>2, HoldingMoves DEF Stopper, Fresh
    <3> QED
      BY <1>1, <1>4, <1>8, <3>1, StopShakeReaches DEF Starting
  <2> QED
    BY <1>4, <1>5, <2>1, ReachesTurn
<1> QED
  BY <1>3, <1>6, <1>7, <1>8

(* The transport x has the link that tp has.                               *)
SameLink(x) == x \in Tps /\ x.links = tp.links /\ x.link = tp.link

LEMMA SameLinkMove ==
    ASSUME NEW x, SameLink(x), tp' = x
    PROVE  LinkMove
BY DEF SameLink, LinkMove

LEMMA ConnectTurn ==
    ASSUME NEW c, NEW s, Starting(c, s), NEW w \in Runs, NEW l, Outside(c, l),
           NEW x, SameLink(x), Connect(c, w, s, l, x)
    PROVE  Proper
<1> DEFINE n == [s EXCEPT !.connected = FALSE, !.attempt = FALSE,
                          !.state = IF w.fn = "pair" THEN "advertising" ELSE "reconnecting"]
           y == [x EXCEPT !.visible = x.open]
<1>1. IInv /\ s \in Gps
  BY StartingGp
<1>2. n \in Gps /\ Alike(n, s) /\ ~n.connected
  BY <1>1 DEF Gps, States, Alike
<1>3. tp' = y /\ UNCHANGED tasks /\ At("connecting", 0, c, w, n, l)
  BY DEF Connect
<1>4. SameLink(y)
  BY DEF SameLink, Tps
<1> HIDE DEF n, y
<1>5. Starting(c, n)
  BY <1>2, StartingFields
<1>6. LinkMove /\ "connecting" \in Frees
  BY <1>3, <1>4, SameLinkMove DEF Frees
<1> QED
  BY <1>1, <1>3, <1>5, <1>6, FreeAt, TasksKept

LEMMA OpenedTurn ==
    ASSUME NEW c, NEW s, Starting(c, s), NEW w \in Runs, NEW l, Outside(c, l),
           NEW x, SameLink(x), Opened(c, w, s, l, x)
    PROVE  Proper
<1>1. IInv
  BY StartingGp
<1>2. CASE w.fn = "open" /\ tp' = x /\ UNCHANGED tasks /\ Return(c, "ok", s, l)
  BY <1>2, SameLinkMove, ReturnTurn DEF Results
<1>3. CASE Connect(c, w, s, l, x)
  BY <1>3, ConnectTurn
<1>4. CASE w.fn = "reconnect" /\ tp' = x /\ UNCHANGED tasks /\ At("peer", 0, c, w, s, l)
  <2>1. LinkMove /\ "peer" \in Frees
    BY <1>4, SameLinkMove DEF Frees
  <2> QED
    BY <1>1, <1>4, <2>1, FreeAt, TasksKept
<1> QED
  BY <1>2, <1>3, <1>4 DEF Opened

LEMMA TpSame ==
    ASSUME IInv
    PROVE  SameLink(tp)
BY DEF IInv, Typed, SameLink

LEMMA OpenLockedTurn ==
    ASSUME NEW c, NEW s, Starting(c, s), NEW w \in Runs, NEW l, Holding(c, l),
           OpenLocked(c, w, s, l), Fresh(s)
    PROVE  Proper
<1> DEFINE n == [s EXCEPT !.state = "opening", !.protocolReady = FALSE,
                          !.initialized = FALSE, !.connected = FALSE, !.attempt = FALSE]
<1>1. IInv /\ s \in Gps /\ c \in Callers /\ Due(gp, Agent(c))
  BY StartingGp
<1>2. n \in Gps /\ Alike(n, s) /\ ~n.connected
  BY <1>1 DEF Gps, States, Alike
<1>3. CASE Opened(c, w, s, Released(l), tp)
  BY <1>1, <1>3, HoldingMoves, TpSame, OpenedTurn
<1>4. CASE ~s.open /\ UNCHANGED <<tasks, tp>> /\ At("opening", 0, c, w, n, l)
  <2> HIDE DEF n
  <2>1. Placed(c, "opening", 0, n)
    <3>1. NoneRuns(loop) /\ gp.sender = 0
      <4>1. ~gp.open
        BY <1>4 DEF Fresh
      <4>2. Known(gp, loop) /\ Sendless(gp)
        BY <1>1 DEF IInv, Sole
      <4> QED
        BY <4>1, <4>2 DEF Known, Sendless, NoneRuns
    <3>2. n.sender = 0 /\ NoneRuns(loop')
      BY <1>2, <1>4, <3>1 DEF Alike, Fresh, tasks, NoneRuns
    <3> QED
      BY <3>2 DEF Placed, Closes, Pasts
  <2>2. Starting(c, n) /\ LinkMove /\ "opening" \in Lockeds
    BY <1>1, <1>2, <1>4, StartingFields, LinkKept DEF Lockeds
  <2> QED
    BY <1>4, <2>1, <2>2, HoldAt
<1> QED
  BY <1>3, <1>4 DEF OpenLocked

LEMMA LockedTurn ==
    ASSUME NEW c, NEW s, Starting(c, s), NEW w \in Runs, NEW l, Holding(c, l),
           Locked(c, w, s, l), Fresh(s)
    PROVE  Proper
BY OpenLockedTurn, CloseLockedTurn DEF Locked

LEMMA AskForLockTurn ==
    ASSUME NEW c, NEW s, Starting(c, s), NEW w \in Runs,
           run[c].at \notin Lockeds \cup {"lock"}, AskForLock(c, w, s), Fresh(s)
    PROVE  Proper
<1>1. CASE /\ Contended(lock) /\ UNCHANGED <<tasks, tp>>
           /\ At("lock", 0, c, w, s, Queued(lock, c))
  <2> DEFINE v == [w EXCEPT !.at = "lock", !.obj = 0]
             q == Queued(lock, c)
  <2>1. IInv /\ c \in Callers /\ lock \in Locks(Callers)
    BY StartingGp DEF IInv, Typed
  <2>2. v \in Runs /\ v.at = "lock"
    BY DEF Runs, Places
  <2>3. Suspend(c, v, s, q)
    BY <1>1 DEF At
  <2>4. q \in Locks(Callers)
    BY <2>1, LockTypes
  <2> HIDE DEF v, q
  <2>5. LockMove(c, v, q)
    BY <1>1, <2>1, <2>2, <2>4 DEF LockMove, q
  <2>6. /\ ShakeMove(c, v) /\ LinkMove
        /\ ready' \in [Links -> Readies] /\ LoopMove
    BY <1>1, <2>1, TasksKept, SameWaitersMove, LinkKept
  <2>7. Placed(c, v.at, v.obj, s)
    BY <2>2, PlainPlaced DEF Plains, Places, Closes, Pasts
  <2> QED
    BY <2>2, <2>3, <2>5, <2>6, <2>7, CallerTurns
<1>2. CASE ~Contended(lock) /\ Locked(c, w, s, Taken(lock, c))
  <2>1. Holding(c, Taken(lock, c))
    BY <1>2 DEF Holding
  <2> QED
    BY <1>2, <2>1, LockedTurn
<1> QED
  BY <1>1, <1>2 DEF AskForLock

(* The actions of a caller, each from the runtime as its turn finds it.    *)
LEMMA CallerStart ==
    ASSUME IInv, NEW c \in Callers, Turn(Agent(c))
    PROVE  /\ Starting(c, Now) /\ run[c] \in Runs /\ Fresh(Now) /\ Due(gp, Agent(c))
           /\ run[c].at \in Lockeds => Leaves(c)
           /\ run[c].at \in Lockeds => Holding(c, lock) /\ Outside(c, Released(lock))
           /\ run[c].at \notin Lockeds \cup {"lock"} => Outside(c, lock)
<1>1. c \in Agents /\ run \in [Agents -> Runs]
  BY ParticipantsApart DEF IInv, Typed
<1>2. Starting(c, Now)
  BY <1>1, SteadyNow DEF Starting
<1>3. Due(gp, Agent(c))
  BY <1>1, SteadyNow
<1>4. run[c].at \in Lockeds => Holding(c, lock)
  BY DEF Holding
<1>5. Fresh(Now)
  BY NowIsGp DEF IInv, Typed, Fresh
<1> QED
  BY <1>1, <1>2, <1>3, <1>4, <1>5, HoldingMoves, PlainMoves

LEMMA StartsTurn ==
    ASSUME IInv, NEW c \in Callers, Turn(Agent(c)), Starts(c)
    PROVE  Proper
<1>1. run[c].at \notin Lockeds \cup {"lock"}
  BY DEF Starts, Lockeds
<1> QED
  BY <1>1, CallerStart, ConnectTurn, AskForLockTurn, TpSame DEF Starts

LEMMA GetsLockTurn ==
    ASSUME IInv, NEW c \in Callers, Turn(Agent(c)), GetsLock(c)
    PROVE  Proper
<1>1. Holding(c, Granted(lock, c))
  BY DEF GetsLock, Holding
<1> QED
  BY <1>1, CallerStart, LockedTurn DEF GetsLock

LEMMA FinishesTurn ==
    ASSUME NEW c, NEW s, Starting(c, s), NEW res \in Results, Finishes(c, res, s),
           Outside(c, lock)
    PROVE  Proper
BY StartingGp, LinkKept, ReturnTurn DEF Finishes

LEMMA GivesUpTurn ==
    ASSUME IInv, NEW c \in Callers, Turn(Agent(c)), NEW res \in Results, GivesUp(c, res),
           run[c].at \notin Lockeds \cup {"lock"}
    PROVE  Proper
<1> DEFINE w == [run[c] EXCEPT !.body = "close", !.res = res]
<1>1. w \in Runs
  BY CallerStart DEF Runs
<1> QED
  BY <1>1, CallerStart, AskForLockTurn DEF GivesUp

LEMMA DecidedTurn ==
    ASSUME IInv, NEW c \in Callers, Turn(Agent(c)), Decided(c),
           run[c].at \notin Lockeds \cup {"lock"}
    PROVE  Proper
<1>1. "ok" \in Results /\ "failed" \in Results
  BY DEF Results
<1> QED
  BY <1>1, CallerStart, FinishesTurn, GivesUpTurn DEF Decided

LEMMA TransportClosedLink ==
    ASSUME IInv, tp' = TransportClosed
    PROVE  LinkMove
BY Zero DEF IInv, Typed, LinkMove, TransportClosed, Tps

LEMMA OpenAnsweredTurn ==
    ASSUME IInv, NEW c \in Callers, Turn(Agent(c)), OpenAnswered(c)
    PROVE  Proper
<1> DEFINE x == [tp EXCEPT !.open = TRUE, !.opens = @ + 1]
           opened == [Now EXCEPT !.state = "opened", !.open = TRUE, !.sender = x.opens]
           failed == [Now EXCEPT !.state = "failed"]
<1>1. /\ Starting(c, Now) /\ run[c] \in Runs /\ Now \in Gps
      /\ Holding(c, lock) /\ Outside(c, Released(lock))
  BY CallerStart, StartingGp DEF OpenAnswered, Lockeds
<1>2. SameLink(x) /\ x.opens \in Nat
  <2>1. tp \in Tps
    BY DEF IInv, Typed
  <2>2. x \in Tps
    <3> DEFINE o == tp.opens + 1
    <3>1. o \in Nat
      BY <2>1 DEF Tps
    <3>2. x = [tp EXCEPT !.open = TRUE, !.opens = o]
      OBVIOUS
    <3> HIDE DEF o, x
    <3> QED
      BY <2>1, <3>1, <3>2 DEF Tps
  <2>3. x.links = tp.links /\ x.link = tp.link /\ x.opens \in Nat
    BY <2>1 DEF Tps
  <2> QED
    BY <2>2, <2>3 DEF SameLink
<1>3. /\ opened \in Gps /\ opened.due = Now.due /\ opened.connected = Now.connected
      /\ opened.open /\ opened.loop = Now.loop /\ opened.closing = Now.closing
  BY <1>1, <1>2 DEF Gps, States
<1>4. failed \in Gps /\ Alike(failed, Now) /\ failed.connected = Now.connected
  BY <1>1 DEF Gps, States, Alike
<1>5. \/ run[c].res = "none" /\ Opened(c, run[c], opened, Released(lock), x)
      \/ At("open closing", 0, c, run[c], failed, lock) /\ UNCHANGED <<tasks, tp>>
      \/ /\ Return(c, "cancelled", Now, Released(lock)) /\ UNCHANGED tasks
         /\ \E b \in BOOLEAN : tp' = [tp EXCEPT !.open = b \/ @]
  BY DEF OpenAnswered
<1> HIDE DEF x, opened, failed
<1>6. Starting(c, failed)
  BY <1>1, <1>4, StartingFields
<1>7. CASE run[c].res = "none" /\ Opened(c, run[c], opened, Released(lock), x)
  <2>1. Opens(c)
    BY <1>1, <1>7, CallerStart, NoneOpens DEF Opens, OpenAnswered
  <2>2. Kin(c, opened)
    BY <1>1, <1>3, <2>1, CallerStart DEF Kin, Steady, Starting, Fresh
  <2>3. Starting(c, opened)
    BY <1>1, <1>3, <2>2, StartingKin
  <2> QED
    BY <1>1, <1>2, <1>7, <2>3, OpenedTurn
<1>8. CASE At("open closing", 0, c, run[c], failed, lock) /\ UNCHANGED <<tasks, tp>>
  <2>1. LinkMove /\ "open closing" \in Lockeds
    BY <1>8, LinkKept DEF Lockeds
  <2>2. Placed(c, "open closing", 0, failed)
    <3>1. NoneRuns(loop) /\ gp.sender = 0
      BY ParticipantsApart DEF OpenAnswered, IInv, Sole, Silent, Mute
    <3>2. NoneRuns(loop') /\ failed.sender = 0
      BY <1>4, <1>8, <3>1, CallerStart DEF Alike, Fresh, tasks, NoneRuns
    <3> QED
      BY <3>2 DEF Placed, Closes, Pasts
  <2> QED
    BY <1>1, <1>6, <1>8, <2>1, <2>2, HoldAt
<1>9. CASE /\ Return(c, "cancelled", Now, Released(lock)) /\ UNCHANGED tasks
           /\ \E b \in BOOLEAN : tp' = [tp EXCEPT !.open = b \/ @]
  <2>1. LinkMove
    BY <1>9 DEF IInv, Typed, LinkMove, Tps
  <2>2. "cancelled" \in Results
    BY DEF Results
  <2> QED
    BY <1>1, <1>9, <2>1, <2>2, ReturnTurn
<1> QED
  BY <1>5, <1>7, <1>8, <1>9

LEMMA OpenFailedTurn ==
    ASSUME IInv, NEW c \in Callers, Turn(Agent(c)), OpenFailed(c)
    PROVE  Proper
<1> DEFINE n == [Now EXCEPT !.loop = 0, !.sender = 0, !.open = FALSE]
<1>1. /\ Starting(c, Now) /\ Now \in Gps /\ 0 \in 0 .. MaxLinks
      /\ Outside(c, Released(lock))
  BY CallerStart, StartingGp DEF OpenFailed, Lockeds
<1>2. /\ n \in Gps /\ n.due = Now.due /\ n.connected = Now.connected
      /\ n.loop = 0 /\ n.sender = 0 /\ n.closing = Now.closing
  BY <1>1 DEF Gps
<1>3. /\ Return(c, "error", n, Released(lock)) \/ Return(c, "error", Now, Released(lock))
      /\ tp' = TransportClosed /\ UNCHANGED tasks
  BY DEF OpenFailed
<1> HIDE DEF n
<1>4. NoneRuns(loop')
  BY <1>3, ParticipantsApart DEF OpenFailed, IInv, Sole, Silent, Mute, tasks, NoneRuns
<1>5. Kin(c, n)
  BY <1>1, <1>2, <1>4 DEF Kin, Starting, Steady
<1>6. Starting(c, n) /\ LinkMove /\ "error" \in Results
  BY <1>1, <1>2, <1>3, <1>5, StartingKin, TransportClosedLink DEF Results
<1> QED
  BY <1>1, <1>3, <1>6, ReturnTurn

LEMMA PeerAnsweredTurn ==
    ASSUME IInv, NEW c \in Callers, Turn(Agent(c)), PeerAnswered(c)
    PROVE  Proper
<1>1. Starting(c, Now) /\ run[c] \in Runs /\ Outside(c, lock)
  BY CallerStart DEF PeerAnswered, Lockeds
<1>2. "no bond" \in Results /\ "error" \in Results
  BY DEF Results
<1> QED
  BY <1>1, <1>2, ConnectTurn, FinishesTurn, TpSame DEF PeerAnswered

LEMMA ConnectAnsweredTurn ==
    ASSUME IInv, NEW c \in Callers, Turn(Agent(c)), ConnectAnswered(c)
    PROVE  Proper
<1>1. run[c].at \notin Lockeds \cup {"lock"}
  BY DEF ConnectAnswered, Lockeds
<1>2. Starting(c, Now) /\ run[c] \in Runs /\ Outside(c, lock)
  BY <1>1, CallerStart
<1>3. CASE At("wait ready", 0, c, run[c], Now, lock) /\ UNCHANGED <<tasks, tp>>
  <2>1. "wait ready" \in Frees
    BY DEF Frees
  <2> QED
    BY <1>2, <1>3, <2>1, TasksKept, LinkKept, FreeAt
<1>4. "error" \in Results /\ "failed" \in Results
  BY DEF Results
<1> QED
  BY <1>1, <1>2, <1>3, <1>4, DecidedTurn, FinishesTurn, GivesUpTurn DEF ConnectAnswered

LEMMA AttemptCutTurn ==
    ASSUME IInv, NEW c \in Callers, Turn(Agent(c)), AttemptCut(c)
    PROVE  Proper
<1> DEFINE i == gp.ready
           n == [Now EXCEPT !.ready = 0]
           p == Post(n, <<"ready", i>>)
<1>1. run[c].at \notin Lockeds \cup {"lock"}
  BY DEF AttemptCut, Attempting, Lockeds
<1>2. /\ Starting(c, Now) /\ run[c] \in Runs /\ Outside(c, lock)
      /\ Now \in Gps /\ 0 \in 0 .. MaxLinks /\ c \in Agents
  BY <1>1, CallerStart, StartingGp, ParticipantsApart
<1>3. n \in Gps /\ Alike(n, Now) /\ n.connected = Now.connected
  BY <1>2 DEF Gps, Alike
<1>4. \/ GivesUp(c, "timeout")
      \/ /\ i # 0 /\ ready' = [ready EXCEPT ![i].task = "cancelling"]
         /\ At("cancel ready", i, c, run[c], p, lock) /\ UNCHANGED <<shake, loop, tp>>
      \/ Finishes(c, IF i = 0 THEN "cancelled" ELSE "error", n)
  BY DEF AttemptCut
<1>5. i \in 0 .. MaxLinks /\ (i # 0 => i \in Links) /\ i \in Nat
  BY GpFields, Zero DEF IInv, Typed
<1> HIDE DEF i, n
<1>6. Starting(c, n)
  BY <1>2, <1>3, StartingFields
<1>7. CASE GivesUp(c, "timeout")
  <2>1. "timeout" \in Results
    BY DEF Results
  <2> QED
    BY <1>1, <1>7, <2>1, GivesUpTurn
<1>8. CASE Finishes(c, IF i = 0 THEN "cancelled" ELSE "error", n)
  <2>1. (IF i = 0 THEN "cancelled" ELSE "error") \in Results
    BY DEF Results
  <2> QED
    BY <1>2, <1>6, <1>8, <2>1, FinishesTurn
<1>9. CASE /\ i # 0 /\ ready' = [ready EXCEPT ![i].task = "cancelling"]
           /\ At("cancel ready", i, c, run[c], p, lock) /\ UNCHANGED <<shake, loop, tp>>
  <2>1. ready' \in [Links -> Readies] /\ LoopMove
    BY <1>5, <1>9, LoopKept DEF IInv, Typed, Readies
  <2>2. Steady(c, p)
    BY <1>5, <1>6, <1>9, SteadyPost DEF Starting
  <2> HIDE DEF p
  <2>3. Starting(c, p) /\ "cancel ready" \in Frees
    BY <1>6, <2>2 DEF Starting, Frees
  <2>4. SameWaiters /\ LinkMove
    BY <1>9, ShakeKept, LinkKept
  <2> QED
    BY <1>2, <1>5, <1>9, <2>1, <2>3, <2>4, FreeAt
<1> QED
  BY <1>4, <1>7, <1>8, <1>9

LEMMA ClosingTurn ==
    ASSUME IInv, NEW c \in Callers, Turn(Agent(c)),
           NeutralSent(c) \/ (Resume(c) /\ UNCHANGED tp)
    PROVE  Proper
<1>1. /\ Starting(c, Now) /\ run[c] \in Runs /\ Holding(c, lock)
      /\ Steady(c, Now) /\ LinkMove
  BY CallerStart, LinkKept DEF NeutralSent, Resume, Lockeds, Starting
<1>2. Stopper(c, Now) /\ Now.loop = gp.loop
  <2>1. run[c].at \in Lockeds /\ run[c].at \in Closes
    BY DEF NeutralSent, Resume, Lockeds, Closes
  <2>2. gp.closing
    BY <2>1 DEF IInv, Sole, Closing
  <2> QED
    BY <2>1, <2>2, CallerStart, NowIsGp DEF Stopper, IInv, Typed, Fresh
<1>3. CASE StopShake(c, run[c], Now, lock)
  BY <1>1, <1>2, <1>3, StopShakeReaches, ReachesTurn
<1>4. CASE UNCHANGED shake /\ StopReady(c, run[c], Now, lock)
  BY <1>1, <1>2, <1>4, StopReadyReaches, ReachesTurn, ShakeKept
<1>5. CASE UNCHANGED <<shake, ready>> /\ StopLoop(c, run[c], Now, lock)
  <2>1. ready' \in [Links -> Readies]
    BY <1>5 DEF IInv, Typed
  <2> QED
    BY <1>1, <1>2, <1>5, <2>1, StopLoopReaches, ReachesTurn, ShakeKept
<1>6. CASE /\ run[c].at = "stop loop" /\ UNCHANGED tasks
           /\ TasksStopped(c, run[c], Now, lock)
  <2>1. NoneRuns(loop')
    BY <1>6, ParticipantsApart DEF IInv, Sole, Stopping, tasks, NoneRuns
  <2> QED
    BY <1>1, <1>2, <1>6, <2>1, TasksStoppedReaches, ReachesTurn, TasksKept
<1> QED
  BY <1>3, <1>4, <1>5, <1>6 DEF NeutralSent, Resume

(* Closing the transport raised: close() ends with its error.              *)
LEMMA TornTurn ==
    ASSUME IInv, NEW c \in Callers, Turn(Agent(c)), run[c].at \in {"request", "closing"},
           Raise(c, run[c], [Now EXCEPT !.torn = TRUE], lock), LinkMove, UNCHANGED tasks
    PROVE  Proper
<1> DEFINE n == [Now EXCEPT !.torn = TRUE]
<1>1. run[c].at \in Lockeds /\ run[c].at \in Closes
  BY DEF Lockeds, Closes, Pasts
<1>2. Starting(c, Now) /\ run[c] \in Runs /\ Holding(c, lock) /\ Now \in Gps
  BY <1>1, CallerStart, StartingGp
<1>3. n \in Gps /\ Alike(n, Now) /\ n.connected = Now.connected
  BY <1>2 DEF Gps, Alike
<1>4. Raise(c, run[c], n, lock)
  OBVIOUS
<1> HIDE DEF n
<1>5. gp.closing
  BY <1>1 DEF IInv, Sole, Closing
<1>6. Stopper(c, n)
  BY <1>1, <1>3, <1>5, NowIsGp DEF Stopper, Leaves, Alike, IInv, Typed
<1>7. Starting(c, n) /\ Steady(c, n)
  BY <1>2, <1>3, StartingFields DEF Starting
<1>8. Reaches(c, lock)
  BY <1>2, <1>4, <1>6, <1>7, RaiseReaches, TasksKept
<1> QED
  BY <1>2, <1>7, <1>8, ReachesTurn, TasksKept

LEMMA DisconnectTurn ==
    ASSUME IInv, NEW c \in Callers, Turn(Agent(c)),
           DisconnectRequested(c) \/ LinkWaitEnds(c)
    PROVE  Proper
<1>1. Starting(c, Now) /\ run[c] \in Runs /\ Holding(c, lock)
  BY CallerStart DEF DisconnectRequested, LinkWaitEnds, Lockeds
<1>2. \/ \E there \in {"wait link", "closing"} : At(there, 0, c, run[c], Now, lock)
      \/ run[c].at = "request" /\ Raise(c, run[c], [Now EXCEPT !.torn = TRUE], lock)
  BY DEF DisconnectRequested, LinkWaitEnds
<1>3. UNCHANGED <<tasks, tp>> /\ LinkMove
  BY LinkKept DEF DisconnectRequested, LinkWaitEnds
<1>4. {"wait link", "closing"} \subseteq Lockeds
  BY DEF Lockeds
<1>5. NoneRuns(loop) /\ gp.closing
  <2>1. run[c].at \in Pasts /\ run[c].at \in Closes
    BY DEF DisconnectRequested, LinkWaitEnds, Pasts, Closes
  <2> QED
    BY <2>1 DEF IInv, Sole, PastLoop, Closing
<1>6. NoneRuns(loop') /\ Now.closing
  BY <1>3, <1>5, NowIsGp DEF tasks, NoneRuns, IInv, Typed
<1>7. \A there \in {"wait link", "closing"} : Placed(c, there, 0, Now)
  BY <1>6 DEF Placed, Mute
<1> QED
  BY <1>1, <1>2, <1>3, <1>4, <1>7, HoldAt, TornTurn

LEMMA CloseAnsweredTurn ==
    ASSUME IInv, NEW c \in Callers, Turn(Agent(c)), CloseAnswered(c)
    PROVE  Proper
<1> DEFINE n == [Now EXCEPT !.loop = 0, !.sender = 0, !.open = FALSE,
                            !.state = "closed", !.closing = FALSE, !.torn = FALSE]
<1>1. /\ Starting(c, Now) /\ Now \in Gps /\ 0 \in 0 .. MaxLinks /\ run[c] \in Runs
      /\ Outside(c, Released(lock))
  BY CallerStart, StartingGp DEF CloseAnswered, Lockeds
<1>2. /\ n \in Gps /\ n.due = Now.due /\ n.connected = Now.connected
      /\ n.loop = 0 /\ n.sender = 0
  BY <1>1 DEF Gps, States
<1>3. /\ run[c].at = "closing" /\ tp' = TransportClosed /\ UNCHANGED tasks
      /\ \/ Return(c, run[c].res, n, Released(lock))
         \/ Raise(c, run[c], [Now EXCEPT !.torn = TRUE], lock)
  BY DEF CloseAnswered
<1> HIDE DEF n
<1>4. NoneRuns(loop') /\ Leaves(c)
  <2>1. run[c].at \in Pasts /\ run[c].at \in Lockeds
    BY DEF CloseAnswered, Pasts, Lockeds
  <2> QED
    BY <1>3, <2>1, CallerStart DEF IInv, Sole, PastLoop, tasks, NoneRuns
<1>5. Kin(c, n)
  BY <1>2, <1>4 DEF Kin
<1>6. Starting(c, n) /\ LinkMove /\ run[c].res \in Results
  BY <1>1, <1>2, <1>3, <1>5, StartingKin, TransportClosedLink DEF Runs
<1> QED
  BY <1>1, <1>3, <1>6, ReturnTurn, TornTurn

LEMMA CallerTurnKeeps ==
    ASSUME IInv, NEW c \in Callers, Turn(Agent(c)), CallerTurn(c)
    PROVE  Proper
<1>1. CASE AttemptOver(c)
  BY <1>1, DecidedTurn DEF AttemptOver, Lockeds
<1>2. CASE AttemptCancelled(c)
  <2>1. "cancelled" \in Results /\ run[c].at \notin Lockeds \cup {"lock"}
    BY <1>2 DEF Results, AttemptCancelled, Lockeds
  <2> QED
    BY <1>2, <2>1, CallerStart, FinishesTurn DEF AttemptCancelled
<1> QED
  BY <1>1, <1>2, StartsTurn, GetsLockTurn, OpenAnsweredTurn, OpenFailedTurn, PeerAnsweredTurn,
     ConnectAnsweredTurn, AttemptCutTurn, ClosingTurn, DisconnectTurn, CloseAnsweredTurn
     DEF CallerTurn

-----------------------------------------------------------------------------
(* The turns of a disconnect callback.                                     *)

LEMMA LinkStart ==
    ASSUME IInv, NEW i \in Links, Turn(Agent(i))
    PROVE  /\ Stopper(i, Now) /\ Now.loop = gp.loop
           /\ Steady(i, Now) /\ Now \in Gps /\ run[i] \in Runs /\ i \in Agents /\ i \notin Callers
           /\ Due(gp, Agent(i)) /\ 0 \in 0 .. MaxLinks
BY SteadyNow, NowIsGp, ParticipantsApart, Zero DEF IInv, Typed, Steady, Stopper

LEMMA LinkReaches ==
    ASSUME IInv, NEW i \in Links, Turn(Agent(i)), run[i].at # "idle", Reaches(i, lock), LinkMove,
           ready' \in [Links -> Readies], LoopMove
    PROVE  Proper
<1>1. i \in Agents /\ i \notin Callers /\ Due(gp, Agent(i)) /\ lock \in Locks(Callers)
  BY LinkStart DEF IInv, Typed
<1>2. PICK w, s, l : Reached(i, lock, w, s, l)
  BY DEF Reaches
<1>3. /\ Suspend(i, w, s, l) /\ w \in Runs /\ Steady(i, s) /\ ShakeMove(i, w)
      /\ w.at # "completing" /\ l = lock /\ Placed(i, w.at, w.obj, s)
  BY <1>1, <1>2 DEF Reached
<1>4. LockMove(i, w, l)
  BY <1>1, <1>3 DEF LockMove
<1>5. Acts(i, w, s, l)
  BY <1>3, <1>4 DEF Acts
<1> QED
  BY <1>1, <1>5, AgentTurn DEF Proper

LEMMA AwaitedWaiters ==
    ASSUME IInv, NEW h \in Links, NEW i \in Agents, shake' = Awaited(h, i)
    PROVE  /\ shake' \in [Links -> Shakes]
           /\ Ended(shake[h].task) => SameWaiters
           /\ \A w : w.at \in Awaits /\ w.obj = h => ShakeMove(i, w)
<1> DEFINE b == shake[h]
           e == [b EXCEPT !.failure = TRUE]
           q == Append(b.waiters, i)
           c == [b EXCEPT !.failure = TRUE, !.waiters = q]
           v == IF Ended(b.task) THEN e ELSE c
<1>1. shake \in [Links -> Shakes] /\ b \in Shakes
  BY DEF IInv, Typed
<1>2. shake' = [shake EXCEPT ![h] = v]
  BY DEF Awaited
<1>3. q \in Seq(Agents)
  BY <1>1 DEF Shakes
<1> HIDE DEF q
<1>4. e \in Shakes /\ e.waiters = b.waiters
  BY <1>1 DEF Shakes
<1>5. c \in Shakes /\ c.waiters = q
  BY <1>1, <1>3 DEF Shakes
<1> HIDE DEF e, c
<1>6. /\ shake' \in [Links -> Shakes]
      /\ shake'[h].waiters = IF Ended(b.task) THEN b.waiters ELSE q
      /\ \A j \in Links : j # h => shake'[j] = shake[j]
  BY <1>1, <1>2, <1>4, <1>5
<1> QED
  BY <1>6 DEF SameWaiters, ShakeMove, q

LEMMA ReadyLoopKept ==
    ASSUME IInv, UNCHANGED <<ready, loop>>
    PROVE  ready' \in [Links -> Readies] /\ LoopMove
BY LoopKept DEF IInv, Typed

LEMMA DownTurn ==
    ASSUME IInv, NEW i \in Links, Turn(Agent(i)), Down(i)
    PROVE  Proper
<1> DEFINE h == gp.shake
           s == [Now EXCEPT !.connected = FALSE]
           f == Failed(s)
           n == [s EXCEPT !.shake = 0]
<1>1. /\ Now.loop = gp.loop /\ \A t : Stopper(i, t)
      /\ Steady(i, Now) /\ Now \in Gps /\ run[i] \in Runs /\ i \in Agents /\ i \notin Callers
      /\ 0 \in 0 .. MaxLinks
  BY LinkStart DEF Stopper
<1>2. s \in Gps /\ Alike(s, Now) /\ ~s.connected
  BY <1>1 DEF Gps, Alike
<1>3. f \in Gps /\ Alike(f, Now) /\ ~f.connected
  BY <1>1 DEF Gps, Failed, States, Alike
<1>4. n \in Gps /\ Alike(n, Now) /\ ~n.connected
  BY <1>1 DEF Gps, Alike
<1>5. h \in 0 .. MaxLinks /\ (h # 0 => h \in Links) /\ h \in Nat
  BY GpFields, Zero DEF IInv, Typed
<1>6. /\ run[i].at = "down" /\ UNCHANGED tp
      /\ \/ StopShake(i, run[i], f, lock)
         \/ StopShake(i, run[i], s, lock)
         \/ /\ h # 0 /\ shake' = Awaited(h, i)
            /\ \/ At("await shake", h, i, run[i], s, lock) /\ UNCHANGED <<ready, loop>>
               \/ /\ shake[h].task = "cancelled" /\ Raise(i, run[i], s, lock)
                  /\ UNCHANGED <<ready, loop>>
               \/ /\ shake[h].task \in {"ready", "failed"}
                  /\ StopReady(i, run[i], n, lock)
  BY DEF Down
<1> HIDE DEF h, s, f, n
<1>7. /\ Steady(i, s) /\ Steady(i, f) /\ Steady(i, n)
      /\ s.loop = gp.loop /\ f.loop = gp.loop /\ n.loop = gp.loop
  BY <1>1, <1>2, <1>3, <1>4, SteadyFields DEF Alike
<1>8. LinkMove /\ run[i].at # "idle"
  BY <1>6, LinkKept
<1>9. ASSUME NEW t, Steady(i, t), t.loop = gp.loop, StopShake(i, run[i], t, lock)
      PROVE  Proper
  BY <1>1, <1>8, <1>9, StopShakeReaches, LinkReaches
<1>10. CASE h # 0 /\ shake' = Awaited(h, i)
            /\ At("await shake", h, i, run[i], s, lock) /\ UNCHANGED <<ready, loop>>
  <2> DEFINE v == [run[i] EXCEPT !.at = "await shake", !.obj = h]
  <2>1. v.at \in Awaits /\ v.obj = h
    BY <1>1 DEF Awaits, Runs
  <2>2. ShakeMove(i, v)
    BY <1>1, <1>5, <1>10, <2>1, AwaitedWaiters
  <2>3. "await shake" \in Places \ {"lock", "completing"}
    BY DEF Places, Awaits
  <2>4. Placed(i, "await shake", h, s)
    BY PlainPlaced DEF Plains, Places, Awaits, Closes, Pasts
  <2>5. Reaches(i, lock)
    BY <1>1, <1>5, <1>7, <1>10, <2>2, <2>3, <2>4, AtReaches
  <2>6. ready' \in [Links -> Readies] /\ LoopMove
    BY <1>10, ReadyLoopKept
  <2> QED
    BY <1>8, <2>5, <2>6, LinkReaches
<1>11. CASE h # 0 /\ shake' = Awaited(h, i) /\ Ended(shake[h].task)
            /\ Raise(i, run[i], s, lock) /\ UNCHANGED <<ready, loop>>
  <2>1. SameWaiters
    BY <1>1, <1>5, <1>11, AwaitedWaiters
  <2>2. Reaches(i, lock)
    BY <1>1, <1>7, <1>11, <2>1, RaiseReaches
  <2>3. ready' \in [Links -> Readies] /\ LoopMove
    BY <1>11, ReadyLoopKept
  <2> QED
    BY <1>8, <2>2, <2>3, LinkReaches
<1>12. CASE h # 0 /\ shake' = Awaited(h, i) /\ Ended(shake[h].task)
            /\ StopReady(i, run[i], n, lock)
  <2>1. SameWaiters
    BY <1>1, <1>5, <1>12, AwaitedWaiters
  <2> QED
    BY <1>1, <1>7, <1>8, <1>12, <2>1, StopReadyReaches, LinkReaches
<1>13. \A t \in {"cancelled", "ready", "failed"} : Ended(t)
  BY DEF Ended
<1> QED
  BY <1>6, <1>7, <1>9, <1>10, <1>11, <1>12, <1>13

LEMMA ShakeAwaitedTurn ==
    ASSUME IInv, NEW i \in Links, Turn(Agent(i)), ShakeAwaited(i)
    PROVE  Proper
<1> DEFINE n == [Now EXCEPT !.shake = 0]
<1>1. /\ Now.loop = gp.loop /\ \A t : Stopper(i, t)
      /\ Steady(i, Now) /\ Now \in Gps /\ run[i] \in Runs /\ 0 \in 0 .. MaxLinks
  BY LinkStart DEF Stopper
<1>2. n \in Gps /\ Alike(n, Now) /\ n.connected = Now.connected
  BY <1>1 DEF Gps, Alike
<1>3. /\ run[i].at # "idle" /\ UNCHANGED <<shake, tp>>
      /\ \/ Raise(i, run[i], Now, lock) /\ UNCHANGED <<ready, loop>>
         \/ StopReady(i, run[i], n, lock)
  BY DEF ShakeAwaited
<1> HIDE DEF n
<1>4. Steady(i, n) /\ LinkMove /\ SameWaiters /\ n.loop = gp.loop
  BY <1>1, <1>2, <1>3, SteadyFields, LinkKept, ShakeKept DEF Alike
<1>5. CASE Raise(i, run[i], Now, lock) /\ UNCHANGED <<ready, loop>>
  <2>1. ready' \in [Links -> Readies] /\ LoopMove
    BY <1>5, ReadyLoopKept
  <2> QED
    BY <1>1, <1>3, <1>4, <1>5, <2>1, RaiseReaches, LinkReaches
<1>6. CASE StopReady(i, run[i], n, lock)
  BY <1>1, <1>3, <1>4, <1>6, StopReadyReaches, LinkReaches
<1> QED
  BY <1>3, <1>5, <1>6

LEMMA DownClosedTurn ==
    ASSUME IInv, NEW i \in Links, Turn(Agent(i)), DownClosed(i)
    PROVE  Proper
<1> DEFINE n == [Now EXCEPT !.open = FALSE, !.state = "closed", !.disconnected = TRUE,
                            !.torn = FALSE]
           m == [Now EXCEPT !.torn = TRUE]
<1>1. /\ Steady(i, Now) /\ Now \in Gps /\ run[i] \in Runs /\ i \in Agents /\ i \notin Callers
  BY LinkStart
<1>2. /\ n \in Gps /\ n.due = Now.due /\ n.connected = Now.connected
      /\ n.loop = Now.loop /\ n.sender = Now.sender /\ n.closing = Now.closing
      /\ m \in Gps /\ Alike(m, Now) /\ m.connected = Now.connected
  BY <1>1 DEF Gps, States, Alike
<1>3. /\ run[i].at = "down closing" /\ tp' = TransportClosed /\ UNCHANGED tasks
      /\ At("handled", 0, i, run[i], n, lock) \/ Raise(i, run[i], m, lock)
  BY DEF DownClosed
<1> HIDE DEF n, m
<1>4. NoneRuns(loop') /\ Now.sender = 0
  <2>1. NoneRuns(loop) /\ gp.sender = 0
    BY <1>1, <1>3 DEF IInv, Sole, Silent, Mute
  <2> QED
    BY <1>3, <2>1, NowIsGp DEF IInv, Typed, tasks, NoneRuns
<1>5. Kin(i, n)
  BY <1>1, <1>2, <1>4 DEF Steady, Kin
<1>6. /\ Steady(i, n) /\ Steady(i, m) /\ LinkMove /\ SameWaiters
      /\ ready' \in [Links -> Readies] /\ LoopMove
  BY <1>1, <1>2, <1>3, <1>5, SteadyKin, SteadyFields, TransportClosedLink, TasksKept
<1>7. "handled" \in Places \ {"lock", "completing"}
  BY DEF Places
<1>8. Placed(i, "handled", 0, n)
  BY PlainPlaced DEF Plains, Places, Closes, Pasts
<1>9. CASE At("handled", 0, i, run[i], n, lock)
  <2>1. Reaches(i, lock)
    BY <1>1, <1>6, <1>7, <1>8, <1>9, AtReaches, SameWaitersMove
  <2> QED
    BY <1>3, <1>6, <2>1, LinkReaches
<1>10. CASE Raise(i, run[i], m, lock)
  <2>1. Stopper(i, m)
    BY <1>1 DEF Stopper
  <2>2. Reaches(i, lock)
    BY <1>1, <1>6, <1>10, <2>1, RaiseReaches
  <2> QED
    BY <1>3, <1>6, <2>2, LinkReaches
<1> QED
  BY <1>3, <1>9, <1>10

LEMMA ResumeTurn ==
    ASSUME IInv, NEW i \in Links, Turn(Agent(i)), Resume(i), UNCHANGED tp
    PROVE  Proper
<1>1. /\ Steady(i, Now) /\ run[i] \in Runs /\ LinkMove /\ run[i].at # "idle"
      /\ Stopper(i, Now) /\ Now.loop = gp.loop /\ i \in Agents
  BY LinkStart, LinkKept DEF Resume
<1>2. CASE UNCHANGED shake /\ StopReady(i, run[i], Now, lock)
  BY <1>1, <1>2, StopReadyReaches, LinkReaches, ShakeKept
<1>3. CASE UNCHANGED <<shake, ready>> /\ StopLoop(i, run[i], Now, lock)
  <2>1. ready' \in [Links -> Readies]
    BY <1>3 DEF IInv, Typed
  <2> QED
    BY <1>1, <1>3, <2>1, StopLoopReaches, LinkReaches, ShakeKept
<1>4. CASE /\ run[i].at = "stop loop" /\ UNCHANGED tasks
           /\ TasksStopped(i, run[i], Now, lock)
  <2>1. NoneRuns(loop')
    BY <1>1, <1>4 DEF IInv, Sole, Stopping, tasks, NoneRuns
  <2> QED
    BY <1>1, <1>4, <2>1, TasksStoppedReaches, LinkReaches, TasksKept
<1> QED
  BY <1>2, <1>3, <1>4 DEF Resume

LEMMA LinkTurnKeeps ==
    ASSUME IInv, NEW i \in Links, Turn(Agent(i)), LinkTurn(i)
    PROVE  Proper
BY DownTurn, ShakeAwaitedTurn, DownClosedTurn, ResumeTurn DEF LinkTurn

-----------------------------------------------------------------------------
(* What the outcome of a handshake changes.                                *)

(* Only an undecided attempt is published.                                 *)
LEMMA SteadyPublish ==
    ASSUME NEW a, NEW s, Steady(a, s), NEW t \in Gps, Alike(t, s), ~gp.attempt,
           gp.reporting = "direct" \/ MayPublish
    PROVE  Steady(a, t)
BY DEF Steady, Sober, Due, Gps, Alike, Kin

LEMMA AfterOutcomeSteady ==
    ASSUME NEW a, NEW s, Steady(a, s), s.attempt = gp.attempt,
           s.reporting = gp.reporting, NEW i \in Links, NEW o
    PROVE  Steady(a, AfterOutcome(s, i, o))
<1> DEFINE n == [s EXCEPT !.shake = 0]
           f == Failed(n)
           p == [n EXCEPT !.state = "connected", !.connected = TRUE, !.attempt = TRUE]
           r == [n EXCEPT !.ready = i]
<1>1. s \in Gps /\ 0 \in 0 .. MaxLinks /\ i \in 0 .. MaxLinks
  BY Zero DEF Steady
<1>2. /\ n \in Gps /\ Alike(n, s) /\ n.connected = s.connected /\ n.attempt = s.attempt
  BY <1>1 DEF Gps, Alike
<1>3. f \in Gps /\ Alike(f, s) /\ f.connected = s.connected
  BY <1>1 DEF Gps, Failed, States, Alike
<1>4. p \in Gps /\ Alike(p, s)
  <2> HIDE DEF n
  <2> QED
    BY <1>2 DEF Gps, States, Alike
<1>5. r \in Gps /\ Alike(r, s) /\ r.connected = s.connected
  BY <1>1 DEF Gps, Alike
<1>6. \/ AfterOutcome(s, i, o) \in {n, f, s, Post(r, <<"ready", i>>)}
      \/ AfterOutcome(s, i, o) = Published(n) /\ s.reporting = "direct"
  BY DEF AfterOutcome
<1>7. Published(n) = n \/ (Published(n) = p /\ ~n.attempt)
  BY DEF Published
<1> HIDE DEF n, f, p, r
<1>8. Steady(a, n) /\ Steady(a, f) /\ Steady(a, r)
  BY <1>2, <1>3, <1>5, SteadyFields
<1>9. Steady(a, Post(r, <<"ready", i>>))
  BY <1>8, SteadyPost
<1>10. s.reporting = "direct" => Steady(a, Published(n))
  BY <1>2, <1>4, <1>7, <1>8, SteadyPublish
<1> QED
  BY <1>6, <1>8, <1>9, <1>10

LEMMA ReadyAfterType ==
    ASSUME IInv, NEW s, NEW i, NEW o
    PROVE  ReadyAfter(s, i, o) \in [Links -> Readies]
<1>1. ready \in [Links -> Readies]
  BY DEF IInv, Typed
<1>2. [ready EXCEPT ![i].task = "created"] \in [Links -> Readies]
  BY <1>1 DEF Readies
<1> QED
  BY <1>1, <1>2 DEF ReadyAfter

-----------------------------------------------------------------------------
(* The turns of an agent that handles an output report.                    *)

(* Agent h has its turn, the runtime being s.                              *)
Handling(h, s) ==
    /\ IInv /\ h \in HostTasks /\ Turn(Agent(h)) /\ Steady(h, s)
    /\ s.attempt = gp.attempt /\ s.reporting = gp.reporting /\ UNCHANGED tp

LEMMA HandlingFacts ==
    ASSUME NEW h, NEW s, Handling(h, s)
    PROVE  /\ IInv /\ s \in Gps /\ h \in Agents /\ h \notin Callers /\ h \notin Links
           /\ Due(gp, Agent(h)) /\ run[h] \in Runs /\ LinkMove
           /\ Steady(h, s) /\ lock \in Locks(Callers)
BY ParticipantsApart, SteadyNow, LinkKept DEF Handling, IInv, Typed, Steady

LEMMA HandlingFields ==
    ASSUME NEW h, NEW s, Handling(h, s), NEW t \in Gps, Alike(t, s),
           t.connected = s.connected, t.attempt = s.attempt
    PROVE  Handling(h, t)
BY SteadyFields DEF Handling, Alike

LEMMA HandlingTurn ==
    ASSUME NEW h, NEW s, Handling(h, s), NEW t, Steady(h, t), NEW w \in Runs,
           Suspend(h, w, t, lock), ShakeMove(h, w), w.at = "completing" => w.obj \in Links,
           w.at \in Plains, ready' \in [Links -> Readies], LoopMove
    PROVE  Proper
<1>1. /\ IInv /\ h \in Agents /\ h \notin Callers /\ h \notin Links
      /\ Turn(Agent(h)) /\ LinkMove /\ lock \in Locks(Callers)
  BY HandlingFacts DEF Handling
<1>2. LockMove(h, w, lock)
  BY <1>1 DEF LockMove
<1>3. Acts(h, w, t, lock)
  BY <1>1, <1>2, PlainPlaced DEF Acts
<1> QED
  BY <1>1, <1>3, AgentTurn DEF Proper

LEMMA AsleepRun == Asleep \in Runs /\ Asleep.at = "idle"
BY DEF Asleep, Runs, Fns, Places, Results

LEMMA HostPlains == {"idle", "queued", "replying", "completing"} \subseteq Plains
BY DEF Plains, Places, Awaits, Closes, Pasts

LEMMA CompleteTurn ==
    ASSUME NEW h, NEW s, Handling(h, s), s.shake # 0, NEW o \in {"ready", "failed"},
           Complete(h, o, s)
    PROVE  Proper
<1> DEFINE i == s.shake
           told == IF shake[i].stopped THEN s ELSE AfterOutcome(s, i, o)
           over == IF o = "ready" THEN [told EXCEPT !.shake = 0] ELSE told
           v == [run[h] EXCEPT !.res = o]
           p == Post(s, <<"shake", i>>)
<1>1. /\ IInv /\ s \in Gps /\ Steady(h, s) /\ h \in Agents /\ run[h] \in Runs
  BY HandlingFacts
<1>2. i \in Links /\ i \in Nat
  BY <1>1, GpFields, Zero
<1>3. Steady(h, told)
  BY <1>1, <1>2, AfterOutcomeSteady DEF Handling
<1>4. /\ UNCHANGED loop
      /\ \/ /\ shake[i].stopped \/ Ended(shake[i].task)
            /\ shake' = IF shake[i].stopped THEN shake ELSE StoppedShake(i, h)
            /\ ready' = IF shake[i].stopped THEN ready ELSE ReadyAfter(s, i, o)
            /\ Suspend(h, Asleep, over, lock)
         \/ /\ shake' = StoppedShake(i, h)
            /\ UNCHANGED ready
            /\ At("completing", i, h, v, p, lock)
  BY DEF Complete
<1>5. v \in Runs
  BY <1>1 DEF Runs, Results
<1> HIDE DEF i, told, v
<1>6. Steady(h, over)
  <2>1. told \in Gps /\ 0 \in 0 .. MaxLinks
    BY <1>3, Zero DEF Steady
  <2> DEFINE n == [told EXCEPT !.shake = 0]
  <2>2. n \in Gps /\ Alike(n, told) /\ n.connected = told.connected
    BY <2>1 DEF Gps, Alike
  <2>3. over = IF o = "ready" THEN n ELSE told
    OBVIOUS
  <2> HIDE DEF n, over
  <2>4. Steady(h, n)
    BY <1>3, <2>2, SteadyFields
  <2> QED
    BY <1>3, <2>3, <2>4
<1>7. LoopMove /\ ready \in [Links -> Readies]
  BY <1>1, <1>4, LoopKept DEF IInv, Typed
<1> HIDE DEF over, p
<1>8. CASE /\ shake[i].stopped \/ Ended(shake[i].task)
           /\ shake' = IF shake[i].stopped THEN shake ELSE StoppedShake(i, h)
           /\ ready' = IF shake[i].stopped THEN ready ELSE ReadyAfter(s, i, o)
           /\ Suspend(h, Asleep, over, lock)
  <2>1. SameWaiters
    BY <1>1, <1>2, <1>8, StoppedShakeWaiters, ShakeKept
  <2>2. ready' \in [Links -> Readies]
    BY <1>1, <1>7, <1>8, ReadyAfterType
  <2>3. ShakeMove(h, Asleep)
    BY <2>1, SameWaitersMove
  <2> QED
    BY <1>6, <1>7, <1>8, <2>2, <2>3, AsleepRun, HostPlains, HandlingTurn
<1>9. CASE /\ shake' = StoppedShake(i, h)
           /\ UNCHANGED ready
           /\ At("completing", i, h, v, p, lock)
  <2> DEFINE u == [v EXCEPT !.at = "completing", !.obj = i]
  <2>1. u \in Runs /\ u.at = "completing" /\ u.obj = i
    BY <1>2, <1>5 DEF Runs, Places, Awaits
  <2>2. Suspend(h, u, p, lock)
    BY <1>9 DEF At
  <2> HIDE DEF u
  <2>3. ShakeMove(h, u)
    BY <1>1, <1>2, <1>9, <2>1, StoppedShakeWaiters DEF Awaits
  <2>4. Steady(h, p)
    BY <1>1, <1>2, SteadyPost DEF p
  <2> QED
    BY <1>2, <1>7, <1>9, <2>1, <2>2, <2>3, <2>4, HostPlains, HandlingTurn
<1> QED
  BY <1>4, <1>8, <1>9

LEMMA CompletedTurn ==
    ASSUME NEW h, Handling(h, Now), Completed(h)
    PROVE  Proper
<1> DEFINE i == run[h].obj
           o == run[h].res
           told == AfterOutcome(Now, i, o)
           n == [told EXCEPT !.shake = 0]
           over == IF o = "ready" /\ told.shake = i THEN n ELSE told
<1>1. IInv /\ h \in Agents /\ run[h] \in Runs /\ Steady(h, Now)
  BY HandlingFacts
<1>2. i \in Links
  BY <1>1 DEF IInv, Ordered, Completing, Completed
<1>3. /\ ready' = ReadyAfter(gp, i, o) /\ Suspend(h, Asleep, over, lock)
      /\ UNCHANGED <<shake, loop, tp>>
  BY DEF Completed
<1> HIDE DEF i, o
<1>4. Steady(h, told)
  BY <1>1, <1>2, AfterOutcomeSteady DEF Handling
<1> HIDE DEF told
<1>5. told \in Gps /\ 0 \in 0 .. MaxLinks
  BY <1>4, Zero DEF Steady
<1>6. n \in Gps /\ Alike(n, told) /\ n.connected = told.connected
  BY <1>5 DEF Gps, Alike
<1> HIDE DEF n
<1>7. Steady(h, n)
  BY <1>4, <1>6, SteadyFields
<1>8. Steady(h, over)
  BY <1>4, <1>7
<1> HIDE DEF over
<1>9. /\ ready' \in [Links -> Readies] /\ LoopMove /\ ShakeMove(h, Asleep)
  BY <1>1, <1>3, ReadyAfterType, ShakeKept, SameWaitersMove, LoopKept
<1> QED
  BY <1>3, <1>8, <1>9, AsleepRun, HostPlains, HandlingTurn

LEMMA SleepsTurn ==
    ASSUME NEW h, NEW s, Handling(h, s), NEW w \in Runs, w.at \in Plains \ {"completing"}, NEW t,
           Steady(h, t), Suspend(h, w, t, lock), UNCHANGED tasks
    PROVE  Proper
<1>1. IInv
  BY HandlingFacts
<1>2. ShakeMove(h, w) /\ ready' \in [Links -> Readies] /\ LoopMove
  BY <1>1, TasksKept, SameWaitersMove
<1> QED
  BY <1>2, HandlingTurn

LEMMA RejectedTurn ==
    ASSUME NEW h, NEW s, Handling(h, s), Rejected(h, s)
    PROVE  Proper
<1>1. CASE s.shake # 0 /\ Complete(h, "failed", s)
  BY <1>1, CompleteTurn
<1>2. CASE UNCHANGED tasks /\ Suspend(h, Asleep, Failed(s), lock)
  <2> DEFINE f == Failed(s)
  <2>1. s \in Gps /\ Steady(h, s)
    BY HandlingFacts
  <2>2. f \in Gps /\ Alike(f, s) /\ f.connected = s.connected
    BY <2>1 DEF Gps, Failed, States, Alike
  <2>3. Steady(h, f)
    BY <2>1, <2>2, SteadyFields
  <2> QED
    BY <1>2, <2>3, AsleepRun, HostPlains, SleepsTurn
<1> QED
  BY <1>1, <1>2 DEF Rejected

(* What becomes of the session changes nothing else.                       *)
LEMMA RestoredFields ==
    ASSUME NEW s \in Gps, NEW w
    PROVE  LET m == Restored(s, w)
           IN  /\ m \in Gps /\ Alike(m, s) /\ m.connected = s.connected
               /\ m.attempt = s.attempt /\ m.shake = s.shake /\ m.ready = s.ready
BY DEF Gps, Restored, Alike

LEMMA BuiltTurn ==
    ASSUME NEW h, NEW s, Handling(h, s), NEW w \in Runs, Built(h, w, s)
    PROVE  Proper
<1> DEFINE Replies(n) == UNCHANGED tasks /\ At("replying", w.obj, h, w, n, lock)
           p == [s EXCEPT !.protocolReady = TRUE, !.initialized = TRUE]
           u == [s EXCEPT !.protocolReady = FALSE]
           m == Restored(s, w)
<1>1. s \in Gps /\ Steady(h, s)
  BY HandlingFacts
<1>2. \A n \in {p, u} : n \in Gps /\ Alike(n, s) /\ n.connected = s.connected
  BY <1>1 DEF Gps, Alike
<1>3. m \in Gps /\ Alike(m, s) /\ m.connected = s.connected /\ m.attempt = s.attempt
  BY <1>1, RestoredFields
<1>4. (\E n \in {p, u} : Replies(n)) \/ Rejected(h, m)
  BY DEF Built
<1> HIDE DEF p, u, m
<1>5. CASE Rejected(h, m)
  BY <1>3, <1>5, HandlingFields, RejectedTurn
<1>6. ASSUME NEW n \in {p, u}, Replies(n)
      PROVE  Proper
  <2> DEFINE v == [w EXCEPT !.at = "replying", !.obj = w.obj]
  <2>1. v \in Runs /\ v.at = "replying"
    BY DEF Runs, Places
  <2>2. Suspend(h, v, n, lock)
    BY <1>6 DEF At
  <2> HIDE DEF v
  <2>3. Steady(h, n)
    BY <1>1, <1>2, SteadyFields
  <2> QED
    BY <1>6, <2>1, <2>2, <2>3, HostPlains, SleepsTurn
<1> QED
  BY <1>4, <1>5, <1>6

LEMMA HostStart ==
    ASSUME IInv, NEW h \in HostTasks, Turn(Agent(h)), UNCHANGED tp
    PROVE  Handling(h, Now) /\ run[h] \in Runs /\ Steady(h, Now) /\ Now \in Gps
BY SteadyNow, NowIsGp, ParticipantsApart DEF Handling, Steady, IInv, Typed

LEMMA DispatchedTurn ==
    ASSUME IInv, NEW h \in HostTasks, Turn(Agent(h)), Dispatched(h)
    PROVE  Proper
<1> DEFINE w == [run[h] EXCEPT !.obj = gp.sender,
                               !.res = IF gp.protocolReady THEN "was ready" ELSE "none"]
           q == [w EXCEPT !.at = "queued"]
<1>1. Handling(h, Now) /\ run[h] \in Runs /\ Steady(h, Now)
  BY HostStart DEF Dispatched
<1>2. gp.sender \in Nat
  BY DEF IInv, Typed, Gps
<1>3. w \in Runs
  BY <1>1, <1>2 DEF Runs, Results
<1>4. q \in Runs /\ q.at = "queued"
  <2> HIDE DEF w
  <2> QED
    BY <1>3 DEF Runs, Places
<1>5. \/ Rejected(h, Now)
      \/ Suspend(h, q, Now, lock) /\ UNCHANGED tasks
      \/ Built(h, w, Now)
      \/ run[h].at = "queued" /\ Suspend(h, run[h], Now, lock) /\ UNCHANGED tasks
      \/ Built(h, run[h], Now)
  BY DEF Dispatched
<1> HIDE DEF w, q
<1> QED
  BY <1>1, <1>3, <1>4, <1>5, RejectedTurn, BuiltTurn, SleepsTurn, HostPlains

LEMMA ReplyAnsweredTurn ==
    ASSUME IInv, NEW h \in HostTasks, Turn(Agent(h)), ReplyAnswered(h)
    PROVE  Proper
<1> DEFINE m == Restored(Now, run[h])
<1>1. Handling(h, Now) /\ run[h] \in Runs /\ Steady(h, Now) /\ Now \in Gps
  BY HostStart DEF ReplyAnswered
<1>2. Now.shake = gp.shake
  BY NowIsGp DEF IInv, Typed
<1>3. m \in Gps /\ Alike(m, Now) /\ m.connected = Now.connected /\ m.attempt = Now.attempt
  BY <1>1, RestoredFields
<1>4. \/ gp.shake # 0 /\ Complete(h, "ready", Now)
      \/ Suspend(h, Asleep, Now, lock) /\ UNCHANGED tasks
      \/ Rejected(h, m)
  BY DEF ReplyAnswered
<1> HIDE DEF m
<1>5. Handling(h, m)
  BY <1>1, <1>3, HandlingFields
<1> QED
  BY <1>1, <1>2, <1>4, <1>5, CompleteTurn, RejectedTurn, SleepsTurn, AsleepRun, HostPlains

LEMMA HostTurnKeeps ==
    ASSUME IInv, NEW h \in HostTasks, Turn(Agent(h)), HostTurn(h)
    PROVE  Proper
<1>1. CASE Completed(h)
  BY <1>1, HostStart, CompletedTurn DEF Completed
<1> QED
  BY <1>1, DispatchedTurn, ReplyAnsweredTurn DEF HostTurn

-----------------------------------------------------------------------------
(* The turns of the runtime's own tasks.                                   *)

LEMMA TaskNames ==
    \A k \in {"up", "shake", "told", "ready"} : \A i, j : <<k, i>> # <<"loop", j>>
OBVIOUS

LEMMA TaskStart ==
    ASSUME IInv, NEW x, Turn(x), \A a \in Agents : x # Agent(a), \A i : x # <<"loop", i>>
    PROVE  /\ Steady(NoTask, Now) /\ Now \in Gps
           /\ Now.attempt = gp.attempt /\ Now.reporting = gp.reporting
<1>1. gp \in Gps /\ NoTask \notin Agents
  BY ParticipantsApart DEF IInv, Typed
<1>2. Kin(NoTask, Now)
  BY <1>1, NowIsGp DEF Kin
<1> QED
  BY <1>1, <1>2, TurnTaken, NowIsGp DEF Steady, Sober

LEMMA SteadyTaskTurn ==
    ASSUME IInv, NEW x, Turn(x), \A a \in Agents : x # Agent(a),
           NEW s, Steady(NoTask, s), Becomes(s), UNCHANGED tp, SameWaiters,
           ready' \in [Links -> Readies], LoopMove
    PROVE  Proper
<1>1. Sole(s, loop', run)
  BY ParticipantsApart, SoleKept
<1> QED
  BY <1>1, TaskTurn DEF Steady, SameWaiters, LoopMove, Proper

(* The runtime s has the connection of gp, and who stops a report loop is  *)
(* due still, or will be.                                                  *)
LEMMA SoleAlike ==
    ASSUME IInv, NEW s, s.loop = gp.loop, s.open = gp.open, s.sender = gp.sender,
           s.closing = gp.closing, LoopMove,
           \A a \in Agents : run[a].at = "stop loop" =>
               Due(s, <<"loop", run[a].obj>>) \/ Due(s, Agent(a))
    PROVE  Sole(s, loop', run)
<1>1. Sole(gp, loop, run)
  BY DEF IInv
<1>2. NoneRuns(loop) => NoneRuns(loop')
  BY DEF LoopMove, NoneRuns
<1>3. Known(s, loop') /\ Sendless(s)
  BY <1>1 DEF Sole, Known, Sendless, LoopMove
<1>4. Stopping(s, loop', run)
  BY <1>1, <1>2 DEF Sole, Stopping
<1>5. PastLoop(loop', run) /\ Silent(s, loop', run) /\ Closing(s, run)
  BY <1>1, <1>2 DEF Sole, PastLoop, Silent, Closing
<1> QED
  BY <1>3, <1>4, <1>5 DEF Sole

(* A report loop starts only with a sender and outside close(): then none  *)
(* is being stopped, and the one that starts is the only one.              *)
LEMMA LoopStarts ==
    ASSUME IInv, gp.loop = 0, gp.sender # 0, ~gp.closing, NEW i \in Links,
           NEW s, s.loop = i, s.open = gp.open, s.sender = gp.sender, s.closing = gp.closing,
           loop' = [loop EXCEPT ![i] = "running"]
    PROVE  Sole(s, loop', run) /\ loop' \in [Links -> Loops]
<1>1. Sole(gp, loop, run) /\ loop \in [Links -> Loops]
  BY DEF IInv, Typed
<1>2. gp.open
  BY <1>1 DEF Sole, Sendless
<1>3. \A j \in Links : loop'[j] = "running" => j = i
  BY <1>1, ParticipantsApart DEF Sole, Known
<1>4. Known(s, loop') /\ Sendless(s)
  BY <1>2, <1>3 DEF Known, Sendless
<1>5. Stopping(s, loop', run)
  BY <1>1 DEF Sole, Stopping
<1>6. PastLoop(loop', run) /\ Closing(s, run)
  BY <1>1 DEF Sole, Closing, Closes, PastLoop
<1>7. Silent(s, loop', run)
  BY <1>1 DEF Sole, Silent
<1>8. loop' \in [Links -> Loops]
  BY <1>1 DEF Loops
<1> QED
  BY <1>4, <1>5, <1>6, <1>7, <1>8 DEF Sole

LEMMA ConnectedTurn ==
    ASSUME IInv, NEW i \in Links, Turn(<<"up", i>>), Connected(i)
    PROVE  Proper
<1> DEFINE s == [Now EXCEPT !.state = "initializing"]
           t == [s EXCEPT !.shake = i]
           p == Post(t, <<"shake", i>>)
<1>1. Steady(NoTask, Now) /\ Now \in Gps
  BY TaskStart, AgentNames, TaskNames
<1>2. s \in Gps /\ Alike(s, Now) /\ s.connected = Now.connected
  BY <1>1 DEF Gps, States, Alike
<1>3. t \in Gps /\ Alike(t, Now) /\ t.connected = Now.connected
  <2> HIDE DEF s
  <2> QED
    BY <1>2, Zero DEF Gps, Alike
<1>4. /\ shake' = shake \/ shake' = [shake EXCEPT ![i].task = "running"]
      /\ Becomes(s) \/ Becomes(p)
      /\ UNCHANGED <<ready, loop, tp>>
  BY DEF Connected
<1> HIDE DEF s, t
<1>5. Steady(NoTask, s) /\ Steady(NoTask, t)
  BY <1>1, <1>2, <1>3, SteadyFields
<1>6. Steady(NoTask, p)
  BY <1>5, SteadyPost
<1> HIDE DEF p
<1>7. SameWaiters
  <2> DEFINE e == [shake[i] EXCEPT !.task = "running"]
  <2>1. shake \in [Links -> Shakes]
    BY DEF IInv, Typed
  <2>2. e \in Shakes /\ e.waiters = shake[i].waiters
    BY <2>1 DEF Shakes
  <2>3. shake' = shake \/ shake' = [shake EXCEPT ![i] = e]
    BY <1>4
  <2> HIDE DEF e
  <2> QED
    BY <2>1, <2>2, <2>3 DEF SameWaiters
<1>8. ready' \in [Links -> Readies] /\ LoopMove
  BY <1>4, ReadyLoopKept
<1> QED
  BY <1>4, <1>5, <1>6, <1>7, <1>8, SteadyTaskTurn, AgentNames

LEMMA ShakeToldTurn ==
    ASSUME IInv, NEW i \in Links, Turn(<<"told", i>>), ShakeTold(i)
    PROVE  Proper
<1> DEFINE o == shake[i].task
<1>1. /\ Steady(NoTask, Now) /\ Now \in Gps
      /\ Now.attempt = gp.attempt /\ Now.reporting = gp.reporting
  BY TaskStart, AgentNames, TaskNames
<1>2. Steady(NoTask, AfterOutcome(Now, i, o))
  BY <1>1, AfterOutcomeSteady
<1>3. /\ Becomes(AfterOutcome(Now, i, o)) \/ Becomes(Now)
      /\ ready' = ReadyAfter(gp, i, o) \/ ready' = ready
      /\ UNCHANGED <<shake, loop, tp>>
  BY DEF ShakeTold
<1> HIDE DEF o
<1>4. /\ SameWaiters
      /\ ready' \in [Links -> Readies] /\ LoopMove
  BY <1>3, ShakeKept, ReadyAfterType, LoopKept DEF IInv, Typed
<1> QED
  BY <1>1, <1>2, <1>3, <1>4, SteadyTaskTurn, AgentNames

(* The end of a task makes its stopper due.                                *)
LEMMA PostStopperTurn ==
    ASSUME IInv, NEW x, Turn(x), \A a \in Agents : x # Agent(a),
           NEW i, NEW places \in SUBSET Stops, Becomes(PostStopper(Now, i, places)),
           \A j : x = <<"loop", j>> => j = i /\ places = {"stop loop"},
           UNCHANGED <<shake, tp>>,
           ready' \in [Links -> Readies], LoopMove
    PROVE  Proper
<1> DEFINE stoppers == {a \in Agents : run[a].at \in places /\ run[a].obj = i}
           b == CHOOSE a \in stoppers : TRUE
           s == PostStopper(Now, i, places)
<1>1. /\ Now \in Gps /\ Once(Now.due) /\ gp \in Gps
      /\ \A a \in Agents : Due(Now, Agent(a)) => Due(gp, Agent(a))
      /\ \A y : Due(gp, y) /\ y # x => Due(Now, y)
  BY TurnTaken DEF IInv, Typed
<1>2. /\ Now.loop = gp.loop /\ Now.open = gp.open /\ Now.sender = gp.sender
      /\ Now.closing = gp.closing /\ Now.connected = gp.connected
  BY <1>1, NowIsGp
<1>3. \A a \in Agents : run[a].at = "stop loop" =>
         /\ Due(gp, <<"loop", run[a].obj>>) \/ Due(gp, Agent(a))
         /\ \A d \in Agents : run[d].at = "stop loop" => d = a
  BY DEF IInv, Sole, Stopping
<1>4. SameWaiters
  BY ShakeKept
<1>5. CASE stoppers = {}
  <2>1. s = Now
    BY <1>5 DEF PostStopper
  <2>2. \A a \in Agents : run[a].at = "stop loop" =>
            Due(Now, <<"loop", run[a].obj>>) \/ Due(Now, Agent(a))
    BY <1>1, <1>3, <1>5
  <2>3. Sole(Now, loop', run)
    BY <1>2, <2>2, SoleAlike
  <2>4. Becomes(Now) /\ Sober(Now)
    BY <1>2, <2>1 DEF Sober
  <2> QED
    BY <1>1, <1>4, <2>3, <2>4, TaskTurn DEF SameWaiters, LoopMove, Proper
<1>6. CASE stoppers # {}
  <2>1. b \in stoppers
    BY <1>6
  <2>2. s = Post(Now, Agent(b))
    BY <1>6 DEF PostStopper
  <2>3. b \in Agents /\ run[b].at \in Stops /\ run[b].at \in places
    BY <2>1
  <2> HIDE DEF b, s, stoppers
  <2>4. Agent(b) \in Dues
    BY <2>3, AgentNames
  <2>5. /\ s \in Gps
        /\ \E q \in Seq(Dues) : s = [Now EXCEPT !.due = q]
        /\ \A y : Due(s, y) <=> Due(Now, y) \/ y = Agent(b)
        /\ Once(s.due)
    BY <1>1, <2>2, <2>4, Posted
  <2>6. /\ s.loop = gp.loop /\ s.open = gp.open /\ s.sender = gp.sender
        /\ s.closing = gp.closing /\ s.connected = gp.connected
    BY <1>1, <1>2, <2>5 DEF Gps
  <2>7. \A a \in Agents : Due(s, Agent(a)) => Due(gp, Agent(a)) \/ run[a].at \in Stops
    BY <1>1, <2>3, <2>5, AgentNames
  <2>8. Becomes(s) /\ Sober(s)
    BY <2>6 DEF s, Sober
  <2>9. ASSUME NEW a \in Agents, run[a].at = "stop loop"
        PROVE  Due(s, <<"loop", run[a].obj>>) \/ Due(s, Agent(a))
    <3>1. CASE x = <<"loop", run[a].obj>>
      <4>1. run[b].at = "stop loop"
        BY <2>3, <3>1
      <4>2. b = a
        BY <1>3, <2>3, <2>9, <4>1
      <4> QED
        BY <2>5, <4>2
    <3>2. CASE x # <<"loop", run[a].obj>>
      BY <1>1, <1>3, <2>5, <2>9, <3>2
    <3> QED
      BY <3>1, <3>2
  <2>10. Sole(s, loop', run)
    BY <2>6, <2>9, SoleAlike
  <2> QED
    BY <1>4, <2>5, <2>7, <2>8, <2>10, TaskTurn DEF SameWaiters, LoopMove, Proper
<1> QED
  BY <1>5, <1>6

LEMMA ReadyTurnKeeps ==
    ASSUME IInv, NEW i \in Links, Turn(<<"ready", i>>), ReadyTurn(i)
    PROVE  Proper
<1> DEFINE task == ready[i].task
           sender == IF task = "created" THEN gp.sender ELSE ready[i].sender
           n == [Now EXCEPT !.ready = IF @ = i THEN 0 ELSE @]
           k == [n EXCEPT !.loop = IF @ = 0 THEN i ELSE @]
           p == [k EXCEPT !.state = "connected", !.connected = TRUE, !.attempt = TRUE]
<1>1. /\ Steady(NoTask, Now) /\ Now \in Gps /\ Now.attempt = gp.attempt
      /\ \A a \in Agents : <<"ready", i>> # Agent(a)
      /\ \A j : <<"ready", i>> # <<"loop", j>>
      /\ Now.loop = gp.loop /\ Now.open = gp.open /\ Now.sender = gp.sender
      /\ Now.closing = gp.closing
  BY TaskStart, NowIsGp, AgentNames, TaskNames DEF IInv, Typed
<1>2. /\ ready \in [Links -> Readies] /\ loop \in [Links -> Loops] /\ gp \in Gps
      /\ 0 \in 0 .. MaxLinks /\ i \in 0 .. MaxLinks
  BY Zero DEF IInv, Typed
<1>3. sender \in Nat
  BY <1>2 DEF Gps, Readies
<1>4. n \in Gps /\ Alike(n, Now) /\ n.connected = Now.connected /\ n.attempt = Now.attempt
  BY <1>1, <1>2 DEF Gps, Alike
<1>5. /\ k \in Gps /\ k.due = Now.due /\ k.connected = Now.connected /\ k.attempt = Now.attempt
      /\ k.open = Now.open /\ k.sender = Now.sender /\ k.closing = Now.closing
      /\ k.reporting = Now.reporting
      /\ k.loop = IF gp.loop = 0 THEN i ELSE gp.loop
  <2> HIDE DEF n
  <2> QED
    BY <1>1, <1>2, <1>4 DEF Gps, Alike
<1>6. p \in Gps /\ Alike(p, k)
  <2> HIDE DEF k
  <2> QED
    BY <1>5 DEF Gps, States, Alike
<1>17. /\ task \in {"created", "waiting"} /\ sender # 0 /\ WaitOver(sender) /\ InTime(sender)
             => MayPublish
       /\ InTime(sender) => ~gp.attempt /\ ~gp.closing /\ gp.sender = sender
  <2>1. InTime(sender) => ~gp.attempt /\ ~gp.closing /\ gp.sender = sender
    BY DEF InTime
  <2>2. ASSUME task \in {"created", "waiting"}, sender # 0, WaitOver(sender), InTime(sender)
        PROVE  MayPublish
    <3>1. gp.sender = sender /\ ~gp.closing
      BY <2>1, <2>2
    <3>2. gp.sender # 0 /\ ~Replying(gp.sender)
      BY <2>2, <3>1 DEF WaitOver
    <3>3. task = "created" \/ (task = "waiting" /\ ready[i].sender = gp.sender)
      BY <2>2, <3>1
    <3> QED
      BY <3>1, <3>2, <3>3 DEF MayPublish
  <2> QED
    BY <2>1, <2>2
<1>7. /\ UNCHANGED <<shake, tp>>
      /\ \/ /\ ready' = [ready EXCEPT ![i].task = "done"]
            /\ Becomes(PostStopper(Now, i, {"stop ready", "cancel ready"})) /\ UNCHANGED loop
         \/ ready' = [ready EXCEPT ![i].task = "dead"] /\ Becomes(Now) /\ UNCHANGED loop
         \/ /\ ready' = [ready EXCEPT ![i] = [task |-> "waiting", sender |-> sender]]
            /\ Becomes(Now) /\ UNCHANGED loop
         \/ /\ ready' = [ready EXCEPT ![i] = [task |-> "done", sender |-> sender]]
            /\ ~gp.attempt /\ MayPublish /\ Becomes(Published(k))
            /\ \/ gp.loop # 0 /\ UNCHANGED loop
               \/ /\ gp.loop = 0 /\ gp.sender # 0 /\ ~gp.closing
                  /\ loop' = [loop EXCEPT ![i] = "running"]
         \/ /\ ready' = [ready EXCEPT ![i] = [task |-> "done", sender |-> sender]]
            /\ Becomes(n) /\ UNCHANGED loop
  BY <1>17 DEF ReadyTurn
<1>8. Published(k) \in {k, p}
  BY DEF Published
<1> HIDE DEF task, sender, n, k, p
<1>9. ready' \in [Links -> Readies]
  <2>1. \A t \in {"done", "dead"} : [ready EXCEPT ![i].task = t] \in [Links -> Readies]
    BY <1>2 DEF Readies
  <2>2. \A t \in {"waiting", "done"} :
            [ready EXCEPT ![i] = [task |-> t, sender |-> sender]] \in [Links -> Readies]
    BY <1>2, <1>3 DEF Readies
  <2> QED
    BY <1>2, <1>7, <2>1, <2>2
<1>10. Steady(NoTask, n)
  BY <1>1, <1>4, SteadyFields
<1>11. SameWaiters
  BY <1>7, ShakeKept
<1>12. {"stop ready", "cancel ready"} \in SUBSET Stops
  BY DEF Stops
<1>13. CASE Becomes(PostStopper(Now, i, {"stop ready", "cancel ready"})) /\ UNCHANGED loop
  BY <1>1, <1>7, <1>9, <1>12, <1>13, PostStopperTurn, LoopKept
<1>14. CASE (Becomes(Now) \/ Becomes(n)) /\ UNCHANGED loop
  BY <1>1, <1>7, <1>9, <1>10, <1>11, <1>14, SteadyTaskTurn, LoopKept
<1>15. CASE /\ ~gp.attempt /\ MayPublish /\ Becomes(Published(k)) /\ gp.loop # 0
            /\ UNCHANGED loop
  <2>1. Alike(k, Now) /\ Alike(p, Now)
    BY <1>1, <1>5, <1>6, <1>15 DEF Alike
  <2>2. Steady(NoTask, k) /\ Steady(NoTask, p)
    BY <1>1, <1>5, <1>6, <1>15, <2>1, SteadyFields, SteadyPublish
  <2> QED
    BY <1>1, <1>7, <1>8, <1>9, <1>11, <1>15, <2>2, SteadyTaskTurn, LoopKept
<1>16. CASE /\ ~gp.attempt /\ MayPublish /\ Becomes(Published(k)) /\ gp.loop = 0 /\ gp.sender # 0
            /\ ~gp.closing /\ loop' = [loop EXCEPT ![i] = "running"]
  <2> SUFFICES ASSUME NEW t \in {k, p}, Becomes(t)
               PROVE  Proper
    BY <1>8, <1>16
  <2>1. /\ t \in Gps /\ t.due = Now.due /\ t.loop = i /\ t.open = gp.open
        /\ t.sender = gp.sender /\ t.closing = gp.closing
    BY <1>1, <1>5, <1>6, <1>16 DEF Alike
  <2>2. Sole(t, loop', run) /\ loop' \in [Links -> Loops]
    BY <1>16, <2>1, LoopStarts
  <2>3. Once(t.due) /\ Sober(t)
    BY <1>1, <1>16, <2>1 DEF Steady, Sober
  <2>4. \A b \in Agents : Due(t, Agent(b)) => Due(gp, Agent(b))
    BY <1>1, <2>1 DEF Steady, Due
  <2> QED
    BY <1>1, <1>7, <1>9, <1>11, <2>1, <2>2, <2>3, <2>4, TaskTurn DEF SameWaiters, Proper
<1> QED
  BY <1>7, <1>13, <1>14, <1>15, <1>16

LEMMA LoopTurnKeeps ==
    ASSUME IInv, NEW i \in Links, Turn(<<"loop", i>>), LoopTurn(i)
    PROVE  Proper
<1>1. ready' \in [Links -> Readies] /\ LoopMove
  BY DEF IInv, Typed, LoopTurn, Loops, LoopMove
<1>2. {"stop loop"} \in SUBSET Stops /\ \A a \in Agents : <<"loop", i>> # Agent(a)
  BY AgentNames DEF Stops
<1>3. \A j : <<"loop", i>> = <<"loop", j>> => j = i
  OBVIOUS
<1> QED
  BY <1>1, <1>2, <1>3, PostStopperTurn DEF LoopTurn

(* What is due once handshake i has ended: who waits for it goes on after  *)
(* the runtime was told.                                                   *)
LEMMA EndsDue ==
    ASSUME IInv, NEW i \in Links, Turn(<<"shake", i>>)
    PROVE  LET ws == shake[i].waiters
               s == [Now EXCEPT !.due = @ \o <<<<"told", i>>>>
                                          \o [k \in DOMAIN ws |-> Agent(ws[k])]]
           IN  /\ s \in Gps /\ Once(s.due)
               /\ \E q \in Seq(Dues) : s = [Now EXCEPT !.due = q]
               /\ \A y : Due(s, y) <=>
                    \/ Due(Now, y) \/ y = <<"told", i>>
                    \/ \E a \in Agents : Among(a, ws) /\ y = Agent(a)
<1> DEFINE ws == shake[i].waiters
           names == [k \in DOMAIN ws |-> Agent(ws[k])]
           told == <<"told", i>>
           q == <<told>> \o names
           s == [Now EXCEPT !.due = @ \o q]
<1>1. /\ Steady(NoTask, Now) /\ Now \in Gps /\ told \in Dues
      /\ \A a \in Agents : told # Agent(a)
  BY TaskStart, AgentNames, TaskNames
<1>2. Ordered(gp, lock, run, shake, tp) /\ shake \in [Links -> Shakes]
  BY DEF IInv, Typed
<1>3. /\ Distinct(ws)
      /\ \A a \in Agents : Among(a, ws) =>
            run[a].at \in Awaits /\ run[a].obj = i /\ ~Due(gp, Agent(a))
  BY <1>2 DEF Ordered, Awaiting
<1>4. ws \in Seq(Agents) /\ DOMAIN ws = 1 .. Len(ws) /\ Len(ws) \in Nat
  BY <1>2 DEF Shakes
<1> HIDE DEF ws
<1>5. /\ names \in Seq(Dues) /\ Len(names) = Len(ws)
      /\ \A k \in 1 .. Len(ws) : names[k] = Agent(ws[k]) /\ ws[k] \in Agents
  <2>1. \A k \in 1 .. Len(ws) : ws[k] \in Agents /\ Agent(ws[k]) \in Dues
    BY <1>4, AgentNames
  <2>2. names \in [1 .. Len(ws) -> Dues]
    BY <1>4, <2>1
  <2> QED
    BY <1>4, <2>1, <2>2
<1> HIDE DEF names, told
<1>6. /\ q \in Seq(Dues) /\ Len(q) = Len(ws) + 1 /\ q[1] = told
      /\ \A k \in 1 .. Len(ws) : q[k + 1] = names[k]
  BY <1>1, <1>4, <1>5
<1> HIDE DEF q
<1>7. ASSUME NEW k \in 1 .. Len(q), q[k] # told
      PROVE  k - 1 \in 1 .. Len(ws) /\ q[k] = Agent(ws[k - 1])
  <2>1. k - 1 \in 1 .. Len(ws) /\ (k - 1) + 1 = k
    BY <1>4, <1>6, <1>7
  <2> QED
    BY <1>5, <1>6, <2>1
<1>8. ASSUME NEW a \in Agents, Among(Agent(a), q)
      PROVE  Among(a, ws)
  <2>1. PICK k \in 1 .. Len(q) : q[k] = Agent(a)
    BY <1>8 DEF Among
  <2>2. k - 1 \in 1 .. Len(ws) /\ Agent(a) = Agent(ws[k - 1])
    BY <1>1, <1>7, <2>1
  <2> QED
    BY <2>2, AgentNames DEF Among
<1>9. Once(q)
  <2> SUFFICES ASSUME NEW a \in Agents, NEW j \in 1 .. Len(q), NEW k \in 1 .. Len(q),
                      q[j] = Agent(a), q[k] = Agent(a)
               PROVE  j = k
    BY DEF Once
  <2>1. /\ j - 1 \in 1 .. Len(ws) /\ k - 1 \in 1 .. Len(ws)
        /\ Agent(ws[j - 1]) = Agent(a) /\ Agent(ws[k - 1]) = Agent(a)
    BY <1>1, <1>7
  <2>2. ws[j - 1] = ws[k - 1]
    BY <2>1, AgentNames
  <2>3. j - 1 = k - 1
    BY <1>3, <2>1, <2>2 DEF Distinct
  <2> QED
    BY <1>6, <1>4, <2>3
<1>10. \A a \in Agents : Among(Agent(a), q) => ~Due(Now, Agent(a))
  BY <1>1, <1>3, <1>8 DEF Steady
<1>11. /\ s \in Gps /\ Once(s.due)
       /\ \A y : Due(s, y) <=> Due(Now, y) \/ Among(y, q)
  BY <1>1, <1>6, <1>9, <1>10, Extended DEF Steady
<1>12. [Now EXCEPT !.due = @ \o <<told>> \o names] = s
  <2>1. Now.due \in Seq(Dues) /\ <<told>> \in Seq(Dues)
    BY <1>1 DEF Gps
  <2>2. Now.due \o <<told>> \o names = Now.due \o q
    <3> DEFINE u == <<told>>
               d == Now.due
    <3>1. u \in Seq(Dues) /\ d \in Seq(Dues) /\ names \in Seq(Dues)
      BY <1>5, <2>1
    <3>2. q = u \o names
      BY DEF q
    <3> HIDE DEF u, d
    <3>3. (d \o u) \o names = d \o (u \o names)
      BY <3>1, ConcatAssociative
    <3> QED
      BY <3>2, <3>3 DEF u, d
  <2> QED
    BY <2>2
<1>13. \E o \in Seq(Dues) : s = [Now EXCEPT !.due = o]
  <2>1. Now.due \o q \in Seq(Dues)
    BY <1>1, <1>6 DEF Gps
  <2> QED
    BY <2>1
<1> HIDE DEF s
<1>14. ASSUME NEW y, Among(y, q), y # told
       PROVE  \E a \in Agents : Among(a, ws) /\ y = Agent(a)
  <2>1. PICK k \in 1 .. Len(q) : q[k] = y
    BY <1>14 DEF Among
  <2>2. k - 1 \in 1 .. Len(ws) /\ y = Agent(ws[k - 1])
    BY <1>7, <1>14, <2>1
  <2> QED
    BY <1>5, <2>2 DEF Among
<1>15. Among(told, q)
  <2>1. 1 \in 1 .. Len(q)
    BY <1>4, <1>6
  <2> QED
    BY <1>6, <2>1 DEF Among
<1>16. ASSUME NEW a \in Agents, Among(a, ws) PROVE Among(Agent(a), q)
  <2>1. PICK k \in 1 .. Len(ws) : ws[k] = a
    BY <1>16 DEF Among
  <2>2. k + 1 \in 1 .. Len(q)
    BY <1>4, <1>6
  <2>3. q[k + 1] = Agent(a)
    BY <1>5, <1>6, <2>1
  <2> QED
    BY <2>2, <2>3 DEF Among
<1>17. \A y : Due(s, y) <=>
          \/ Due(Now, y) \/ y = told
          \/ \E a \in Agents : Among(a, ws) /\ y = Agent(a)
  BY <1>11, <1>14, <1>15, <1>16
<1> QED
  BY <1>11, <1>12, <1>13, <1>17 DEF ws, names, told

(* A handshake that ends makes those due that wait for it.                 *)
LEMMA ShakeEnds ==
    ASSUME IInv, NEW i \in Links, Turn(<<"shake", i>>),
           NEW o \in {"cancelled", "failed", "ready"},
           shake' = [shake EXCEPT ![i].task = o, ![i].waiters = << >>],
           Becomes([Now EXCEPT !.due = @ \o <<<<"told", i>>>>
                      \o [k \in DOMAIN shake[i].waiters |-> Agent(shake[i].waiters[k])]]),
           UNCHANGED <<ready, loop, tp>>
    PROVE  Proper
<1> DEFINE ws == shake[i].waiters
           s == [Now EXCEPT !.due = @ \o <<<<"told", i>>>>
                                      \o [k \in DOMAIN ws |-> Agent(ws[k])]]
<1>1. /\ Steady(NoTask, Now) /\ Now \in Gps
      /\ \A a \in Agents : <<"told", i>> # Agent(a)
  BY TaskStart, AgentNames, TaskNames
<1>2. /\ Ordered(gp, lock, run, shake, tp) /\ shake \in [Links -> Shakes]
      /\ lock \in Locks(Callers) /\ run \in [Agents -> Runs] /\ tp \in Tps
      /\ ready \in [Links -> Readies] /\ loop \in [Links -> Loops]
  BY DEF IInv, Typed
<1>3. /\ Distinct(ws)
      /\ \A a \in Agents : Among(a, ws) =>
            run[a].at \in Awaits /\ run[a].obj = i /\ ~Due(gp, Agent(a))
  BY <1>2 DEF Ordered, Awaiting
<1>11. /\ s \in Gps /\ Once(s.due)
       /\ \E q \in Seq(Dues) : s = [Now EXCEPT !.due = q]
       /\ \A y : Due(s, y) <=>
             \/ Due(Now, y) \/ y = <<"told", i>>
             \/ \E a \in Agents : Among(a, ws) /\ y = Agent(a)
  BY EndsDue
<1>13. Becomes(s)
  OBVIOUS
<1> HIDE DEF ws, s
<1>12. /\ s.connected = Now.connected /\ s.loop = gp.loop /\ s.open = gp.open
       /\ s.sender = gp.sender /\ s.closing = gp.closing
  <2>1. /\ s.connected = Now.connected /\ s.loop = Now.loop /\ s.open = Now.open
        /\ s.sender = Now.sender /\ s.closing = Now.closing
    BY <1>1, <1>11 DEF Gps
  <2> QED
    BY <2>1, NowIsGp DEF IInv, Typed
<1>14. ASSUME NEW a \in Agents, Due(s, Agent(a))
       PROVE  Due(gp, Agent(a)) \/ Among(a, ws)
  BY <1>1, <1>11, <1>14, AgentNames DEF Steady
<1>15. Handed(s, lock, run)
  <2>1. \A a \in Agents : Among(a, ws) => run[a].at # "lock"
    BY <1>3 DEF Awaits
  <2> QED
    BY <1>2, <1>14, <2>1, ParticipantsApart DEF Ordered, Handed
<1>16. /\ shake' \in [Links -> Shakes] /\ shake'[i].waiters = << >>
       /\ \A j \in Links : j # i => shake'[j] = shake[j]
  <2> DEFINE e == [shake[i] EXCEPT !.task = o, !.waiters = << >>]
  <2>1. << >> \in Seq(Agents)
    OBVIOUS
  <2>2. e \in Shakes /\ e.waiters = << >>
    BY <1>2, <2>1 DEF Shakes
  <2>3. shake' = [shake EXCEPT ![i] = e]
    BY <1>2 DEF Shakes
  <2> HIDE DEF e
  <2> QED
    BY <1>2, <2>2, <2>3
<1>17. Awaiting(s, shake', run)
  <2> SUFFICES ASSUME NEW j \in Links
               PROVE  /\ Distinct(shake'[j].waiters)
                      /\ \A a \in Agents : Among(a, shake'[j].waiters) =>
                            run[a].at \in Awaits /\ run[a].obj = j /\ ~Due(s, Agent(a))
    BY DEF Awaiting
  <2>1. CASE j = i
    BY <1>16, <2>1 DEF Distinct, Among
  <2>2. CASE j # i
    <3>1. /\ Distinct(shake[j].waiters)
          /\ \A a \in Agents : Among(a, shake[j].waiters) =>
                run[a].at \in Awaits /\ run[a].obj = j /\ ~Due(gp, Agent(a))
      BY <1>2 DEF Ordered, Awaiting
    <3> QED
      BY <1>3, <1>14, <1>16, <2>2, <3>1
  <2> QED
    BY <2>1, <2>2
<1>18. Ordered(s, lock, run, shake', tp')
  BY <1>2, <1>11, <1>15, <1>17 DEF Ordered
<1>19. Settle(s, lock, run)
  BY <1>13 DEF Becomes
<1>20. Sole(s, loop', run)
  <2>1. \A y : Due(gp, y) /\ y # <<"shake", i>> => Due(s, y)
    BY <1>11, TurnTaken
  <2>2. \A a \in Agents : run[a].at = "stop loop" =>
            Due(gp, <<"loop", run[a].obj>>) \/ Due(gp, Agent(a))
    BY DEF IInv, Sole, Stopping
  <2>3. \A a \in Agents : run[a].at = "stop loop" =>
            Due(s, <<"loop", run[a].obj>>) \/ Due(s, Agent(a))
    BY <2>1, <2>2, AgentNames, TaskNames
  <2> QED
    BY <1>12, <2>3, SoleAlike, LoopKept
<1>21. Calm(s, run)
  <2> SUFFICES ASSUME NEW c \in Callers, run[c].at = "opening", run[c].res = "none",
                      Due(s, Agent(c))
               PROVE  FALSE
    BY DEF Calm
  <2>1. c \in Agents /\ "opening" \notin Awaits /\ <<"shake", i>> # Agent(c)
    BY ParticipantsApart, AgentNames DEF Awaits
  <2>2. Due(gp, Agent(c))
    BY <1>3, <1>14, <2>1
  <2> QED
    BY <2>1, <2>2, NoneOpens
<1>22. /\ gp' \in Gps /\ lock' \in Locks(Callers) /\ run' \in [Agents -> Runs]
       /\ Ordered(gp', lock', run', shake', tp') /\ gp'.connected = s.connected
       /\ Sole(gp', loop', run') /\ Opening(gp', run')
  BY <1>2, <1>11, <1>18, <1>19, <1>20, <1>21, Settled
<1>23. Sober(gp')
  BY <1>1, <1>12, <1>22 DEF Steady, Sober
<1> QED
  BY <1>2, <1>16, <1>22, <1>23 DEF IInv, Typed, Proper

LEMMA ShakeTurnKeeps ==
    ASSUME IInv, NEW i \in Links, Turn(<<"shake", i>>), ShakeTurn(i)
    PROVE  Proper
<1>1. UNCHANGED <<ready, loop, tp>>
  BY DEF ShakeTurn
<1>2. CASE Becomes(Now) /\ UNCHANGED shake
  <2>1. ready' \in [Links -> Readies] /\ LoopMove /\ SameWaiters
    BY <1>1, <1>2, ShakeKept, ReadyLoopKept
  <2>2. Steady(NoTask, Now)
    BY TaskStart, AgentNames, TaskNames
  <2> QED
    BY <1>1, <1>2, <2>1, <2>2, SteadyTaskTurn, AgentNames
<1>3. CASE \E o \in {"cancelled", "failed", "ready"} :
             /\ shake' = [shake EXCEPT ![i].task = o, ![i].waiters = << >>]
             /\ Becomes([Now EXCEPT !.due = @ \o <<<<"told", i>>>>
                   \o [k \in DOMAIN shake[i].waiters |-> Agent(shake[i].waiters[k])]])
  BY <1>1, <1>3, ShakeEnds
<1>4. \/ Becomes(Now) /\ UNCHANGED shake
      \/ \E o \in {"cancelled", "failed", "ready"} :
             /\ shake' = [shake EXCEPT ![i].task = o, ![i].waiters = << >>]
             /\ Becomes([Now EXCEPT !.due = @ \o <<<<"told", i>>>>
                   \o [k \in DOMAIN shake[i].waiters |-> Agent(shake[i].waiters[k])]])
  BY DEF ShakeTurn
<1> QED
  BY <1>2, <1>3, <1>4

LEMMA RunKeeps ==
    ASSUME IInv, Run
    PROVE  Proper
BY CallerTurnKeeps, HostTurnKeeps, LinkTurnKeeps, ConnectedTurn, ShakeTurnKeeps, ShakeToldTurn,
   ReadyTurnKeeps, LoopTurnKeeps DEF Run

-----------------------------------------------------------------------------
(* The world outside.                                                      *)

(* Between these places the world outside may move an agent.               *)
Loose == {"idle", "called", "down", "received"}

LEMMA WorldStep ==
    ASSUME IInv, NEW x \in Dues, gp' = Post(gp, x), UNCHANGED <<lock, tasks>>,
           run' \in [Agents -> Runs], tp' \in Tps, Numbered(tp', run'),
           \A a \in Agents : \/ run'[a].at = run[a].at /\ run'[a].obj = run[a].obj
                             \/ run[a].at \in Loose /\ run'[a].at \in Loose,
           \A a \in Agents : x = Agent(a) => run[a].at \notin Awaits \cup {"lock"},
           \A c \in Callers : run'[c].at = "opening" /\ run'[c].res = "none" =>
               /\ run[c].res = "none"
               /\ x = Agent(c) => gp.due = << >> /\ ~ClosingTransport
    PROVE  Proper
<1>1. /\ gp \in Gps /\ lock \in Locks(Callers) /\ run \in [Agents -> Runs]
      /\ shake \in [Links -> Shakes] /\ ready \in [Links -> Readies] /\ loop \in [Links -> Loops]
      /\ Once(gp.due) /\ Queue(lock, run) /\ Handed(gp, lock, run) /\ Exclusive(lock, run)
      /\ Awaiting(gp, shake, run) /\ Completing(run)
  BY DEF IInv, Typed, Ordered
<1>2. /\ gp' \in Gps
      /\ \E q \in Seq(Dues) : gp' = [gp EXCEPT !.due = q]
      /\ \A y : Due(gp', y) <=> Due(gp, y) \/ y = x
      /\ Once(gp'.due)
  BY <1>1, Posted
<1>3. gp'.connected = gp.connected
  BY <1>1, <1>2 DEF Gps
<1>4. \A a \in Agents : /\ run'[a].at = "lock" <=> run[a].at = "lock"
                        /\ run'[a].at \in Lockeds <=> run[a].at \in Lockeds
                        /\ run'[a].at \in Awaits <=> run[a].at \in Awaits
                        /\ run'[a].at \in Awaits => run'[a].at = run[a].at
                                                   /\ run'[a].obj = run[a].obj
  BY DEF Loose, Lockeds, Awaits
<1>5. lock' = lock /\ shake' = shake /\ ready' = ready /\ loop' = loop
  BY DEF tasks
<1>6. Queue(lock, run') /\ Exclusive(lock, run')
  BY <1>1, <1>4, ParticipantsApart DEF Queue, Exclusive
<1>7. Handed(gp', lock, run')
  BY <1>1, <1>2, <1>4, ParticipantsApart DEF Handed
<1>8. Awaiting(gp', shake, run')
  <2> SUFFICES ASSUME NEW i \in Links, NEW a \in Agents, Among(a, shake[i].waiters)
               PROVE  run'[a].at \in Awaits /\ run'[a].obj = i /\ ~Due(gp', Agent(a))
    BY <1>1 DEF Awaiting
  <2>1. run[a].at \in Awaits /\ run[a].obj = i /\ ~Due(gp, Agent(a))
    BY <1>1 DEF Awaiting
  <2> QED
    BY <1>2, <1>4, <2>1
<1>9. Completing(run')
  BY <1>1, <1>4 DEF Completing, Awaits
<1>10. Ordered(gp', lock', run', shake', tp')
  BY <1>2, <1>5, <1>6, <1>7, <1>8, <1>9 DEF Ordered
<1>11. /\ gp'.loop = gp.loop /\ gp'.open = gp.open /\ gp'.sender = gp.sender
       /\ gp'.closing = gp.closing
  BY <1>1, <1>2 DEF Gps
<1>12. ASSUME NEW a \in Agents,
              run'[a].at \in Closes \cup {"stop loop", "down closing", "opening", "open closing"}
       PROVE  run'[a].at = run[a].at /\ run'[a].obj = run[a].obj
  <2>1. run'[a].at \notin Loose
    BY <1>12 DEF Loose, Closes, Pasts
  <2> QED
    BY <2>1
<1>13. Sole(gp', loop, run')
  <2>1. Sole(gp, loop, run)
    BY DEF IInv
  <2>2. Known(gp', loop) /\ Sendless(gp')
    BY <1>11, <2>1 DEF Sole, Known, Sendless
  <2>3. Stopping(gp', loop, run')
    BY <1>2, <1>11, <1>12, <2>1 DEF Sole, Stopping
  <2>4. PastLoop(loop, run') /\ Closing(gp', run')
    BY <1>11, <1>12, <2>1, ParticipantsApart DEF Sole, PastLoop, Closing, Closes
  <2>5. Silent(gp', loop, run')
    BY <1>11, <1>12, <2>1 DEF Sole, Silent, Mute
  <2> QED
    BY <2>2, <2>3, <2>4, <2>5 DEF Sole
<1>14. Opening(gp', run')
  <2> SUFFICES ASSUME NEW c \in Callers, run'[c].at = "opening", run'[c].res = "none",
                      Due(gp', Agent(c))
               PROVE  gp'.due # << >> /\ Head(gp'.due) = Agent(c) /\ Quiet(run')
    BY DEF Opening
  <2>1. run[c].at = "opening" /\ run[c].res = "none"
    BY <1>12, ParticipantsApart
  <2>2. Quiet(run) => Quiet(run')
    BY <1>12 DEF Quiet
  <2>3. gp.due \in Seq(Dues)
    BY <1>1 DEF Gps
  <2>4. gp'.due = gp.due \/ (~Due(gp, x) /\ gp'.due = Append(gp.due, x))
    BY <1>1 DEF Post, Gps
  <2>5. CASE Due(gp, Agent(c))
    <3>1. gp.due # << >> /\ Head(gp.due) = Agent(c) /\ Quiet(run)
      BY <2>1, <2>5 DEF IInv, Opening
    <3>2. Append(gp.due, x) # << >> /\ Head(Append(gp.due, x)) = Head(gp.due)
      BY <2>3, <3>1
    <3> QED
      BY <2>2, <2>4, <3>1, <3>2
  <2>6. CASE ~Due(gp, Agent(c))
    <3>1. x = Agent(c) /\ gp.due = << >> /\ ~ClosingTransport
      BY <1>2, <2>6
    <3>2. \A y : ~Due(gp, y)
      BY <3>1 DEF Due
    <3>3. gp'.due = <<x>>
      BY <1>1, <3>1, <3>2 DEF Post, Gps
    <3>4. Quiet(run)
      BY <3>1, <3>2 DEF IInv, Sole, Stopping, Quiet, ClosingTransport
    <3> QED
      BY <2>2, <3>1, <3>3, <3>4
  <2> QED
    BY <2>5, <2>6
<1> QED
  BY <1>1, <1>2, <1>3, <1>5, <1>10, <1>13, <1>14 DEF IInv, Typed, Proper, Sober

LEMMA CallKeeps ==
    ASSUME IInv, NEW c \in Callers, NEW fn \in Requests[c], Call(c, fn)
    PROVE  Proper
<1> DEFINE w == [fn |-> fn, at |-> "called", obj |-> 0,
                 body |-> IF fn = "close" THEN "close" ELSE "open",
                 res |-> IF fn = "close" THEN "ok" ELSE "none"]
<1>1. /\ run \in [Agents -> Runs] /\ tp \in Tps /\ Numbered(tp, run)
      /\ c \in Agents /\ c \notin Links
  BY ParticipantsApart DEF IInv, Typed, Ordered
<1>2. /\ run[c].at = "idle" /\ run' = [run EXCEPT ![c] = w]
      /\ Makes(Agent(c)) /\ UNCHANGED tp
  BY DEF Call
<1>3. w \in Runs /\ w.at = "called"
  BY RuntimeAssumption DEF Runs, Fns, Places, Results
<1> HIDE DEF w
<1>4. /\ run' \in [Agents -> Runs] /\ run'[c].at = "called"
      /\ \A a \in Agents : a # c => run'[a] = run[a]
  BY <1>1, <1>2, <1>3
<1>5. Numbered(tp', run')
  BY <1>1, <1>2, <1>4, ParticipantsApart DEF Numbered
<1>6. "idle" \in Loose /\ "called" \in Loose
  BY DEF Loose
<1>7. \A a \in Agents : \/ run'[a].at = run[a].at /\ run'[a].obj = run[a].obj
                        \/ run[a].at \in Loose /\ run'[a].at \in Loose
  BY <1>2, <1>4, <1>6
<1>8. \A a \in Agents : Agent(c) = Agent(a) => run[a].at \notin Awaits \cup {"lock"}
  BY <1>2, AgentNames DEF Awaits
<1>9. \A d \in Callers : run'[d].at = "opening" /\ run'[d].res = "none" =>
          /\ run[d].res = "none"
          /\ Agent(c) = Agent(d) => gp.due = << >> /\ ~ClosingTransport
  BY <1>4, ParticipantsApart, AgentNames
<1> QED
  BY <1>1, <1>2, <1>4, <1>5, <1>7, <1>8, <1>9, AgentNames, WorldStep DEF Makes

LEMMA AnswerKeeps ==
    ASSUME IInv, NEW a \in Agents, Answer(a)
    PROVE  Proper
<1>1. /\ run \in [Agents -> Runs] /\ tp \in Tps /\ Numbered(tp, run)
  BY DEF IInv, Typed, Ordered
<1>2. \A b \in Agents : Agent(a) = Agent(b) => run[b].at \notin Awaits \cup {"lock"}
  BY AgentNames DEF Answer, Awaits
<1>3. \A c \in Callers : run[c].at = "opening" /\ Agent(a) = Agent(c) =>
          gp.due = << >> /\ ~ClosingTransport
  BY AgentNames DEF Answer
<1> QED
  BY <1>1, <1>2, <1>3, AgentNames, WorldStep DEF Answer, Makes

LEMMA CutKeeps ==
    ASSUME IInv, NEW c \in Callers, NEW res \in {"timeout", "cancelled"}, Cut(c, res)
    PROVE  Proper
<1>1. /\ run \in [Agents -> Runs] /\ tp \in Tps /\ Numbered(tp, run)
      /\ c \in Agents /\ run[c] \in Runs
  BY ParticipantsApart DEF IInv, Typed, Ordered
<1> DEFINE w == [run[c] EXCEPT !.res = res]
<1>2. w \in Runs /\ w.at = run[c].at /\ w.obj = run[c].obj /\ w.res # "none"
  BY <1>1 DEF Runs, Results
<1>3. run' = [run EXCEPT ![c] = w] /\ gp' = Post(gp, Agent(c)) /\ UNCHANGED <<lock, tasks, tp>>
  BY DEF Cut
<1> HIDE DEF w
<1>4. /\ run' \in [Agents -> Runs]
      /\ \A a \in Agents : run'[a].at = run[a].at /\ run'[a].obj = run[a].obj
  BY <1>1, <1>2, <1>3
<1>5. Numbered(tp', run')
  BY <1>1, <1>3, <1>4, ParticipantsApart DEF Numbered
<1>6. \A b \in Agents : Agent(c) = Agent(b) => run[b].at \notin Awaits \cup {"lock"}
  BY AgentNames DEF Cut, Attempting, Awaits
<1>7. \A d \in Callers : run'[d].at = "opening" /\ run'[d].res = "none" =>
          /\ run[d].res = "none"
          /\ Agent(c) = Agent(d) => gp.due = << >> /\ ~ClosingTransport
  BY <1>1, <1>2, <1>3, ParticipantsApart, AgentNames
<1> QED
  BY <1>1, <1>3, <1>4, <1>5, <1>6, <1>7, AgentNames, WorldStep

LEMMA LinkUpKeeps ==
    ASSUME IInv, LinkUp
    PROVE  Proper
<1> DEFINE i == tp.links + 1
<1>1. /\ run \in [Agents -> Runs] /\ tp \in Tps /\ Numbered(tp, run) /\ MaxLinks \in Nat
      /\ tp.links \in 0 .. MaxLinks
  BY Zero DEF IInv, Typed, Ordered, Tps
<1>2. /\ tp.links < MaxLinks /\ tp' = [tp EXCEPT !.link = i, !.links = i]
      /\ Makes(<<"up", i>>) /\ UNCHANGED run
  BY DEF LinkUp
<1>3. i \in Links /\ i \in 0 .. MaxLinks /\ i > tp.links
  BY <1>1, <1>2 DEF Links
<1>4. tp' \in Tps /\ tp'.link = i /\ tp'.links = i
  <2> HIDE DEF i
  <2> QED
    BY <1>1, <1>2, <1>3 DEF Tps
<1>5. \A j \in Links : j > i => j > tp.links
  BY <1>1 DEF Links
<1>6. Numbered(tp', run')
  BY <1>1, <1>2, <1>3, <1>4, <1>5 DEF Numbered
<1>7. <<"up", i>> \in Dues /\ \A a : <<"up", i>> # Agent(a)
  BY <1>3, AgentNames
<1> QED
  BY <1>1, <1>2, <1>4, <1>6, <1>7, WorldStep DEF Makes

LEMMA LinkDownKeeps ==
    ASSUME IInv, LinkDown
    PROVE  Proper
<1> DEFINE i == tp.link
           w == [run[i] EXCEPT !.at = "down"]
<1>1. /\ run \in [Agents -> Runs] /\ tp \in Tps /\ Numbered(tp, run)
      /\ i \in 0 .. MaxLinks /\ 0 \in 0 .. MaxLinks
  BY Zero DEF IInv, Typed, Ordered, Tps
<1>2. /\ i # 0 /\ tp' = [tp EXCEPT !.link = 0] /\ run' = [run EXCEPT ![i] = w]
      /\ Makes(Agent(i))
  BY DEF LinkDown
<1>3. i \in Links /\ i \in Agents /\ i = tp.links
  BY <1>1, <1>2, ParticipantsApart DEF Links, Numbered
<1>4. run[i].at = "idle"
  BY <1>1, <1>3 DEF Numbered
<1>5. w \in Runs /\ w.at = "down"
  BY <1>1, <1>3 DEF Runs, Places
<1>6. tp' \in Tps /\ tp'.link = 0 /\ tp'.links = tp.links
  BY <1>1, <1>2 DEF Tps
<1> HIDE DEF w
<1>7. /\ run' \in [Agents -> Runs] /\ run'[i].at = "down"
      /\ \A a \in Agents : a # i => run'[a] = run[a]
  BY <1>1, <1>2, <1>3, <1>5
<1>8. Numbered(tp', run')
  <2> SUFFICES ASSUME NEW j \in Links, j > tp.links \/ j = 0
               PROVE  run'[j].at = "idle"
    BY <1>6 DEF Numbered
  <2>1. j > tp.links /\ j # i /\ j \in Agents
    BY <1>3, ParticipantsApart DEF Links
  <2> QED
    BY <1>1, <1>7, <2>1 DEF Numbered
<1>9. "idle" \in Loose /\ "down" \in Loose
  BY DEF Loose
<1>10. \A a \in Agents : \/ run'[a].at = run[a].at /\ run'[a].obj = run[a].obj
                         \/ run[a].at \in Loose /\ run'[a].at \in Loose
  BY <1>4, <1>7, <1>9
<1>11. \A a \in Agents : Agent(i) = Agent(a) => run[a].at \notin Awaits \cup {"lock"}
  BY <1>4, AgentNames DEF Awaits
<1>12. \A c \in Callers : run'[c].at = "opening" /\ run'[c].res = "none" =>
           /\ run[c].res = "none"
           /\ Agent(i) = Agent(c) => gp.due = << >> /\ ~ClosingTransport
  <2>1. \A c \in Callers : c \in Agents /\ c # i
    BY <1>3, ParticipantsApart
  <2> QED
    BY <1>7, <2>1, AgentNames
<1> QED
  BY <1>2, <1>3, <1>6, <1>7, <1>8, <1>10, <1>11, <1>12, AgentNames, WorldStep DEF Makes

LEMMA ReceiveKeeps ==
    ASSUME IInv, NEW h \in HostTasks, NEW what \in {"supported", "undoing", "unsupported"},
           Receive(h, what)
    PROVE  Proper
<1> DEFINE w == [run[h] EXCEPT !.at = "received", !.fn = what]
<1>1. /\ run \in [Agents -> Runs] /\ tp \in Tps /\ Numbered(tp, run)
      /\ h \in Agents /\ h \notin Links
  BY ParticipantsApart DEF IInv, Typed, Ordered
<1>2. /\ run[h].at = "idle" /\ run' = [run EXCEPT ![h].at = "received", ![h].fn = what]
      /\ Makes(Agent(h)) /\ UNCHANGED tp
  BY DEF Receive
<1>3. w \in Runs /\ w.at = "received"
  BY <1>1 DEF Runs, Fns, Places
<1>4. run' = [run EXCEPT ![h] = w]
  BY <1>1, <1>2
<1> HIDE DEF w
<1>5. /\ run' \in [Agents -> Runs] /\ run'[h].at = "received"
      /\ \A a \in Agents : a # h => run'[a] = run[a]
  BY <1>1, <1>3, <1>4
<1>6. Numbered(tp', run')
  BY <1>1, <1>2, <1>5, ParticipantsApart DEF Numbered
<1>7. "idle" \in Loose /\ "received" \in Loose
  BY DEF Loose
<1>8. \A a \in Agents : \/ run'[a].at = run[a].at /\ run'[a].obj = run[a].obj
                        \/ run[a].at \in Loose /\ run'[a].at \in Loose
  BY <1>2, <1>5, <1>7
<1>9. \A a \in Agents : Agent(h) = Agent(a) => run[a].at \notin Awaits \cup {"lock"}
  BY <1>2, AgentNames DEF Awaits
<1>10. \A c \in Callers : run'[c].at = "opening" /\ run'[c].res = "none" =>
           /\ run[c].res = "none"
           /\ Agent(h) = Agent(c) => gp.due = << >> /\ ~ClosingTransport
  <2>1. \A c \in Callers : c \in Agents /\ c # h
    BY ParticipantsApart
  <2> QED
    BY <1>5, <2>1, AgentNames
<1> QED
  BY <1>1, <1>2, <1>5, <1>6, <1>8, <1>9, <1>10, AgentNames, WorldStep DEF Makes

LEMMA TimeKeeps ==
    ASSUME IInv, NEW i \in Links, Stir(i) \/ HoldoffEnds(i) \/ LoopDies(i)
    PROVE  Proper
<1>1. run \in [Agents -> Runs] /\ tp \in Tps /\ Numbered(tp, run) /\ gp \in Gps
  BY DEF IInv, Typed, Ordered
<1>2. CASE LoopDies(i)
  <2>1. LoopMove
    BY <1>2 DEF IInv, Typed, LoopDies, Loops, LoopMove
  <2>2. Sole(gp, loop', run)
    BY <2>1, SoleAlike DEF IInv, Sole, Stopping
  <2> QED
    BY <1>1, <1>2, <2>1, <2>2 DEF IInv, Typed, LoopDies, LoopMove, Proper, Sober
<1>3. CASE \E k \in {"shake", "ready"} : Makes(<<k, i>>) /\ UNCHANGED <<run, tp>>
  <2>1. PICK k \in {"shake", "ready"} : Makes(<<k, i>>) /\ UNCHANGED <<run, tp>>
    BY <1>3
  <2>2. <<k, i>> \in Dues /\ \A a : <<k, i>> # Agent(a)
    BY AgentNames
  <2> QED
    BY <1>1, <2>1, <2>2, WorldStep DEF Makes
<1> QED
  BY <1>2, <1>3 DEF Stir, HoldoffEnds

-----------------------------------------------------------------------------
(* The theorems.                                                           *)

LEMMA InitHolds ==
    ASSUME Init
    PROVE  IInv
<1>1. /\ 0 \in 0 .. MaxLinks /\ << >> \in Seq(Dues) /\ << >> \in Seq(Agents)
      /\ << >> \in Seq(Callers)
  BY Zero
<1>2. gp \in Gps /\ gp.due = << >>
  BY <1>1 DEF Init, Gps, States
<1>3. lock \in Locks(Callers) /\ lock.waiters = << >> /\ lock.holder = NoTask
  BY <1>1 DEF Init, FreeLock, Locks
<1>4. run \in [Agents -> Runs] /\ \A a \in Agents : run[a].at = "idle"
  BY AsleepRun DEF Init
<1>5. shake \in [Links -> Shakes] /\ \A i \in Links : shake[i].waiters = << >>
  BY <1>1 DEF Init, Shakes
<1>6. ready \in [Links -> Readies] /\ loop \in [Links -> Loops]
  BY DEF Init, Readies, Loops
<1>7. tp \in Tps /\ tp.link = 0
  BY <1>1 DEF Init, Tps
<1>8. Once(gp.due) /\ \A x : ~Due(gp, x)
  BY <1>2 DEF Once, Due
<1>9. Queue(lock, run) /\ Handed(gp, lock, run) /\ Exclusive(lock, run)
  <2>1. \A c \in Callers : run[c].at = "idle" /\ c # NoTask
    BY <1>4, ParticipantsApart
  <2>2. Distinct(lock.waiters) /\ \A u : ~Among(u, lock.waiters)
    BY <1>3 DEF Distinct, Among
  <2>3. "idle" \notin Lockeds
    BY DEF Lockeds
  <2> QED
    BY <1>3, <2>1, <2>2, <2>3 DEF Queue, Handed, Exclusive
<1>10. Awaiting(gp, shake, run)
  BY <1>5 DEF Awaiting, Distinct, Among
<1>11. Numbered(tp, run) /\ Completing(run)
  BY <1>4, <1>7, ParticipantsApart DEF Numbered, Completing
<1>12. Sole(gp, loop, run) /\ Opening(gp, run)
  <2>1. \A i \in Links : loop[i] = "none"
    BY DEF Init
  <2>2. gp.sender = 0
    BY DEF Init
  <2>3. Known(gp, loop) /\ Sendless(gp) /\ NoneRuns(loop)
    BY <2>1, <2>2 DEF Known, Sendless, NoneRuns
  <2>4. Stopping(gp, loop, run) /\ PastLoop(loop, run) /\ Silent(gp, loop, run)
    BY <1>4, <2>2, <2>3 DEF Stopping, PastLoop, Silent, Mute
  <2>5. Closing(gp, run) /\ Opening(gp, run)
    BY <1>4, ParticipantsApart DEF Closing, Closes, Pasts, Opening
  <2> QED
    BY <2>3, <2>4, <2>5 DEF Sole
<1> QED
  BY <1>2, <1>3, <1>4, <1>5, <1>6, <1>7, <1>8, <1>9, <1>10, <1>11, <1>12
     DEF IInv, Typed, Ordered

LEMMA NextKeeps ==
    ASSUME IInv, [Next]_vars
    PROVE  Proper
<1>1. CASE UNCHANGED vars
  BY <1>1 DEF vars, IInv, Typed, Proper, Sober
<1>2. CASE Next
  BY <1>2, RunKeeps, CallKeeps, AnswerKeeps, CutKeeps, LinkUpKeeps, LinkDownKeeps, ReceiveKeeps,
     TimeKeeps DEF Next
<1> QED
  BY <1>1, <1>2

LEMMA Invariance == Spec => []IInv
<1>1. Init => IInv
  BY InitHolds
<1>2. IInv /\ [Next]_vars => IInv'
  BY NextKeeps DEF Proper
<1> QED
  BY <1>1, <1>2, PTL DEF Spec

(* Every field of the runtime, the lock and the report loops keep their    *)
(* types: in particular the state is one the controller documents.         *)
THEOREM TypeCorrect == Spec => []TypeOK
<1>1. IInv => TypeOK
  <2> SUFFICES ASSUME IInv PROVE TypeOK
    OBVIOUS
  <2>1. lock \in Locks(Agents)
    <3>1. lock \in Locks(Callers) /\ Callers \subseteq Agents
      BY ParticipantsApart DEF IInv, Typed
    <3>2. lock.waiters \in Seq(Agents) /\ lock.holder \in Agents \cup {NoTask}
      BY <3>1 DEF Locks
    <3> QED
      BY <3>1, <3>2 DEF Locks
  <2> QED
    BY <2>1 DEF IInv, Typed, TypeOK, Gps, Loops
<1> QED
  BY <1>1, Invariance, PTL

(* open() and close() exclude one another over all their suspensions, and  *)
(* every way out of them gives the lifecycle lock back.                    *)
THEOREM Exclusion == Spec => []LifecycleExclusive
<1>1. IInv => LifecycleExclusive
  BY DEF IInv, Ordered, Exclusive, LifecycleExclusive, InLocked, Lockeds
<1> QED
  BY <1>1, Invariance, PTL

(* At most one report loop runs, and it is the one the runtime knows and   *)
(* would stop: none outlives its connection.                               *)
THEOREM OneLoop == Spec => []OneReportLoop
<1>1. IInv => OneReportLoop
  BY DEF IInv, Sole, Known, OneReportLoop
<1> QED
  BY <1>1, Invariance, PTL

-----------------------------------------------------------------------------
(* Readiness.  A second invariant, of controllers that report periodically *)
(* over a transport that refuses no report while it is open: whatever is   *)
(* on its way to publish the connection of the sender in use was started   *)
(* in a session that the host had made ready by then.                      *)

(* Who completes a handshake is due, or is when the handshake has ended,   *)
(* which has been cancelled and is due.                                    *)
Awoken(s, h, r) ==
    \A a \in Agents : r[a].at = "completing" =>
        \/ Due(s, Agent(a))
        \/ /\ Due(s, <<"shake", r[a].obj>>)
           /\ h[r[a].obj].task = "cancelling" /\ Among(a, h[r[a].obj].waiters)

(* The handshake of a link starts after the link has come up; when it has, *)
(* the event loop goes on with that.                                       *)
Rising(s, h, t) ==
    /\ \A k \in DOMAIN s.due : \A i \in Links : s.due[k] = <<"up", i>> =>
          k = 1 /\ h[i].task = "none" /\ i <= t.links
    /\ \A i \in Links : i > t.links => h[i].task = "none"

(* A readiness wait that was started has its first turn to come.           *)
CreatedDue(s, q) == \A i \in Links : q[i].task = "created" => Due(s, <<"ready", i>>)

(* When the transport has been opened nothing else has been started: what  *)
(* the event loop had to do was done.                                      *)
Emptied(s, q, r) ==
    \A c \in Callers : r[c].at = "opening" /\ r[c].res = "none" /\ Due(s, Agent(c)) =>
        /\ \A i \in Links : q[i].task # "created" /\ ~Due(s, <<"told", i>>)
        /\ \A a \in Agents : r[a].at # "completing"

(* The senders that are known are those that were made.                    *)
Numbers(s, q, r, t) ==
    /\ s.sender <= t.opens
    /\ \A i \in Links : q[i].sender <= t.opens
    /\ \A a \in Agents : r[a].at \in {"queued", "replying"} => r[a].obj <= t.opens

(* The host has made the session ready, if there is a sender at all, which *)
(* it is only when the host has made it so.                                *)
Secure(s) == s.sender = 0 \/ s.initialized
Certain(s) == s.protocolReady => s.initialized

(* What is on its way to publish the connection of the sender in use, or   *)
(* to complete its handshake.                                              *)
PledgeReady(s, q) ==
    \E i \in Links : q[i].task = "created" \/ (q[i].task = "waiting" /\ q[i].sender = s.sender)
PledgeShake(s, h) == \E i \in Links : h[i].task = "ready" /\ Due(s, <<"told", i>>)
PledgeRun(r) ==
    \E a \in Agents : r[a].at = "completing" /\ r[a].res = "ready"
Pledged(s, h, q, r) ==
    PledgeReady(s, q) \/ PledgeShake(s, h) \/ PledgeRun(r) => Secure(s)

RInv ==
    /\ Awoken(gp, shake, run) /\ Rising(gp, shake, tp) /\ CreatedDue(gp, ready)
    /\ Emptied(gp, ready, run) /\ Numbers(gp, ready, run, tp)
    /\ Pledged(gp, shake, ready, run) /\ Certain(gp)
    /\ (gp.open => tp.open)

(* The controllers this is about.                                          *)
Reliable == Reporting \subseteq {"periodic"} /\ {"send", "teardown"} \cap Faults = {}

-----------------------------------------------------------------------------
(* What a turn keeps of what is due.  The runtime is s before the agents   *)
(* are settled, after a turn of x that did nothing for the links: no link  *)
(* comes up, no handshake ends, no sender is made, and the session is one  *)
(* that was made ready unless the sender is gone.                          *)
Tame(x, s) ==
    /\ s \in Gps /\ Once(s.due)
    /\ \A y : Due(gp, y) /\ y # x => Due(s, y)
    /\ \A a \in Agents : Due(s, Agent(a)) =>
          Agent(a) # x /\ (Due(gp, Agent(a)) \/ run[a].at \in Stops \cup Awaits)
    /\ \A i \in Links : ~Due(s, <<"up", i>>)

Meek(s) ==
    /\ \A i \in Links : Due(s, <<"told", i>>) => Due(gp, <<"told", i>>)
    /\ s.sender \in {gp.sender, 0}
    /\ gp.initialized /\ s.sender # 0 => s.initialized
    /\ Certain(s)
    /\ s.open => gp.open

(* The queue of the turn, after the turn.                                  *)
Hushed(x) ==
    /\ \A y : Due(gp, y) /\ y # x => Due(gp', y)
    /\ \A i \in Links : ~Due(gp', <<"up", i>>)
    /\ Calm(gp', run')

(* Agents whose turn it is not stay where they send a reply or complete a  *)
(* handshake, and none gets there.                                         *)
Lasting == {"completing", "queued", "replying"}
Remains(a) == run[a].at = run'[a].at /\ run[a].obj = run'[a].obj /\ run[a].res = run'[a].res
RunsKept(x) == \A a \in Agents : Agent(a) # x /\ run'[a].at \in Lasting => Remains(a)

(* What a turn of x does to the handshakes: it cancels them, or starts one *)
(* whose link is up; the end of one makes due who waits for it.            *)
ShakesKept(x) ==
    \A i \in Links :
        /\ x # <<"shake", i>> =>
              /\ \/ shake'[i].task = shake[i].task
                 \/ ~Ended(shake[i].task) /\ shake'[i].task = "cancelling"
                 \/ shake[i].task = "none" /\ shake'[i].task = "running"
              /\ \A a : Among(a, shake[i].waiters) => Among(a, shake'[i].waiters)
        /\ x = <<"shake", i>> /\ shake[i].task = "cancelling" =>
              \A a : Among(a, shake[i].waiters) => Due(gp', Agent(a))
        /\ shake'[i].task # "none" => shake[i].task # "none" \/ i <= tp.links
        /\ shake'[i].task = "ready" /\ Due(gp', <<"told", i>>) =>
              (shake[i].task = "ready" /\ Due(gp, <<"told", i>>)) \/ Secure(gp')

(* What it does to the readiness waits.                                    *)
ReadyOld(x, i) ==
    /\ x # <<"ready", i>> /\ ready'[i].sender = ready[i].sender
    /\ ready'[i].task = ready[i].task \/ ready'[i].task \notin {"created", "waiting"}
ReadyNew(i) ==
    /\ ready'[i].sender <= tp.opens
    /\ ready'[i].task = "created" => Due(gp', <<"ready", i>>)
    /\ ready'[i].task = "created" \/ (ready'[i].task = "waiting" /\ ready'[i].sender = gp'.sender)
          => Secure(gp')
ReadiesKept(x) == \A i \in Links : ReadyOld(x, i) \/ ReadyNew(i)

(* Where an agent may be after its own turn.                               *)
Pledges(a) ==
    /\ run'[a].at = "completing" =>
          /\ Due(gp', <<"shake", run'[a].obj>>)
          /\ shake'[run'[a].obj].task = "cancelling" /\ Among(a, shake'[run'[a].obj].waiters)
          /\ run'[a].res = "ready" => Secure(gp')
    /\ run'[a].at \in {"queued", "replying"} => run'[a].obj <= tp.opens

TpKept == tp'.links = tp.links /\ tp'.opens = tp.opens /\ (gp'.open => tp'.open)
SenderKept ==
    /\ gp'.sender \in {gp.sender, 0} /\ (gp.initialized /\ gp'.sender # 0 => gp'.initialized)
    /\ Certain(gp')

LEMMA NowTame ==
    ASSUME IInv, RInv, NEW x, Turn(x)
    PROVE  Tame(x, Now) /\ Meek(Now)
<1> DEFINE b == Tail(gp.due)
<1>1. gp \in Gps /\ gp.due \in Seq(Dues) /\ gp.due # << >>
  BY DEF IInv, Typed, Gps, Turn
<1>2. /\ b \in Seq(Dues) /\ Len(b) = Len(gp.due) - 1 /\ Len(gp.due) \in Nat \ {0}
      /\ \A i \in 1 .. Len(b) : b[i] = gp.due[i + 1]
      /\ DOMAIN b = 1 .. Len(b) /\ DOMAIN gp.due = 1 .. Len(gp.due)
  BY <1>1
<1> HIDE DEF b
<1>3. /\ Now.due = b /\ Now.sender = gp.sender /\ Now.open = gp.open
      /\ Now.protocolReady = gp.protocolReady /\ Now.initialized = gp.initialized
  BY <1>1 DEF Gps, Now, b
<1>4. ASSUME NEW y, Due(Now, y) PROVE \E k \in 2 .. Len(gp.due) : gp.due[k] = y
  <2>1. PICK k \in 1 .. Len(b) : b[k] = y
    BY <1>2, <1>3, <1>4 DEF Due
  <2>2. k + 1 \in 2 .. Len(gp.due) /\ gp.due[k + 1] = y
    BY <1>2, <2>1
  <2> QED
    BY <2>2
<1>5. ASSUME NEW y, Due(Now, y) PROVE Due(gp, y)
  <2>1. PICK k \in 2 .. Len(gp.due) : gp.due[k] = y
    BY <1>4, <1>5
  <2> QED
    BY <1>2, <2>1 DEF Due
<1>6. ASSUME NEW i \in Links PROVE ~Due(Now, <<"up", i>>)
  <2> SUFFICES ASSUME Due(Now, <<"up", i>>) PROVE FALSE
    OBVIOUS
  <2>1. PICK k \in 2 .. Len(gp.due) : gp.due[k] = <<"up", i>>
    BY <1>4
  <2>2. Rising(gp, shake, tp)
    BY DEF RInv
  <2>3. k \in DOMAIN gp.due /\ k # 1
    BY <1>2, <2>1
  <2> QED
    BY <2>1, <2>2, <2>3 DEF Rising
<1>7. Certain(Now)
  BY <1>3 DEF RInv, Certain
<1> QED
  BY <1>3, <1>5, <1>6, <1>7, TurnTaken DEF Tame, Meek

(* A change of fields, and a task that is made due, leave it so.           *)
LEMMA TameFields ==
    ASSUME NEW x, NEW s, Tame(x, s), Meek(s), NEW t \in Gps, t.due = s.due,
           t.sender = s.sender \/ t.sender = 0,
           t.sender = 0 \/ (s.initialized => t.initialized), t.open => s.open,
           t.protocolReady => t.initialized \/ (s.protocolReady /\ (s.initialized => t.initialized))
    PROVE  Tame(x, t) /\ Meek(t)
<1>1. \A y : Due(t, y) <=> Due(s, y)
  BY DEF Due
<1>2. Tame(x, t)
  BY <1>1 DEF Tame
<1>3. t.sender \in {gp.sender, 0}
  BY DEF Meek
<1>4. gp.initialized /\ t.sender # 0 => t.initialized
  BY DEF Meek
<1>5. Certain(t)
  BY DEF Meek, Certain
<1> QED
  BY <1>1, <1>2, <1>3, <1>4, <1>5 DEF Meek

LEMMA TamePost ==
    ASSUME NEW x, NEW s, Tame(x, s), Meek(s), NEW k \in {"shake", "ready", "loop"},
           NEW i \in Links
    PROVE  Tame(x, Post(s, <<k, i>>)) /\ Meek(Post(s, <<k, i>>))
<1> DEFINE p == Post(s, <<k, i>>)
<1>1. s \in Gps /\ <<k, i>> \in Dues /\ \A a : <<k, i>> # Agent(a)
  BY AgentNames DEF Tame
<1>2. /\ p \in Gps /\ (\E q \in Seq(Dues) : p = [s EXCEPT !.due = q])
      /\ \A y : Due(p, y) <=> Due(s, y) \/ y = <<k, i>>
      /\ Once(s.due) => Once(p.due)
  BY <1>1, Posted
<1>3. /\ p.sender = s.sender /\ p.open = s.open
      /\ p.protocolReady = s.protocolReady /\ p.initialized = s.initialized
  BY <1>1, <1>2 DEF Gps
<1>4. \A j \in Links : <<"up", j>> # <<k, i>> /\ <<"told", j>> # <<k, i>>
  OBVIOUS
<1> HIDE DEF p
<1>5. Tame(x, p)
  BY <1>1, <1>2, <1>4 DEF Tame
<1>6. Meek(p)
  BY <1>2, <1>3, <1>4 DEF Meek, Certain
<1> QED
  BY <1>5, <1>6 DEF p

(* The agents are settled.                                                 *)
LEMMA SettledTame ==
    ASSUME IInv, IInv', NEW x, Turn(x), NEW s, Tame(x, s), NEW l, NEW r \in [Agents -> Runs],
           Settle(s, l, r), \A a \in Agents : Agent(a) # x => r[a] = run[a]
    PROVE  /\ Hushed(x) /\ (Meek(s) => Meek(gp'))
           /\ RunsKept(x)
           /\ \A a \in Agents : run'[a].at \in Lasting =>
                 /\ run'[a].at = r[a].at /\ run'[a].obj = r[a].obj /\ run'[a].res = r[a].res
           /\ gp'.sender = s.sender /\ gp'.initialized = s.initialized
           /\ gp'.protocolReady = s.protocolReady
           /\ gp'.open = s.open /\ gp'.reporting = s.reporting
           /\ \A y : Due(s, y) => Due(gp', y)
           /\ \A y : Due(gp', y) => Due(s, y) \/ \E a \in Agents : y = Agent(a)
<1>1. lock' = l /\ l \in Locks(Callers) /\ s \in Gps /\ Once(s.due)
  BY SettleRuns DEF IInv, Typed, Tame
<1>2. /\ \E q \in Seq(Dues) : gp' = [s EXCEPT !.due = q]
      /\ \A y : Due(s, y) => Due(gp', y)
      /\ \A a \in Agents : Due(gp', Agent(a)) =>
           \/ Due(s, Agent(a))
           \/ r[a].at \in {"wait ready", "wait link"}
           \/ l.holder = NoTask /\ l.waiters # << >> /\ a = Head(l.waiters)
      /\ \A y : Due(gp', y) => Due(s, y) \/ \E a \in Agents : y = Agent(a)
  BY <1>1, SettleDue
<1>3. \A a \in Agents :
         /\ run'[a].obj = r[a].obj /\ run'[a].res = r[a].res
         /\ \/ run'[a].at = r[a].at
            \/ r[a].at = "wait ready" /\ run'[a].at = "woken"
            \/ r[a].at = "wait link" /\ run'[a].at = "link gone"
  BY SettleRuns
<1>4. /\ gp'.sender = s.sender /\ gp'.initialized = s.initialized
      /\ gp'.protocolReady = s.protocolReady /\ gp'.open = s.open /\ gp'.reporting = s.reporting
  BY <1>1, <1>2 DEF Gps
<1>5. Calm(gp', run')
  <2> SUFFICES ASSUME NEW c \in Callers, run'[c].at = "opening", run'[c].res = "none",
                      Due(gp', Agent(c))
               PROVE  FALSE
    BY DEF Calm
  <2>1. c \in Agents /\ r[c].at = "opening" /\ r[c].res = "none"
    BY <1>3, ParticipantsApart
  <2>2. ~(l.waiters # << >> /\ c = Head(l.waiters))
    <3> SUFFICES ASSUME l.waiters # << >>, c = Head(l.waiters) PROVE FALSE
      OBVIOUS
    <3>1. 1 \in 1 .. Len(l.waiters) /\ Head(l.waiters) = l.waiters[1]
      BY <1>1 DEF Locks
    <3>2. run'[c].at = "lock"
      BY <1>1, <3>1 DEF IInv, Ordered, Queue, Among
    <3> QED
      BY <3>2
  <2>3. Due(s, Agent(c))
    BY <1>2, <2>1, <2>2
  <2>4. CASE Agent(c) = x
    BY <2>1, <2>3, <2>4 DEF Tame
  <2>5. CASE Agent(c) # x
    <3>1. run[c].at = "opening" /\ run[c].res = "none"
      BY <2>1, <2>5
    <3>2. Due(gp, Agent(c))
      BY <2>1, <2>3, <3>1 DEF Tame, Stops, Awaits
    <3> QED
      BY <2>5, <3>1, <3>2, NoneOpens
  <2> QED
    BY <2>4, <2>5
<1>8. \A i \in Links : \A a : <<"up", i>> # Agent(a) /\ <<"told", i>> # Agent(a)
  BY AgentNames
<1>6. Hushed(x)
  BY <1>2, <1>5, <1>8 DEF Tame, Hushed
<1>7. Meek(s) => Meek(gp')
  BY <1>2, <1>4, <1>8 DEF Meek, Certain
<1>9. \A a \in Agents : run'[a].at \in Lasting =>
         run'[a].at = r[a].at /\ run'[a].obj = r[a].obj /\ run'[a].res = r[a].res
  BY <1>3 DEF Lasting
<1>10. RunsKept(x)
  BY <1>9 DEF RunsKept, Remains
<1> QED
  BY <1>2, <1>4, <1>6, <1>7, <1>9, <1>10

(* The turn of x keeps the invariant.                                      *)
LEMMA TurnKeepsReadiness ==
    ASSUME IInv, IInv', RInv, NEW x, Turn(x), Hushed(x), RunsKept(x), ShakesKept(x),
           ReadiesKept(x), TpKept, SenderKept, \A a \in Agents : x = Agent(a) => Pledges(a)
    PROVE  RInv'
<1>1. Secure(gp) => Secure(gp')
  BY DEF SenderKept, Secure
<1>2. Awoken(gp', shake', run')
  <2> SUFFICES ASSUME NEW a \in Agents, run'[a].at = "completing"
               PROVE  \/ Due(gp', Agent(a))
                      \/ /\ Due(gp', <<"shake", run'[a].obj>>)
                         /\ shake'[run'[a].obj].task = "cancelling"
                         /\ Among(a, shake'[run'[a].obj].waiters)
    BY DEF Awoken
  <2>1. CASE x = Agent(a)
    BY <2>1 DEF Pledges
  <2>2. CASE x # Agent(a)
    <3> DEFINE i == run[a].obj
    <3>1. run[a].at = "completing" /\ run'[a].obj = i
      BY <2>2 DEF RunsKept, Lasting, Remains
    <3>2. i \in Links
      BY <3>1 DEF IInv, Ordered, Completing
    <3>3. CASE Due(gp, Agent(a))
      BY <2>2, <3>3 DEF Hushed
    <3>4. CASE /\ Due(gp, <<"shake", i>>)
               /\ shake[i].task = "cancelling" /\ Among(a, shake[i].waiters)
      <4>1. CASE x = <<"shake", i>>
        BY <3>2, <3>4, <4>1 DEF ShakesKept
      <4>2. CASE x # <<"shake", i>>
        BY <3>1, <3>2, <3>4, <4>2 DEF ShakesKept, Hushed
      <4> QED
        BY <4>1, <4>2
    <3> QED
      BY <3>1, <3>3, <3>4 DEF RInv, Awoken
  <2> QED
    BY <2>1, <2>2
<1>3. Rising(gp', shake', tp')
  <2>1. \A k \in DOMAIN gp'.due : \A i \in Links : gp'.due[k] # <<"up", i>>
    BY DEF Hushed, Due
  <2>2. \A i \in Links : i > tp'.links => shake'[i].task = "none"
    <3> SUFFICES ASSUME NEW i \in Links, i > tp.links PROVE shake'[i].task = "none"
      BY DEF TpKept
    <3>1. shake[i].task = "none" /\ ~(i <= tp.links)
      BY DEF RInv, Rising, IInv, Typed, Tps, Links
    <3> QED
      BY <3>1 DEF ShakesKept
  <2> QED
    BY <2>1, <2>2 DEF Rising
<1>4. CreatedDue(gp', ready')
  <2> SUFFICES ASSUME NEW i \in Links, ready'[i].task = "created" PROVE Due(gp', <<"ready", i>>)
    BY DEF CreatedDue
  <2>1. CASE ReadyNew(i)
    BY <2>1 DEF ReadyNew
  <2>2. CASE ReadyOld(x, i)
    BY <2>2 DEF ReadyOld, RInv, CreatedDue, Hushed
  <2> QED
    BY <2>1, <2>2 DEF ReadiesKept
<1>5. Emptied(gp', ready', run')
  BY DEF Emptied, Hushed, Calm
<1>6. Numbers(gp', ready', run', tp')
  <2>1. gp'.sender <= tp.opens
    BY DEF SenderKept, RInv, Numbers, IInv, Typed, Tps
  <2>2. \A i \in Links : ready'[i].sender <= tp.opens
    BY DEF ReadiesKept, ReadyOld, ReadyNew, RInv, Numbers
  <2>3. \A a \in Agents : run'[a].at \in {"queued", "replying"} => run'[a].obj <= tp.opens
    BY DEF RunsKept, Lasting, Remains, Pledges, RInv, Numbers
  <2> QED
    BY <2>1, <2>2, <2>3 DEF Numbers, TpKept
<1>7. PledgeReady(gp', ready') => Secure(gp')
  <2> SUFFICES ASSUME NEW i \in Links, gp'.sender # 0,
                      \/ ready'[i].task = "created"
                      \/ ready'[i].task = "waiting" /\ ready'[i].sender = gp'.sender
               PROVE  Secure(gp')
    BY DEF PledgeReady, Secure
  <2>1. CASE ReadyNew(i)
    BY <2>1 DEF ReadyNew
  <2>2. CASE ReadyOld(x, i)
    <3>1. \/ ready[i].task = "created"
          \/ ready[i].task = "waiting" /\ ready[i].sender = gp.sender
      BY <2>2 DEF ReadyOld, SenderKept
    <3> QED
      BY <1>1, <3>1 DEF RInv, Pledged, PledgeReady
  <2> QED
    BY <2>1, <2>2 DEF ReadiesKept
<1>8. PledgeShake(gp', shake') => Secure(gp')
  BY <1>1 DEF PledgeShake, ShakesKept, RInv, Pledged
<1>9. PledgeRun(run') => Secure(gp')
  <2> SUFFICES ASSUME NEW a \in Agents, gp'.sender # 0,
                      run'[a].at = "completing" /\ run'[a].res = "ready"
               PROVE  Secure(gp')
    BY DEF PledgeRun, Secure
  <2>1. CASE x = Agent(a)
    BY <2>1 DEF Pledges
  <2>2. CASE x # Agent(a)
    <3>1. run[a].at = "completing" /\ run[a].res = "ready"
      BY <2>2 DEF RunsKept, Lasting, Remains
    <3> QED
      BY <1>1, <3>1 DEF RInv, Pledged, PledgeRun
  <2> QED
    BY <2>1, <2>2
<1> QED
  BY <1>2, <1>3, <1>4, <1>5, <1>6, <1>7, <1>8, <1>9 DEF RInv, Pledged, TpKept, SenderKept

-----------------------------------------------------------------------------
(* The turn of an agent that does not handle an output report: it starts   *)
(* nothing that could publish, and only stops what was started.            *)
InTurn(a) == IInv /\ IInv' /\ RInv /\ a \in Agents /\ Turn(Agent(a))

Tamed(a, s) == Tame(Agent(a), s) /\ Meek(s)

(* The runtime t is s but for fields that readiness does not depend on, or *)
(* has lost the sender.                                                    *)
Milder(t, s) ==
    /\ t \in Gps /\ t.due = s.due
    /\ t.sender = s.sender \/ t.sender = 0
    /\ t.sender = 0 \/ t.initialized = s.initialized
    /\ t.protocolReady => s.protocolReady /\ t.initialized = s.initialized
    /\ t.open => s.open

LEMMA MilderTamed ==
    ASSUME NEW a, NEW s, Tamed(a, s), NEW t, Milder(t, s)
    PROVE  Tamed(a, t)
<1>1. t \in Gps
  BY DEF Milder
<1> QED
  BY <1>1, TameFields DEF Tamed, Milder

LEMMA PostTamed ==
    ASSUME NEW a, NEW s, Tamed(a, s), NEW k \in {"shake", "ready", "loop"}, NEW i \in Links
    PROVE  Tamed(a, Post(s, <<k, i>>))
BY TamePost DEF Tamed

Hush(a) == Hushed(Agent(a)) /\ RunsKept(Agent(a)) /\ Meek(gp') /\ run'[a].at \notin Lasting

LEMMA SuspendHush ==
    ASSUME NEW a, InTurn(a), NEW s, Tamed(a, s), NEW w \in Runs, w.at \notin Lasting, NEW l,
           Suspend(a, w, s, l)
    PROVE  Hush(a)
<1> DEFINE r == [run EXCEPT ![a] = w]
<1>1. run \in [Agents -> Runs] /\ a \in Agents
  BY DEF IInv, Typed, InTurn
<1>2. r \in [Agents -> Runs] /\ r[a] = w /\ \A b \in Agents : b # a => r[b] = run[b]
  BY <1>1
<1>3. Settle(s, l, r)
  BY DEF Suspend
<1> HIDE DEF r
<1>4. \A b \in Agents : Agent(b) # Agent(a) => r[b] = run[b]
  BY <1>2
<1>5. /\ Hushed(Agent(a)) /\ (Meek(s) => Meek(gp')) /\ RunsKept(Agent(a))
      /\ \A b \in Agents : run'[b].at \in Lasting => run'[b].at = r[b].at
  BY <1>2, <1>3, <1>4, SettledTame DEF InTurn, Tamed
<1> QED
  BY <1>1, <1>2, <1>5 DEF Hush, Tamed

LEMMA AtHush ==
    ASSUME NEW a, InTurn(a), NEW s, Tamed(a, s), NEW w \in Runs, NEW i \in Nat,
           NEW there \in Places \ Lasting, NEW l, At(there, i, a, w, s, l)
    PROVE  Hush(a)
<1> DEFINE v == [w EXCEPT !.at = there, !.obj = i]
<1>1. v \in Runs /\ v.at = there
  BY DEF Runs
<1>2. Suspend(a, v, s, l)
  BY DEF At
<1> HIDE DEF v
<1> QED
  BY <1>1, <1>2, SuspendHush

LEMMA ReturnHush ==
    ASSUME NEW a, InTurn(a), NEW s, Tamed(a, s), NEW res \in Results, NEW l, Return(a, res, s, l)
    PROVE  Hush(a)
<1> DEFINE v == [Asleep EXCEPT !.res = res]
<1>1. v \in Runs /\ v.at = "idle"
  BY Idle
<1>2. Suspend(a, v, s, l)
  BY DEF Return
<1> HIDE DEF v
<1> QED
  BY <1>1, <1>2, SuspendHush DEF Lasting

LEMMA RaiseHush ==
    ASSUME NEW a, InTurn(a), NEW s, Tamed(a, s), NEW w \in Runs, NEW l, Raise(a, w, s, l)
    PROVE  Hush(a)
<1> DEFINE t == [s EXCEPT !.disconnected = TRUE]
           u == [s EXCEPT !.closing = FALSE]
<1>1. Milder(t, s) /\ Milder(u, s)
  BY DEF Tamed, Tame, Milder, Gps
<1>2. At("aborted", 0, a, w, t, l) \/ Return(a, "error", u, Released(l))
  BY DEF Raise
<1> HIDE DEF t, u
<1>3. Tamed(a, t) /\ Tamed(a, u)
  BY <1>1, MilderTamed
<1>4. "aborted" \in Places \ Lasting /\ "error" \in Results
  BY DEF Places, Lasting, Results
<1> QED
  BY <1>2, <1>3, <1>4, AtHush, ReturnHush

LEMMA TasksStoppedHush ==
    ASSUME NEW a, InTurn(a), NEW s, Tamed(a, s), NEW w \in Runs, NEW l, TasksStopped(a, w, s, l)
    PROVE  Hush(a)
<1> DEFINE n == [s EXCEPT !.disconnected = FALSE]
           released == [s EXCEPT !.loop = 0, !.sender = 0]
           over == [released EXCEPT !.disconnected = TRUE]
           closed == [over EXCEPT !.state = "closed"]
<1>1. s \in Gps /\ 0 \in 0 .. MaxLinks
  BY Zero DEF Tamed, Tame
<1>2. Milder(n, s) /\ Milder(released, s)
  BY <1>1 DEF Milder, Gps
<1>3. Milder(over, s) /\ Milder(closed, s)
  BY <1>1 DEF Milder, Gps, States
<1>4. \/ At("request", 0, a, w, n, l)
      \/ At("handled", 0, a, w, over, l)
      \/ At("down closing", 0, a, w, released, l)
      \/ At("handled", 0, a, w, closed, l)
  BY DEF TasksStopped, Unlinked
<1> HIDE DEF n, released, over, closed
<1>5. Tamed(a, n) /\ Tamed(a, released) /\ Tamed(a, over) /\ Tamed(a, closed)
  BY <1>2, <1>3, MilderTamed
<1>6. {"request", "handled", "down closing"} \subseteq Places \ Lasting
  BY DEF Places, Lockeds, Lasting
<1> QED
  BY <1>4, <1>5, <1>6, AtHush

LEMMA StopLoopHush ==
    ASSUME NEW a, InTurn(a), NEW s, Tamed(a, s), NEW w \in Runs, NEW l, StopLoop(a, w, s, l)
    PROVE  Hush(a)
<1> DEFINE i == s.loop
<1>1. i \in Nat /\ (i # 0 => i \in Links)
  BY GpFields, Zero DEF Tamed, Tame
<1>2. \/ TasksStopped(a, w, s, l)
      \/ i # 0 /\ At("stop loop", i, a, w, Post(s, <<"loop", i>>), l)
      \/ Raise(a, w, s, l)
  BY DEF StopLoop
<1> HIDE DEF i
<1>3. "stop loop" \in Places \ Lasting
  BY DEF Places, Lockeds, Lasting
<1>4. i # 0 => Tamed(a, Post(s, <<"loop", i>>))
  BY <1>1, PostTamed
<1> QED
  BY <1>1, <1>2, <1>3, <1>4, AtHush, RaiseHush, TasksStoppedHush

(* The readiness waits may only have been cancelled, and the handshakes.   *)
ReadyStill ==
    \A i \in Links :
        /\ ready'[i].sender = ready[i].sender
        /\ ready'[i].task = ready[i].task \/ ready'[i].task \notin {"created", "waiting"}
ShakeStill ==
    \A i \in Links :
        /\ \/ shake'[i].task = shake[i].task
           \/ ~Ended(shake[i].task) /\ shake'[i].task = "cancelling"
        /\ \A a : Among(a, shake[i].waiters) => Among(a, shake'[i].waiters)

LEMMA StillKept ==
    /\ UNCHANGED ready => ReadyStill
    /\ UNCHANGED shake => ShakeStill
BY DEF ReadyStill, ShakeStill

LEMMA ReadyCancelled ==
    ASSUME IInv, NEW i \in Links, ready' = [ready EXCEPT ![i].task = "cancelling"]
    PROVE  ReadyStill
BY DEF ReadyStill, IInv, Typed, Readies

LEMMA StopReadyHush ==
    ASSUME NEW a, InTurn(a), NEW s, Tamed(a, s), NEW w \in Runs, NEW l, StopReady(a, w, s, l)
    PROVE  Hush(a) /\ ReadyStill
<1> DEFINE i == s.ready
           n == [s EXCEPT !.ready = 0]
<1>1. i \in Nat /\ (i # 0 => i \in Links) /\ s \in Gps
  BY GpFields, Zero DEF Tamed, Tame
<1>2. \/ UNCHANGED ready /\ StopLoop(a, w, n, l)
      \/ /\ i # 0 /\ ready' = [ready EXCEPT ![i].task = "cancelling"]
         /\ At("stop ready", i, a, w, Post(n, <<"ready", i>>), l)
      \/ UNCHANGED ready /\ Raise(a, w, n, l)
  BY DEF StopReady
<1>3. Milder(n, s)
  BY <1>1, Zero DEF Milder, Gps
<1> HIDE DEF i, n
<1>4. Tamed(a, n)
  BY <1>3, MilderTamed
<1>5. i # 0 => Tamed(a, Post(n, <<"ready", i>>))
  BY <1>1, <1>4, PostTamed
<1>6. "stop ready" \in Places \ Lasting
  BY DEF Places, Lockeds, Lasting
<1>7. CASE UNCHANGED ready /\ (StopLoop(a, w, n, l) \/ Raise(a, w, n, l))
  BY <1>4, <1>7, StopLoopHush, RaiseHush, StillKept
<1>8. CASE /\ i # 0 /\ ready' = [ready EXCEPT ![i].task = "cancelling"]
           /\ At("stop ready", i, a, w, Post(n, <<"ready", i>>), l)
  BY <1>1, <1>5, <1>6, <1>8, AtHush, ReadyCancelled DEF InTurn
<1> QED
  BY <1>2, <1>7, <1>8

LEMMA StoppedStill ==
    ASSUME IInv, NEW i \in Links, NEW a \in Agents, shake' = StoppedShake(i, a)
    PROVE  /\ ShakeStill
           /\ ~Ended(shake[i].task) =>
                 shake'[i].task = "cancelling" /\ Among(a, shake'[i].waiters)
<1> DEFINE q == shake[i].waiters
           o == Append(q, a)
<1>1. shake \in [Links -> Shakes] /\ shake[i] \in Shakes /\ q \in Seq(Agents)
  BY DEF IInv, Typed, Shakes
<1>2. /\ Len(o) = Len(q) + 1 /\ Len(q) \in Nat /\ o[Len(q) + 1] = a
      /\ \A k \in 1 .. Len(q) : o[k] = q[k]
  BY <1>1
<1>3. Among(a, o) /\ \A b : Among(b, q) => Among(b, o)
  BY <1>2 DEF Among
<1>4. /\ Ended(shake[i].task) =>
            shake'[i].task = shake[i].task /\ shake'[i].waiters = q
      /\ ~Ended(shake[i].task) =>
            shake'[i].task = "cancelling" /\ shake'[i].waiters = o
      /\ \A j \in Links : j # i => shake'[j] = shake[j]
  <2> HIDE DEF q, o
  <2>1. CASE Ended(shake[i].task)
    BY <1>1, <2>1 DEF StoppedShake, Shakes, q
  <2>2. CASE ~Ended(shake[i].task)
    <3>1. shake' = [shake EXCEPT ![i] = [shake[i] EXCEPT !.stopped = TRUE, !.task = "cancelling",
                                                         !.waiters = o]]
      BY <2>2 DEF StoppedShake, o, q
    <3> QED
      BY <1>1, <2>2, <3>1 DEF Shakes
  <2> QED
    BY <2>1, <2>2
<1> QED
  BY <1>3, <1>4 DEF ShakeStill

LEMMA StopShakeHush ==
    ASSUME NEW a, InTurn(a), NEW s, Tamed(a, s), NEW w \in Runs, NEW l, StopShake(a, w, s, l)
    PROVE  Hush(a) /\ ReadyStill /\ ShakeStill
<1> DEFINE i == s.shake
           n == [s EXCEPT !.shake = 0]
<1>1. i \in Nat /\ (i # 0 => i \in Links) /\ s \in Gps
  BY GpFields, Zero DEF Tamed, Tame
<1>2. \/ UNCHANGED shake /\ StopReady(a, w, n, l)
      \/ i # 0 /\ shake' = StoppedShake(i, a) /\ StopReady(a, w, n, l)
      \/ /\ i # 0 /\ shake' = StoppedShake(i, a) /\ UNCHANGED ready
         /\ At("stop shake", i, a, w, Post(n, <<"shake", i>>), l)
  BY DEF StopShake
<1>3. Milder(n, s)
  BY <1>1, Zero DEF Milder, Gps
<1> HIDE DEF i, n
<1>4. Tamed(a, n)
  BY <1>3, MilderTamed
<1>5. i # 0 => Tamed(a, Post(n, <<"shake", i>>))
  BY <1>1, <1>4, PostTamed
<1>6. "stop shake" \in Places \ Lasting
  BY DEF Places, Lockeds, Lasting
<1>7. i # 0 /\ shake' = StoppedShake(i, a) => ShakeStill
  BY <1>1, StoppedStill DEF InTurn
<1> QED
  BY <1>1, <1>2, <1>4, <1>5, <1>6, <1>7, AtHush, StopReadyHush, StillKept

(* An agent that only stops keeps the invariant.                           *)
LEMMA HushTurn ==
    ASSUME NEW a, InTurn(a), Hush(a), ShakeStill, ReadyStill, TpKept
    PROVE  RInv'
<1>1. ShakesKept(Agent(a))
  <2>1. \A i \in Links : Agent(a) # <<"shake", i>>
    BY AgentNames DEF InTurn
  <2> SUFFICES ASSUME NEW i \in Links
               PROVE  /\ \/ shake'[i].task = shake[i].task
                         \/ ~Ended(shake[i].task) /\ shake'[i].task = "cancelling"
                      /\ \A b : Among(b, shake[i].waiters) => Among(b, shake'[i].waiters)
                      /\ shake'[i].task # "none" => shake[i].task # "none" \/ i <= tp.links
                      /\ shake'[i].task = "ready" /\ Due(gp', <<"told", i>>) =>
                            shake[i].task = "ready" /\ Due(gp, <<"told", i>>)
    BY <2>1 DEF ShakesKept
  <2> QED
    BY DEF ShakeStill, Hush, Meek, Ended
<1>2. ReadiesKept(Agent(a))
  <2>1. \A i \in Links : Agent(a) # <<"ready", i>>
    BY AgentNames DEF InTurn
  <2> QED
    BY <2>1 DEF ReadiesKept, ReadyOld, ReadyStill
<1>3. SenderKept
  BY DEF Hush, Meek, SenderKept
<1>4. \A b \in Agents : Agent(a) = Agent(b) => Pledges(b)
  <2>1. \A b \in Agents : Agent(a) = Agent(b) => a = b
    BY AgentNames
  <2> QED
    BY <2>1 DEF Hush, Pledges, Lasting
<1> QED
  BY <1>1, <1>2, <1>3, <1>4, TurnKeepsReadiness DEF InTurn, Hush

-----------------------------------------------------------------------------
(* The turns of callers and of the callbacks of a link.                    *)

LEMMA AgentStart ==
    ASSUME IInv, IInv', RInv, NEW a \in Agents, Turn(Agent(a))
    PROVE  /\ InTurn(a) /\ Tamed(a, Now) /\ run[a] \in Runs
           /\ Now \in Gps /\ Now.open = gp.open /\ Now.sender = gp.sender
BY NowTame, NowIsGp DEF InTurn, Tamed, Tame, IInv, Typed

LEMMA QuietTurn ==
    ASSUME NEW a, InTurn(a), Hush(a), ShakeStill, ReadyStill, UNCHANGED tp
    PROVE  RInv'
<1>1. TpKept
  BY DEF TpKept, Hush, Meek, InTurn, RInv
<1> QED
  BY <1>1, HushTurn

LEMMA QuietTasks ==
    ASSUME NEW a, InTurn(a), Hush(a), UNCHANGED <<tasks, tp>>
    PROVE  RInv'
BY QuietTurn, StillKept DEF tasks

(* An attempt that starts over the transport that is there.                *)
LEMMA ConnectQuiet ==
    ASSUME NEW c, InTurn(c), NEW s, Tamed(c, s), NEW w \in Runs, NEW l, Connect(c, w, s, l, tp)
    PROVE  RInv'
<1> DEFINE n == [s EXCEPT !.connected = FALSE, !.attempt = FALSE,
                          !.state = IF w.fn = "pair" THEN "advertising" ELSE "reconnecting"]
<1>1. Milder(n, s)
  BY DEF Tamed, Tame, Milder, Gps, States
<1>2. At("connecting", 0, c, w, n, l) /\ UNCHANGED tasks /\ tp' = [tp EXCEPT !.visible = tp.open]
  BY DEF Connect
<1> HIDE DEF n
<1>3. Hush(c)
  <2>1. Tamed(c, n) /\ "connecting" \in Places \ Lasting /\ 0 \in Nat
    BY <1>1, MilderTamed DEF Places, Lasting
  <2> QED
    BY <1>2, <2>1, AtHush
<1>4. TpKept
  BY <1>2, <1>3 DEF TpKept, Hush, Meek, InTurn, RInv, IInv, Typed, Tps
<1> QED
  BY <1>2, <1>3, <1>4, HushTurn, StillKept DEF tasks

LEMMA OpenedQuiet ==
    ASSUME NEW c, InTurn(c), NEW s, Tamed(c, s), NEW w \in Runs, NEW l, Opened(c, w, s, l, tp)
    PROVE  RInv'
<1>1. CASE Connect(c, w, s, l, tp)
  BY <1>1, ConnectQuiet
<1>2. CASE tp' = tp /\ UNCHANGED tasks /\ (Return(c, "ok", s, l) \/ At("peer", 0, c, w, s, l))
  <2>1. "peer" \in Places \ Lasting /\ "ok" \in Results /\ 0 \in Nat
    BY DEF Places, Lasting, Results
  <2> QED
    BY <1>2, <2>1, AtHush, ReturnHush, QuietTasks
<1> QED
  BY <1>1, <1>2 DEF Opened

(* open() clears a session nobody has a sender of.                         *)
LEMMA OpenLockedQuiet ==
    ASSUME NEW c, InTurn(c), NEW s, Tamed(c, s), s.open = gp.open, s.sender = gp.sender,
           NEW w \in Runs, NEW l, OpenLocked(c, w, s, l)
    PROVE  RInv'
<1>1. CASE s.open /\ Opened(c, w, s, Released(l), tp)
  BY <1>1, OpenedQuiet
<1>2. CASE ~s.open /\ UNCHANGED <<tasks, tp>>
           /\ At("opening", 0, c, w,
                 [s EXCEPT !.state = "opening", !.protocolReady = FALSE,
                           !.initialized = FALSE, !.connected = FALSE, !.attempt = FALSE], l)
  <2> DEFINE n == [s EXCEPT !.state = "opening", !.protocolReady = FALSE,
                            !.initialized = FALSE, !.connected = FALSE, !.attempt = FALSE]
  <2>1. s.sender = 0
    BY <1>2 DEF InTurn, IInv, Sole, Sendless
  <2>2. Milder(n, s)
    BY <2>1 DEF Tamed, Tame, Milder, Gps, States
  <2> HIDE DEF n
  <2>3. Tamed(c, n) /\ "opening" \in Places \ Lasting /\ 0 \in Nat
    BY <2>2, MilderTamed DEF Places, Lockeds, Lasting
  <2> QED
    BY <1>2, <2>3, AtHush, QuietTasks DEF n
<1> QED
  BY <1>1, <1>2 DEF OpenLocked

LEMMA CloseLockedQuiet ==
    ASSUME NEW c, InTurn(c), NEW s, Tamed(c, s), NEW w \in Runs, NEW l, CloseLocked(c, w, s, l)
    PROVE  RInv'
<1> DEFINE n == [s EXCEPT !.closing = TRUE, !.state = "disconnecting"]
<1>1. Milder(n, s)
  BY DEF Tamed, Tame, Milder, Gps, States
<1>2. /\ UNCHANGED tp
      /\ \/ UNCHANGED tasks /\ Return(c, w.res, s, Released(l))
         \/ UNCHANGED tasks /\ At("neutral", 0, c, w, n, l)
         \/ StopShake(c, w, n, l)
  BY DEF CloseLocked
<1> HIDE DEF n
<1>3. Tamed(c, n) /\ "neutral" \in Places \ Lasting /\ w.res \in Results /\ 0 \in Nat
  BY <1>1, MilderTamed DEF Places, Lockeds, Lasting, Runs
<1>4. CASE UNCHANGED tasks /\ Return(c, w.res, s, Released(l))
  BY <1>2, <1>3, <1>4, ReturnHush, QuietTasks
<1>5. CASE UNCHANGED tasks /\ At("neutral", 0, c, w, n, l)
  BY <1>2, <1>3, <1>5, AtHush, QuietTasks
<1>6. CASE StopShake(c, w, n, l)
  BY <1>2, <1>3, <1>6, StopShakeHush, QuietTurn
<1> QED
  BY <1>2, <1>4, <1>5, <1>6

LEMMA LockedQuiet ==
    ASSUME NEW c, InTurn(c), NEW s, Tamed(c, s), s.open = gp.open, s.sender = gp.sender,
           NEW w \in Runs, NEW l, Locked(c, w, s, l)
    PROVE  RInv'
BY OpenLockedQuiet, CloseLockedQuiet DEF Locked

LEMMA AskForLockQuiet ==
    ASSUME NEW c, InTurn(c), NEW s, Tamed(c, s), s.open = gp.open, s.sender = gp.sender,
           NEW w \in Runs, AskForLock(c, w, s)
    PROVE  RInv'
<1>1. CASE UNCHANGED <<tasks, tp>> /\ At("lock", 0, c, w, s, Queued(lock, c))
  <2>1. "lock" \in Places \ Lasting /\ 0 \in Nat
    BY DEF Places, Lasting
  <2> QED
    BY <1>1, <2>1, AtHush, QuietTasks
<1>2. CASE Locked(c, w, s, Taken(lock, c))
  BY <1>2, LockedQuiet
<1> QED
  BY <1>1, <1>2 DEF AskForLock

LEMMA GivesUpQuiet ==
    ASSUME NEW c, InTurn(c), Tamed(c, Now), Now.open = gp.open, Now.sender = gp.sender,
           NEW res \in Results, GivesUp(c, res)
    PROVE  RInv'
<1> DEFINE w == [run[c] EXCEPT !.body = "close", !.res = res]
<1>1. w \in Runs
  BY DEF InTurn, IInv, Typed, Runs
<1>2. AskForLock(c, w, Now)
  BY DEF GivesUp
<1> HIDE DEF w
<1> QED
  BY <1>1, <1>2, AskForLockQuiet

LEMMA FinishesQuiet ==
    ASSUME NEW c, InTurn(c), NEW s, Tamed(c, s), NEW res \in Results, Finishes(c, res, s)
    PROVE  RInv'
BY ReturnHush, QuietTasks DEF Finishes

LEMMA DecidedQuiet ==
    ASSUME NEW c, InTurn(c), Tamed(c, Now), Now.open = gp.open, Now.sender = gp.sender, Decided(c)
    PROVE  RInv'
<1>1. "ok" \in Results /\ "failed" \in Results
  BY DEF Results
<1> QED
  BY <1>1, FinishesQuiet, GivesUpQuiet DEF Decided

(* The transport is open and has a new sender: nothing that was on its way *)
(* is left, and nothing knows the sender yet.                              *)
LEMMA NewSender ==
    ASSUME NEW c, InTurn(c), c \in Callers, run[c].at = "opening", run[c].res = "none",
           NEW s, Tame(Agent(c), s), Certain(s), s.sender = tp.opens + 1,
           \A i \in Links : Due(s, <<"told", i>>) => Due(gp, <<"told", i>>),
           NEW w \in Runs, w.at \notin Lasting, NEW l, Suspend(c, w, s, l), UNCHANGED tasks,
           tp'.opens = tp.opens + 1, tp'.links = tp.links, tp'.open
    PROVE  RInv'
<1> DEFINE r == [run EXCEPT ![c] = w]
<1>1. /\ run \in [Agents -> Runs] /\ c \in Agents /\ ready \in [Links -> Readies]
      /\ tp \in Tps /\ Due(gp, Agent(c))
  BY TurnTaken DEF IInv, Typed, InTurn
<1>2. r \in [Agents -> Runs] /\ r[c] = w /\ \A b \in Agents : b # c => r[b] = run[b]
  BY <1>1
<1>3. Settle(s, l, r)
  BY DEF Suspend
<1> HIDE DEF r
<1>4. \A b \in Agents : Agent(b) # Agent(c) => r[b] = run[b]
  BY <1>2
<1>5. /\ Hushed(Agent(c)) /\ RunsKept(Agent(c))
      /\ \A b \in Agents : run'[b].at \in Lasting => run'[b].at = r[b].at
      /\ gp'.sender = s.sender /\ Certain(gp')
      /\ \A y : Due(gp', y) => Due(s, y) \/ \E b \in Agents : y = Agent(b)
  BY <1>2, <1>3, <1>4, SettledTame DEF InTurn, Certain
<1>6. /\ \A i \in Links : ready[i].task # "created" /\ ~Due(gp, <<"told", i>>)
      /\ \A b \in Agents : run[b].at # "completing"
  BY <1>1 DEF InTurn, RInv, Emptied
<1>7. ready' = ready /\ shake' = shake
  BY DEF tasks
<1>8. \A b \in Agents : run'[b].at \in Lasting => Remains(b)
  BY <1>1, <1>2, <1>5, AgentNames DEF RunsKept
<1>9. \A b \in Agents : run'[b].at # "completing"
  BY <1>6, <1>8 DEF Lasting, Remains
<1>10. Awoken(gp', shake', run')
  BY <1>9 DEF Awoken
<1>11. Rising(gp', shake', tp')
  BY <1>5, <1>7 DEF Rising, Hushed, Due, InTurn, RInv
<1>12. CreatedDue(gp', ready')
  BY <1>6, <1>7 DEF CreatedDue
<1>13. Emptied(gp', ready', run')
  BY <1>5 DEF Emptied, Hushed, Calm
<1>14. \A b \in Agents : run'[b].at \in {"queued", "replying"} =>
          run'[b].obj \in Nat /\ run'[b].obj <= tp.opens
  BY <1>1, <1>8 DEF Remains, Lasting, InTurn, RInv, Numbers, Runs
<1>15. \A i \in Links : ready[i].sender \in Nat /\ ready[i].sender <= tp.opens
  BY <1>1 DEF Readies, InTurn, RInv, Numbers
<1>16. tp.opens \in Nat /\ gp'.sender = tp.opens + 1
  BY <1>1, <1>5 DEF Tps
<1>17. Numbers(gp', ready', run', tp')
  BY <1>7, <1>14, <1>15, <1>16 DEF Numbers
<1>18. ~PledgeReady(gp', ready')
  <2>1. ASSUME NEW i \in Links PROVE ready[i].task # "created" /\ ready[i].sender # gp'.sender
    <3>1. ready[i].sender \in Nat /\ ready[i].sender <= tp.opens
      BY <1>15
    <3>2. ready[i].sender # gp'.sender
      BY <1>16, <3>1
    <3> QED
      BY <1>6, <3>2
  <2> QED
    BY <1>7, <2>1 DEF PledgeReady
<1>19. ~PledgeShake(gp', shake')
  <2>1. \A i \in Links : \A b : <<"told", i>> # Agent(b)
    BY AgentNames
  <2> QED
    BY <1>5, <1>6, <2>1 DEF PledgeShake
<1>20. ~PledgeRun(run')
  BY <1>9 DEF PledgeRun
<1> QED
  BY <1>5, <1>10, <1>11, <1>12, <1>13, <1>17, <1>18, <1>19, <1>20 DEF RInv, Pledged

LEMMA OpenAnsweredQuiet ==
    ASSUME IInv, IInv', RInv, NEW c \in Callers, Turn(Agent(c)), OpenAnswered(c)
    PROVE  RInv'
<1> DEFINE x == [tp EXCEPT !.open = TRUE, !.opens = @ + 1]
           s == [Now EXCEPT !.state = "opened", !.open = TRUE, !.sender = x.opens]
           f == [Now EXCEPT !.state = "failed"]
           w == run[c]
<1>1. /\ InTurn(c) /\ Tamed(c, Now) /\ w \in Runs /\ w.at = "opening"
      /\ Now \in Gps /\ tp \in Tps /\ 0 \in Nat
  BY AgentStart, ParticipantsApart DEF OpenAnswered, IInv, Typed
<1>2. x.opens = tp.opens + 1 /\ x.links = tp.links /\ x.open /\ tp.opens + 1 \in Nat
  BY <1>1 DEF Tps
<1>3. \/ w.res = "none" /\ Opened(c, w, s, Released(lock), x)
      \/ At("open closing", 0, c, w, f, lock) /\ UNCHANGED <<tasks, tp>>
      \/ /\ Return(c, "cancelled", Now, Released(lock)) /\ UNCHANGED tasks
         /\ \E opened \in BOOLEAN : tp' = [tp EXCEPT !.open = opened \/ @]
  BY DEF OpenAnswered
<1>4. s \in Gps /\ s.due = Now.due /\ s.sender = tp.opens + 1 /\ Certain(s)
  BY <1>1, <1>2 DEF Gps, States, Certain, Tamed, Meek
<1>5. Milder(f, Now)
  BY <1>1 DEF Milder, Gps, States
<1>6. {"connecting", "peer", "open closing"} \subseteq Places \ Lasting
  BY DEF Places, Lockeds, Lasting
<1> HIDE DEF x, s, f
<1>7. /\ Tame(Agent(c), s)
      /\ \A i \in Links : Due(s, <<"told", i>>) => Due(gp, <<"told", i>>)
  <2>1. \A y : Due(s, y) <=> Due(Now, y)
    BY <1>4 DEF Due
  <2>2. Tame(Agent(c), s)
    BY <1>1, <1>4, <2>1 DEF Tamed, Tame
  <2> QED
    BY <1>1, <2>1, <2>2 DEF Tamed, Meek
<1>8. CASE w.res = "none" /\ Opened(c, w, s, Released(lock), x)
  <2>1. CASE tp' = x /\ UNCHANGED tasks /\ Return(c, "ok", s, Released(lock))
    <3> DEFINE v == [Asleep EXCEPT !.res = "ok"]
    <3>1. v \in Runs /\ v.at \notin Lasting
      BY Idle DEF Results, Lasting
    <3>2. Suspend(c, v, s, Released(lock))
      BY <2>1 DEF Return
    <3> HIDE DEF v
    <3> QED
      BY <1>1, <1>2, <1>4, <1>7, <1>8, <2>1, <3>1, <3>2, NewSender
  <2>2. CASE tp' = x /\ UNCHANGED tasks /\ At("peer", 0, c, w, s, Released(lock))
    <3> DEFINE v == [w EXCEPT !.at = "peer", !.obj = 0]
    <3>1. v \in Runs /\ v.at \notin Lasting
      BY <1>1, <1>6 DEF Lasting, Runs
    <3>2. Suspend(c, v, s, Released(lock))
      BY <2>2 DEF At
    <3> HIDE DEF v
    <3> QED
      BY <1>1, <1>2, <1>4, <1>7, <1>8, <2>2, <3>1, <3>2, NewSender
  <2>3. CASE Connect(c, w, s, Released(lock), x)
    <3> DEFINE v == [w EXCEPT !.at = "connecting", !.obj = 0]
               n == [s EXCEPT !.connected = FALSE, !.attempt = FALSE,
                              !.state = IF w.fn = "pair" THEN "advertising" ELSE "reconnecting"]
    <3>1. v \in Runs /\ v.at \notin Lasting
      BY <1>1, <1>6 DEF Lasting, Runs
    <3>2. n \in Gps /\ n.due = s.due /\ n.sender = s.sender /\ Certain(n)
      BY <1>4 DEF Gps, States, Certain
    <3>3. /\ Suspend(c, v, n, Released(lock)) /\ UNCHANGED tasks
          /\ tp' = [x EXCEPT !.visible = x.open]
      BY <2>3 DEF Connect, At
    <3>4. tp'.opens = tp.opens + 1 /\ tp'.links = tp.links /\ tp'.open
      BY <1>1, <1>2, <3>3 DEF x, Tps
    <3> HIDE DEF v, n
    <3>5. \A y : Due(n, y) <=> Due(s, y)
      BY <3>2 DEF Due
    <3>6. Tame(Agent(c), n)
      BY <1>7, <3>2, <3>5 DEF Tame
    <3> QED
      BY <1>1, <1>4, <1>7, <1>8, <3>1, <3>2, <3>3, <3>4, <3>5, <3>6, NewSender
  <2> QED
    BY <1>8, <2>1, <2>2, <2>3 DEF Opened
<1>9. CASE At("open closing", 0, c, w, f, lock) /\ UNCHANGED <<tasks, tp>>
  BY <1>1, <1>5, <1>6, <1>9, MilderTamed, AtHush, QuietTasks
<1>10. CASE /\ Return(c, "cancelled", Now, Released(lock)) /\ UNCHANGED tasks
            /\ \E opened \in BOOLEAN : tp' = [tp EXCEPT !.open = opened \/ @]
  <2>1. Hush(c)
    BY <1>1, <1>10, ReturnHush DEF Results
  <2>2. tp'.links = tp.links /\ tp'.opens = tp.opens /\ (tp.open => tp'.open)
    BY <1>1, <1>10 DEF Tps
  <2>3. TpKept
    BY <2>1, <2>2 DEF TpKept, Hush, Meek, RInv
  <2> QED
    BY <1>1, <1>10, <2>1, <2>3, HushTurn, StillKept DEF tasks
<1> QED
  BY <1>3, <1>8, <1>9, <1>10

(* The transport is closed, and what knew of it as open does not any more. *)
LEMMA ClosedQuiet ==
    ASSUME NEW a, InTurn(a), Hush(a), UNCHANGED tasks, tp' = TransportClosed, ~gp'.open
    PROVE  RInv'
<1>1. TpKept
  BY DEF TpKept, TransportClosed, InTurn, IInv, Typed, Tps
<1> QED
  BY <1>1, HushTurn, StillKept DEF tasks

(* Settling the agents changes no field.                                   *)
LEMMA SettledOpen ==
    ASSUME NEW a, InTurn(a), NEW s, Tamed(a, s), NEW w \in Runs, NEW l, Suspend(a, w, s, l)
    PROVE  gp'.open = s.open
<1> DEFINE r == [run EXCEPT ![a] = w]
<1>1. r \in [Agents -> Runs] /\ \A b \in Agents : b # a => r[b] = run[b]
  BY DEF IInv, Typed, InTurn
<1>2. Settle(s, l, r)
  BY DEF Suspend
<1> HIDE DEF r
<1>3. \A b \in Agents : Agent(b) # Agent(a) => r[b] = run[b]
  BY <1>1
<1> QED
  BY <1>1, <1>2, <1>3, SettledTame DEF InTurn, Tamed

LEMMA ClosingReturn ==
    ASSUME NEW c, InTurn(c), NEW s, Tamed(c, s), ~s.open, NEW res \in Results, NEW l,
           Return(c, res, s, l), UNCHANGED tasks, tp' = TransportClosed
    PROVE  RInv'
<1> DEFINE v == [Asleep EXCEPT !.res = res]
<1>1. v \in Runs
  BY Idle
<1>2. Suspend(c, v, s, l)
  BY DEF Return
<1> HIDE DEF v
<1>3. ~gp'.open
  BY <1>1, <1>2, SettledOpen
<1> QED
  BY <1>3, ReturnHush, ClosedQuiet

(* The task the agent has stopped is over.                                 *)
LEMMA ResumeQuiet ==
    ASSUME NEW a, InTurn(a), Tamed(a, Now), run[a] \in Runs, Resume(a), UNCHANGED tp
    PROVE  RInv'
<1>1. CASE UNCHANGED shake /\ StopReady(a, run[a], Now, lock)
  BY <1>1, StopReadyHush, QuietTurn, StillKept
<1>2. CASE UNCHANGED <<shake, ready>> /\ StopLoop(a, run[a], Now, lock)
  BY <1>2, StopLoopHush, QuietTurn, StillKept
<1>3. CASE UNCHANGED tasks /\ TasksStopped(a, run[a], Now, lock)
  BY <1>3, TasksStoppedHush, QuietTasks
<1> QED
  BY <1>1, <1>2, <1>3 DEF Resume

LEMMA CallerTurnReady ==
    ASSUME "teardown" \notin Faults, IInv, IInv', RInv, NEW c \in Callers,
           Turn(Agent(c)), CallerTurn(c)
    PROVE  RInv'
<1> DEFINE w == run[c]
<1>1. /\ InTurn(c) /\ Tamed(c, Now) /\ w \in Runs /\ c \in Agents
      /\ Now \in Gps /\ Now.open = gp.open /\ Now.sender = gp.sender /\ 0 \in Nat
  BY AgentStart, ParticipantsApart
<1>2. {"wait ready", "cancel ready", "wait link", "closing"} \subseteq Places \ Lasting
  BY DEF Places, Lockeds, Stops, Lasting
<1>3. {"ok", "error", "no bond", "failed", "timeout", "cancelled"} \subseteq Results
  BY DEF Results
<1>4. CASE Starts(c)
  BY <1>1, <1>4, ConnectQuiet, AskForLockQuiet DEF Starts
<1>5. CASE GetsLock(c)
  BY <1>1, <1>5, LockedQuiet DEF GetsLock
<1>6. CASE OpenAnswered(c)
  BY <1>6, OpenAnsweredQuiet
<1>7. CASE OpenFailed(c)
  <2> DEFINE n == [Now EXCEPT !.loop = 0, !.sender = 0, !.open = FALSE]
  <2>1. Milder(n, Now) /\ ~n.open
    BY <1>1, Zero DEF Milder, Gps
  <2>2. Return(c, "error", n, Released(lock)) /\ tp' = TransportClosed /\ UNCHANGED tasks
    BY <1>7 DEF OpenFailed
  <2> HIDE DEF n
  <2> QED
    BY <1>1, <1>3, <2>1, <2>2, MilderTamed, ClosingReturn
<1>8. CASE PeerAnswered(c)
  BY <1>1, <1>3, <1>8, ConnectQuiet, FinishesQuiet DEF PeerAnswered
<1>9. CASE ConnectAnswered(c)
  <2>1. CASE At("wait ready", 0, c, w, Now, lock) /\ UNCHANGED <<tasks, tp>>
    BY <1>1, <1>2, <2>1, AtHush, QuietTasks
  <2> QED
    BY <1>1, <1>3, <1>9, <2>1, DecidedQuiet, FinishesQuiet, GivesUpQuiet DEF ConnectAnswered
<1>10. CASE AttemptOver(c)
  BY <1>1, <1>10, DecidedQuiet DEF AttemptOver
<1>11. CASE AttemptCut(c)
  <2> DEFINE i == gp.ready
             n == [Now EXCEPT !.ready = 0]
  <2>1. Milder(n, Now)
    BY <1>1, Zero DEF Milder, Gps
  <2>6. i \in Nat /\ (i # 0 => i \in Links)
    <3>1. gp \in Gps
      BY DEF IInv, Typed
    <3> QED
      BY <3>1, Zero, GpFields
  <2>2. \/ GivesUp(c, "timeout")
        \/ /\ i # 0 /\ ready' = [ready EXCEPT ![i].task = "cancelling"]
           /\ At("cancel ready", i, c, w, Post(n, <<"ready", i>>), lock)
           /\ UNCHANGED <<shake, loop, tp>>
        \/ \E res \in {"cancelled", "error"} : Finishes(c, res, n)
    BY <1>11 DEF AttemptCut
  <2> HIDE DEF i, n
  <2>3. Tamed(c, n) /\ (i # 0 => Tamed(c, Post(n, <<"ready", i>>)))
    BY <1>1, <2>1, <2>6, MilderTamed, PostTamed
  <2>4. CASE /\ i # 0 /\ ready' = [ready EXCEPT ![i].task = "cancelling"]
             /\ At("cancel ready", i, c, w, Post(n, <<"ready", i>>), lock)
             /\ UNCHANGED <<shake, loop, tp>>
    <3>1. Hush(c) /\ ReadyStill
      BY <1>1, <1>2, <2>6, <2>3, <2>4, AtHush, ReadyCancelled
    <3> QED
      BY <1>1, <2>4, <3>1, QuietTurn, StillKept
  <2> QED
    BY <1>1, <1>3, <2>2, <2>3, <2>4, GivesUpQuiet, FinishesQuiet
<1>12. CASE AttemptCancelled(c)
  BY <1>1, <1>3, <1>12, FinishesQuiet DEF AttemptCancelled
<1>13. CASE NeutralSent(c)
  BY <1>1, <1>13, StopShakeHush, QuietTurn DEF NeutralSent
<1>14. CASE Resume(c) /\ UNCHANGED tp
  BY <1>1, <1>14, ResumeQuiet
<1>15. CASE DisconnectRequested(c) \/ LinkWaitEnds(c)
  <2>1. /\ UNCHANGED <<tasks, tp>>
        /\ At("wait link", 0, c, w, Now, lock) \/ At("closing", 0, c, w, Now, lock)
    BY <1>15 DEF DisconnectRequested, LinkWaitEnds
  <2> QED
    BY <1>1, <1>2, <2>1, AtHush, QuietTasks
<1>16. CASE CloseAnswered(c)
  <2> DEFINE n == [Now EXCEPT !.loop = 0, !.sender = 0, !.open = FALSE,
                              !.state = "closed", !.closing = FALSE, !.torn = FALSE]
  <2>1. Milder(n, Now) /\ ~n.open /\ w.res \in Results
    BY <1>1, Zero DEF Milder, Gps, States, Runs
  <2>2. Return(c, w.res, n, Released(lock)) /\ tp' = TransportClosed /\ UNCHANGED tasks
    BY <1>16 DEF CloseAnswered
  <2> HIDE DEF n
  <2> QED
    BY <1>1, <2>1, <2>2, MilderTamed, ClosingReturn
<1> QED
  BY <1>4, <1>5, <1>6, <1>7, <1>8, <1>9, <1>10, <1>11, <1>12, <1>13, <1>14, <1>15, <1>16
     DEF CallerTurn

LEMMA AwaitedStill ==
    ASSUME IInv, NEW h \in Links, NEW i \in Agents, shake' = Awaited(h, i)
    PROVE  ShakeStill
<1> DEFINE q == shake[h].waiters
           o == Append(q, i)
<1>1. shake \in [Links -> Shakes] /\ shake[h] \in Shakes /\ q \in Seq(Agents)
  BY DEF IInv, Typed, Shakes
<1>2. /\ Len(o) = Len(q) + 1 /\ Len(q) \in Nat
      /\ \A k \in 1 .. Len(q) : o[k] = q[k]
  BY <1>1
<1>3. \A b : Among(b, q) => Among(b, o)
  BY <1>2 DEF Among
<1>4. /\ shake'[h].task = shake[h].task
      /\ shake'[h].waiters = q \/ shake'[h].waiters = o
      /\ \A j \in Links : j # h => shake'[j] = shake[j]
  <2> HIDE DEF q, o
  <2>1. CASE Ended(shake[h].task)
    BY <1>1, <2>1 DEF Awaited, Shakes, q
  <2>2. CASE ~Ended(shake[h].task)
    <3>1. shake' = [shake EXCEPT ![h] = [shake[h] EXCEPT !.failure = TRUE, !.waiters = o]]
      BY <2>2 DEF Awaited, o, q
    <3> QED
      BY <1>1, <3>1 DEF Shakes
  <2> QED
    BY <2>1, <2>2
<1> QED
  BY <1>3, <1>4 DEF ShakeStill

LEMMA LinkTurnReady ==
    ASSUME "teardown" \notin Faults, IInv, IInv', RInv, NEW i \in Links,
           Turn(Agent(i)), LinkTurn(i)
    PROVE  RInv'
<1> DEFINE w == run[i]
           h == gp.shake
           s == [Now EXCEPT !.connected = FALSE]
           t == [s EXCEPT !.shake = 0]
           u == [Now EXCEPT !.shake = 0]
<1>1. /\ InTurn(i) /\ Tamed(i, Now) /\ w \in Runs /\ i \in Agents
      /\ Now \in Gps /\ Now.open = gp.open /\ Now.sender = gp.sender /\ 0 \in Nat
  BY AgentStart, ParticipantsApart
<1>2. Milder(s, Now) /\ Milder(Failed(s), Now) /\ Milder(t, Now) /\ Milder(u, Now)
  <2>1. Milder(s, Now)
    BY <1>1 DEF Milder, Gps
  <2>2. Milder(t, Now) /\ Milder(u, Now)
    BY <1>1, Zero DEF Milder, Gps
  <2>3. Milder(Failed(s), Now)
    BY <1>1 DEF Milder, Gps, Failed, States
  <2> QED
    BY <2>1, <2>2, <2>3
<1>3. {"await shake", "handled"} \subseteq Places \ Lasting
  BY DEF Places, Awaits, Lasting
<1>4. h \in Nat /\ (h # 0 => h \in Links)
  <2>1. gp \in Gps
    BY DEF IInv, Typed
  <2> QED
    BY <2>1, Zero, GpFields
<1>5. CASE Down(i)
  <2>1. /\ UNCHANGED tp
        /\ \/ StopShake(i, w, Failed(s), lock)
           \/ StopShake(i, w, s, lock)
           \/ /\ h # 0 /\ shake' = Awaited(h, i)
              /\ \/ At("await shake", h, i, w, s, lock) /\ UNCHANGED <<ready, loop>>
                 \/ Raise(i, w, s, lock) /\ UNCHANGED <<ready, loop>>
                 \/ StopReady(i, w, t, lock)
    BY <1>5 DEF Down
  <2> HIDE DEF w, h, s, t, u
  <2>2. Tamed(i, s) /\ Tamed(i, Failed(s)) /\ Tamed(i, t)
    BY <1>1, <1>2, MilderTamed
  <2>3. CASE StopShake(i, w, Failed(s), lock) \/ StopShake(i, w, s, lock)
    BY <1>1, <2>1, <2>2, <2>3, StopShakeHush, QuietTurn
  <2>4. CASE /\ h # 0 /\ shake' = Awaited(h, i)
             /\ \/ At("await shake", h, i, w, s, lock) /\ UNCHANGED <<ready, loop>>
                \/ Raise(i, w, s, lock) /\ UNCHANGED <<ready, loop>>
                \/ StopReady(i, w, t, lock)
    <3>1. ShakeStill
      BY <1>1, <1>4, <2>4, AwaitedStill DEF InTurn
    <3>2. Hush(i) /\ ReadyStill
      BY <1>1, <1>3, <1>4, <2>2, <2>4, AtHush, RaiseHush, StopReadyHush, StillKept
    <3> QED
      BY <1>1, <2>1, <3>1, <3>2, QuietTurn
  <2> QED
    BY <2>1, <2>3, <2>4
<1>6. CASE ShakeAwaited(i)
  <2>1. /\ UNCHANGED <<shake, tp>>
        /\ \/ Raise(i, w, Now, lock) /\ UNCHANGED <<ready, loop>>
           \/ StopReady(i, w, u, lock)
    BY <1>6 DEF ShakeAwaited
  <2> HIDE DEF w, u
  <2>2. Tamed(i, u)
    BY <1>1, <1>2, MilderTamed
  <2>3. Hush(i) /\ ReadyStill
    BY <1>1, <2>1, <2>2, RaiseHush, StopReadyHush, StillKept
  <2> QED
    BY <1>1, <2>1, <2>3, QuietTurn, StillKept
<1>7. CASE DownClosed(i)
  <2> DEFINE n == [Now EXCEPT !.open = FALSE, !.state = "closed", !.disconnected = TRUE,
                              !.torn = FALSE]
             v == [w EXCEPT !.at = "handled", !.obj = 0]
  <2>1. Milder(n, Now) /\ ~n.open /\ v \in Runs /\ v.at \notin Lasting
    BY <1>1, <1>3 DEF Milder, Gps, States, Runs, Lasting
  <2>2. Suspend(i, v, n, lock) /\ tp' = TransportClosed /\ UNCHANGED tasks
    BY <1>7 DEF DownClosed, At
  <2> HIDE DEF v, n
  <2>3. Tamed(i, n)
    BY <1>1, <2>1, MilderTamed
  <2>4. ~gp'.open
    BY <1>1, <2>1, <2>2, <2>3, SettledOpen
  <2> QED
    BY <1>1, <2>1, <2>2, <2>3, <2>4, SuspendHush, ClosedQuiet
<1>8. CASE Resume(i) /\ UNCHANGED tp
  BY <1>1, <1>8, ResumeQuiet
<1> QED
  BY <1>5, <1>6, <1>7, <1>8 DEF LinkTurn

-----------------------------------------------------------------------------
(* The turns of tasks: no agent goes anywhere.                             *)

LEMMA BecomesHushed ==
    ASSUME IInv, IInv', NEW x, Turn(x), \A a \in Agents : x # Agent(a),
           NEW s, Tame(x, s), Becomes(s)
    PROVE  /\ Hushed(x) /\ RunsKept(x) /\ (Meek(s) => Meek(gp'))
           /\ gp'.sender = s.sender /\ gp'.initialized = s.initialized
           /\ gp'.protocolReady = s.protocolReady /\ gp'.open = s.open
           /\ \A y : Due(s, y) => Due(gp', y)
           /\ \A y : Due(gp', y) => Due(s, y) \/ \E a \in Agents : y = Agent(a)
<1>1. run \in [Agents -> Runs] /\ Settle(s, lock, run)
  BY DEF IInv, Typed, Becomes
<1> QED
  BY <1>1, SettledTame

(* A task whose turn starts nothing and ends no handshake.                 *)
LEMMA TaskQuiet ==
    ASSUME IInv, IInv', RInv, NEW x, Turn(x), \A a \in Agents : x # Agent(a),
           NEW s, Tame(x, s), Meek(s), Becomes(s), ShakesKept(x), ReadiesKept(x), UNCHANGED tp
    PROVE  RInv'
<1>1. Hushed(x) /\ RunsKept(x) /\ Meek(gp')
  BY BecomesHushed
<1>2. SenderKept /\ TpKept
  BY <1>1 DEF Meek, SenderKept, TpKept, RInv
<1> QED
  BY <1>1, <1>2, TurnKeepsReadiness

LEMMA ReadyUnchanged ==
    ASSUME UNCHANGED ready, NEW x, \A i \in Links : x # <<"ready", i>>
    PROVE  ReadiesKept(x)
BY DEF ReadiesKept, ReadyOld

LEMMA ShakeUnchanged ==
    ASSUME UNCHANGED shake, NEW x, \A i \in Links : x # <<"shake", i>>, Meek(gp')
    PROVE  ShakesKept(x)
BY DEF ShakesKept, Meek

LEMMA ConnectedReady ==
    ASSUME IInv, IInv', RInv, NEW i \in Links, Turn(<<"up", i>>), Connected(i)
    PROVE  RInv'
<1> DEFINE x == <<"up", i>>
           s == [Now EXCEPT !.state = "initializing"]
           t == [s EXCEPT !.shake = i]
           n == IF gp.shake = 0 /\ gp.sender # 0 THEN Post(t, <<"shake", i>>) ELSE s
<1>1. /\ \A a \in Agents : x # Agent(a)
      /\ \A j \in Links : x # <<"ready", j>> /\ x # <<"shake", j>>
  BY AgentNames
<1>2. Tame(x, Now) /\ Meek(Now) /\ Now \in Gps
  BY NowTame DEF Tame
<1>3. /\ s \in Gps /\ s.due = Now.due /\ s.sender = Now.sender
      /\ s.protocolReady = Now.protocolReady /\ s.initialized = Now.initialized
      /\ s.open = Now.open
  BY <1>2 DEF Gps, States
<1>4. /\ t \in Gps /\ t.due = Now.due /\ t.sender = Now.sender
      /\ t.protocolReady = Now.protocolReady /\ t.initialized = Now.initialized
      /\ t.open = Now.open
  BY <1>2, Zero DEF Gps, States
<1> HIDE DEF s, t
<1>5. Tame(x, s) /\ Meek(s) /\ Tame(x, t) /\ Meek(t)
  BY <1>2, <1>3, <1>4, TameFields
<1>6. Tame(x, n) /\ Meek(n)
  BY <1>5, TamePost
<1>7. Becomes(n) /\ UNCHANGED <<ready, loop, tp>>
  BY DEF Connected, s, t
<1>8. shake' = shake \/ shake' = [shake EXCEPT ![i].task = "running"]
  BY DEF Connected
<1>9. shake[i].task = "none" /\ i <= tp.links
  <2>1. /\ gp.due \in Seq(Dues) /\ gp.due # << >> /\ Head(gp.due) = x
    BY DEF IInv, Typed, Gps, Turn
  <2>2. 1 \in DOMAIN gp.due /\ gp.due[1] = x
    BY <2>1
  <2> QED
    BY <2>2 DEF RInv, Rising
<1> HIDE DEF n
<1>10. Meek(gp')
  BY <1>1, <1>6, <1>7, BecomesHushed
<1>11. ShakesKept(x)
  <2>1. CASE shake' = shake
    BY <1>1, <1>10, <2>1, ShakeUnchanged
  <2>2. CASE shake' = [shake EXCEPT ![i].task = "running"]
    <3>1. /\ shake'[i].task = "running" /\ shake'[i].waiters = shake[i].waiters
          /\ \A j \in Links : j # i => shake'[j] = shake[j]
      BY <2>2 DEF IInv, Typed, Shakes
    <3> QED
      BY <1>1, <1>9, <1>10, <3>1 DEF ShakesKept, Meek
  <2> QED
    BY <1>8, <2>1, <2>2
<1> QED
  BY <1>1, <1>6, <1>7, <1>11, ReadyUnchanged, TaskQuiet

LEMMA ShakeEndsReady ==
    ASSUME IInv, IInv', RInv, NEW i \in Links, Turn(<<"shake", i>>),
           NEW o \in {"cancelled", "failed", "ready"}, ~Ended(shake[i].task),
           o = "ready" => gp.protocolReady,
           shake' = [shake EXCEPT ![i].task = o, ![i].waiters = << >>],
           Becomes([Now EXCEPT !.due = @ \o <<<<"told", i>>>>
                      \o [k \in DOMAIN shake[i].waiters |-> Agent(shake[i].waiters[k])]]),
           UNCHANGED <<ready, loop, tp>>
    PROVE  RInv'
<1> DEFINE x == <<"shake", i>>
           ws == shake[i].waiters
           s == [Now EXCEPT !.due = @ \o <<<<"told", i>>>>
                                      \o [k \in DOMAIN ws |-> Agent(ws[k])]]
<1>1. /\ \A a \in Agents : x # Agent(a)
      /\ \A j \in Links : x # <<"ready", j>>
      /\ \A j \in Links : \A a : <<"up", j>> # Agent(a) /\ <<"told", j>> # Agent(a)
      /\ \A j \in Links : <<"up", j>> # <<"told", i>>
  BY AgentNames
<1>2. Tame(x, Now) /\ Meek(Now) /\ Now \in Gps
  BY NowTame DEF Tame
<1>3. /\ s \in Gps /\ Once(s.due)
      /\ \E q \in Seq(Dues) : s = [Now EXCEPT !.due = q]
      /\ \A y : Due(s, y) <=>
            \/ Due(Now, y) \/ y = <<"told", i>>
            \/ \E a \in Agents : Among(a, ws) /\ y = Agent(a)
  BY EndsDue
<1>4. Becomes(s)
  OBVIOUS
<1>5. \A a \in Agents : Among(a, ws) => run[a].at \in Awaits
  BY DEF IInv, Ordered, Awaiting
<1>6. /\ shake'[i].task = o /\ \A j \in Links : j # i => shake'[j] = shake[j]
      /\ shake[i].waiters \in Seq(Agents)
  BY DEF IInv, Typed, Shakes
<1>12. \A a : Among(a, ws) => a \in Agents
  BY <1>6 DEF Among
<1> HIDE DEF s, ws
<1>7. /\ s.sender = Now.sender /\ s.open = Now.open
      /\ s.protocolReady = Now.protocolReady /\ s.initialized = Now.initialized
  BY <1>2, <1>3 DEF Gps
<1>8. Tame(x, s)
  <2>1. \A a \in Agents : Due(s, Agent(a)) => Due(Now, Agent(a)) \/ run[a].at \in Awaits
    BY <1>1, <1>3, <1>5, AgentNames
  <2> QED
    BY <1>1, <1>2, <1>3, <2>1 DEF Tame
<1>9. /\ Hushed(x) /\ RunsKept(x)
      /\ gp'.sender = s.sender /\ gp'.open = s.open
      /\ gp'.protocolReady = s.protocolReady /\ gp'.initialized = s.initialized
      /\ \A y : Due(s, y) => Due(gp', y)
      /\ \A y : Due(gp', y) => Due(s, y) \/ \E a \in Agents : y = Agent(a)
  BY <1>1, <1>4, <1>8, BecomesHushed
<1>10. SenderKept /\ TpKept
  BY <1>2, <1>7, <1>9 DEF SenderKept, TpKept, Meek, Certain, RInv
<1>11. ShakesKept(x)
  <2>1. \A a : Among(a, shake[i].waiters) => Due(gp', Agent(a))
    BY <1>3, <1>9, <1>12 DEF ws
  <2>2. shake[i].task # "none"
    BY DEF Ended
  <2>3. o = "ready" => Secure(gp')
    BY <1>2, <1>7, <1>9 DEF Secure, Meek, RInv, Certain
  <2>4. ASSUME NEW j \in Links, j # i, Due(gp', <<"told", j>>)
        PROVE  Due(gp, <<"told", j>>)
    <3>1. <<"told", j>> # <<"told", i>>
      BY <2>4
    <3> QED
      BY <1>1, <1>2, <1>3, <1>9, <2>4, <3>1 DEF Meek
  <2>5. \A j \in Links : j # i => x # <<"shake", j>>
    OBVIOUS
  <2> QED
    BY <1>6, <2>1, <2>2, <2>3, <2>4, <2>5 DEF ShakesKept
<1> QED
  BY <1>1, <1>9, <1>10, <1>11, ReadyUnchanged, TurnKeepsReadiness

LEMMA ShakeTurnReady ==
    ASSUME IInv, IInv', RInv, NEW i \in Links, Turn(<<"shake", i>>), ShakeTurn(i)
    PROVE  RInv'
<1> DEFINE x == <<"shake", i>>
<1>1. UNCHANGED <<ready, loop, tp>>
  BY DEF ShakeTurn
<1>2. /\ \A a \in Agents : x # Agent(a)
      /\ \A j \in Links : x # <<"ready", j>>
  BY AgentNames
<1>3. CASE shake[i].task = "running" /\ Becomes(Now) /\ UNCHANGED shake
  <2>1. Tame(x, Now) /\ Meek(Now)
    BY NowTame
  <2>2. Meek(gp')
    BY <1>2, <1>3, <2>1, BecomesHushed
  <2>3. ShakesKept(x)
    BY <1>3, <2>2 DEF ShakesKept, Meek
  <2> QED
    BY <1>1, <1>2, <1>3, <2>1, <2>3, ReadyUnchanged, TaskQuiet
<1>4. CASE \E o \in {"cancelled", "failed", "ready"} :
             /\ ~Ended(shake[i].task) /\ (o = "ready" => gp.protocolReady)
             /\ shake' = [shake EXCEPT ![i].task = o, ![i].waiters = << >>]
             /\ Becomes([Now EXCEPT !.due = @ \o <<<<"told", i>>>>
                   \o [k \in DOMAIN shake[i].waiters |-> Agent(shake[i].waiters[k])]])
  BY <1>1, <1>4, ShakeEndsReady
<1>5. \/ shake[i].task = "running" /\ Becomes(Now) /\ UNCHANGED shake
      \/ \E o \in {"cancelled", "failed", "ready"} :
             /\ ~Ended(shake[i].task) /\ (o = "ready" => gp.protocolReady)
             /\ shake' = [shake EXCEPT ![i].task = o, ![i].waiters = << >>]
             /\ Becomes([Now EXCEPT !.due = @ \o <<<<"told", i>>>>
                   \o [k \in DOMAIN shake[i].waiters |-> Agent(shake[i].waiters[k])]])
  BY DEF ShakeTurn, Ended
<1> QED
  BY <1>3, <1>4, <1>5

(* What an outcome changes, and what it starts.                            *)
LEMMA AfterOutcomeTame ==
    ASSUME NEW x, NEW s, Tame(x, s), Meek(s), NEW i \in Links, NEW o
    PROVE  /\ Tame(x, AfterOutcome(s, i, o)) /\ Meek(AfterOutcome(s, i, o))
           /\ StartsReady(s, o) => Due(AfterOutcome(s, i, o), <<"ready", i>>)
           /\ AfterOutcome(s, i, o).sender = s.sender
           /\ AfterOutcome(s, i, o).initialized = s.initialized
<1> DEFINE n == [s EXCEPT !.shake = 0]
           f == Failed(n)
           p == Published(n)
           m == [n EXCEPT !.ready = i]
           r == Post(m, <<"ready", i>>)
           same(t) == /\ t \in Gps /\ t.due = s.due /\ t.sender = s.sender
                      /\ t.protocolReady = s.protocolReady /\ t.initialized = s.initialized
                      /\ t.open = s.open
<1>1. s \in Gps
  BY DEF Tame
<1>2. same(s) /\ same(n)
  BY <1>1, Zero DEF Gps
<1>3. same(f)
  BY <1>1, Zero DEF Gps, Failed, States
<1>4. same(p)
  <2>1. CASE n.connected \/ n.attempt
    BY <1>2, <2>1 DEF Published
  <2>2. CASE ~(n.connected \/ n.attempt)
    <3>1. p = [n EXCEPT !.state = "connected", !.connected = TRUE, !.attempt = TRUE]
      BY <2>2 DEF Published
    <3> HIDE DEF n
    <3> QED
      BY <1>2, <3>1 DEF Gps, States
  <2> QED
    BY <2>1, <2>2
<1>5. same(m)
  BY <1>1, Zero DEF Gps
<1>6. AfterOutcome(s, i, o) \in {s, n, f, p, r}
  BY DEF AfterOutcome
<1>7. StartsReady(s, o) => AfterOutcome(s, i, o) = r
  BY DEF AfterOutcome, StartsReady
<1> HIDE DEF n, f, p, m
<1>8. /\ Tame(x, n) /\ Meek(n) /\ Tame(x, f) /\ Meek(f)
      /\ Tame(x, p) /\ Meek(p) /\ Tame(x, m) /\ Meek(m)
  BY <1>2, <1>3, <1>4, <1>5, TameFields
<1>9. Tame(x, r) /\ Meek(r)
  BY <1>8, TamePost
<1>10. Due(r, <<"ready", i>>) /\ r.sender = m.sender /\ r.initialized = m.initialized
  <2>1. <<"ready", i>> \in Dues
    BY AgentNames
  <2>2. /\ \E q \in Seq(Dues) : r = [m EXCEPT !.due = q]
        /\ \A y : Due(r, y) <=> Due(m, y) \/ y = <<"ready", i>>
    BY <1>5, <2>1, Posted
  <2> QED
    BY <1>5, <2>2 DEF Gps
<1> HIDE DEF r
<1> QED
  BY <1>2, <1>3, <1>4, <1>5, <1>6, <1>7, <1>8, <1>9, <1>10

(* A readiness wait that starts, if it does, is due and was promised.      *)
LEMMA ReadyStarts ==
    ASSUME IInv, RInv, NEW x, NEW s, NEW i \in Links, NEW o, ready' = ReadyAfter(s, i, o),
           \A j \in Links : x # <<"ready", j>>,
           StartsReady(s, o) => Due(gp', <<"ready", i>>) /\ Secure(gp')
    PROVE  ReadiesKept(x)
<1>1. CASE ~StartsReady(s, o)
  BY <1>1, ReadyUnchanged DEF ReadyAfter
<1>2. CASE StartsReady(s, o)
  <2>1. /\ ready'[i].task = "created" /\ ready'[i].sender = ready[i].sender
        /\ \A j \in Links : j # i => ready'[j] = ready[j]
    BY <1>2 DEF ReadyAfter, IInv, Typed, Readies
  <2>2. ReadyNew(i)
    BY <1>2, <2>1 DEF ReadyNew, RInv, Numbers
  <2>3. \A j \in Links : j # i => ReadyOld(x, j)
    BY <2>1 DEF ReadyOld
  <2> QED
    BY <2>2, <2>3 DEF ReadiesKept
<1> QED
  BY <1>1, <1>2

LEMMA ShakeToldReady ==
    ASSUME IInv, IInv', RInv, NEW i \in Links, Turn(<<"told", i>>), ShakeTold(i)
    PROVE  RInv'
<1> DEFINE x == <<"told", i>>
           o == shake[i].task
           s == AfterOutcome(Now, i, o)
<1>1. /\ \A a \in Agents : x # Agent(a)
      /\ \A j \in Links : x # <<"ready", j>> /\ x # <<"shake", j>>
  BY AgentNames
<1>2. Tame(x, Now) /\ Meek(Now) /\ Now \in Gps /\ Due(gp, x) /\ gp \in Gps
  BY NowTame, TurnTaken DEF Tame, IInv, Typed
<1>3. /\ Tame(x, s) /\ Meek(s) /\ (StartsReady(Now, o) => Due(s, <<"ready", i>>))
      /\ s.sender = Now.sender /\ s.initialized = Now.initialized
  BY <1>2, AfterOutcomeTame
<1>4. UNCHANGED <<shake, loop, tp>>
  BY DEF ShakeTold
<1>5. \/ Becomes(s) /\ ready' = ReadyAfter(gp, i, o)
      \/ Becomes(Now) /\ ready' = ready
  BY DEF ShakeTold
<1> HIDE DEF s
<1>6. CASE Becomes(s) /\ ready' = ReadyAfter(gp, i, o)
  <2>1. /\ Meek(gp') /\ gp'.sender = s.sender /\ gp'.initialized = s.initialized
        /\ \A y : Due(s, y) => Due(gp', y)
    BY <1>1, <1>3, <1>6, BecomesHushed
  <2>2. StartsReady(gp, o) => StartsReady(Now, o) /\ PledgeShake(gp, shake)
    BY <1>2, NowIsGp DEF StartsReady, PledgeShake
  <2>3. Secure(gp) => Secure(gp')
    BY <2>1 DEF Secure, Meek
  <2>4. ReadiesKept(x)
    BY <1>1, <1>3, <1>6, <2>1, <2>2, <2>3, ReadyStarts DEF RInv, Pledged
  <2> QED
    BY <1>1, <1>3, <1>4, <1>6, <2>1, <2>4, ShakeUnchanged, TaskQuiet
<1>7. CASE Becomes(Now) /\ ready' = ready
  <2>1. Meek(gp')
    BY <1>1, <1>2, <1>7, BecomesHushed
  <2> QED
    BY <1>1, <1>2, <1>4, <1>7, <2>1, ReadyUnchanged, ShakeUnchanged, TaskQuiet
<1> QED
  BY <1>5, <1>6, <1>7

LEMMA PostStopperTame ==
    ASSUME NEW x, \A a \in Agents : x # Agent(a), NEW s, Tame(x, s), Meek(s),
           NEW i, NEW places \in SUBSET Stops
    PROVE  Tame(x, PostStopper(s, i, places)) /\ Meek(PostStopper(s, i, places))
<1> DEFINE stoppers == {a \in Agents : run[a].at \in places /\ run[a].obj = i}
           b == CHOOSE a \in stoppers : TRUE
           p == Post(s, Agent(b))
<1>1. CASE stoppers = {}
  BY <1>1 DEF PostStopper
<1>2. CASE stoppers # {}
  <2>1. PostStopper(s, i, places) = p
    BY <1>2 DEF PostStopper
  <2>2. b \in Agents /\ run[b].at \in Stops
    BY <1>2
  <2> HIDE DEF b
  <2>3. Agent(b) \in Dues /\ s \in Gps
    BY <2>2, AgentNames DEF Tame
  <2>4. /\ p \in Gps /\ (\E q \in Seq(Dues) : p = [s EXCEPT !.due = q])
        /\ \A y : Due(p, y) <=> Due(s, y) \/ y = Agent(b)
        /\ Once(s.due) => Once(p.due)
    BY <2>3, Posted
  <2>5. /\ p.sender = s.sender /\ p.open = s.open
        /\ p.protocolReady = s.protocolReady /\ p.initialized = s.initialized
    BY <2>3, <2>4 DEF Gps
  <2>6. \A j \in Links : \A a : <<"up", j>> # Agent(a) /\ <<"told", j>> # Agent(a)
    BY AgentNames
  <2> HIDE DEF p
  <2>7. \A a \in Agents : Due(p, Agent(a)) => Due(s, Agent(a)) \/ a = b
    BY <2>4, AgentNames
  <2>8. Tame(x, p)
    BY <2>2, <2>4, <2>6, <2>7 DEF Tame
  <2>9. Meek(p)
    BY <2>4, <2>5, <2>6 DEF Meek, Certain
  <2> QED
    BY <2>1, <2>8, <2>9
<1> QED
  BY <1>1, <1>2

LEMMA PublishedFields ==
    ASSUME NEW s \in Gps
    PROVE  /\ Published(s) \in Gps /\ Published(s).due = s.due
           /\ Published(s).sender = s.sender /\ Published(s).open = s.open
           /\ Published(s).protocolReady = s.protocolReady
           /\ Published(s).initialized = s.initialized
           /\ Published(s).closing = s.closing /\ Published(s).torn = s.torn
<1> DEFINE p == Published(s)
           t == [s EXCEPT !.state = "connected", !.connected = TRUE, !.attempt = TRUE]
<1>1. p = s \/ p = t
  BY DEF Published
<1>2. /\ t \in Gps /\ t.due = s.due /\ t.sender = s.sender /\ t.open = s.open
      /\ t.protocolReady = s.protocolReady /\ t.initialized = s.initialized
      /\ t.closing = s.closing /\ t.torn = s.torn
  BY DEF Gps, States
<1> HIDE DEF p, t
<1>3. /\ p \in Gps /\ p.due = s.due /\ p.sender = s.sender /\ p.open = s.open
      /\ p.protocolReady = s.protocolReady /\ p.initialized = s.initialized
      /\ p.closing = s.closing /\ p.torn = s.torn
  BY <1>1, <1>2
<1> QED
  BY <1>3 DEF p

LEMMA ReadyTurnReady ==
    ASSUME IInv, IInv', RInv, NEW i \in Links, Turn(<<"ready", i>>), ReadyTurn(i)
    PROVE  RInv'
<1> DEFINE x == <<"ready", i>>
           task == ready[i].task
           sender == IF task = "created" THEN gp.sender ELSE ready[i].sender
           n == [Now EXCEPT !.ready = IF @ = i THEN 0 ELSE @]
           m == [n EXCEPT !.loop = IF @ = 0 THEN i ELSE @]
           p == Published(m)
           places == {"stop ready", "cancel ready"}
           same(t) == /\ t \in Gps /\ t.due = Now.due /\ t.sender = Now.sender
                      /\ t.protocolReady = Now.protocolReady /\ t.initialized = Now.initialized
                      /\ t.open = Now.open
<1>1. /\ \A a \in Agents : x # Agent(a)
      /\ \A j \in Links : x # <<"shake", j>>
  BY AgentNames
<1>2. Tame(x, Now) /\ Meek(Now) /\ Now \in Gps
  BY NowTame DEF Tame
<1>3. same(n) /\ same(m)
  BY <1>2, Zero DEF Gps
<1> HIDE DEF n, m
<1>4. same(p)
  BY <1>3, PublishedFields
<1> HIDE DEF p
<1>5. /\ Tame(x, n) /\ Meek(n) /\ Tame(x, p) /\ Meek(p)
      /\ Tame(x, PostStopper(Now, i, places)) /\ Meek(PostStopper(Now, i, places))
  BY <1>1, <1>2, <1>3, <1>4, TameFields, PostStopperTame DEF Stops
<1>6. UNCHANGED <<shake, tp>> /\ \A j \in Links : j # i => ready'[j] = ready[j]
  BY DEF ReadyTurn, IInv, Typed, Readies
<1>7. /\ \/ ready'[i].task \in {"done", "dead"} /\ ready'[i].sender = ready[i].sender
         \/ /\ ready'[i].task \in {"waiting", "done"} /\ ready'[i].sender = sender
            /\ task \in {"created", "waiting"}
      /\ \/ Becomes(PostStopper(Now, i, places)) \/ Becomes(Now) \/ Becomes(n) \/ Becomes(p)
  <2>1. ready \in [Links -> Readies]
    BY DEF IInv, Typed
  <2>2. CASE ready' = [ready EXCEPT ![i].task = "done"] /\ Becomes(PostStopper(Now, i, places))
    BY <2>1, <2>2 DEF Readies
  <2>3. CASE ready' = [ready EXCEPT ![i].task = "dead"] /\ Becomes(Now)
    BY <2>1, <2>3 DEF Readies
  <2>4. CASE /\ task \in {"created", "waiting"} /\ Becomes(Now)
             /\ ready' = [ready EXCEPT ![i] = [task |-> "waiting", sender |-> sender]]
    BY <2>1, <2>4 DEF Readies
  <2>5. CASE /\ task \in {"created", "waiting"} /\ (Becomes(n) \/ Becomes(p))
             /\ ready' = [ready EXCEPT ![i] = [task |-> "done", sender |-> sender]]
    BY <2>1, <2>5 DEF Readies
  <2> QED
    BY <2>2, <2>3, <2>4, <2>5 DEF ReadyTurn, n, m, p
<1>8. PICK t : Tame(x, t) /\ Meek(t) /\ Becomes(t)
  BY <1>2, <1>5, <1>7
<1>9. Meek(gp')
  BY <1>1, <1>8, BecomesHushed
<1>10. Secure(gp) => Secure(gp')
  BY <1>9 DEF Secure, Meek
<1>11. ReadyNew(i)
  <2>1. ready'[i].sender <= tp.opens /\ ready'[i].task # "created"
    BY <1>7 DEF RInv, Numbers
  <2>2. ASSUME ready'[i].task = "waiting", ready'[i].sender = gp'.sender, gp'.sender # 0
        PROVE  Secure(gp')
    <3>1. gp'.sender = gp.sender
      BY <1>9, <2>2 DEF Meek
    <3>2. PledgeReady(gp, ready)
      BY <1>7, <2>2, <3>1 DEF PledgeReady
    <3> QED
      BY <1>10, <3>2 DEF RInv, Pledged
  <2> QED
    BY <2>1, <2>2 DEF ReadyNew, Secure
<1>12. ReadiesKept(x)
  BY <1>6, <1>11 DEF ReadiesKept, ReadyOld
<1> QED
  BY <1>1, <1>6, <1>8, <1>9, <1>12, ShakeUnchanged, TaskQuiet

LEMMA LoopTurnReady ==
    ASSUME IInv, IInv', RInv, NEW i \in Links, Turn(<<"loop", i>>), LoopTurn(i)
    PROVE  RInv'
<1> DEFINE x == <<"loop", i>>
           s == PostStopper(Now, i, {"stop loop"})
<1>1. /\ \A a \in Agents : x # Agent(a)
      /\ \A j \in Links : x # <<"shake", j>> /\ x # <<"ready", j>>
  BY AgentNames
<1>2. Tame(x, s) /\ Meek(s)
  BY <1>1, NowTame, PostStopperTame DEF Stops
<1>3. Becomes(s) /\ UNCHANGED <<shake, ready, tp>>
  BY DEF LoopTurn
<1>4. Meek(gp')
  BY <1>1, <1>2, <1>3, BecomesHushed
<1> HIDE DEF s
<1> QED
  BY <1>1, <1>2, <1>3, <1>4, ReadyUnchanged, ShakeUnchanged, TaskQuiet

-----------------------------------------------------------------------------
(* The turns of those that handle an output report.                        *)

(* A readiness wait that starts is due, in a session that was made ready.  *)
Promised(s) ==
    \A i \in Links :
        \/ ready'[i] = ready[i]
        \/ /\ ready'[i].task = "created" /\ ready'[i].sender = ready[i].sender
           /\ Due(s, <<"ready", i>>) /\ Secure(s)

LEMMA ReadyPromised ==
    ASSUME IInv, NEW s, NEW n, NEW i \in Links, NEW o, ready' = ReadyAfter(n, i, o),
           StartsReady(n, o) => Due(s, <<"ready", i>>) /\ Secure(s)
    PROVE  Promised(s)
BY DEF Promised, ReadyAfter, IInv, Typed, Readies

(* What it takes to be suspended at w.                                     *)
Meant(h, w, s) ==
    /\ w.at = "completing" =>
          /\ Due(s, <<"shake", w.obj>>)
          /\ shake'[w.obj].task = "cancelling" /\ Among(h, shake'[w.obj].waiters)
          /\ w.res = "ready" => Secure(s)
    /\ w.at \in {"queued", "replying"} => w.obj <= tp.opens

LEMMA HostSuspends ==
    ASSUME NEW h, InTurn(h), NEW s, Tamed(h, s), NEW w \in Runs, Suspend(h, w, s, lock),
           Meant(h, w, s), Promised(s), ShakeStill, UNCHANGED tp
    PROVE  RInv'
<1> DEFINE r == [run EXCEPT ![h] = w]
           x == Agent(h)
<1>1. run \in [Agents -> Runs] /\ h \in Agents /\ ready \in [Links -> Readies]
  BY DEF IInv, Typed, InTurn
<1>2. r \in [Agents -> Runs] /\ r[h] = w /\ \A b \in Agents : b # h => r[b] = run[b]
  BY <1>1
<1>3. Settle(s, lock, r)
  BY DEF Suspend
<1> HIDE DEF r
<1>4. \A b \in Agents : Agent(b) # x => r[b] = run[b]
  BY <1>2
<1>5. /\ Hushed(x) /\ Meek(gp') /\ RunsKept(x)
      /\ \A b \in Agents : run'[b].at \in Lasting =>
            run'[b].at = r[b].at /\ run'[b].obj = r[b].obj /\ run'[b].res = r[b].res
      /\ gp'.sender = s.sender /\ gp'.initialized = s.initialized
      /\ \A y : Due(s, y) => Due(gp', y)
  BY <1>2, <1>3, <1>4, SettledTame DEF InTurn, Tamed
<1>6. Secure(s) => Secure(gp')
  BY <1>5 DEF Secure
<1>7. \A i \in Links : x # <<"shake", i>> /\ x # <<"ready", i>>
  BY AgentNames DEF InTurn
<1>8. ShakesKept(x)
  BY <1>5, <1>7 DEF ShakesKept, ShakeStill, Meek, Ended
<1>9. ReadiesKept(x)
  <2> SUFFICES ASSUME NEW i \in Links PROVE ReadyOld(x, i) \/ ReadyNew(i)
    BY DEF ReadiesKept
  <2>1. CASE ready'[i] = ready[i]
    BY <1>7, <2>1 DEF ReadyOld
  <2>2. CASE /\ ready'[i].task = "created" /\ ready'[i].sender = ready[i].sender
             /\ Due(s, <<"ready", i>>) /\ Secure(s)
    BY <1>5, <1>6, <2>2 DEF ReadyNew, InTurn, RInv, Numbers
  <2> QED
    BY <2>1, <2>2 DEF Promised
<1>10. \A b \in Agents : x = Agent(b) => Pledges(b)
  <2>1. \A b \in Agents : x = Agent(b) => b = h
    BY <1>1, AgentNames
  <2>2. Pledges(h)
    BY <1>1, <1>2, <1>5, <1>6 DEF Pledges, Meant, Lasting
  <2> QED
    BY <2>1, <2>2
<1>11. SenderKept /\ TpKept
  BY <1>5 DEF SenderKept, TpKept, Meek, InTurn, RInv
<1> QED
  BY <1>5, <1>8, <1>9, <1>10, <1>11, TurnKeepsReadiness DEF InTurn

LEMMA HostSleeps ==
    ASSUME NEW h, InTurn(h), NEW s, Tamed(h, s), Suspend(h, Asleep, s, lock), Promised(s),
           ShakeStill, UNCHANGED tp
    PROVE  RInv'
BY HostSuspends, AsleepRun DEF Meant

LEMMA OverTamed ==
    ASSUME NEW h, NEW s, Tamed(h, s)
    PROVE  /\ Tamed(h, [s EXCEPT !.shake = 0]) /\ [s EXCEPT !.shake = 0].due = s.due
           /\ [s EXCEPT !.shake = 0].sender = s.sender
           /\ [s EXCEPT !.shake = 0].initialized = s.initialized
<1>1. s \in Gps
  BY DEF Tamed, Tame
<1> DEFINE n == [s EXCEPT !.shake = 0]
<1>2. /\ n \in Gps /\ n.due = s.due /\ n.sender = s.sender
      /\ n.protocolReady = s.protocolReady /\ n.initialized = s.initialized /\ n.open = s.open
  BY <1>1, Zero DEF Gps
<1> HIDE DEF n
<1>3. Tamed(h, n)
  BY <1>2, MilderTamed DEF Milder
<1> QED
  BY <1>2, <1>3 DEF n

LEMMA CompleteReady ==
    ASSUME NEW h, InTurn(h), NEW s, Tamed(h, s), s.shake # 0, NEW o \in {"ready", "failed"},
           o = "ready" => Secure(s), UNCHANGED tp, Complete(h, o, s)
    PROVE  RInv'
<1> DEFINE i == s.shake
           after == AfterOutcome(s, i, o)
           told == IF shake[i].stopped THEN s ELSE after
           over == IF o = "ready" THEN [told EXCEPT !.shake = 0] ELSE told
           v == [run[h] EXCEPT !.res = o]
           p == Post(s, <<"shake", i>>)
<1>1. /\ IInv /\ s \in Gps /\ h \in Agents /\ run[h] \in Runs
  BY DEF InTurn, IInv, Typed, Tamed, Tame
<1>2. i \in Links /\ i \in Nat
  BY <1>1, GpFields, Zero
<1>3. /\ \/ /\ shake[i].stopped
            /\ shake' = shake /\ ready' = ready
            /\ Suspend(h, Asleep, over, lock)
         \/ /\ ~shake[i].stopped /\ shake' = StoppedShake(i, h)
            /\ ready' = ReadyAfter(s, i, o)
            /\ Suspend(h, Asleep, over, lock)
         \/ /\ ~Ended(shake[i].task) /\ shake' = StoppedShake(i, h)
            /\ UNCHANGED ready
            /\ At("completing", i, h, v, p, lock)
  BY DEF Complete
<1>4. v \in Runs /\ v.res = o
  BY <1>1 DEF Runs, Results
<1>5. /\ Tamed(h, after) /\ (StartsReady(s, o) => Due(after, <<"ready", i>>))
      /\ after.sender = s.sender /\ after.initialized = s.initialized
  BY <1>2, AfterOutcomeTame DEF Tamed
<1> HIDE DEF i, after, v
<1>6. Tamed(h, told) /\ told.sender = s.sender /\ told.initialized = s.initialized
  BY <1>5
<1> HIDE DEF told
<1>7. /\ Tamed(h, over) /\ over.due = told.due /\ over.sender = s.sender
      /\ over.initialized = s.initialized
  BY <1>6, OverTamed
<1> HIDE DEF over
<1>8. CASE /\ shake[i].stopped /\ shake' = shake /\ ready' = ready
           /\ Suspend(h, Asleep, over, lock)
  BY <1>7, <1>8, HostSleeps, StillKept DEF Promised
<1>9. CASE /\ ~shake[i].stopped /\ shake' = StoppedShake(i, h)
           /\ ready' = ReadyAfter(s, i, o) /\ Suspend(h, Asleep, over, lock)
  <2>1. ShakeStill
    BY <1>1, <1>2, <1>9, StoppedStill
  <2>2. StartsReady(s, o) => Due(over, <<"ready", i>>) /\ Secure(over)
    BY <1>5, <1>7, <1>9 DEF Due, Secure, told, StartsReady
  <2>3. Promised(over)
    BY <1>1, <1>2, <1>9, <2>2, ReadyPromised
  <2> QED
    BY <1>7, <1>9, <2>1, <2>3, HostSleeps
<1>10. CASE /\ ~Ended(shake[i].task) /\ shake' = StoppedShake(i, h)
            /\ UNCHANGED ready
            /\ At("completing", i, h, v, p, lock)
  <2> DEFINE u == [v EXCEPT !.at = "completing", !.obj = i]
  <2>1. u \in Runs /\ u.at = "completing" /\ u.obj = i /\ u.res = o
    BY <1>2, <1>4 DEF Runs, Places, Awaits
  <2>2. Suspend(h, u, p, lock)
    BY <1>10 DEF At
  <2> HIDE DEF u
  <2>3. ShakeStill /\ shake'[i].task = "cancelling" /\ Among(h, shake'[i].waiters)
    BY <1>1, <1>2, <1>10, StoppedStill
  <2>4. Tamed(h, p)
    BY <1>2, PostTamed
  <2>5. Due(p, <<"shake", i>>) /\ p.sender = s.sender /\ p.initialized = s.initialized
    <3>1. <<"shake", i>> \in Dues
      BY <1>2, AgentNames
    <3>2. /\ \E q \in Seq(Dues) : p = [s EXCEPT !.due = q]
          /\ \A y : Due(p, y) <=> Due(s, y) \/ y = <<"shake", i>>
      BY <1>1, <3>1, Posted
    <3> QED
      BY <1>1, <3>2 DEF Gps
  <2> HIDE DEF p
  <2>6. Meant(h, u, p)
    BY <2>1, <2>3, <2>5 DEF Meant, Secure
  <2>7. Promised(p)
    BY <1>10 DEF Promised
  <2> QED
    BY <2>1, <2>2, <2>3, <2>4, <2>6, <2>7, HostSuspends
<1> QED
  BY <1>3, <1>8, <1>9, <1>10

LEMMA CompletedReady ==
    ASSUME NEW h, InTurn(h), Tamed(h, Now), UNCHANGED tp, Completed(h)
    PROVE  RInv'
<1> DEFINE i == run[h].obj
           o == run[h].res
           told == AfterOutcome(Now, i, o)
           over == IF o = "ready" /\ told.shake = i THEN [told EXCEPT !.shake = 0] ELSE told
<1>1. IInv /\ h \in Agents /\ run[h].at = "completing" /\ gp \in Gps
  BY DEF Completed, InTurn, IInv, Typed
<1>2. i \in Links
  BY <1>1 DEF IInv, Ordered, Completing
<1>3. /\ Tamed(h, told) /\ (StartsReady(Now, o) => Due(told, <<"ready", i>>))
      /\ told.sender = Now.sender /\ told.initialized = Now.initialized
  BY <1>2, AfterOutcomeTame DEF Tamed
<1>4. ready' = ReadyAfter(gp, i, o) /\ Suspend(h, Asleep, over, lock) /\ UNCHANGED shake
  BY DEF Completed
<1> HIDE DEF i, told
<1>5. /\ Tamed(h, over) /\ over.due = told.due /\ over.sender = Now.sender
      /\ over.initialized = Now.initialized
  BY <1>3, OverTamed
<1>6. StartsReady(gp, o) => StartsReady(Now, o) /\ Secure(gp)
  BY <1>1, NowIsGp DEF StartsReady, InTurn, RInv, Pledged, PledgeRun
<1>7. Secure(gp) => Secure(over)
  BY <1>5 DEF Secure, Tamed, Meek
<1>8. Promised(over)
  BY <1>1, <1>2, <1>3, <1>4, <1>5, <1>6, <1>7, ReadyPromised DEF Due
<1> HIDE DEF over
<1> QED
  BY <1>4, <1>5, <1>8, HostSleeps, StillKept

LEMMA RejectedReady ==
    ASSUME NEW h, InTurn(h), NEW s, Tamed(h, s), UNCHANGED tp, Rejected(h, s)
    PROVE  RInv'
<1>1. CASE s.shake # 0 /\ Complete(h, "failed", s)
  BY <1>1, CompleteReady
<1>2. CASE UNCHANGED tasks /\ Suspend(h, Asleep, Failed(s), lock)
  <2> DEFINE f == Failed(s)
  <2>1. s \in Gps
    BY DEF Tamed, Tame
  <2>2. Milder(f, s)
    BY <2>1 DEF Milder, Gps, Failed, States
  <2> HIDE DEF f
  <2>3. Tamed(h, f)
    BY <2>2, MilderTamed
  <2>4. Promised(f)
    BY <1>2 DEF Promised, tasks
  <2> QED
    BY <1>2, <2>3, <2>4, HostSleeps, StillKept DEF f, tasks
<1> QED
  BY <1>1, <1>2 DEF Rejected

(* What becomes of the session leaves it one that was made ready, or there *)
(* is no sender.                                                           *)
LEMMA SessionTamed ==
    ASSUME NEW h, NEW s, Tamed(h, s)
    PROVE  /\ Tamed(h, [s EXCEPT !.protocolReady = TRUE, !.initialized = TRUE])
           /\ Tamed(h, [s EXCEPT !.protocolReady = FALSE])
<1> DEFINE p == [s EXCEPT !.protocolReady = TRUE, !.initialized = TRUE]
           u == [s EXCEPT !.protocolReady = FALSE]
<1>1. s \in Gps
  BY DEF Tamed, Tame
<1>2. \A t \in {p, u} : /\ t \in Gps /\ t.due = s.due /\ t.sender = s.sender /\ t.open = s.open
                        /\ (s.initialized => t.initialized)
                        /\ (t.protocolReady => t.initialized)
  BY <1>1 DEF Gps
<1> HIDE DEF p, u
<1>3. \A t \in {p, u} : Tamed(h, t)
  BY <1>2, TameFields DEF Tamed
<1> QED
  BY <1>3 DEF p, u

LEMMA RestoredTamed ==
    ASSUME NEW h, NEW s, Tamed(h, s), NEW w, s.sender = 0 \/ w.fn # "supported"
    PROVE  Tamed(h, Restored(s, w))
<1> DEFINE t == Restored(s, w)
<1>1. s \in Gps
  BY DEF Tamed, Tame
<1>2. /\ t \in Gps /\ t.due = s.due /\ t.sender = s.sender /\ t.open = s.open
      /\ t.sender = 0 \/ (s.initialized => t.initialized)
      /\ t.protocolReady => t.initialized
  BY <1>1 DEF Gps, Restored
<1> HIDE DEF t
<1>3. Tamed(h, t)
  BY <1>2, TameFields DEF Tamed
<1> QED
  BY <1>3 DEF t

LEMMA BuiltReady ==
    ASSUME NEW h, InTurn(h), NEW s, Tamed(h, s), NEW w \in Runs, w.obj <= tp.opens,
           UNCHANGED tp, Built(h, w, s)
    PROVE  RInv'
<1> DEFINE Replies(n) == UNCHANGED tasks /\ At("replying", w.obj, h, w, n, lock)
           p == [s EXCEPT !.protocolReady = TRUE, !.initialized = TRUE]
           u == [s EXCEPT !.protocolReady = FALSE]
           m == Restored(s, w)
<1>1. Tamed(h, p) /\ Tamed(h, u) /\ (w.fn = "unsupported" => Tamed(h, m))
  BY SessionTamed, RestoredTamed
<1>2. (\E n \in {p, u} : Replies(n)) \/ (w.fn = "unsupported" /\ Rejected(h, m))
  BY DEF Built
<1> HIDE DEF p, u, m
<1>3. ASSUME NEW n \in {p, u}, Replies(n)
      PROVE  RInv'
  <2> DEFINE y == [w EXCEPT !.at = "replying", !.obj = w.obj]
  <2>1. y \in Runs /\ y.at = "replying" /\ y.obj = w.obj
    BY DEF Runs, Places
  <2>2. Suspend(h, y, n, lock)
    BY <1>3 DEF At
  <2> HIDE DEF y
  <2>3. Meant(h, y, n) /\ Promised(n) /\ ShakeStill
    BY <1>3, <2>1, StillKept DEF Meant, Promised, tasks
  <2> QED
    BY <1>1, <2>1, <2>2, <2>3, HostSuspends
<1> QED
  BY <1>1, <1>2, <1>3, RejectedReady

LEMMA DispatchedReady ==
    ASSUME NEW h, InTurn(h), Tamed(h, Now), Dispatched(h)
    PROVE  RInv'
<1> DEFINE w == [run[h] EXCEPT !.obj = gp.sender,
                               !.res = IF gp.protocolReady THEN "was ready" ELSE "none"]
           q == [w EXCEPT !.at = "queued"]
<1>1. /\ gp \in Gps /\ run[h] \in Runs /\ h \in Agents
      /\ gp.sender <= tp.opens /\ gp.sender \in Nat
  BY DEF InTurn, IInv, Typed, RInv, Numbers, Gps
<1>2. /\ w \in Runs /\ w.obj = gp.sender
      /\ q \in Runs /\ q.at = "queued" /\ q.obj = gp.sender
  BY <1>1 DEF Runs, Places, Results
<1>3. UNCHANGED tp
  BY DEF Dispatched
<1>4. \/ Rejected(h, Now) \/ Built(h, w, Now)
      \/ Suspend(h, q, Now, lock) /\ UNCHANGED tasks
      \/ run[h].at = "queued" /\ Suspend(h, run[h], Now, lock) /\ UNCHANGED tasks
      \/ run[h].at = "queued" /\ Built(h, run[h], Now)
  BY DEF Dispatched
<1> HIDE DEF w, q
<1>5. ASSUME NEW v \in Runs, v.at = "queued", v.obj <= tp.opens,
             Suspend(h, v, Now, lock), UNCHANGED tasks
      PROVE  RInv'
  <2>1. Meant(h, v, Now) /\ Promised(Now) /\ ShakeStill
    BY <1>5, StillKept DEF Meant, Promised, tasks
  <2> QED
    BY <1>3, <1>5, <2>1, HostSuspends
<1>6. run[h].at = "queued" => run[h].obj <= tp.opens
  BY <1>1 DEF InTurn, RInv, Numbers
<1>7. CASE run[h].at = "queued" /\ Built(h, run[h], Now)
  BY <1>1, <1>3, <1>6, <1>7, BuiltReady
<1>8. CASE Rejected(h, Now) \/ Built(h, w, Now)
  BY <1>1, <1>2, <1>3, <1>8, RejectedReady, BuiltReady
<1> QED
  BY <1>1, <1>2, <1>4, <1>5, <1>6, <1>7, <1>8

LEMMA ReplyAnsweredReady ==
    ASSUME "send" \notin Faults, NEW h, InTurn(h), Tamed(h, Now), ReplyAnswered(h)
    PROVE  RInv'
<1> DEFINE t == Restored(Now, run[h])
<1>1. UNCHANGED tp /\ Now.sender = gp.sender /\ Now.initialized = gp.initialized
  BY DEF ReplyAnswered, InTurn, IInv, Typed, Now, Gps
<1>2. CASE gp.shake # 0 /\ gp.protocolReady /\ Complete(h, "ready", Now)
  <2>1. Now.shake # 0 /\ Secure(Now)
    BY <1>1, <1>2, NowIsGp DEF Secure, InTurn, IInv, Typed, RInv, Certain
  <2> QED
    BY <1>1, <1>2, <2>1, CompleteReady
<1>3. CASE Suspend(h, Asleep, Now, lock) /\ UNCHANGED tasks
  BY <1>1, <1>3, HostSleeps, StillKept DEF Promised, tasks
<1>4. CASE ~tp.open /\ Rejected(h, t)
  <2>1. gp.sender = 0
    BY <1>4 DEF InTurn, RInv, IInv, Sole, Sendless
  <2>2. Tamed(h, t)
    BY <1>1, <2>1, RestoredTamed
  <2> HIDE DEF t
  <2> QED
    BY <1>1, <1>4, <2>2, RejectedReady
<1> QED
  BY <1>2, <1>3, <1>4 DEF ReplyAnswered

LEMMA HostTurnReady ==
    ASSUME "send" \notin Faults, IInv, IInv', RInv, NEW h \in HostTasks, Turn(Agent(h)),
           HostTurn(h)
    PROVE  RInv'
<1>1. InTurn(h) /\ Tamed(h, Now)
  BY AgentStart DEF Agents
<1>2. Completed(h) => UNCHANGED tp
  BY DEF Completed
<1> QED
  BY <1>1, <1>2, DispatchedReady, ReplyAnsweredReady, CompletedReady DEF HostTurn

-----------------------------------------------------------------------------
(* The turns of the event loop, and the steps of the world outside.        *)

LEMMA RunReady ==
    ASSUME {"send", "teardown"} \cap Faults = {}, IInv, IInv', RInv, Run
    PROVE  RInv'
BY CallerTurnReady, HostTurnReady, LinkTurnReady, ConnectedReady, ShakeTurnReady,
   ShakeToldReady, ReadyTurnReady, LoopTurnReady DEF Run

(* What is posted goes behind what is due.                                 *)
LEMMA PostBehind ==
    ASSUME NEW s \in Gps, NEW x \in Dues
    PROVE  \A y : \A k \in DOMAIN Post(s, x).due :
              Post(s, x).due[k] = y /\ y # x => k \in DOMAIN s.due /\ s.due[k] = y
<1> DEFINE q == Append(s.due, x)
<1>1. s.due \in Seq(Dues) /\ DOMAIN s.due = 1 .. Len(s.due) /\ Len(s.due) \in Nat
  BY DEF Gps
<1>2. /\ q \in Seq(Dues) /\ DOMAIN q = 1 .. Len(s.due) + 1
      /\ \A k \in 1 .. Len(s.due) : q[k] = s.due[k]
      /\ q[Len(s.due) + 1] = x
  BY <1>1
<1> HIDE DEF q
<1>3. Post(s, x) = s \/ Post(s, x).due = q
  BY DEF Post, Gps, q
<1>4. \A y : \A k \in DOMAIN q : q[k] = y /\ y # x => k \in DOMAIN s.due /\ s.due[k] = y
  BY <1>1, <1>2
<1> QED
  BY <1>3, <1>4

(* Opening the transport takes longer than all that was due.               *)
LEMMA NothingDue ==
    ASSUME RInv, gp.due = << >>
    PROVE  /\ \A y : ~Due(gp, y)
           /\ \A i \in Links : ready[i].task # "created"
           /\ \A a \in Agents : run[a].at # "completing"
<1>1. \A y : ~Due(gp, y)
  BY DEF Due
<1> QED
  BY <1>1 DEF RInv, CreatedDue, Awoken

LEMMA WorldReady ==
    ASSUME IInv, IInv', RInv, NEW y \in Dues, \A i \in Links : y # <<"told", i>>,
           gp' = Post(gp, y), UNCHANGED <<shake, ready>>,
           tp'.opens = tp.opens, gp.open => tp'.open, tp'.links \in Nat, tp.links <= tp'.links,
           \A i \in Links : y = <<"up", i>> => gp.due = << >> /\ i > tp.links /\ i <= tp'.links,
           \A a \in Agents : run'[a].at \in Lasting => Remains(a),
           \A c \in Callers : run'[c].at = "opening" /\ run'[c].res = "none" =>
               /\ run[c].at = "opening" /\ run[c].res = "none"
               /\ y = Agent(c) => gp.due = << >>
    PROVE  RInv'
<1>1. gp \in Gps /\ tp.links \in Nat /\ \A i \in Links : i \in Nat
  BY DEF IInv, Typed, Tps, Links
<1>2. /\ \E q \in Seq(Dues) : gp' = [gp EXCEPT !.due = q]
      /\ \A z : Due(gp', z) <=> Due(gp, z) \/ z = y
  BY <1>1, Posted
<1>3. /\ gp'.sender = gp.sender /\ gp'.open = gp.open
      /\ gp'.protocolReady = gp.protocolReady /\ gp'.initialized = gp.initialized
  BY <1>1, <1>2 DEF Gps
<1>4. \A z : \A k \in DOMAIN gp'.due :
         gp'.due[k] = z /\ z # y => k \in DOMAIN gp.due /\ gp.due[k] = z
  BY <1>1, PostBehind
<1>5. Secure(gp) => Secure(gp')
  BY <1>3 DEF Secure
<1>6. Awoken(gp', shake', run')
  BY <1>2 DEF Awoken, RInv, Lasting, Remains
<1>7. Rising(gp', shake', tp')
  <2>1. \A i \in Links : i > tp'.links => i > tp.links
    BY <1>1
  <2>2. \A i \in Links : i <= tp.links => i <= tp'.links
    BY <1>1
  <2>3. ASSUME NEW k \in DOMAIN gp'.due, NEW i \in Links, gp'.due[k] = <<"up", i>>
        PROVE  k = 1 /\ shake[i].task = "none" /\ i <= tp'.links
    <3>1. CASE y # <<"up", i>>
      <4>1. k \in DOMAIN gp.due /\ gp.due[k] = <<"up", i>>
        BY <1>4, <2>3, <3>1
      <4>2. Rising(gp, shake, tp)
        BY DEF RInv
      <4> QED
        BY <2>2, <4>1, <4>2 DEF Rising
    <3>2. CASE y = <<"up", i>>
      <4>1. gp.due = << >> /\ i > tp.links /\ i <= tp'.links
        BY <3>2
      <4>2. gp'.due = << y >>
        BY <1>1, <4>1 DEF Post, Due, Gps
      <4>3. k = 1
        BY <4>2
      <4> QED
        BY <4>1, <4>3 DEF RInv, Rising
    <3> QED
      BY <3>1, <3>2
  <2> QED
    BY <2>1, <2>3 DEF Rising, RInv
<1>8. CreatedDue(gp', ready')
  BY <1>2 DEF CreatedDue, RInv
<1>9. Emptied(gp', ready', run')
  <2> SUFFICES ASSUME NEW c \in Callers, run'[c].at = "opening", run'[c].res = "none",
                      Due(gp', Agent(c))
               PROVE  /\ \A i \in Links : ready[i].task # "created" /\ ~Due(gp', <<"told", i>>)
                      /\ \A a \in Agents : run'[a].at # "completing"
    BY DEF Emptied
  <2>1. \/ gp.due = << >>
        \/ run[c].at = "opening" /\ run[c].res = "none" /\ Due(gp, Agent(c))
    BY <1>2
  <2>2. /\ \A i \in Links : ready[i].task # "created" /\ ~Due(gp, <<"told", i>>)
        /\ \A a \in Agents : run[a].at # "completing"
    BY <2>1, NothingDue DEF RInv, Emptied
  <2> QED
    BY <1>2, <2>2 DEF Lasting, Remains
<1>10. Numbers(gp', ready', run', tp')
  BY <1>3 DEF Numbers, RInv, Lasting, Remains
<1>11. Pledged(gp', shake', ready', run')
  <2>1. PledgeReady(gp', ready') => PledgeReady(gp, ready)
    BY <1>3 DEF PledgeReady
  <2>2. PledgeShake(gp', shake') => PledgeShake(gp, shake)
    BY <1>2 DEF PledgeShake
  <2>3. PledgeRun(run') => PledgeRun(run)
    BY DEF PledgeRun, Lasting, Remains
  <2> QED
    BY <1>5, <2>1, <2>2, <2>3 DEF Pledged, RInv
<1>12. Certain(gp')
  BY <1>3 DEF Certain, RInv
<1>13. gp'.open => tp'.open
  BY <1>3
<1> QED
  BY <1>6, <1>7, <1>8, <1>9, <1>10, <1>11, <1>12, <1>13 DEF RInv

(* A step over the link that is there.                                     *)
LEMMA WorldSame ==
    ASSUME IInv, IInv', RInv, NEW y \in Dues, \A i \in Links : y # <<"told", i>> /\ y # <<"up", i>>,
           gp' = Post(gp, y), UNCHANGED <<shake, ready>>,
           tp'.opens = tp.opens, tp'.open = tp.open, tp'.links = tp.links,
           \A a \in Agents : run'[a].at \in Lasting => Remains(a),
           \A c \in Callers : run'[c].at = "opening" /\ run'[c].res = "none" =>
               /\ run[c].at = "opening" /\ run[c].res = "none"
               /\ y = Agent(c) => gp.due = << >>
    PROVE  RInv'
<1>1. tp.links \in Nat /\ tp.links <= tp'.links /\ (gp.open => tp'.open)
  BY DEF IInv, Typed, Tps, RInv
<1> QED
  BY <1>1, WorldReady

LEMMA CallReady ==
    ASSUME IInv, IInv', RInv, NEW c \in Callers, NEW fn \in Requests[c], Call(c, fn)
    PROVE  RInv'
<1>1. c \in Agents /\ run \in [Agents -> Runs]
  BY ParticipantsApart DEF IInv, Typed
<1>2. run'[c].at = "called" /\ \A a \in Agents : a # c => run'[a] = run[a]
  BY <1>1 DEF Call
<1>3. \A a \in Agents : run'[a].at \in Lasting => Remains(a)
  BY <1>2 DEF Lasting, Remains
<1>4. \A d \in Callers : run'[d].at = "opening" /\ run'[d].res = "none" =>
         /\ run[d].at = "opening" /\ run[d].res = "none" /\ Agent(c) # Agent(d)
  BY <1>2, ParticipantsApart, AgentNames
<1> QED
  BY <1>1, <1>3, <1>4, AgentNames, WorldSame DEF Call, Makes, tasks

LEMMA AnswerReady ==
    ASSUME IInv, IInv', RInv, NEW a \in Agents, Answer(a)
    PROVE  RInv'
<1>1. \A b \in Agents : run'[b].at \in Lasting => Remains(b)
  BY DEF Answer, Remains
<1>2. \A c \in Callers : run[c].at = "opening" /\ Agent(a) = Agent(c) => gp.due = << >>
  BY AgentNames DEF Answer
<1>3. \A c \in Callers : run'[c].at = "opening" /\ run'[c].res = "none" =>
         /\ run[c].at = "opening" /\ run[c].res = "none"
         /\ Agent(a) = Agent(c) => gp.due = << >>
  BY <1>2 DEF Answer
<1>4. gp' = Post(gp, Agent(a)) /\ UNCHANGED <<shake, ready, tp>>
  BY DEF Answer, Makes, tasks
<1>5. Agent(a) \in Dues /\ \A i \in Links : Agent(a) # <<"told", i>> /\ Agent(a) # <<"up", i>>
  BY AgentNames
<1> QED
  BY <1>1, <1>3, <1>4, <1>5, WorldSame

LEMMA CutReady ==
    ASSUME IInv, IInv', RInv, NEW c \in Callers, NEW res \in {"timeout", "cancelled"},
           Cut(c, res)
    PROVE  RInv'
<1>1. c \in Agents /\ run \in [Agents -> Runs]
  BY ParticipantsApart DEF IInv, Typed
<1>2. /\ run'[c].at = run[c].at /\ run'[c].res = res
      /\ run[c].at \in {"opening", "connecting", "wait ready", "woken"}
      /\ \A a \in Agents : a # c => run'[a] = run[a]
  BY <1>1 DEF Cut, Attempting, Runs
<1>3. \A a \in Agents : run'[a].at \in Lasting => Remains(a)
  BY <1>2 DEF Lasting, Remains
<1>4. \A d \in Callers : run'[d].at = "opening" /\ run'[d].res = "none" =>
         /\ run[d].at = "opening" /\ run[d].res = "none" /\ Agent(c) # Agent(d)
  BY <1>2, ParticipantsApart, AgentNames
<1>5. gp' = Post(gp, Agent(c)) /\ UNCHANGED <<shake, ready, tp>>
  BY DEF Cut, tasks
<1>6. Agent(c) \in Dues /\ \A i \in Links : Agent(c) # <<"told", i>> /\ Agent(c) # <<"up", i>>
  BY <1>1, AgentNames
<1> QED
  BY <1>1, <1>3, <1>4, <1>5, <1>6, WorldSame

LEMMA LinkUpReady ==
    ASSUME IInv, IInv', RInv, LinkUp
    PROVE  RInv'
<1> DEFINE i == tp.links + 1
<1>1. tp \in Tps /\ tp.links \in Nat /\ MaxLinks \in Nat /\ tp.links < MaxLinks
  BY Zero DEF IInv, Typed, Tps, LinkUp
<1>2. i \in Links /\ i > tp.links /\ i \in Nat /\ tp.links <= i
  BY <1>1 DEF Links
<1>3. /\ tp' = [tp EXCEPT !.link = i, !.links = i] /\ gp' = Post(gp, <<"up", i>>)
      /\ UNCHANGED <<shake, ready, run>> /\ gp.due = << >> /\ tp.open
  BY DEF LinkUp, Makes, tasks
<1> HIDE DEF i
<1>4. tp'.links = i /\ tp'.opens = tp.opens /\ tp'.open = tp.open
  BY <1>1, <1>3 DEF Tps
<1>5. <<"up", i>> \in Dues /\ \A j \in Links : <<"up", i>> # <<"told", j>>
  BY <1>2, AgentNames
<1>6. \A j \in Links : <<"up", i>> = <<"up", j>> => gp.due = << >> /\ j > tp.links /\ j <= tp'.links
  BY <1>2, <1>3, <1>4
<1>7. \A a \in Agents : run'[a].at \in Lasting => Remains(a)
  BY <1>3 DEF Remains
<1>8. \A c \in Callers : run'[c].at = "opening" /\ run'[c].res = "none" =>
         /\ run[c].at = "opening" /\ run[c].res = "none"
         /\ <<"up", i>> = Agent(c) => gp.due = << >>
  BY <1>3
<1> QED
  BY <1>2, <1>3, <1>4, <1>5, <1>6, <1>7, <1>8, WorldReady

LEMMA LinkDownReady ==
    ASSUME IInv, IInv', RInv, LinkDown
    PROVE  RInv'
<1> DEFINE i == tp.link
<1>1. /\ tp \in Tps /\ run \in [Agents -> Runs] /\ Numbered(tp, run) /\ i # 0
      /\ i \in 0 .. MaxLinks
  BY DEF IInv, Typed, Ordered, Tps, LinkDown
<1>2. i \in Links /\ i \in Agents
  BY <1>1, ParticipantsApart DEF Links
<1>3. run'[i].at = "down" /\ \A a \in Agents : a # i => run'[a] = run[a]
  BY <1>1, <1>2 DEF LinkDown, Runs
<1>4. \A a \in Agents : run'[a].at \in Lasting => Remains(a)
  BY <1>3 DEF Lasting, Remains
<1>5. \A d \in Callers : run'[d].at = "opening" /\ run'[d].res = "none" =>
         /\ run[d].at = "opening" /\ run[d].res = "none" /\ Agent(i) # Agent(d)
  BY <1>2, <1>3, ParticipantsApart, AgentNames
<1>6. tp'.opens = tp.opens /\ tp'.open = tp.open /\ tp'.links = tp.links
  BY <1>1 DEF LinkDown, Tps
<1> QED
  BY <1>2, <1>4, <1>5, <1>6, AgentNames, WorldSame DEF LinkDown, Makes, tasks

LEMMA ReceiveReady ==
    ASSUME IInv, IInv', RInv, NEW h \in HostTasks, NEW what, Receive(h, what)
    PROVE  RInv'
<1>1. h \in Agents /\ run \in [Agents -> Runs] /\ h \notin Callers
  BY ParticipantsApart DEF IInv, Typed
<1>2. run'[h].at = "received" /\ \A a \in Agents : a # h => run'[a] = run[a]
  BY <1>1 DEF Receive, Runs
<1>3. \A a \in Agents : run'[a].at \in Lasting => Remains(a)
  BY <1>2 DEF Lasting, Remains
<1>4. \A d \in Callers : run'[d].at = "opening" /\ run'[d].res = "none" =>
         /\ run[d].at = "opening" /\ run[d].res = "none" /\ Agent(h) # Agent(d)
  BY <1>1, <1>2, ParticipantsApart, AgentNames
<1>5. gp' = Post(gp, Agent(h)) /\ UNCHANGED <<shake, ready, tp>>
  BY DEF Receive, Makes, tasks
<1>6. Agent(h) \in Dues /\ \A i \in Links : Agent(h) # <<"told", i>> /\ Agent(h) # <<"up", i>>
  BY <1>1, AgentNames
<1> QED
  BY <1>1, <1>3, <1>4, <1>5, <1>6, WorldSame

LEMMA TimeReady ==
    ASSUME IInv, IInv', RInv, NEW i \in Links, Stir(i) \/ HoldoffEnds(i) \/ LoopDies(i)
    PROVE  RInv'
<1>1. CASE LoopDies(i)
  BY <1>1 DEF LoopDies, RInv, Remains
<1>2. CASE \E k \in {"shake", "ready"} : Makes(<<k, i>>) /\ UNCHANGED <<run, tp>>
  <2>1. PICK k \in {"shake", "ready"} : Makes(<<k, i>>) /\ UNCHANGED <<run, tp>>
    BY <1>2
  <2>2. <<k, i>> \in Dues /\ \A a : <<k, i>> # Agent(a)
    BY AgentNames
  <2>3. \A j \in Links : <<k, i>> # <<"told", j>> /\ <<k, i>> # <<"up", j>>
    OBVIOUS
  <2>4. \A a \in Agents : run'[a].at \in Lasting => Remains(a)
    BY <2>1 DEF Remains
  <2> QED
    BY <2>1, <2>2, <2>3, <2>4, WorldSame DEF Makes, tasks
<1> QED
  BY <1>1, <1>2 DEF Stir, HoldoffEnds

LEMMA InitReady ==
    ASSUME Init
    PROVE  RInv
<1>1. /\ gp.due = << >> /\ gp.sender = 0 /\ ~gp.open /\ tp.opens = 0 /\ tp.links = 0
      /\ ~gp.protocolReady
  BY DEF Init
<1>2. /\ \A i \in Links : shake[i].task = "none" /\ ready[i].task = "none" /\ ready[i].sender = 0
      /\ \A a \in Agents : run[a].at = "idle"
  BY AsleepRun DEF Init
<1>3. \A y : ~Due(gp, y)
  BY <1>1 DEF Due
<1>4. Rising(gp, shake, tp)
  BY <1>1, <1>2 DEF Rising
<1>5. Awoken(gp, shake, run) /\ Certain(gp)
  BY <1>1, <1>2 DEF Awoken, Certain
<1>6. CreatedDue(gp, ready) /\ Emptied(gp, ready, run)
  BY <1>2, <1>3 DEF CreatedDue, Emptied
<1>7. Numbers(gp, ready, run, tp)
  BY <1>1, <1>2 DEF Numbers
<1>8. Pledged(gp, shake, ready, run)
  BY <1>1 DEF Pledged, Secure
<1> QED
  BY <1>1, <1>4, <1>5, <1>6, <1>7, <1>8 DEF RInv

LEMMA NextKeepsReadiness ==
    ASSUME {"send", "teardown"} \cap Faults = {}, IInv, IInv', RInv, [Next]_vars
    PROVE  RInv'
<1>1. CASE UNCHANGED vars
  BY <1>1 DEF vars, RInv
<1>2. CASE Next
  BY <1>2, RunReady, CallReady, AnswerReady, CutReady, LinkUpReady, LinkDownReady,
     ReceiveReady, TimeReady DEF Next
<1> QED
  BY <1>1, <1>2

LEMMA Readiness ==
    ASSUME {"send", "teardown"} \cap Faults = {}
    PROVE  Spec => []RInv
<1>1. Init => RInv
  BY InitReady
<1>2. IInv /\ IInv' /\ RInv /\ [Next]_vars => RInv'
  BY NextKeepsReadiness
<1> QED
  BY <1>1, <1>2, Invariance, PTL DEF Spec

(* A periodic controller publishes a connection only with a sender to use  *)
(* it with, none of whose replies is still being sent, and never under a   *)
(* close(), whatever fails: ReadyTurn's checks hold at the very step.      *)
PublishedInTime ==
    [][Publishes /\ gp.reporting = "periodic" =>
          gp.sender # 0 /\ ~gp.closing /\ ~gp.attempt /\ ~Replying(gp.sender)]_vars

(* That holds of every controller, over any transport, whatever fails.     *)
THEOREM PublishesInTime == Spec => PublishedInTime
<1>1. IInv /\ [Next]_vars =>
         [Publishes /\ gp.reporting = "periodic" =>
            gp.sender # 0 /\ ~gp.closing /\ ~gp.attempt /\ ~Replying(gp.sender)]_vars
  BY NextKeeps DEF Proper, Sober, Publishes, MayPublish
<1> QED
  BY <1>1, Invariance, PTL DEF Spec, PublishedInTime

(* A periodic controller over a transport that refuses no report while it  *)
(* is open, and whose closing does not raise, publishes a connection only  *)
(* in a session that the host has made ready, none of whose sender's       *)
(* decisive replies is still in flight, with a sender, and never under a   *)
(* close(), whatever the host takes back and whatever else fails.          *)
THEOREM PublishesReady ==
    ASSUME Reliable
    PROVE  Spec => PublishedReady
<1>1. {"send", "teardown"} \cap Faults = {}
  BY DEF Reliable
<1>2. ASSUME IInv, RInv, [Next]_vars, Publishes
      PROVE  /\ gp.initialized /\ ~gp.closing
             /\ gp.reporting = "periodic" => gp.sender # 0
             /\ ~\E h \in HostTasks :
                   run[h].at = "replying" /\ run[h].obj = gp.sender /\ run[h].res # "was ready"
  <2>1. gp.reporting # "direct"
    BY <1>2 DEF IInv, Typed, Gps, Reliable
  <2>2. MayPublish
    BY <1>2, <2>1, NextKeeps DEF Proper, Sober, Publishes
  <2>3. PledgeReady(gp, ready)
    BY <2>2 DEF MayPublish, PledgeReady
  <2>4. gp.initialized
    BY <1>2, <2>2, <2>3 DEF RInv, Pledged, Secure, MayPublish
  <2> QED
    BY <2>2, <2>4 DEF MayPublish, Replying
<1>3. IInv /\ RInv /\ [Next]_vars =>
         [Publishes =>
            /\ gp.initialized /\ ~gp.closing
            /\ gp.reporting = "periodic" => gp.sender # 0
            /\ ~\E h \in HostTasks :
                  run[h].at = "replying" /\ run[h].obj = gp.sender /\ run[h].res # "was ready"]_vars
  BY <1>2
<1> QED
  BY <1>1, <1>3, Invariance, Readiness, PTL DEF Spec, PublishedReady

-----------------------------------------------------------------------------
(* Nothing is left open.  A third invariant, of all controllers over any   *)
(* transport: what close() has taken down it takes down to the end.        *)

(* close() has its flag up only while it is under way.                     *)
Held(s, l, r) == s.closing => \E c \in Callers : l.holder = c /\ r[c].at \in Closes

(* What a caller is at fits what it has the lock for.  close() has no      *)
(* error to return before it raises one, and open() is cancelled only if   *)
(* an application may do that.                                             *)
Fits(v) ==
    /\ v.at \in Closes => v.body = "close"
    /\ v.at \in {"opening", "open closing"} => v.body = "open"
    /\ v.body = "close" => v.res # "error"
    /\ "cancel open" \notin Faults =>
          (v.at = "opening" \/ (v.at \in {"called", "lock"} /\ v.body = "open")
             => v.res # "cancelled")
Fitting(r) == \A c \in Callers : Fits(r[c])

(* Somebody waits for the end of a report loop that was cancelled, and is  *)
(* not due before it has come.                                             *)
Watched(s, p, r) ==
    \A i \in Links : p[i] = "cancelling" =>
        \E a \in Callers \cup Links :
            r[a].at = "stop loop" /\ r[a].obj = i /\ ~Due(s, Agent(a))

(* What is being opened is not open.                                       *)
Unopened(s, r) == \A c \in Callers : r[c].at \in {"opening", "open closing"} => ~s.open

Orderly(s, l, r, p) ==
    Held(s, l, r) /\ Fitting(r) /\ Watched(s, p, r) /\ Unopened(s, r)

(* A controller that is open without a sender is being closed, by close()  *)
(* or by the callback of a link, unless closing its transport has raised.  *)
Leaving(s, r) ==
    s.open /\ s.sender = 0 =>
        s.torn \/ s.closing \/ \E i \in Links : r[i].at = "down closing"

(* The flag says what the transport is, unless closing that raised, or     *)
(* open() was cancelled.                                                   *)
Together(s, t) ==
    "cancel open" \notin Faults => (s.open /\ ~s.torn => t.open) /\ (~s.open => ~t.open)

OInv == Orderly(gp, lock, run, loop) /\ Together(gp, tp)

(* No close() raises in this step.                                         *)
NoneRaises ==
    \A c \in Callers :
        run[c].body = "close" /\ lock.holder = c /\ lock'.holder # c => run'[c].res # "error"

(* What every turn does.                                                   *)
Keeps ==
    /\ OInv'
    /\ Leaving(gp, run) /\ NoneRaises => Leaving(gp', run')
    /\ gp.ready = 0 /\ gp.loop = 0 => NoneRaises \/ ("teardown" \in Faults /\ gp'.torn)

-----------------------------------------------------------------------------
(* Settling the agents leaves everything orderly.                          *)
LEMMA SettledOrderly ==
    ASSUME IInv, IInv', NEW s \in Gps, Once(s.due), NEW l, NEW r \in [Agents -> Runs],
           Settle(s, l, r), Orderly(s, l, r, loop')
    PROVE  /\ Orderly(gp', lock', run', loop')
           /\ gp'.open = s.open /\ gp'.sender = s.sender
           /\ gp'.closing = s.closing /\ gp'.torn = s.torn
           /\ lock' = l
           /\ \A b \in Agents : run'[b].res = r[b].res
           /\ \A b \in Agents : r[b].at = "down closing" => run'[b].at = "down closing"
<1>1. lock' = l /\ l \in Locks(Callers)
  <2>1. lock' = l
    BY SettleRuns
  <2>2. lock' \in Locks(Callers)
    BY DEF IInv, Typed
  <2> QED
    BY <2>1, <2>2
<1>2. /\ \E q \in Seq(Dues) : gp' = [s EXCEPT !.due = q]
      /\ \A a \in Agents : Due(gp', Agent(a)) =>
           \/ Due(s, Agent(a))
           \/ r[a].at \in {"wait ready", "wait link"}
           \/ l.holder = NoTask /\ l.waiters # << >> /\ a = Head(l.waiters)
  BY <1>1, SettleDue
<1>3. \A a \in Agents :
         /\ run'[a].obj = r[a].obj /\ run'[a].res = r[a].res /\ run'[a].body = r[a].body
         /\ \/ run'[a].at = r[a].at
            \/ r[a].at = "wait ready" /\ run'[a].at = "woken"
            \/ r[a].at = "wait link" /\ run'[a].at = "link gone"
  BY SettleRuns
<1>4. /\ gp'.open = s.open /\ gp'.sender = s.sender
      /\ gp'.closing = s.closing /\ gp'.torn = s.torn
  BY <1>2 DEF Gps
<1>5. Held(gp', lock', run')
  <2> SUFFICES ASSUME gp'.closing
               PROVE  \E c \in Callers : lock'.holder = c /\ run'[c].at \in Closes
    BY DEF Held
  <2>1. PICK c \in Callers : l.holder = c /\ r[c].at \in Closes
    BY <1>4 DEF Orderly, Held
  <2>2. run'[c].at \in Closes
    BY <1>3, <2>1, ParticipantsApart DEF Closes, Pasts
  <2> QED
    BY <1>1, <2>1, <2>2
<1>6. Fitting(run')
  <2> SUFFICES ASSUME NEW c \in Callers PROVE Fits(run'[c])
    BY DEF Fitting
  <2>1. Fits(r[c]) /\ c \in Agents
    BY ParticipantsApart DEF Orderly, Fitting
  <2> QED
    BY <1>3, <2>1 DEF Fits, Closes, Pasts
<1>7. Watched(gp', loop', run')
  <2> SUFFICES ASSUME NEW i \in Links, loop'[i] = "cancelling"
               PROVE  \E a \in Callers \cup Links :
                         run'[a].at = "stop loop" /\ run'[a].obj = i /\ ~Due(gp', Agent(a))
    BY DEF Watched
  <2>1. PICK a \in Callers \cup Links :
             r[a].at = "stop loop" /\ r[a].obj = i /\ ~Due(s, Agent(a))
    BY DEF Orderly, Watched
  <2>2. a \in Agents /\ run'[a].at = "stop loop" /\ run'[a].obj = i
    BY <1>3, <2>1, ParticipantsApart
  <2>3. ~(l.waiters # << >> /\ a = Head(l.waiters))
    <3> SUFFICES ASSUME l.waiters # << >>, a = Head(l.waiters) PROVE FALSE
      OBVIOUS
    <3>1. 1 \in 1 .. Len(l.waiters) /\ Head(l.waiters) = l.waiters[1]
          /\ l.waiters[1] \in Callers
      BY <1>1 DEF Locks
    <3>2. run'[a].at = "lock"
      BY <1>1, <3>1 DEF IInv, Ordered, Queue, Among
    <3> QED
      BY <2>2, <3>2
  <2>4. ~Due(gp', Agent(a))
    BY <1>2, <2>1, <2>2, <2>3
  <2> QED
    BY <2>1, <2>2, <2>4
<1>8. Orderly(gp', lock', run', loop')
  <2>1. Unopened(s, r)
    BY DEF Orderly
  <2>2. Unopened(gp', run')
    BY <1>3, <1>4, <2>1, ParticipantsApart DEF Unopened
  <2> QED
    BY <1>5, <1>6, <1>7, <2>2 DEF Orderly
<1>9. \A b \in Agents : r[b].at = "down closing" => run'[b].at = "down closing"
  BY <1>3
<1> QED
  BY <1>1, <1>3, <1>4, <1>8, <1>9

-----------------------------------------------------------------------------
(* The turn of an agent.                                                   *)
InClose(a) ==
    IInv /\ IInv' /\ Orderly(gp, lock, run, loop) /\ a \in Agents /\ Turn(Agent(a))

(* The runtime s makes no agent due in the turn of a.                      *)
Soft(a, s) ==
    /\ s \in Gps /\ Once(s.due)
    /\ \A b \in Agents : Due(s, Agent(b)) => b # a /\ Due(gp, Agent(b))

LEMMA SoftNow ==
    ASSUME NEW a, InClose(a)
    PROVE  Soft(a, Now) /\ Now \in Gps /\ run[a] \in Runs /\ gp \in Gps /\ lock \in Locks(Callers)
<1>1. gp \in Gps /\ run[a] \in Runs /\ lock \in Locks(Callers)
  BY DEF InClose, IInv, Typed
<1>2. /\ Now \in Gps /\ Once(Now.due)
      /\ \A b \in Agents : Due(Now, Agent(b)) <=> Due(gp, Agent(b)) /\ Agent(b) # Agent(a)
  BY TurnTaken DEF InClose
<1> QED
  BY <1>1, <1>2 DEF Soft

LEMMA SoftFields ==
    ASSUME NEW a, NEW s, Soft(a, s), NEW t \in Gps, t.due = s.due
    PROVE  Soft(a, t)
BY DEF Soft, Due

LEMMA SoftPost ==
    ASSUME NEW a, NEW s, Soft(a, s), NEW k \in {"shake", "told", "ready", "loop"}, NEW i \in Links
    PROVE  LET p == Post(s, <<k, i>>)
           IN  /\ Soft(a, p)
               /\ p.open = s.open /\ p.sender = s.sender /\ p.closing = s.closing /\ p.torn = s.torn
<1> DEFINE p == Post(s, <<k, i>>)
<1>1. s \in Gps /\ <<k, i>> \in Dues /\ \A b : <<k, i>> # Agent(b)
  BY AgentNames DEF Soft
<1>2. /\ p \in Gps /\ (\E q \in Seq(Dues) : p = [s EXCEPT !.due = q])
      /\ \A y : Due(p, y) <=> Due(s, y) \/ y = <<k, i>>
      /\ Once(s.due) => Once(p.due)
  BY <1>1, Posted
<1>3. p.open = s.open /\ p.sender = s.sender /\ p.closing = s.closing /\ p.torn = s.torn
  BY <1>1, <1>2 DEF Gps
<1> HIDE DEF p
<1>4. Soft(a, p)
  BY <1>1, <1>2 DEF Soft
<1> QED
  BY <1>3, <1>4 DEF p

(* No loop is cancelled, but by a that waits for its end at v.             *)
LoopsLeft(a, v) ==
    \A i \in Links : loop'[i] = "cancelling" =>
        \/ loop[i] = "cancelling"
        \/ a \in Callers \cup Links /\ v.at = "stop loop" /\ v.obj = i

(* close() has its flag up over the turn, by a at v, or by another.        *)
FlagKept(a, v, s, l) ==
    s.closing => \/ a \in Callers /\ l.holder = a /\ v.at \in Closes
                 \/ gp.closing /\ l.holder = lock.holder /\ lock.holder # a

LeavingAt(a, v, s) ==
    s.open /\ s.sender = 0 =>
        \/ s.torn \/ s.closing
        \/ a \in Links /\ v.at = "down closing"
        \/ \E i \in Links : i # a /\ run[i].at = "down closing"

(* A caller opens what is not open, and only who has the lock opens it.    *)
OpensAt(a, v, s) ==
    /\ a \in Callers /\ v.at \in {"opening", "open closing"} => ~s.open
    /\ s.open => gp.open \/ lock.holder = a

LEMMA SuspendOrderly ==
    ASSUME NEW a, InClose(a), NEW s, Soft(a, s), NEW v \in Runs, NEW l, Suspend(a, v, s, l),
           a \in Callers => Fits(v), FlagKept(a, v, s, l), LoopsLeft(a, v), OpensAt(a, v, s)
    PROVE  /\ Orderly(gp', lock', run', loop')
           /\ gp'.open = s.open /\ gp'.torn = s.torn
           /\ LeavingAt(a, v, s) => Leaving(gp', run')
           /\ (a \in Callers /\ run[a].body = "close" /\ lock.holder = a /\ l.holder # a
                 => v.res # "error") => NoneRaises
<1> DEFINE r == [run EXCEPT ![a] = v]
<1>1. run \in [Agents -> Runs] /\ a \in Agents /\ Due(gp, Agent(a))
  BY TurnTaken DEF IInv, Typed, InClose
<1>2. r \in [Agents -> Runs] /\ r[a] = v /\ \A b \in Agents : b # a => r[b] = run[b]
  BY <1>1
<1>3. Settle(s, l, r)
  BY DEF Suspend
<1> HIDE DEF r
<1>4. Held(s, l, r)
  <2> SUFFICES ASSUME s.closing
               PROVE  \E c \in Callers : l.holder = c /\ r[c].at \in Closes
    BY DEF Held
  <2>1. CASE a \in Callers /\ l.holder = a /\ v.at \in Closes
    BY <1>2, <2>1
  <2>2. CASE gp.closing /\ l.holder = lock.holder /\ lock.holder # a
    <3>1. PICK c \in Callers : lock.holder = c /\ run[c].at \in Closes
      BY <2>2 DEF InClose, Orderly, Held
    <3>2. r[c] = run[c]
      BY <1>2, <2>2, <3>1, ParticipantsApart
    <3> QED
      BY <2>2, <3>1, <3>2
  <2> QED
    BY <2>1, <2>2 DEF FlagKept
<1>5. Fitting(r)
  BY <1>2, ParticipantsApart DEF Fitting, InClose, Orderly
<1>6. Watched(s, loop', r)
  <2> SUFFICES ASSUME NEW i \in Links, loop'[i] = "cancelling"
               PROVE  \E b \in Callers \cup Links :
                         r[b].at = "stop loop" /\ r[b].obj = i /\ ~Due(s, Agent(b))
    BY DEF Watched
  <2>1. CASE a \in Callers \cup Links /\ v.at = "stop loop" /\ v.obj = i
    BY <1>1, <1>2, <2>1 DEF Soft
  <2>2. CASE loop[i] = "cancelling"
    <3>1. PICK b \in Callers \cup Links :
               run[b].at = "stop loop" /\ run[b].obj = i /\ ~Due(gp, Agent(b))
      BY <2>2 DEF InClose, Orderly, Watched
    <3>2. b \in Agents /\ b # a /\ r[b] = run[b] /\ ~Due(s, Agent(b))
      BY <1>1, <1>2, <3>1, ParticipantsApart DEF Soft
    <3> QED
      BY <3>1, <3>2
  <2> QED
    BY <2>1, <2>2 DEF LoopsLeft
<1>11. Unopened(s, r)
  <2> SUFFICES ASSUME NEW c \in Callers, r[c].at \in {"opening", "open closing"}, s.open
               PROVE  FALSE
    BY DEF Unopened
  <2>1. c # a
    BY <1>2 DEF OpensAt
  <2>2. run[c].at \in {"opening", "open closing"}
    BY <1>2, <2>1, ParticipantsApart
  <2>3. ~gp.open
    BY <2>2 DEF InClose, Orderly, Unopened
  <2>4. lock.holder = c
    BY <2>2 DEF InClose, IInv, Ordered, Exclusive, Lockeds
  <2> QED
    BY <2>1, <2>3, <2>4 DEF OpensAt
<1>7. Orderly(s, l, r, loop')
  BY <1>4, <1>5, <1>6, <1>11 DEF Orderly
<1>8. /\ Orderly(gp', lock', run', loop')
      /\ gp'.open = s.open /\ gp'.sender = s.sender
      /\ gp'.closing = s.closing /\ gp'.torn = s.torn /\ lock' = l
      /\ \A b \in Agents : run'[b].res = r[b].res
      /\ \A b \in Agents : r[b].at = "down closing" => run'[b].at = "down closing"
  BY <1>2, <1>3, <1>7, SettledOrderly DEF InClose, Soft
<1>9. ASSUME LeavingAt(a, v, s) PROVE Leaving(gp', run')
  BY <1>1, <1>2, <1>8, <1>9, ParticipantsApart DEF LeavingAt, Leaving
<1>10. ASSUME a \in Callers /\ run[a].body = "close" /\ lock.holder = a /\ l.holder # a
                => v.res # "error"
       PROVE  NoneRaises
  <2> SUFFICES ASSUME NEW c \in Callers, run[c].body = "close", lock.holder = c,
                      lock'.holder # c
               PROVE  run'[c].res # "error"
    BY DEF NoneRaises
  <2>1. c \in Agents /\ Fits(run[c])
    BY ParticipantsApart DEF InClose, Orderly, Fitting
  <2> QED
    BY <1>2, <1>8, <1>10, <2>1 DEF Fits
<1> QED
  BY <1>8, <1>9, <1>10

(* A turn that leaves what is open as it is, and neither sets nor clears   *)
(* the flag of close().                                                    *)
Placid(s) ==
    s.open = gp.open /\ s.sender = gp.sender /\ s.closing = gp.closing /\ s.torn = gp.torn

(* The agent does not run close(): neither it nor who does goes on here.   *)
Aside(a, v, l) ==
    /\ run[a].at # "down closing"
    /\ a \in Callers => Fits(v)
    /\ a \in Callers /\ v.at \in {"opening", "open closing"} => ~gp.open
    /\ gp.closing => l.holder = lock.holder /\ lock.holder # a
    /\ ~(a \in Callers /\ run[a].body = "close" /\ lock.holder = a /\ l.holder # a
           /\ v.res = "error")

LEMMA PlacidOrderly ==
    ASSUME NEW a, InClose(a), NEW s, Soft(a, s), Placid(s), NEW v \in Runs, NEW l,
           Aside(a, v, l), Suspend(a, v, s, l), UNCHANGED loop
    PROVE  /\ Orderly(gp', lock', run', loop')
           /\ gp'.open = gp.open /\ gp'.torn = gp.torn
           /\ Leaving(gp, run) => Leaving(gp', run')
           /\ NoneRaises
<1>1. FlagKept(a, v, s, l) /\ LoopsLeft(a, v) /\ OpensAt(a, v, s)
  BY DEF FlagKept, LoopsLeft, OpensAt, Placid, Aside
<1>2. /\ Orderly(gp', lock', run', loop')
      /\ gp'.open = s.open /\ gp'.torn = s.torn
      /\ LeavingAt(a, v, s) => Leaving(gp', run')
      /\ NoneRaises
  BY <1>1, SuspendOrderly DEF Aside
<1>3. Leaving(gp, run) => LeavingAt(a, v, s)
  BY DEF Leaving, LeavingAt, Placid, Aside
<1> QED
  BY <1>2, <1>3 DEF Placid

LEMMA PlacidTurn ==
    ASSUME NEW a, InClose(a), OInv, NEW s, Soft(a, s), Placid(s), NEW v \in Runs, NEW l,
           Aside(a, v, l), Suspend(a, v, s, l), UNCHANGED loop, tp'.open = tp.open
    PROVE  Keeps
<1>1. /\ Orderly(gp', lock', run', loop')
      /\ gp'.open = gp.open /\ gp'.torn = gp.torn
      /\ Leaving(gp, run) => Leaving(gp', run')
      /\ NoneRaises
  BY PlacidOrderly
<1>2. Together(gp', tp')
  BY <1>1 DEF Together, OInv
<1> QED
  BY <1>1, <1>2 DEF Keeps, OInv

(* A caller that is at none of the places of close() has not its flag up.  *)
LEMMA NotClosing ==
    ASSUME NEW a, InClose(a)
    PROVE  /\ run[a].at \notin Closes /\ gp.closing => lock.holder # a
           /\ lock.holder = NoTask => ~gp.closing
           /\ a \notin Callers => (gp.closing => lock.holder # a)
           /\ a \in Callers => Fits(run[a]) /\ (run[a].at \in Lockeds <=> lock.holder = a)
<1>1. gp.closing => \E c \in Callers : lock.holder = c /\ run[c].at \in Closes
  BY DEF InClose, Orderly, Held
<1>2. a \in Callers => Fits(run[a]) /\ (run[a].at \in Lockeds <=> lock.holder = a)
  BY DEF InClose, Orderly, Fitting, IInv, Ordered, Exclusive
<1> QED
  BY <1>1, <1>2, ParticipantsApart

(* The record an agent is left with.                                       *)
LEMMA AtRun ==
    ASSUME NEW w \in Runs, NEW there \in Places, NEW i \in Nat
    PROVE  LET v == [w EXCEPT !.at = there, !.obj = i]
           IN  v \in Runs /\ v.at = there /\ v.obj = i /\ v.body = w.body /\ v.res = w.res
BY DEF Runs

LEMMA ReturnRun ==
    ASSUME NEW res \in Results
    PROVE  LET v == [Asleep EXCEPT !.res = res]
           IN  /\ v \in Runs /\ v.at = "idle" /\ v.body = "none" /\ v.res = res
               /\ Fits(v)
BY DEF Asleep, Runs, Fns, Places, Fits, Closes, Pasts

-----------------------------------------------------------------------------
(* The stops close() and the callback of a link share.                     *)
Halting(a, w, s, l) ==
    /\ Soft(a, s) /\ w \in Runs
    /\ s.open = gp.open /\ s.sender = gp.sender /\ s.torn = gp.torn
    /\ run[a].at # "down closing"
    /\ \/ /\ a \in Callers /\ s.closing /\ l.holder = a /\ l \in Locks(Callers)
          /\ w.body = "close" /\ w.res # "error"
          /\ gp.closing => lock.holder = a /\ run[a].body = "close"
       \/ /\ a \in Links /\ s.closing = gp.closing /\ l = lock

Stopped ==
    /\ Orderly(gp', lock', run', loop')
    /\ gp'.open = gp.open /\ gp'.torn = gp.torn
    /\ Leaving(gp, run) /\ NoneRaises => Leaving(gp', run')

LEMMA HaltingFacts ==
    ASSUME NEW a, NEW w, NEW s, NEW l, Halting(a, w, s, l)
    PROVE  /\ Soft(a, s) /\ s \in Gps /\ w \in Runs
           /\ s.open = gp.open /\ s.sender = gp.sender /\ s.torn = gp.torn
           /\ run[a].at # "down closing" /\ a \in Callers \cup Links
           /\ a \in Callers =>
                 /\ s.closing /\ l.holder = a /\ l \in Locks(Callers)
                 /\ w.body = "close" /\ w.res # "error"
                 /\ gp.closing => lock.holder = a /\ run[a].body = "close"
           /\ a \in Links => (s.closing <=> gp.closing)
<1>1. /\ Soft(a, s) /\ w \in Runs
      /\ s.open = gp.open /\ s.sender = gp.sender /\ s.torn = gp.torn
      /\ run[a].at # "down closing"
  BY DEF Halting
<1>2. s \in Gps
  BY <1>1 DEF Soft
<1>3. /\ a \in Callers \cup Links
      /\ a \in Callers =>
                 /\ s.closing /\ l.holder = a /\ l \in Locks(Callers)
                 /\ w.body = "close" /\ w.res # "error"
                 /\ gp.closing => lock.holder = a /\ run[a].body = "close"
      /\ a \in Links => (s.closing <=> gp.closing)
  BY ParticipantsApart, Zenon DEF Halting
<1> QED
  BY <1>1, <1>2, <1>3

LEMMA HaltingOpen ==
    ASSUME NEW a, NEW w, NEW s, NEW l, Halting(a, w, s, l)
    PROVE  (gp.open <=> s.open) /\ (gp.torn <=> s.torn) /\ gp.sender = s.sender
BY DEF Halting

LEMMA HaltingLink ==
    ASSUME NEW a, NEW w, NEW s, NEW l, Halting(a, w, s, l), a \in Links
    PROVE  lock = l /\ (s.closing <=> gp.closing) /\ a \notin Callers
BY ParticipantsApart, Zenon DEF Halting

LEMMA HaltingFields ==
    ASSUME NEW a, NEW w, NEW s, NEW l, Halting(a, w, s, l), NEW t \in Gps, t.due = s.due,
           t.open = s.open, t.sender = s.sender, t.closing = s.closing /\ t.torn = s.torn
    PROVE  Halting(a, w, t, l)
BY SoftFields DEF Halting

LEMMA HaltingPost ==
    ASSUME NEW a, NEW w, NEW s, NEW l, Halting(a, w, s, l),
           NEW k \in {"shake", "told", "ready", "loop"}, NEW i \in Links
    PROVE  Halting(a, w, Post(s, <<k, i>>), l)
<1> DEFINE p == Post(s, <<k, i>>)
<1>1. /\ Soft(a, p) /\ p.open = s.open /\ p.sender = s.sender
      /\ p.closing = s.closing /\ p.torn = s.torn
  <2>1. Soft(a, s)
    BY HaltingFacts
  <2> QED
    BY <2>1, SoftPost
<1> HIDE DEF p
<1>2. Halting(a, w, p, l)
  BY <1>1, Zenon DEF Halting
<1> QED
  BY <1>2 DEF p

(* The agent is suspended there, with the runtime at t.                    *)
LEMMA HaltAt ==
    ASSUME NEW a, InClose(a), NEW w, NEW s, NEW l, Halting(a, w, s, l),
           NEW there \in Places, NEW i \in Nat, a \in Callers => there \in Closes,
           NEW t \in Gps, t.due = s.due, t.open = s.open, t.torn = s.torn, t.closing <=> s.closing,
           At(there, i, a, w, t, l), a \in Callers => there \notin {"opening", "open closing"},
           \A j \in Links : loop'[j] = "cancelling" =>
               loop[j] = "cancelling" \/ (there = "stop loop" /\ j = i)
    PROVE  /\ Orderly(gp', lock', run', loop') /\ NoneRaises
           /\ gp'.open = gp.open /\ gp'.torn = gp.torn
           /\ \/ t.sender = s.sender /\ Leaving(gp, run)
              \/ t.closing \/ ~t.open
              \/ a \in Links /\ there = "down closing"
              => Leaving(gp', run')
<1> DEFINE v == [w EXCEPT !.at = there, !.obj = i]
<1>1. v \in Runs /\ v.at = there /\ v.obj = i /\ v.body = w.body /\ v.res = w.res
  <2>1. w \in Runs
    BY HaltingFacts
  <2> QED
    BY <2>1, AtRun
<1>2. Suspend(a, v, t, l)
  BY DEF At
<1> HIDE DEF v
<1>3. a \in Callers => Fits(v)
  <2> SUFFICES ASSUME a \in Callers PROVE Fits(v)
    OBVIOUS
  <2>1. v.body = "close" /\ v.res # "error"
    <3>1. w.body = "close" /\ w.res # "error"
      BY HaltingFacts
    <3> QED
      BY <1>1, <3>1
  <2>2. v.at \notin {"opening", "open closing", "called", "lock"}
    BY <1>1 DEF Closes, Pasts
  <2> QED
    BY <2>1, <2>2 DEF Fits
<1>4. a \in Callers \cup Links
  BY HaltingFacts
<1>5. FlagKept(a, v, t, l) /\ LoopsLeft(a, v)
  <2>1. LoopsLeft(a, v)
    BY <1>1, <1>4 DEF LoopsLeft
  <2>2. CASE a \in Callers
    <3>1. l.holder = a /\ v.at \in Closes
      BY <1>1, <2>2, HaltingFacts, ParticipantsApart DEF Closes
    <3> QED
      BY <2>1, <2>2, <3>1 DEF FlagKept
  <2>3. CASE a \in Links
    <3>1. lock = l /\ (s.closing <=> gp.closing) /\ a \notin Callers
      BY <2>3, HaltingLink
    <3>2. gp.closing => lock.holder # a
      BY <3>1, NotClosing
    <3> QED
      BY <2>1, <3>1, <3>2 DEF FlagKept
  <2> QED
    BY <1>4, <2>2, <2>3
<1>10. OpensAt(a, v, t)
  <2>1. gp.open <=> s.open
    BY HaltingOpen
  <2> QED
    BY <1>1, <2>1 DEF OpensAt
<1>6. /\ Orderly(gp', lock', run', loop') /\ gp'.open = t.open /\ gp'.torn = t.torn
      /\ LeavingAt(a, v, t) => Leaving(gp', run')
      /\ NoneRaises
  <2>1. a \in Callers => l.holder = a
    BY HaltingFacts
  <2>2. Soft(a, t)
    BY HaltingFacts, SoftFields
  <2>3. /\ Orderly(gp', lock', run', loop') /\ gp'.open = t.open /\ gp'.torn = t.torn
        /\ LeavingAt(a, v, t) => Leaving(gp', run')
        /\ (a \in Callers /\ run[a].body = "close" /\ lock.holder = a /\ l.holder # a
              => v.res # "error") => NoneRaises
    BY <1>1, <1>2, <1>3, <1>5, <1>10, <2>2, SuspendOrderly
  <2> QED
    BY <2>1, <2>3
<1>7. gp'.open = gp.open /\ gp'.torn = gp.torn
  <2>1. (gp.open <=> s.open) /\ (gp.torn <=> s.torn)
    BY HaltingOpen
  <2>2. gp \in Gps /\ gp' \in Gps
    BY DEF InClose, IInv, Typed
  <2>3. {gp'.open, gp.open, gp'.torn, gp.torn} \subseteq BOOLEAN
    BY <2>2 DEF Gps
  <2>4. (gp'.open <=> t.open) /\ (gp'.torn <=> t.torn)
    BY <1>6
  <2>5. (t.open <=> s.open) /\ (t.torn <=> s.torn)
    OBVIOUS
  <2> QED
    BY <2>1, <2>3, <2>4, <2>5
<1>8. ASSUME t.sender = s.sender, Leaving(gp, run) PROVE LeavingAt(a, v, t)
  <2> SUFFICES ASSUME t.open, t.sender = 0, ~t.closing, ~t.torn
               PROVE  \E j \in Links : j # a /\ run[j].at = "down closing"
    BY DEF LeavingAt
  <2>1. gp.open /\ gp.sender = 0 /\ ~gp.torn
    BY <1>8, HaltingFacts
  <2>2. a \in Links
    BY HaltingFacts
  <2>3. ~gp.closing
    BY <2>2, HaltingLink
  <2>4. run[a].at # "down closing"
    BY HaltingFacts
  <2> QED
    BY <1>8, <2>1, <2>3, <2>4 DEF Leaving
<1>9. t.closing \/ ~t.open \/ (a \in Links /\ there = "down closing") => LeavingAt(a, v, t)
  BY <1>1 DEF LeavingAt
<1> QED
  BY <1>6, <1>7, <1>8, <1>9

(* The agent waits for the end of a task, which it may have cancelled.     *)
LEMMA StopsAt ==
    ASSUME NEW a, InClose(a), NEW w, NEW s, NEW l, Halting(a, w, s, l),
           NEW there \in {"stop shake", "stop ready", "stop loop", "await shake"}, NEW i \in Nat,
           a \in Callers => there # "await shake",
           At(there, i, a, w, s, l),
           \A j \in Links : loop'[j] = "cancelling" =>
               loop[j] = "cancelling" \/ (there = "stop loop" /\ j = i)
    PROVE  Stopped /\ NoneRaises
<1>1. /\ there \in Places /\ (a \in Callers => there \in Closes)
      /\ there \notin {"opening", "open closing"}
  BY DEF Places, Lockeds, Awaits, Stops, Closes
<1>2. s \in Gps
  BY HaltingFacts
<1>3. /\ s.due = s.due /\ s.open = s.open /\ s.torn = s.torn /\ (s.closing <=> s.closing)
      /\ s.sender = s.sender
  OBVIOUS
<1>4. /\ there \in Places /\ (a \in Callers => there \in Closes)
      /\ a \in Callers => there \notin {"opening", "open closing"}
  BY <1>1
<1>5. /\ Orderly(gp', lock', run', loop') /\ NoneRaises
      /\ gp'.open = gp.open /\ gp'.torn = gp.torn
      /\ \/ s.sender = s.sender /\ Leaving(gp, run)
         \/ s.closing \/ ~s.open
         \/ a \in Links /\ there = "down closing"
         => Leaving(gp', run')
  BY <1>2, <1>3, <1>4, HaltAt
<1> QED
  BY <1>5 DEF Stopped

(* An exception of a task that had ended leaves the agent.                 *)
LEMMA RaiseStops ==
    ASSUME NEW a, InClose(a), NEW w, NEW s, NEW l, Halting(a, w, s, l), Raise(a, w, s, l),
           \A j \in Links : loop'[j] = "cancelling" => loop[j] = "cancelling"
    PROVE  Stopped /\ (a \in Links => NoneRaises)
<1> DEFINE t == [s EXCEPT !.disconnected = TRUE]
           u == [s EXCEPT !.closing = FALSE]
<1>1. s \in Gps /\ w \in Runs
  BY DEF Halting, Soft
<1>2. /\ t \in Gps /\ t.due = s.due /\ t.open = s.open /\ t.sender = s.sender
      /\ t.closing = s.closing /\ t.torn = s.torn
      /\ u \in Gps /\ u.due = s.due /\ u.open = s.open /\ u.sender = s.sender /\ ~u.closing
      /\ u.torn = s.torn
  BY <1>1 DEF Gps
<1>3. CASE a \in Links
  <2>1. "aborted" \in Places /\ a \notin Callers
    BY <1>3, HaltingLink DEF Places
  <2>2. At("aborted", 0, a, w, t, l)
    BY <1>3 DEF Raise
  <2> HIDE DEF t, u
  <2>3. /\ t \in Gps /\ t.due = s.due /\ t.open = s.open /\ (t.closing <=> s.closing)
        /\ t.sender = s.sender /\ t.torn = s.torn
    BY <1>2
  <2>4. /\ Orderly(gp', lock', run', loop') /\ NoneRaises
        /\ gp'.open = gp.open /\ gp'.torn = gp.torn
        /\ t.sender = s.sender /\ Leaving(gp, run) => Leaving(gp', run')
    <3>1. \A j \in Links : loop'[j] = "cancelling" =>
              loop[j] = "cancelling" \/ ("aborted" = "stop loop" /\ j = 0)
      OBVIOUS
    <3>2. /\ Orderly(gp', lock', run', loop') /\ NoneRaises
          /\ gp'.open = gp.open /\ gp'.torn = gp.torn
          /\ \/ t.sender = s.sender /\ Leaving(gp, run)
             \/ t.closing \/ ~t.open
             \/ a \in Links /\ "aborted" = "down closing"
             => Leaving(gp', run')
      BY <2>1, <2>2, <2>3, <3>1, HaltAt
    <3> QED
      BY <2>3, <3>2
  <2> QED
    BY <2>4, <1>2, <1>3 DEF Stopped
<1>4. CASE a \in Callers
  <2> DEFINE v == [Asleep EXCEPT !.res = "error"]
  <2>1. v \in Runs /\ v.res = "error" /\ Fits(v) /\ v.at = "idle"
    BY ReturnRun DEF Results
  <2>2. Suspend(a, v, u, Released(l))
    BY <1>4, ParticipantsApart DEF Raise, Return
  <2> HIDE DEF u, v
  <2>3. Soft(a, u) /\ LoopsLeft(a, v) /\ FlagKept(a, v, u, Released(l)) /\ OpensAt(a, v, u)
    BY <1>2, <2>1, SoftFields DEF Halting, LoopsLeft, FlagKept, OpensAt
  <2>4. /\ Orderly(gp', lock', run', loop') /\ gp'.open = gp.open /\ gp'.torn = gp.torn
        /\ LeavingAt(a, v, u) => Leaving(gp', run')
    BY <1>2, <2>1, <2>2, <2>3, SuspendOrderly DEF Halting
  <2>5. ASSUME Leaving(gp, run), NoneRaises PROVE LeavingAt(a, v, u)
    <3>1. lock' = Released(l) /\ run'[a].res = "error"
      <4> DEFINE r == [run EXCEPT ![a] = v]
      <4>1. r \in [Agents -> Runs] /\ r[a] = v /\ a \in Agents
        BY <2>1 DEF InClose, IInv, Typed
      <4>2. Settle(u, Released(l), r)
        BY <2>2 DEF Suspend
      <4> HIDE DEF r
      <4> QED
        BY <2>1, <4>1, <4>2, SettleRuns
    <3>2. Released(l).holder = NoTask /\ a # NoTask
      BY <1>4, ParticipantsApart DEF Halting, Released, Locks
    <3>3. ~gp.closing
      BY <1>4, <2>5, <3>1, <3>2, ParticipantsApart DEF NoneRaises, Halting
    <3> QED
      BY <1>2, <1>4, <2>5, <3>3, ParticipantsApart DEF Leaving, LeavingAt, Halting
  <2> QED
    BY <1>4, <2>4, <2>5, ParticipantsApart DEF Stopped
<1> QED
  BY <1>3, <1>4 DEF Halting

(* The tasks are stopped.                                                  *)
LEMMA TasksStoppedStops ==
    ASSUME NEW a, InClose(a), NEW w, NEW s, NEW l, Halting(a, w, s, l),
           TasksStopped(a, w, s, l), UNCHANGED loop
    PROVE  Stopped /\ NoneRaises
<1> DEFINE released == [s EXCEPT !.loop = 0, !.sender = 0]
           over == [released EXCEPT !.disconnected = TRUE]
           closed == [over EXCEPT !.state = "closed"]
           asked == [s EXCEPT !.disconnected = FALSE]
<1>0. s \in Gps /\ 0 \in 0 .. MaxLinks
  BY HaltingFacts, Zero
<1>1. released \in Gps /\ released.due = s.due /\ released.open = s.open
      /\ released.closing = s.closing /\ released.torn = s.torn
  BY <1>0 DEF Gps
<1>2. /\ over \in Gps /\ over.due = s.due /\ over.open = s.open
      /\ over.closing = s.closing /\ over.torn = s.torn
  BY <1>0 DEF Gps
<1>3. /\ closed \in Gps /\ closed.due = s.due /\ closed.open = s.open
      /\ closed.closing = s.closing /\ closed.torn = s.torn
  BY <1>0 DEF Gps, States
<1>4. /\ asked \in Gps /\ asked.due = s.due /\ asked.open = s.open
      /\ asked.closing = s.closing /\ asked.torn = s.torn
  BY <1>0 DEF Gps
<1>5. {"handled", "down closing", "request"} \subseteq Places
  BY DEF Places, Lockeds
<1>6. CASE a \in Links
  <2>1. \/ s.closing /\ At("handled", 0, a, w, over, l)
        \/ ~s.closing /\ s.open /\ At("down closing", 0, a, w, released, l)
        \/ ~s.closing /\ ~s.open /\ At("handled", 0, a, w, closed, l)
    BY <1>6, Zenon DEF TasksStopped, Unlinked
  <2>2. a \notin Callers
    BY <1>6, HaltingLink
  <2> HIDE DEF released, over, closed, asked
  <2>3. CASE s.closing /\ At("handled", 0, a, w, over, l)
    BY <1>2, <1>5, <2>2, <2>3, HaltAt DEF Stopped
  <2>4. CASE ~s.closing /\ s.open /\ At("down closing", 0, a, w, released, l)
    BY <1>1, <1>5, <1>6, <2>2, <2>4, HaltAt DEF Stopped
  <2>5. CASE ~s.closing /\ ~s.open /\ At("handled", 0, a, w, closed, l)
    BY <1>3, <1>5, <2>2, <2>5, HaltAt DEF Stopped
  <2> QED
    BY <2>1, <2>3, <2>4, <2>5
<1>7. CASE a \in Callers
  <2>1. a \notin Links /\ s.closing
    BY <1>7, HaltingFacts, ParticipantsApart
  <2>2. At("request", 0, a, w, asked, l)
    BY <2>1 DEF TasksStopped
  <2>3. "request" \in Closes
    BY DEF Closes, Pasts
  <2> HIDE DEF released, over, closed, asked
  <2> QED
    BY <1>4, <1>5, <2>1, <2>2, <2>3, HaltAt DEF Stopped
<1> QED
  BY <1>6, <1>7, HaltingFacts

(* The report loop is stopped.                                             *)
LEMMA StopLoopStops ==
    ASSUME NEW a, InClose(a), NEW w, NEW s, NEW l, Halting(a, w, s, l), StopLoop(a, w, s, l)
    PROVE  Stopped /\ (a \in Links \/ s.loop = 0 => NoneRaises)
<1> DEFINE i == s.loop
<1>0. i \in 0 .. MaxLinks /\ i \in Nat /\ (i # 0 => i \in Links)
  <2>1. s \in Gps
    BY HaltingFacts
  <2>2. i \in 0 .. MaxLinks
    BY <2>1 DEF Gps
  <2> QED
    BY <2>2, RuntimeAssumption DEF Links
<1>1. /\ loop \in [Links -> Loops]
  BY DEF InClose, IInv, Typed
<1>2. CASE UNCHANGED loop /\ TasksStopped(a, w, s, l)
  BY <1>2, TasksStoppedStops
<1>3. CASE /\ i # 0 /\ loop' = [loop EXCEPT ![i] = "cancelling"]
           /\ At("stop loop", i, a, w, Post(s, <<"loop", i>>), l)
  <2> DEFINE p == Post(s, <<"loop", i>>)
  <2>1. Halting(a, w, p, l)
    BY <1>0, <1>3, HaltingPost
  <2>2. \A j \in Links : loop'[j] = "cancelling" => loop[j] = "cancelling" \/ j = i
    BY <1>0, <1>1, <1>3
  <2>3. At("stop loop", i, a, w, p, l)
    BY <1>3
  <2> HIDE DEF p, i
  <2> QED
    BY <1>0, <2>1, <2>2, <2>3, StopsAt
<1>4. CASE i # 0 /\ loop' = [loop EXCEPT ![i] = "stopped"] /\ Raise(a, w, s, l)
  <2>1. \A j \in Links : loop'[j] = "cancelling" => loop[j] = "cancelling"
    BY <1>0, <1>1, <1>4
  <2> QED
    BY <1>4, <2>1, RaiseStops
<1> QED
  BY <1>2, <1>3, <1>4, Zenon DEF StopLoop
(* The readiness wait is stopped, and then the loop.                       *)
LEMMA StopReadyStops ==
    ASSUME NEW a, InClose(a), NEW w, NEW s, NEW l, Halting(a, w, s, l), StopReady(a, w, s, l)
    PROVE  Stopped /\ (a \in Links \/ (s.ready = 0 /\ s.loop = 0) => NoneRaises)
<1> DEFINE i == s.ready
           n == [s EXCEPT !.ready = 0]
<1>0. s \in Gps /\ 0 \in 0 .. MaxLinks
  BY HaltingFacts, Zero
<1>1. i \in Nat /\ (i # 0 => i \in Links)
  <2>1. i \in 0 .. MaxLinks
    BY <1>0 DEF Gps
  <2> QED
    BY <2>1, RuntimeAssumption DEF Links
<1>2. n \in Gps /\ n.due = s.due /\ n.open = s.open /\ n.sender = s.sender
      /\ n.closing = s.closing /\ n.torn = s.torn /\ n.loop = s.loop
  BY <1>0 DEF Gps
<1> HIDE DEF n
<1>3. Halting(a, w, n, l)
  BY <1>2, HaltingFields
<1>4. CASE i = 0 /\ StopLoop(a, w, n, l)
  BY <1>2, <1>3, <1>4, StopLoopStops
<1>5. CASE i # 0 /\ UNCHANGED loop /\ At("stop ready", i, a, w, Post(n, <<"ready", i>>), l)
  <2> DEFINE p == Post(n, <<"ready", i>>)
  <2>1. Halting(a, w, p, l)
    BY <1>1, <1>3, <1>5, HaltingPost
  <2>2. At("stop ready", i, a, w, p, l)
    BY <1>5
  <2> HIDE DEF p, i
  <2> QED
    BY <1>1, <1>5, <2>1, <2>2, StopsAt
<1>6. CASE i # 0 /\ UNCHANGED loop /\ Raise(a, w, n, l)
  BY <1>3, <1>6, RaiseStops
<1> QED
  BY <1>4, <1>5, <1>6, Zenon DEF StopReady, n

(* The handshake is stopped, and then the others.                          *)
LEMMA StopShakeStops ==
    ASSUME NEW a, InClose(a), NEW w, NEW s, NEW l, Halting(a, w, s, l), StopShake(a, w, s, l)
    PROVE  Stopped /\ (a \in Links \/ (s.ready = 0 /\ s.loop = 0) => NoneRaises)
<1> DEFINE i == s.shake
           n == [s EXCEPT !.shake = 0]
<1>0. s \in Gps /\ 0 \in 0 .. MaxLinks
  BY HaltingFacts, Zero
<1>1. i \in Nat /\ (i # 0 => i \in Links)
  <2>1. i \in 0 .. MaxLinks
    BY <1>0 DEF Gps
  <2> QED
    BY <2>1, RuntimeAssumption DEF Links
<1>2. n \in Gps /\ n.due = s.due /\ n.open = s.open /\ n.sender = s.sender
      /\ n.closing = s.closing /\ n.torn = s.torn /\ n.loop = s.loop /\ n.ready = s.ready
  BY <1>0 DEF Gps
<1> HIDE DEF n
<1>3. Halting(a, w, n, l)
  BY <1>2, HaltingFields
<1>4. CASE StopReady(a, w, n, l)
  BY <1>2, <1>3, <1>4, StopReadyStops
<1>5. CASE i # 0 /\ UNCHANGED loop /\ At("stop shake", i, a, w, Post(n, <<"shake", i>>), l)
  <2> DEFINE p == Post(n, <<"shake", i>>)
  <2>1. Halting(a, w, p, l)
    BY <1>1, <1>3, <1>5, HaltingPost
  <2>2. At("stop shake", i, a, w, p, l)
    BY <1>5
  <2> HIDE DEF p, i
  <2> QED
    BY <1>1, <1>5, <2>1, <2>2, StopsAt
<1> QED
  BY <1>4, <1>5, Zenon DEF StopShake, n

LEMMA ResumeHalts ==
    ASSUME NEW a, InClose(a), a \in Callers \cup Links, run[a].at # "down closing",
           a \in Callers => run[a].at \in Closes
    PROVE  Halting(a, run[a], Now, lock)
<1>1. /\ Soft(a, Now) /\ Now \in Gps /\ run[a] \in Runs /\ lock \in Locks(Callers)
      /\ gp \in Gps
  BY SoftNow
<1>2. Now.open = gp.open /\ Now.sender = gp.sender /\ Now.closing = gp.closing /\ Now.torn = gp.torn
  BY <1>1 DEF Now, Gps
<1>3. CASE a \in Callers
  <2>1. gp.closing
    BY <1>3 DEF InClose, IInv, Sole, Closing
  <2>2. Fits(run[a]) /\ lock.holder = a
    BY <1>3, NotClosing DEF Closes, Pasts, Lockeds
  <2>3. run[a].body = "close" /\ run[a].res # "error"
    BY <1>3, <2>2 DEF Fits
  <2> QED
    BY <1>1, <1>2, <1>3, <2>1, <2>2, <2>3 DEF Halting
<1>4. CASE a \in Links
  BY <1>1, <1>2, <1>4 DEF Halting
<1> QED
  BY <1>3, <1>4

LEMMA ResumeStops ==
    ASSUME NEW a, InClose(a), a \in Callers \cup Links, Resume(a)
    PROVE  Stopped /\ (a \in Links \/ (gp.ready = 0 /\ gp.loop = 0) => NoneRaises)
<1>1. Halting(a, run[a], Now, lock)
  <2>1. run[a].at \in {"stop shake", "stop ready", "stop loop"}
    BY DEF Resume
  <2> QED
    BY <2>1, ResumeHalts DEF Closes
<1>2. Now.ready = gp.ready /\ Now.loop = gp.loop
  BY SoftNow DEF Now, Gps
<1>3. CASE StopReady(a, run[a], Now, lock)
  BY <1>1, <1>2, <1>3, StopReadyStops
<1>4. CASE StopLoop(a, run[a], Now, lock)
  BY <1>1, <1>2, <1>4, StopLoopStops
<1>5. CASE UNCHANGED loop /\ TasksStopped(a, run[a], Now, lock)
  BY <1>1, <1>5, TasksStoppedStops
<1> QED
  BY <1>3, <1>4, <1>5, Zenon DEF Resume, tasks

LEMMA StoppedKeeps ==
    ASSUME NEW a, InClose(a), OInv, Stopped, tp'.open = tp.open,
           gp.ready = 0 /\ gp.loop = 0 => NoneRaises
    PROVE  Keeps
<1>1. Together(gp', tp')
  BY DEF Together, OInv, Stopped
<1> QED
  BY <1>1 DEF Keeps, Stopped, OInv

-----------------------------------------------------------------------------
(* The turns of callers that leave what is open as it is.                  *)
Gentle(a, s) == Soft(a, s) /\ Placid(s)

LEMMA GentleNow ==
    ASSUME NEW a, InClose(a)
    PROVE  Gentle(a, Now)
BY SoftNow DEF Gentle, Placid, Now, Gps

LEMMA GentleFields ==
    ASSUME NEW a, NEW s, Gentle(a, s), NEW t \in Gps, t.due = s.due,
           t.open = s.open, t.sender = s.sender, t.closing = s.closing /\ t.torn = s.torn
    PROVE  Gentle(a, t)
<1>1. Soft(a, t)
  BY SoftFields DEF Gentle
<1>2. Placid(t)
  BY DEF Gentle, Placid
<1> QED
  BY <1>1, <1>2 DEF Gentle

(* The caller takes no part in a close() that has the lock.                *)
Apart(c, l) ==
    /\ c \in Callers /\ run[c].at # "down closing"
    /\ gp.closing => l.holder = lock.holder /\ lock.holder # c
    /\ ~(run[c].body = "close" /\ lock.holder = c /\ l.holder # c)

LEMMA ApartWhere ==
    ASSUME NEW c \in Callers, InClose(c), NEW l, run[c].at # "down closing",
           \/ lock.holder = NoTask
           \/ run[c].at \notin Lockeds /\ l.holder = lock.holder
           \/ run[c].at \in {"opening", "open closing"}
    PROVE  Apart(c, l)
<1>1. c # NoTask
  BY ParticipantsApart
<1>2. /\ run[c].at \notin Closes /\ gp.closing => lock.holder # c
      /\ lock.holder = NoTask => ~gp.closing
      /\ Fits(run[c]) /\ (run[c].at \in Lockeds <=> lock.holder = c)
  BY NotClosing
<1>3. CASE lock.holder = NoTask
  BY <1>1, <1>2, <1>3 DEF Apart
<1>4. CASE run[c].at \notin Lockeds /\ l.holder = lock.holder
  BY <1>2, <1>4 DEF Apart
<1>5. CASE run[c].at \in {"opening", "open closing"}
  <2>1. run[c].at \notin Closes /\ run[c].at \in Lockeds /\ run[c].body = "open"
    BY <1>2, <1>5 DEF Closes, Pasts, Lockeds, Fits
  <2>2. ~gp.closing
    BY <1>2, <2>1
  <2> QED
    BY <2>1, <2>2 DEF Apart
<1> QED
  BY <1>3, <1>4, <1>5

(* What a caller may take the lock with.                                   *)
Suitable(w) ==
    /\ w \in Runs /\ (w.body = "close" => w.res # "error")
    /\ "cancel open" \notin Faults /\ w.body = "open" => w.res # "cancelled"

LEMMA CallerAt ==
    ASSUME NEW c, InClose(c), OInv, NEW s, Gentle(c, s), NEW l, Apart(c, l),
           NEW w \in Runs, w.body = "close" => w.res # "error",
           NEW there \in Places \ (Closes \cup {"called"}),
           there \in {"opening", "open closing"} => w.body = "open" /\ ~gp.open,
           there \in {"opening", "lock"} => Suitable(w),
           At(there, 0, c, w, s, l), UNCHANGED loop, tp'.open = tp.open
    PROVE  Keeps
<1> DEFINE v == [w EXCEPT !.at = there, !.obj = 0]
<1>1. v \in Runs /\ v.at = there /\ v.body = w.body /\ v.res = w.res
  <2>1. there \in Places /\ 0 \in Nat
    OBVIOUS
  <2> QED
    BY <2>1 DEF Runs
<1>2. Suspend(c, v, s, l)
  BY DEF At
<1> HIDE DEF v
<1>3. Fits(v)
  <2>1. v.at \notin Closes /\ v.at # "called"
    BY <1>1
  <2>2. v.at \in {"opening", "open closing"} => v.body = "open"
    BY <1>1
  <2>3. v.body = "close" => v.res # "error"
    BY <1>1
  <2>4. v.at \in {"opening", "lock"} => Suitable(w)
    BY <1>1
  <2>5. "cancel open" \notin Faults =>
          (v.at = "opening" \/ (v.at \in {"called", "lock"} /\ v.body = "open")
             => v.res # "cancelled")
    BY <1>1, <2>1, <2>2, <2>4 DEF Suitable
  <2> QED
    BY <2>1, <2>2, <2>3, <2>5 DEF Fits
<1>4. v.body = w.body /\ v.res = w.res
  BY <1>1
<1>5. Aside(c, v, l)
  BY <1>1, <1>3 DEF Aside, Apart
<1> QED
  BY <1>1, <1>2, <1>5, PlacidTurn DEF Gentle

LEMMA CallerReturn ==
    ASSUME NEW c, InClose(c), OInv, NEW s, Gentle(c, s), NEW l, Apart(c, l),
           NEW res \in Results, Return(c, res, s, l), UNCHANGED loop, tp'.open = tp.open
    PROVE  Keeps
<1> DEFINE v == [Asleep EXCEPT !.res = res]
<1>1. v \in Runs /\ Fits(v) /\ v.at = "idle"
  BY ReturnRun
<1>2. Suspend(c, v, s, l)
  BY DEF Return
<1> HIDE DEF v
<1>3. Aside(c, v, l)
  BY <1>1 DEF Aside, Apart
<1> QED
  BY <1>1, <1>2, <1>3, PlacidTurn DEF Gentle

LEMMA ConnectKeeps ==
    ASSUME NEW c, InClose(c), OInv, NEW s, Gentle(c, s), NEW l, Apart(c, l),
           NEW w \in Runs, w.body = "close" => w.res # "error", Connect(c, w, s, l, tp)
    PROVE  Keeps
<1> DEFINE n == [s EXCEPT !.connected = FALSE, !.attempt = FALSE,
                          !.state = IF w.fn = "pair" THEN "advertising" ELSE "reconnecting"]
<1>1. n \in Gps /\ n.due = s.due /\ n.open = s.open /\ n.sender = s.sender
      /\ n.closing = s.closing /\ n.torn = s.torn
  BY DEF Gentle, Soft, Gps, States
<1>2. /\ At("connecting", 0, c, w, n, l) /\ UNCHANGED tasks
      /\ tp' = [tp EXCEPT !.visible = tp.open]
  BY DEF Connect
<1> HIDE DEF n
<1>3. Gentle(c, n)
  BY <1>1, GentleFields
<1>4. "connecting" \in Places \ (Closes \cup {"called"})
  BY DEF Places, Closes, Pasts
<1>5. tp'.open = tp.open /\ UNCHANGED loop
  BY <1>2 DEF tasks, InClose, IInv, Typed, Tps
<1> QED
  BY <1>2, <1>3, <1>4, <1>5, CallerAt

LEMMA OpenedKeeps ==
    ASSUME NEW c, InClose(c), OInv, NEW s, Gentle(c, s), NEW l, Apart(c, l),
           NEW w \in Runs, w.body = "close" => w.res # "error", Opened(c, w, s, l, tp)
    PROVE  Keeps
<1>1. CASE Connect(c, w, s, l, tp)
  BY <1>1, ConnectKeeps
<1>2. CASE tp' = tp /\ UNCHANGED tasks /\ Return(c, "ok", s, l)
  <2>1. "ok" \in Results /\ UNCHANGED loop /\ tp'.open = tp.open
    BY <1>2 DEF Results, tasks
  <2> QED
    BY <1>2, <2>1, CallerReturn
<1>3. CASE tp' = tp /\ UNCHANGED tasks /\ At("peer", 0, c, w, s, l)
  <2>1. "peer" \in Places \ (Closes \cup {"called"}) /\ UNCHANGED loop /\ tp'.open = tp.open
    BY <1>3 DEF Places, Closes, Pasts, tasks
  <2> QED
    BY <1>3, <2>1, CallerAt
<1> QED
  BY <1>1, <1>2, <1>3 DEF Opened

(* The caller has the lock.                                                *)
LEMMA OpenLockedKeeps ==
    ASSUME NEW c \in Callers, InClose(c), OInv, lock.holder = NoTask,
           run[c].at # "down closing", NEW w, Suitable(w), w.body = "open", NEW l,
           OpenLocked(c, w, Now, l)
    PROVE  Keeps
<1>1. Gentle(c, Now) /\ Now \in Gps
  BY GentleNow, SoftNow
<1>2. Apart(c, l) /\ Apart(c, Released(l))
  BY ApartWhere
<1>3. w \in Runs /\ w.body # "close"
  BY DEF Suitable
<1>4. CASE Opened(c, w, Now, Released(l), tp)
  BY <1>1, <1>2, <1>3, <1>4, OpenedKeeps
<1>5. CASE /\ ~Now.open /\ UNCHANGED <<tasks, tp>>
           /\ At("opening", 0, c, w,
                 [Now EXCEPT !.state = "opening", !.protocolReady = FALSE,
                             !.initialized = FALSE, !.connected = FALSE, !.attempt = FALSE], l)
  <2> DEFINE n == [Now EXCEPT !.state = "opening", !.protocolReady = FALSE,
                              !.initialized = FALSE, !.connected = FALSE, !.attempt = FALSE]
  <2>1. n \in Gps /\ n.due = Now.due /\ n.open = Now.open /\ n.sender = Now.sender
        /\ n.closing = Now.closing /\ n.torn = Now.torn
    BY <1>1 DEF Gps, States
  <2>2. At("opening", 0, c, w, n, l)
    BY <1>5
  <2> HIDE DEF n
  <2>3. Gentle(c, n)
    BY <1>1, <2>1, GentleFields
  <2>4. "opening" \in Places \ (Closes \cup {"called"}) /\ UNCHANGED loop /\ tp'.open = tp.open
    BY <1>5 DEF Places, Lockeds, Closes, Pasts, tasks
  <2>5. ~gp.open
    BY <1>1, <1>5 DEF Gentle, Placid
  <2> QED
    BY <1>2, <1>3, <2>2, <2>3, <2>4, <2>5, CallerAt
<1> QED
  BY <1>4, <1>5 DEF OpenLocked

LEMMA CloseLockedKeeps ==
    ASSUME NEW c \in Callers, InClose(c), OInv, lock.holder = NoTask,
           run[c].at # "down closing", NEW w, Suitable(w), w.body = "close",
           NEW l \in Locks(Callers), l.holder = c, CloseLocked(c, w, Now, l)
    PROVE  Keeps
<1> DEFINE n == [Now EXCEPT !.closing = TRUE, !.state = "disconnecting"]
<1>1. Gentle(c, Now) /\ Now \in Gps /\ Soft(c, Now)
  BY GentleNow, SoftNow
<1>2. Apart(c, Released(l))
  BY ApartWhere
<1>3. w \in Runs /\ w.res # "error" /\ w.res \in Results
  BY DEF Suitable, Runs
<1>4. n \in Gps /\ n.due = Now.due /\ n.open = Now.open /\ n.sender = Now.sender /\ n.closing
      /\ n.ready = Now.ready /\ n.loop = Now.loop /\ n.torn = Now.torn
  BY <1>1 DEF Gps, States
<1>5. UNCHANGED tp
  BY DEF CloseLocked
<1>6. \/ UNCHANGED tasks /\ Return(c, w.res, Now, Released(l))
      \/ UNCHANGED tasks /\ At("neutral", 0, c, w, n, l)
      \/ StopShake(c, w, n, l)
  BY DEF CloseLocked
<1> HIDE DEF n
<1>7. Halting(c, w, n, l)
  <2>1. Soft(c, n)
    BY <1>1, <1>4, SoftFields
  <2>2. n.open = gp.open /\ n.sender = gp.sender /\ n.torn = gp.torn
    BY <1>1, <1>4 DEF Gentle, Placid
  <2>3. ~gp.closing
    BY NotClosing
  <2> QED
    BY <1>3, <1>4, <2>1, <2>2, <2>3 DEF Halting
<1>8. CASE UNCHANGED tasks /\ Return(c, w.res, Now, Released(l))
  <2>1. UNCHANGED loop /\ tp'.open = tp.open
    BY <1>5, <1>8 DEF tasks
  <2> QED
    BY <1>1, <1>2, <1>3, <1>8, <2>1, CallerReturn
<1>9. CASE UNCHANGED tasks /\ At("neutral", 0, c, w, n, l)
  <2>1. "neutral" \in Places /\ "neutral" \in Closes /\ 0 \in Nat
    BY DEF Places, Lockeds, Closes
  <2>2. \A j \in Links : loop'[j] = "cancelling" =>
               loop[j] = "cancelling" \/ ("neutral" = "stop loop" /\ j = 0)
    BY <1>9 DEF tasks
  <2>3. /\ Orderly(gp', lock', run', loop') /\ NoneRaises
        /\ gp'.open = gp.open /\ gp'.torn = gp.torn
        /\ n.closing => Leaving(gp', run')
    BY <1>4, <1>7, <1>9, <2>1, <2>2, HaltAt
  <2>4. Stopped /\ NoneRaises
    BY <1>4, <2>3 DEF Stopped
  <2> QED
    BY <1>5, <2>4, StoppedKeeps
<1>10. CASE StopShake(c, w, n, l)
  <2>1. Now.ready = gp.ready /\ Now.loop = gp.loop
    BY SoftNow DEF Now, Gps
  <2>2. Stopped /\ (gp.ready = 0 /\ gp.loop = 0 => NoneRaises)
    BY <1>4, <1>7, <1>10, <2>1, StopShakeStops
  <2> QED
    BY <1>5, <2>2, StoppedKeeps
<1> QED
  BY <1>6, <1>8, <1>9, <1>10

LEMMA LockedKeeps ==
    ASSUME NEW c \in Callers, InClose(c), OInv, lock.holder = NoTask,
           run[c].at # "down closing", NEW w, Suitable(w),
           NEW l \in Locks(Callers), l.holder = c, Locked(c, w, Now, l)
    PROVE  Keeps
BY OpenLockedKeeps, CloseLockedKeeps DEF Locked

LEMMA AskForLockKeeps ==
    ASSUME NEW c \in Callers, InClose(c), OInv, run[c].at \notin Lockeds,
           run[c].at # "down closing", NEW w, Suitable(w), AskForLock(c, w, Now)
    PROVE  Keeps
<1>1. lock \in Locks(Callers)
  BY SoftNow
<1>2. CASE UNCHANGED <<tasks, tp>> /\ At("lock", 0, c, w, Now, Queued(lock, c))
  <2>1. Queued(lock, c).holder = lock.holder
    BY <1>1 DEF Queued, Locks
  <2>2. Apart(c, Queued(lock, c))
    BY <2>1, ApartWhere
  <2>3. Gentle(c, Now)
    BY GentleNow
  <2>4. "lock" \in Places \ (Closes \cup {"called"}) /\ UNCHANGED loop /\ tp'.open = tp.open
    BY <1>2 DEF Places, Closes, Pasts, tasks
  <2>5. w \in Runs /\ (w.body = "close" => w.res # "error")
    BY DEF Suitable
  <2> QED
    BY <1>2, <2>2, <2>3, <2>4, <2>5, CallerAt
<1>3. CASE ~Contended(lock) /\ Locked(c, w, Now, Taken(lock, c))
  <2>1. lock.holder = NoTask
    BY <1>3 DEF Contended
  <2>2. Taken(lock, c) \in Locks(Callers) /\ Taken(lock, c).holder = c
    BY <1>1 DEF Taken, Locks
  <2> QED
    BY <1>3, <2>1, <2>2, LockedKeeps
<1> QED
  BY <1>2, <1>3 DEF AskForLock

LEMMA GetsLockKeeps ==
    ASSUME NEW c \in Callers, InClose(c), OInv, GetsLock(c)
    PROVE  Keeps
<1>1. run[c].at = "lock" /\ Locked(c, run[c], Now, Granted(lock, c))
  BY DEF GetsLock
<1>2. lock \in Locks(Callers) /\ run[c] \in Runs
  BY SoftNow
<1>3. Due(gp, Agent(c))
  BY TurnTaken DEF InClose
<1>4. lock.holder = NoTask /\ lock.waiters # << >>
  BY <1>1, <1>3 DEF InClose, IInv, Ordered, Handed
<1>5. Granted(lock, c) \in Locks(Callers) /\ Granted(lock, c).holder = c
  BY <1>2, <1>4 DEF Granted, Locks
<1>6. Suitable(run[c])
  <2>1. Fits(run[c])
    BY NotClosing
  <2> QED
    BY <1>1, <1>2, <2>1 DEF Suitable, Fits
<1> QED
  BY <1>1, <1>4, <1>5, <1>6, LockedKeeps

LEMMA StartsKeeps ==
    ASSUME NEW c \in Callers, InClose(c), OInv, Starts(c)
    PROVE  Keeps
<1>1. run[c].at = "called" /\ run[c] \in Runs /\ Fits(run[c])
  BY NotClosing, SoftNow DEF Starts
<1>2. run[c].at \notin Lockeds /\ run[c].at # "down closing"
  BY <1>1 DEF Lockeds
<1>3. CASE Connect(c, run[c], Now, lock, tp)
  <2>1. Apart(c, lock) /\ Gentle(c, Now)
    BY <1>2, ApartWhere, GentleNow
  <2>2. run[c].body = "close" => run[c].res # "error"
    BY <1>1 DEF Fits
  <2> QED
    BY <1>1, <1>3, <2>1, <2>2, ConnectKeeps
<1>4. CASE AskForLock(c, run[c], Now)
  <2>1. Suitable(run[c])
    BY <1>1 DEF Suitable, Fits
  <2> QED
    BY <1>2, <1>4, <2>1, AskForLockKeeps
<1> QED
  BY <1>3, <1>4 DEF Starts

LEMMA FinishesKeeps ==
    ASSUME NEW c, InClose(c), OInv, Apart(c, lock), NEW s, Gentle(c, s),
           NEW res \in Results, Finishes(c, res, s)
    PROVE  Keeps
<1>1. Return(c, res, s, lock) /\ UNCHANGED <<tasks, tp>>
  BY DEF Finishes
<1>2. UNCHANGED loop /\ tp'.open = tp.open
  BY <1>1 DEF tasks
<1> QED
  BY <1>1, <1>2, CallerReturn

LEMMA GivesUpKeeps ==
    ASSUME NEW c \in Callers, InClose(c), OInv, run[c].at \notin Lockeds,
           run[c].at # "down closing", NEW res \in Results, res # "error", GivesUp(c, res)
    PROVE  Keeps
<1> DEFINE w == [run[c] EXCEPT !.body = "close", !.res = res]
<1>1. w \in Runs /\ w.body = "close" /\ w.res = res
  BY SoftNow DEF Runs
<1>2. AskForLock(c, w, Now)
  BY DEF GivesUp
<1> HIDE DEF w
<1>3. Suitable(w)
  BY <1>1 DEF Suitable
<1> QED
  BY <1>2, <1>3, AskForLockKeeps

LEMMA DecidedKeeps ==
    ASSUME NEW c \in Callers, InClose(c), OInv, run[c].at \notin Lockeds,
           run[c].at # "down closing", Decided(c)
    PROVE  Keeps
<1>1. "ok" \in Results /\ "failed" \in Results
  BY DEF Results
<1>2. Apart(c, lock) /\ Gentle(c, Now)
  BY ApartWhere, GentleNow
<1> QED
  BY <1>1, <1>2, FinishesKeeps, GivesUpKeeps DEF Decided

(* The transport has been opened.                                          *)
LEMMA NowOpen ==
    ASSUME NEW c \in Callers, InClose(c), OInv, run[c].at = "opening",
           NEW t \in Gps, t.due = Now.due, t.open, t.sender # 0, t.closing = Now.closing,
           NEW v \in Runs, Fits(v), v.at \notin {"opening", "open closing"}, NEW l,
           Suspend(c, v, t, l), UNCHANGED loop, tp'.open
    PROVE  Keeps
<1>1. Soft(c, t)
  BY SoftNow, SoftFields
<1>2. Apart(c, lock) /\ Fits(run[c]) /\ run[c].at \notin Closes /\ lock.holder = c
  BY NotClosing, ApartWhere DEF Lockeds, Closes, Pasts
<1>3. ~gp.closing /\ run[c].body = "open"
  BY <1>2 DEF Apart, Fits
<1>4. ~t.closing
  BY <1>3, GentleNow DEF Gentle, Placid
<1>5. FlagKept(c, v, t, l) /\ LoopsLeft(c, v) /\ LeavingAt(c, v, t) /\ OpensAt(c, v, t)
  BY <1>2, <1>4 DEF FlagKept, LoopsLeft, LeavingAt, OpensAt
<1>6. /\ Orderly(gp', lock', run', loop')
      /\ gp'.open = t.open
      /\ Leaving(gp', run')
      /\ NoneRaises
  BY <1>1, <1>3, <1>5, SuspendOrderly
<1>7. Together(gp', tp')
  BY <1>6 DEF Together
<1> QED
  BY <1>6, <1>7 DEF Keeps, OInv

(* The transport has been closed.                                          *)
LEMMA NowClosed ==
    ASSUME NEW c \in Callers, InClose(c), OInv, run[c].at \in {"open closing", "closing"},
           NEW t \in Gps, t.due = Now.due, ~t.open, ~t.closing,
           NEW res \in Results, run[c].body = "close" => res # "error",
           Return(c, res, t, Released(lock)), UNCHANGED loop, tp' = TransportClosed
    PROVE  Keeps
<1> DEFINE v == [Asleep EXCEPT !.res = res]
<1>1. v \in Runs /\ Fits(v) /\ v.res = res /\ v.at = "idle"
  BY ReturnRun
<1>2. Suspend(c, v, t, Released(lock))
  BY DEF Return
<1> HIDE DEF v
<1>3. Soft(c, t)
  BY SoftNow, SoftFields
<1>4. /\ FlagKept(c, v, t, Released(lock)) /\ LoopsLeft(c, v) /\ LeavingAt(c, v, t)
      /\ OpensAt(c, v, t)
  BY <1>1 DEF FlagKept, LoopsLeft, LeavingAt, OpensAt
<1>5. /\ Orderly(gp', lock', run', loop')
      /\ gp'.open = t.open
      /\ Leaving(gp', run')
      /\ NoneRaises
  BY <1>1, <1>2, <1>3, <1>4, SuspendOrderly
<1>6. ~tp'.open
  BY DEF TransportClosed, InClose, IInv, Typed, Tps
<1>7. Together(gp', tp')
  BY <1>5, <1>6 DEF Together
<1> QED
  BY <1>5, <1>7 DEF Keeps, OInv

(* Closing the transport, or what close() asks of it before, has raised.   *)
LEMMA NowTorn ==
    ASSUME NEW c \in Callers, InClose(c), OInv, run[c].at \in {"request", "closing"},
           "teardown" \in Faults, Raise(c, run[c], [Now EXCEPT !.torn = TRUE], lock),
           UNCHANGED loop, tp'.open = tp.open \/ ~tp'.open
    PROVE  Keeps
<1> DEFINE t == [Now EXCEPT !.torn = TRUE]
           u == [t EXCEPT !.closing = FALSE]
           v == [Asleep EXCEPT !.res = "error"]
<1>1. v \in Runs /\ Fits(v) /\ v.at = "idle"
  BY ReturnRun DEF Results
<1>2. Now \in Gps /\ Gentle(c, Now)
  BY SoftNow, GentleNow
<1>3. u \in Gps /\ u.due = Now.due /\ u.open = Now.open /\ u.torn /\ ~u.closing
  BY <1>2 DEF Gps
<1>4. Suspend(c, v, u, Released(lock))
  BY ParticipantsApart DEF Raise, Return
<1> HIDE DEF v, u
<1>5. Soft(c, u) /\ u.open = gp.open
  BY <1>2, <1>3, SoftFields DEF Gentle, Placid
<1>6. /\ FlagKept(c, v, u, Released(lock)) /\ LoopsLeft(c, v) /\ LeavingAt(c, v, u)
      /\ OpensAt(c, v, u)
  BY <1>1, <1>3, <1>5 DEF FlagKept, LoopsLeft, LeavingAt, OpensAt
<1>7. /\ Orderly(gp', lock', run', loop')
      /\ gp'.open = gp.open /\ gp'.torn
      /\ Leaving(gp', run')
  BY <1>1, <1>3, <1>4, <1>5, <1>6, SuspendOrderly
<1>8. Together(gp', tp')
  BY <1>7 DEF Together, OInv
<1> QED
  BY <1>7, <1>8 DEF Keeps, OInv

(* Opening the transport has raised, and so has closing it.                *)
LEMMA NeverOpened ==
    ASSUME NEW c \in Callers, InClose(c), OInv, run[c].at = "open closing",
           Return(c, "error", Now, Released(lock)), UNCHANGED loop, tp' = TransportClosed
    PROVE  Keeps
<1> DEFINE v == [Asleep EXCEPT !.res = "error"]
<1>1. v \in Runs /\ Fits(v) /\ v.at = "idle"
  BY ReturnRun DEF Results
<1>2. Suspend(c, v, Now, Released(lock))
  BY DEF Return
<1> HIDE DEF v
<1>3. Apart(c, Released(lock)) /\ Gentle(c, Now)
  BY ApartWhere, GentleNow
<1>4. Fits(run[c]) /\ ~gp.open
  BY NotClosing DEF InClose, Orderly, Unopened
<1>5. Aside(c, v, Released(lock))
  BY <1>1, <1>3, <1>4 DEF Aside, Apart
<1>6. /\ Orderly(gp', lock', run', loop')
      /\ gp'.open = gp.open /\ gp'.torn = gp.torn
      /\ Leaving(gp, run) => Leaving(gp', run')
      /\ NoneRaises
  BY <1>1, <1>2, <1>3, <1>5, PlacidOrderly DEF Gentle
<1>7. ~tp'.open
  BY DEF TransportClosed, InClose, IInv, Typed, Tps
<1>8. Together(gp', tp')
  BY <1>4, <1>6, <1>7 DEF Together
<1> QED
  BY <1>6, <1>8 DEF Keeps, OInv

LEMMA OpenAnsweredKeeps ==
    ASSUME NEW c \in Callers, InClose(c), OInv, OpenAnswered(c)
    PROVE  Keeps
<1> DEFINE x == [tp EXCEPT !.open = TRUE, !.opens = @ + 1]
           s == [Now EXCEPT !.state = "opened", !.open = TRUE, !.sender = x.opens]
           f == [Now EXCEPT !.state = "failed"]
           w == run[c]
<1>1. /\ w \in Runs /\ w.at = "opening" /\ Now \in Gps /\ tp \in Tps /\ 0 \in Nat
      /\ Gentle(c, Now) /\ Fits(w)
  BY SoftNow, GentleNow, NotClosing DEF OpenAnswered, InClose, IInv, Typed
<1>2. x \in Tps /\ x.opens # 0 /\ x.open /\ x.opens \in Nat
  <2>1. x.opens = tp.opens + 1 /\ x.open /\ tp.opens \in Nat
    BY <1>1 DEF Tps
  <2>2. x \in Tps
    <3>1. tp.opens + 1 \in Nat
      BY <2>1
    <3> QED
      BY <1>1, <3>1 DEF Tps
  <2> HIDE DEF x
  <2> QED
    BY <2>1, <2>2
<1>3. \/ w.res = "none" /\ Opened(c, w, s, Released(lock), x)
      \/ At("open closing", 0, c, w, f, lock) /\ UNCHANGED <<tasks, tp>>
      \/ /\ w.res = "cancelled" /\ Return(c, "cancelled", Now, Released(lock)) /\ UNCHANGED tasks
         /\ \E opened \in BOOLEAN : tp' = [tp EXCEPT !.open = opened \/ @]
  BY DEF OpenAnswered
<1>4. s \in Gps /\ s.due = Now.due /\ s.open /\ s.sender # 0 /\ s.closing = Now.closing
  BY <1>1, <1>2 DEF Gps, States
<1>5. f \in Gps /\ f.due = Now.due /\ f.open = Now.open /\ f.sender = Now.sender
      /\ f.closing = Now.closing /\ f.torn = Now.torn
  BY <1>1 DEF Gps, States
<1>6. w.body = "open" /\ (w.body = "close" => w.res # "error") /\ ~gp.open
  BY <1>1 DEF Fits, InClose, Orderly, Unopened
<1> HIDE DEF x, s, f
<1>7. CASE w.res = "none" /\ Opened(c, w, s, Released(lock), x)
  <2>1. CASE tp' = x /\ UNCHANGED tasks /\ Return(c, "ok", s, Released(lock))
    <3> DEFINE v == [Asleep EXCEPT !.res = "ok"]
    <3>1. v \in Runs /\ Fits(v) /\ v.at = "idle"
      BY ReturnRun DEF Results
    <3>2. Suspend(c, v, s, Released(lock)) /\ UNCHANGED loop /\ tp'.open
      BY <1>2, <2>1 DEF Return, tasks
    <3> HIDE DEF v
    <3> QED
      BY <1>1, <1>4, <3>1, <3>2, NowOpen
  <2>2. CASE tp' = x /\ UNCHANGED tasks /\ At("peer", 0, c, w, s, Released(lock))
    <3> DEFINE v == [w EXCEPT !.at = "peer", !.obj = 0]
    <3>1. v \in Runs /\ v.at = "peer" /\ v.body = "open"
      BY <1>1, <1>6 DEF Runs, Places
    <3>2. Suspend(c, v, s, Released(lock)) /\ UNCHANGED loop /\ tp'.open
      BY <1>2, <2>2 DEF At, tasks
    <3> HIDE DEF v
    <3>3. Fits(v)
      BY <3>1 DEF Fits, Closes, Pasts
    <3> QED
      BY <1>1, <1>4, <3>1, <3>2, <3>3, NowOpen
  <2>3. CASE Connect(c, w, s, Released(lock), x)
    <3> DEFINE v == [w EXCEPT !.at = "connecting", !.obj = 0]
               n == [s EXCEPT !.connected = FALSE, !.attempt = FALSE,
                              !.state = IF w.fn = "pair" THEN "advertising" ELSE "reconnecting"]
    <3>1. v \in Runs /\ v.at = "connecting" /\ v.body = "open"
      BY <1>1, <1>6 DEF Runs, Places
    <3>2. n \in Gps /\ n.due = Now.due /\ n.open /\ n.sender # 0 /\ n.closing = Now.closing
      BY <1>4 DEF Gps, States
    <3>3. /\ Suspend(c, v, n, Released(lock)) /\ UNCHANGED loop
          /\ tp' = [x EXCEPT !.visible = x.open]
      BY <2>3 DEF Connect, At, tasks
    <3>4. tp'.open
      BY <1>2, <3>3 DEF Tps
    <3> HIDE DEF v, n
    <3>5. Fits(v)
      BY <3>1 DEF Fits, Closes, Pasts
    <3> QED
      BY <1>1, <3>1, <3>2, <3>3, <3>4, <3>5, NowOpen
  <2> QED
    BY <1>7, <2>1, <2>2, <2>3 DEF Opened
<1>8. CASE At("open closing", 0, c, w, f, lock) /\ UNCHANGED <<tasks, tp>>
  <2>1. Apart(c, lock) /\ Gentle(c, f)
    BY <1>1, <1>5, ApartWhere, GentleFields
  <2>2. /\ "open closing" \in Places \ (Closes \cup {"called"})
        /\ UNCHANGED loop /\ tp'.open = tp.open
    BY <1>8 DEF Places, Lockeds, Closes, Pasts, tasks
  <2> HIDE DEF w
  <2> QED
    BY <1>1, <1>6, <1>8, <2>1, <2>2, CallerAt
<1>9. CASE /\ w.res = "cancelled" /\ Return(c, "cancelled", Now, Released(lock)) /\ UNCHANGED tasks
           /\ \E opened \in BOOLEAN : tp' = [tp EXCEPT !.open = opened \/ @]
  <2> DEFINE v == [Asleep EXCEPT !.res = "cancelled"]
  <2>1. v \in Runs /\ Fits(v) /\ v.res = "cancelled" /\ v.at = "idle"
    BY ReturnRun DEF Results
  <2>2. Suspend(c, v, Now, Released(lock)) /\ UNCHANGED loop
    BY <1>9 DEF Return, tasks
  <2> HIDE DEF v
  <2>3. Apart(c, Released(lock)) /\ run[c].at # "down closing"
    BY <1>1, ApartWhere
  <2>4. Aside(c, v, Released(lock))
    BY <2>1, <2>3 DEF Aside, Apart
  <2>5. /\ Orderly(gp', lock', run', loop')
        /\ Leaving(gp, run) => Leaving(gp', run')
        /\ NoneRaises
    BY <1>1, <2>1, <2>2, <2>4, PlacidOrderly DEF Gentle
  <2>6. "cancel open" \in Faults
    BY <1>1, <1>9 DEF Fits
  <2> QED
    BY <2>5, <2>6 DEF Keeps, OInv, Together
<1> QED
  BY <1>3, <1>7, <1>8, <1>9

(* A close() that goes on.                                                 *)
LEMMA CloseGoesOn ==
    ASSUME NEW c \in Callers, InClose(c), OInv, run[c].at \in Closes,
           NEW there \in {"wait link", "closing"}, At(there, 0, c, run[c], Now, lock),
           UNCHANGED <<tasks, tp>>
    PROVE  Keeps
<1>1. run[c].at # "down closing"
  BY DEF Closes, Pasts
<1>2. Halting(c, run[c], Now, lock) /\ Now \in Gps
  BY <1>1, ResumeHalts, SoftNow
<1>3. there \in Places /\ there \in Closes /\ 0 \in Nat
  BY DEF Places, Lockeds, Closes, Pasts
<1>4. \A j \in Links : loop'[j] = "cancelling" =>
             loop[j] = "cancelling" \/ (there = "stop loop" /\ j = 0)
  BY DEF tasks
<1>5. /\ Orderly(gp', lock', run', loop') /\ NoneRaises
      /\ gp'.open = gp.open /\ gp'.torn = gp.torn
      /\ Leaving(gp, run) => Leaving(gp', run')
  BY <1>2, <1>3, <1>4, HaltAt
<1>6. Stopped /\ NoneRaises /\ tp'.open = tp.open
  BY <1>5 DEF Stopped
<1> QED
  BY <1>6, StoppedKeeps

LEMMA AttemptCutKeeps ==
    ASSUME NEW c \in Callers, InClose(c), OInv, AttemptCut(c)
    PROVE  Keeps
<1> DEFINE i == gp.ready
           n == [Now EXCEPT !.ready = 0]
           w == run[c]
<1>1. /\ w.at \in {"connecting", "wait ready", "woken"} /\ w \in Runs /\ Now \in Gps
      /\ gp \in Gps /\ Gentle(c, Now) /\ Fits(w)
  BY SoftNow, GentleNow, NotClosing DEF AttemptCut, Attempting
<1>2. w.at \notin Lockeds /\ w.at # "down closing"
  BY <1>1 DEF Lockeds
<1>3. Apart(c, lock) /\ (w.body = "close" => w.res # "error")
  BY <1>1, <1>2, ApartWhere DEF Fits
<1>4. n \in Gps /\ n.due = Now.due /\ n.open = Now.open /\ n.sender = Now.sender
      /\ n.closing = Now.closing /\ n.torn = Now.torn
  BY <1>1, Zero DEF Gps
<1>5. i \in Nat /\ (i # 0 => i \in Links)
  <2>1. i \in 0 .. MaxLinks
    BY <1>1 DEF Gps
  <2> QED
    BY <2>1, RuntimeAssumption DEF Links
<1>6. \/ GivesUp(c, "timeout")
      \/ /\ i # 0 /\ UNCHANGED <<loop, tp>>
         /\ At("cancel ready", i, c, w, Post(n, <<"ready", i>>), lock)
      \/ \E res \in {"cancelled", "error"} : Finishes(c, res, n)
  BY DEF AttemptCut
<1> HIDE DEF i, n
<1>7. Gentle(c, n) /\ (i # 0 => Gentle(c, Post(n, <<"ready", i>>)))
  <2>1. Gentle(c, n)
    BY <1>1, <1>4, GentleFields
  <2>2. ASSUME i # 0 PROVE Gentle(c, Post(n, <<"ready", i>>))
    BY <1>5, <2>1, <2>2, SoftPost DEF Gentle, Placid
  <2> QED
    BY <2>1, <2>2
<1>8. CASE GivesUp(c, "timeout")
  BY <1>2, <1>8, GivesUpKeeps DEF Results
<1>9. CASE /\ i # 0 /\ UNCHANGED <<loop, tp>>
           /\ At("cancel ready", i, c, w, Post(n, <<"ready", i>>), lock)
  <2> DEFINE p == Post(n, <<"ready", i>>)
             v == [w EXCEPT !.at = "cancel ready", !.obj = i]
  <2>1. v \in Runs /\ v.at = "cancel ready" /\ v.body = w.body /\ v.res = w.res
    BY <1>1, <1>5 DEF Runs, Places, Stops
  <2>2. Suspend(c, v, p, lock)
    BY <1>9 DEF At
  <2>3. Gentle(c, p)
    BY <1>7, <1>9
  <2> HIDE DEF v, p
  <2>4. Fits(v)
    BY <1>3, <2>1 DEF Fits, Closes, Pasts
  <2>5. Aside(c, v, lock)
    BY <1>2, <1>3, <2>1, <2>4 DEF Aside, Apart
  <2>6. UNCHANGED loop /\ tp'.open = tp.open
    BY <1>9
  <2> QED
    BY <2>1, <2>2, <2>3, <2>5, <2>6, PlacidTurn DEF Gentle
<1>10. CASE \E res \in {"cancelled", "error"} : Finishes(c, res, n)
  BY <1>3, <1>7, <1>10, FinishesKeeps DEF Results
<1> QED
  BY <1>6, <1>8, <1>9, <1>10

LEMMA ConnectAnsweredKeeps ==
    ASSUME NEW c \in Callers, InClose(c), OInv, ConnectAnswered(c)
    PROVE  Keeps
<1>1. /\ run[c].at = "connecting" /\ run[c] \in Runs /\ Gentle(c, Now) /\ Fits(run[c])
  BY SoftNow, GentleNow, NotClosing DEF ConnectAnswered
<1>2. run[c].at \notin Lockeds /\ run[c].at # "down closing"
  BY <1>1 DEF Lockeds
<1>3. Apart(c, lock) /\ (run[c].body = "close" => run[c].res # "error")
  BY <1>1, <1>2, ApartWhere DEF Fits
<1>4. CASE At("wait ready", 0, c, run[c], Now, lock) /\ UNCHANGED <<tasks, tp>>
  <2>1. "wait ready" \in Places \ (Closes \cup {"called"}) /\ UNCHANGED loop /\ tp'.open = tp.open
    BY <1>4 DEF Places, Closes, Pasts, tasks
  <2> QED
    BY <1>1, <1>3, <1>4, <2>1, CallerAt
<1>5. CASE Decided(c)
  BY <1>2, <1>5, DecidedKeeps
<1>6. CASE Finishes(c, "error", Now)
  BY <1>1, <1>3, <1>6, FinishesKeeps DEF Results
<1>7. CASE GivesUp(c, "failed")
  BY <1>2, <1>7, GivesUpKeeps DEF Results
<1> QED
  BY <1>4, <1>5, <1>6, <1>7 DEF ConnectAnswered

LEMMA CallerTurnTidy ==
    ASSUME NEW c \in Callers, InClose(c), OInv, CallerTurn(c)
    PROVE  Keeps
<1>1. /\ Gentle(c, Now) /\ Now \in Gps /\ Fits(run[c]) /\ run[c] \in Runs
      /\ run[c].res \in Results
  BY SoftNow, GentleNow, NotClosing DEF Runs
<1>2. CASE Starts(c)
  BY <1>2, StartsKeeps
<1>3. CASE GetsLock(c)
  BY <1>3, GetsLockKeeps
<1>4. CASE OpenAnswered(c)
  BY <1>4, OpenAnsweredKeeps
<1>5. CASE OpenFailed(c)
  <2> DEFINE t == [Now EXCEPT !.loop = 0, !.sender = 0, !.open = FALSE]
  <2>1. t \in Gps /\ t.due = Now.due /\ ~t.open /\ t.closing = Now.closing /\ t.torn = Now.torn
    BY <1>1, Zero DEF Gps
  <2>2. /\ \/ Return(c, "error", t, Released(lock))
           \/ Return(c, "error", Now, Released(lock))
        /\ tp' = TransportClosed /\ UNCHANGED loop /\ run[c].at = "open closing"
    BY <1>5 DEF OpenFailed, tasks
  <2> HIDE DEF t
  <2>3. run[c].body = "open"
    BY <1>1, <2>2 DEF Fits
  <2>4. ~t.closing
    <3>1. run[c].at \in Lockeds /\ run[c].at \notin Closes
      BY <2>2 DEF Lockeds, Closes, Pasts
    <3>2. ~gp.closing
      BY <3>1, NotClosing
    <3> QED
      BY <1>1, <2>1, <3>2 DEF Gentle, Placid
  <2>5. "error" \in Results
    BY DEF Results
  <2> QED
    BY <2>1, <2>2, <2>3, <2>4, <2>5, NowClosed, NeverOpened
<1>6. CASE PeerAnswered(c)
  <2>1. run[c].at = "peer"
    BY <1>6 DEF PeerAnswered
  <2>2. Apart(c, lock)
    BY <2>1, ApartWhere DEF Lockeds
  <2>3. {"no bond", "error"} \subseteq Results
    BY DEF Results
  <2>4. run[c].body = "close" => run[c].res # "error"
    BY <1>1 DEF Fits
  <2>5. CASE Connect(c, run[c], Now, lock, tp)
    BY <1>1, <2>2, <2>4, <2>5, ConnectKeeps
  <2>6. CASE \E res \in {"no bond", "error"} : Finishes(c, res, Now)
    BY <1>1, <2>2, <2>3, <2>6, FinishesKeeps
  <2> QED
    BY <1>6, <2>5, <2>6 DEF PeerAnswered
<1>7. CASE ConnectAnswered(c)
  BY <1>7, ConnectAnsweredKeeps
<1>8. CASE AttemptOver(c)
  BY <1>8, DecidedKeeps DEF AttemptOver, Lockeds
<1>9. CASE AttemptCut(c)
  BY <1>9, AttemptCutKeeps
<1>10. CASE AttemptCancelled(c)
  <2>1. run[c].at = "cancel ready" /\ Finishes(c, "cancelled", Now)
    BY <1>10 DEF AttemptCancelled
  <2>2. Apart(c, lock) /\ "cancelled" \in Results
    BY <2>1, ApartWhere DEF Lockeds, Results
  <2> QED
    BY <1>1, <2>1, <2>2, FinishesKeeps
<1>11. CASE NeutralSent(c)
  <2>1. run[c].at \in Closes /\ run[c].at # "down closing" /\ StopShake(c, run[c], Now, lock)
        /\ tp'.open = tp.open
    BY <1>11 DEF NeutralSent, Closes
  <2>2. Halting(c, run[c], Now, lock)
    BY <2>1, ResumeHalts
  <2>3. Now.ready = gp.ready /\ Now.loop = gp.loop
    BY SoftNow DEF Now, Gps
  <2>4. Stopped /\ (gp.ready = 0 /\ gp.loop = 0 => NoneRaises)
    BY <2>1, <2>2, <2>3, StopShakeStops
  <2> QED
    BY <2>1, <2>4, StoppedKeeps
<1>12. CASE Resume(c) /\ UNCHANGED tp
  <2>1. Stopped /\ (gp.ready = 0 /\ gp.loop = 0 => NoneRaises) /\ tp'.open = tp.open
    BY <1>12, ResumeStops
  <2> QED
    BY <2>1, StoppedKeeps
<1>13. CASE DisconnectRequested(c) \/ LinkWaitEnds(c)
  <2>1. /\ UNCHANGED <<tasks, tp>> /\ run[c].at \in Closes
        /\ \/ At("wait link", 0, c, run[c], Now, lock) \/ At("closing", 0, c, run[c], Now, lock)
           \/ /\ run[c].at = "request" /\ "teardown" \in Faults
              /\ Raise(c, run[c], [Now EXCEPT !.torn = TRUE], lock)
    BY <1>13 DEF DisconnectRequested, LinkWaitEnds, Closes, Pasts
  <2>2. UNCHANGED loop /\ tp'.open = tp.open
    BY <2>1 DEF tasks
  <2> QED
    BY <2>1, <2>2, CloseGoesOn, NowTorn
<1>14. CASE CloseAnswered(c)
  <2> DEFINE t == [Now EXCEPT !.loop = 0, !.sender = 0, !.open = FALSE,
                              !.state = "closed", !.closing = FALSE, !.torn = FALSE]
  <2>1. t \in Gps /\ t.due = Now.due /\ ~t.open /\ ~t.closing
    BY <1>1, Zero DEF Gps, States
  <2>2. /\ \/ Return(c, run[c].res, t, Released(lock))
           \/ /\ "teardown" \in Faults
              /\ Raise(c, run[c], [Now EXCEPT !.torn = TRUE], lock)
        /\ tp' = TransportClosed /\ UNCHANGED loop /\ run[c].at = "closing"
    BY <1>14 DEF CloseAnswered, tasks
  <2> HIDE DEF t
  <2>3. run[c].body = "close" => run[c].res # "error"
    BY <1>1 DEF Fits
  <2>4. ~tp'.open
    BY <2>2 DEF TransportClosed, InClose, IInv, Typed, Tps
  <2> QED
    BY <1>1, <2>1, <2>2, <2>3, <2>4, NowClosed, NowTorn
<1> QED
  BY <1>2, <1>3, <1>4, <1>5, <1>6, <1>7, <1>8, <1>9, <1>10, <1>11, <1>12, <1>13, <1>14
     DEF CallerTurn

-----------------------------------------------------------------------------
(* The callback of a link.                                                 *)

(* It goes on, and stops the tasks.                                        *)
LEMMA DownStops ==
    ASSUME NEW i \in Links, InClose(i), Down(i)
    PROVE  Stopped /\ NoneRaises
<1> DEFINE h == gp.shake
           s == [Now EXCEPT !.connected = FALSE]
           n == [s EXCEPT !.shake = 0]
<1>1. /\ Now \in Gps /\ run[i].at = "down" /\ i \notin Callers /\ gp \in Gps
      /\ loop \in [Links -> Loops]
  BY SoftNow, ParticipantsApart DEF Down, InClose, IInv, Typed
<1>2. Halting(i, run[i], Now, lock)
  BY <1>1, ResumeHalts
<1>3. /\ s \in Gps /\ s.due = Now.due /\ s.open = Now.open /\ s.sender = Now.sender
      /\ s.closing = Now.closing /\ s.torn = Now.torn
  BY <1>1 DEF Gps
<1>4. /\ n \in Gps /\ n.due = Now.due /\ n.open = Now.open /\ n.sender = Now.sender
      /\ n.closing = Now.closing /\ n.torn = Now.torn
  BY <1>1, Zero DEF Gps
<1>5. h \in Nat
  <2>1. h \in 0 .. MaxLinks
    BY <1>1 DEF Gps
  <2> QED
    BY <2>1, RuntimeAssumption
<1>6. \/ StopShake(i, run[i], Failed(s), lock)
      \/ StopShake(i, run[i], s, lock)
      \/ At("await shake", h, i, run[i], s, lock) /\ UNCHANGED loop
      \/ Raise(i, run[i], s, lock) /\ UNCHANGED loop
      \/ StopReady(i, run[i], n, lock)
  BY Zenon DEF Down
<1> HIDE DEF s, n, h
<1>7. /\ Failed(s) \in Gps /\ Failed(s).due = s.due /\ Failed(s).open = s.open
      /\ Failed(s).sender = s.sender /\ Failed(s).closing = s.closing /\ Failed(s).torn = s.torn
  BY <1>3 DEF Failed, Gps, States
<1>8. Halting(i, run[i], s, lock) /\ Halting(i, run[i], n, lock)
  BY <1>2, <1>3, <1>4, HaltingFields
<1>9. Halting(i, run[i], Failed(s), lock)
  BY <1>7, <1>8, HaltingFields
<1>10. CASE StopShake(i, run[i], Failed(s), lock)
  BY <1>9, <1>10, StopShakeStops
<1>11. CASE StopShake(i, run[i], s, lock)
  BY <1>8, <1>11, StopShakeStops
<1>12. CASE At("await shake", h, i, run[i], s, lock) /\ UNCHANGED loop
  BY <1>1, <1>5, <1>8, <1>12, StopsAt
<1>13. CASE Raise(i, run[i], s, lock) /\ UNCHANGED loop
  BY <1>8, <1>13, RaiseStops
<1>14. CASE StopReady(i, run[i], n, lock)
  BY <1>8, <1>14, StopReadyStops
<1> QED
  BY <1>6, <1>10, <1>11, <1>12, <1>13, <1>14

LEMMA ShakeAwaitedStops ==
    ASSUME NEW i \in Links, InClose(i), ShakeAwaited(i)
    PROVE  Stopped /\ NoneRaises
<1> DEFINE n == [Now EXCEPT !.shake = 0]
<1>1. Now \in Gps /\ run[i].at = "await shake" /\ i \notin Callers
  BY SoftNow, ParticipantsApart DEF ShakeAwaited
<1>2. Halting(i, run[i], Now, lock)
  BY <1>1, ResumeHalts
<1>3. /\ n \in Gps /\ n.due = Now.due /\ n.open = Now.open /\ n.sender = Now.sender
      /\ n.closing = Now.closing /\ n.torn = Now.torn
  BY <1>1, Zero DEF Gps
<1>4. \/ Raise(i, run[i], Now, lock) /\ UNCHANGED loop
      \/ StopReady(i, run[i], n, lock)
  BY Zenon DEF ShakeAwaited
<1> HIDE DEF n
<1>5. Halting(i, run[i], n, lock)
  BY <1>2, <1>3, HaltingFields
<1>6. CASE Raise(i, run[i], Now, lock) /\ UNCHANGED loop
  BY <1>2, <1>6, RaiseStops
<1>7. CASE StopReady(i, run[i], n, lock)
  BY <1>5, <1>7, StopReadyStops
<1> QED
  BY <1>4, <1>6, <1>7

(* It has closed the transport.                                            *)
LEMMA DownClosedKeeps ==
    ASSUME NEW i \in Links, InClose(i), OInv, DownClosed(i)
    PROVE  Keeps
<1> DEFINE t == [Now EXCEPT !.open = FALSE, !.state = "closed", !.disconnected = TRUE,
                            !.torn = FALSE]
           u == [Now EXCEPT !.torn = TRUE, !.disconnected = TRUE]
           v == [run[i] EXCEPT !.at = "handled", !.obj = 0]
           b == [run[i] EXCEPT !.at = "aborted", !.obj = 0]
<1>1. /\ Soft(i, Now) /\ Now \in Gps /\ run[i] \in Runs /\ i \notin Callers
      /\ Now.open = gp.open
  BY SoftNow, GentleNow, ParticipantsApart DEF Gentle, Placid
<1>2. /\ t \in Gps /\ t.due = Now.due /\ ~t.open /\ t.closing = Now.closing
      /\ u \in Gps /\ u.due = Now.due /\ u.open = Now.open /\ u.closing = Now.closing
      /\ u.torn
  BY <1>1 DEF Gps, States
<1>3. v \in Runs /\ b \in Runs
  BY <1>1 DEF Runs, Places
<1>4. /\ Suspend(i, v, t, lock) \/ Suspend(i, b, u, lock)
      /\ UNCHANGED loop /\ tp' = TransportClosed
  <2>1. [[Now EXCEPT !.torn = TRUE] EXCEPT !.disconnected = TRUE] = u
    BY <1>1 DEF Gps
  <2> HIDE DEF t, u, v
  <2> QED
    BY <2>1 DEF DownClosed, Raise, At, tasks, t, v
<1> HIDE DEF t, u, v, b
<1>5. Soft(i, t) /\ Soft(i, u)
  BY <1>1, <1>2, SoftFields
<1>6. gp.closing => lock.holder # i
  BY <1>1, NotClosing
<1>7. (Now.closing => gp.closing) /\ LoopsLeft(i, v) /\ LoopsLeft(i, b)
  BY <1>4, GentleNow DEF Gentle, Placid, LoopsLeft
<1>8. /\ FlagKept(i, v, t, lock) /\ LeavingAt(i, v, t) /\ OpensAt(i, v, t)
      /\ FlagKept(i, b, u, lock) /\ LeavingAt(i, b, u) /\ OpensAt(i, b, u)
  BY <1>1, <1>2, <1>6, <1>7 DEF FlagKept, LeavingAt, OpensAt
<1>9. /\ Orderly(gp', lock', run', loop')
      /\ (gp'.open = t.open) \/ (gp'.torn = u.torn /\ gp'.open = u.open)
      /\ Leaving(gp', run')
      /\ NoneRaises
  BY <1>1, <1>3, <1>4, <1>5, <1>7, <1>8, SuspendOrderly
<1>10. ~tp'.open
  BY <1>4 DEF TransportClosed, InClose, IInv, Typed, Tps
<1>11. Together(gp', tp')
  BY <1>2, <1>9, <1>10 DEF Together
<1> QED
  BY <1>9, <1>11 DEF Keeps, OInv

LEMMA LinkTurnTidy ==
    ASSUME NEW i \in Links, InClose(i), OInv, LinkTurn(i)
    PROVE  Keeps
<1>1. CASE Down(i)
  <2>1. tp'.open = tp.open
    BY <1>1 DEF Down
  <2> QED
    BY <1>1, <2>1, DownStops, StoppedKeeps
<1>2. CASE ShakeAwaited(i)
  <2>1. tp'.open = tp.open
    BY <1>2 DEF ShakeAwaited
  <2> QED
    BY <1>2, <2>1, ShakeAwaitedStops, StoppedKeeps
<1>3. CASE DownClosed(i)
  BY <1>3, DownClosedKeeps
<1>4. CASE Resume(i) /\ UNCHANGED tp
  <2>1. Stopped /\ NoneRaises /\ tp'.open = tp.open
    BY <1>4, ResumeStops
  <2> QED
    BY <2>1, StoppedKeeps
<1> QED
  BY <1>1, <1>2, <1>3, <1>4 DEF LinkTurn

-----------------------------------------------------------------------------
(* Those that handle an output report.                                     *)
LEMMA PostGentle ==
    ASSUME NEW a, NEW s, Gentle(a, s), NEW k \in {"shake", "told", "ready", "loop"},
           NEW i \in Links
    PROVE  Gentle(a, Post(s, <<k, i>>))
BY SoftPost DEF Gentle, Placid

LEMMA OutcomeGentle ==
    ASSUME NEW a, NEW s, Gentle(a, s), NEW i \in Links, NEW o
    PROVE  Gentle(a, AfterOutcome(s, i, o))
<1> DEFINE n == [s EXCEPT !.shake = 0]
           m == [n EXCEPT !.ready = i]
           same(t) == /\ t \in Gps /\ t.due = s.due /\ t.open = s.open /\ t.sender = s.sender
                      /\ t.closing = s.closing /\ t.torn = s.torn
<1>1. s \in Gps
  BY DEF Gentle, Soft
<1>2. same(n) /\ same(m)
  BY <1>1, Zero DEF Gps
<1>3. same(Failed(n)) /\ same(Published(n))
  <2>1. n \in Gps
    BY <1>2
  <2>2. same(Failed(n))
    BY <1>1, Zero DEF Gps, Failed, States
  <2> HIDE DEF n
  <2>3. same(Published(n))
    BY <1>2, <2>1, PublishedFields
  <2> QED
    BY <2>2, <2>3
<1>4. \/ AfterOutcome(s, i, o) \in {s, n, Failed(n), Published(n)}
      \/ AfterOutcome(s, i, o) = Post(m, <<"ready", i>>)
  BY DEF AfterOutcome
<1> HIDE DEF n, m
<1>5. \A t : same(t) => Gentle(a, t)
  BY GentleFields
<1>6. Gentle(a, m)
  BY <1>2, <1>5
<1>7. Gentle(a, Post(m, <<"ready", i>>))
  BY <1>6, SoftPost DEF Gentle, Placid
<1> HIDE DEF same
<1> QED
  BY <1>2, <1>3, <1>4, <1>5, <1>7

LEMMA HostAt ==
    ASSUME NEW h \in HostTasks, InClose(h), OInv, run[h].at # "down closing",
           NEW s, Gentle(h, s), NEW v \in Runs, Suspend(h, v, s, lock), UNCHANGED <<loop, tp>>
    PROVE  Keeps
<1>1. h \notin Callers
  BY ParticipantsApart
<1>2. gp.closing => lock.holder # h
  BY <1>1, NotClosing
<1>3. Aside(h, v, lock)
  BY <1>1, <1>2 DEF Aside
<1> QED
  BY <1>3, PlacidTurn DEF Gentle

(* The handler of a host's report in its turn, the runtime at s.           *)
Handles(h, s) ==
    /\ h \in HostTasks /\ InClose(h) /\ OInv /\ run[h].at # "down closing"
    /\ Gentle(h, s) /\ UNCHANGED tp

LEMMA CompleteKeeps ==
    ASSUME NEW h, NEW s, Handles(h, s), s.shake # 0, NEW o \in {"ready", "failed"},
           Complete(h, o, s)
    PROVE  Keeps
<1> DEFINE i == s.shake
           told == IF shake[i].stopped THEN s ELSE AfterOutcome(s, i, o)
           over == [told EXCEPT !.shake = 0]
           p == Post(s, <<"shake", i>>)
           v == [run[h] EXCEPT !.res = o, !.at = "completing", !.obj = i]
<1>1. /\ h \in HostTasks /\ InClose(h) /\ OInv /\ run[h].at # "down closing"
      /\ Gentle(h, s) /\ UNCHANGED tp /\ s \in Gps /\ run[h] \in Runs
  BY SoftNow DEF Handles, Gentle, Soft
<1>2. i \in Links
  <2>1. i \in 0 .. MaxLinks
    BY <1>1 DEF Gps
  <2> QED
    BY <2>1, RuntimeAssumption DEF Links
<1>3. UNCHANGED loop
  BY DEF Complete
<1>4. \/ Suspend(h, Asleep, IF o = "ready" THEN over ELSE told, lock)
      \/ Suspend(h, v, p, lock)
  BY DEF Complete, At
<1>5. v \in Runs
  <2>1. i \in Nat /\ o \in Results /\ "completing" \in Places
    <3>1. i \in Nat
      BY <1>2, RuntimeAssumption DEF Links
    <3>2. "completing" \in Places
      BY DEF Places, Awaits
    <3>3. o \in Results
      BY DEF Results
    <3> QED
      BY <3>1, <3>2, <3>3
  <2> HIDE DEF i
  <2> QED
    BY <1>1, <2>1 DEF Runs
<1> HIDE DEF v, i
<1>6. Gentle(h, told)
  BY <1>1, <1>2, OutcomeGentle
<1> HIDE DEF told
<1>7. Gentle(h, over)
  <2>1. told \in Gps
    BY <1>6 DEF Gentle, Soft
  <2>2. over \in Gps /\ over.due = told.due /\ over.open = told.open
        /\ over.sender = told.sender /\ over.closing = told.closing /\ over.torn = told.torn
    BY <2>1, Zero DEF Gps
  <2> QED
    BY <1>6, <2>2, GentleFields
<1>8. Gentle(h, p)
  BY <1>1, <1>2, PostGentle
<1> HIDE DEF over, p
<1> QED
  BY <1>1, <1>3, <1>4, <1>5, <1>6, <1>7, <1>8, AsleepRun, HostAt

LEMMA CompletedKeeps ==
    ASSUME NEW h, Handles(h, Now), Completed(h)
    PROVE  Keeps
<1> DEFINE i == run[h].obj
           o == run[h].res
           told == AfterOutcome(Now, i, o)
           over == [told EXCEPT !.shake = 0]
<1>1. /\ h \in HostTasks /\ InClose(h) /\ OInv /\ run[h].at = "completing"
      /\ Gentle(h, Now) /\ UNCHANGED <<loop, tp>> /\ h \in Agents
  BY ParticipantsApart DEF Handles, Completed
<1>2. i \in Links
  BY <1>1 DEF InClose, IInv, Ordered, Completing
<1>3. \/ Suspend(h, Asleep, over, lock)
      \/ Suspend(h, Asleep, told, lock)
  BY DEF Completed
<1> HIDE DEF i
<1>4. Gentle(h, told)
  BY <1>1, <1>2, OutcomeGentle
<1> HIDE DEF told
<1>5. Gentle(h, over)
  <2>1. told \in Gps
    BY <1>4 DEF Gentle, Soft
  <2>2. over \in Gps /\ over.due = told.due /\ over.open = told.open
        /\ over.sender = told.sender /\ over.closing = told.closing /\ over.torn = told.torn
    BY <2>1, Zero DEF Gps
  <2> QED
    BY <1>4, <2>2, GentleFields
<1> HIDE DEF over
<1> QED
  BY <1>1, <1>3, <1>4, <1>5, AsleepRun, HostAt

LEMMA RejectedKeeps ==
    ASSUME NEW h, NEW s, Handles(h, s), Rejected(h, s)
    PROVE  Keeps
<1>1. /\ h \in HostTasks /\ InClose(h) /\ OInv /\ run[h].at # "down closing"
      /\ Gentle(h, s) /\ UNCHANGED tp /\ s \in Gps
  BY DEF Handles, Gentle, Soft
<1>2. CASE s.shake # 0 /\ Complete(h, "failed", s)
  BY <1>2, CompleteKeeps
<1>3. CASE UNCHANGED tasks /\ Suspend(h, Asleep, Failed(s), lock)
  <2>1. /\ Failed(s) \in Gps /\ Failed(s).due = s.due /\ Failed(s).open = s.open
        /\ Failed(s).sender = s.sender /\ Failed(s).closing = s.closing /\ Failed(s).torn = s.torn
    BY <1>1 DEF Failed, Gps, States
  <2>2. Gentle(h, Failed(s)) /\ UNCHANGED <<loop, tp>>
    BY <1>1, <1>3, <2>1, GentleFields DEF tasks
  <2> QED
    BY <1>1, <1>3, <2>2, AsleepRun, HostAt
<1> QED
  BY <1>2, <1>3 DEF Rejected

(* What the session is makes no difference.                                *)
LEMMA SessionGentle ==
    ASSUME NEW h, NEW s, Handles(h, s), NEW t \in Gps, t.due = s.due, t.open = s.open,
           t.sender = s.sender, t.closing = s.closing /\ t.torn = s.torn
    PROVE  Handles(h, t)
<1>1. Gentle(h, t)
  BY GentleFields DEF Handles
<1> QED
  BY <1>1 DEF Handles

LEMMA RestoredGentle ==
    ASSUME NEW h, Handles(h, Now), NEW w
    PROVE  Handles(h, Restored(Now, w))
<1> DEFINE u == Restored(Now, w)
<1>1. Now \in Gps
  BY SoftNow DEF Handles
<1>2. /\ u \in Gps /\ u.due = Now.due /\ u.open = Now.open /\ u.sender = Now.sender
      /\ u.closing = Now.closing /\ u.torn = Now.torn
  BY <1>1 DEF Gps, Restored
<1> HIDE DEF u
<1>3. Handles(h, u)
  BY <1>2, SessionGentle
<1> QED
  BY <1>3 DEF u

LEMMA BuiltKeeps ==
    ASSUME NEW h, Handles(h, Now), NEW w \in Runs, Built(h, w, Now)
    PROVE  Keeps
<1> DEFINE v == [w EXCEPT !.at = "replying", !.obj = w.obj]
           t == [Now EXCEPT !.protocolReady = TRUE, !.initialized = TRUE]
           u == [Now EXCEPT !.protocolReady = FALSE]
<1>1. Now \in Gps
  BY SoftNow DEF Handles
<1>2. /\ t \in Gps /\ t.due = Now.due /\ t.open = Now.open /\ t.sender = Now.sender
      /\ t.closing = Now.closing /\ t.torn = Now.torn
      /\ u \in Gps /\ u.due = Now.due /\ u.open = Now.open /\ u.sender = Now.sender
      /\ u.closing = Now.closing /\ u.torn = Now.torn
  BY <1>1 DEF Gps
<1>3. v \in Runs
  BY DEF Runs, Places
<1>4. \/ UNCHANGED loop /\ (Suspend(h, v, t, lock) \/ Suspend(h, v, u, lock))
      \/ Rejected(h, Restored(Now, w))
  BY DEF Built, At, tasks
<1> HIDE DEF t, u, v
<1>5. Handles(h, t) /\ Handles(h, u)
  BY <1>2, SessionGentle
<1>6. CASE UNCHANGED loop /\ (Suspend(h, v, t, lock) \/ Suspend(h, v, u, lock))
  BY <1>3, <1>5, <1>6, HostAt DEF Handles
<1>7. CASE Rejected(h, Restored(Now, w))
  BY <1>7, RestoredGentle, RejectedKeeps
<1> QED
  BY <1>4, <1>6, <1>7

LEMMA DispatchedKeeps ==
    ASSUME NEW h, Handles(h, Now), Dispatched(h)
    PROVE  Keeps
<1> DEFINE w == [run[h] EXCEPT !.obj = gp.sender,
                               !.res = IF gp.protocolReady THEN "was ready" ELSE "none"]
           v == [w EXCEPT !.at = "queued"]
<1>1. /\ h \in HostTasks /\ InClose(h) /\ OInv /\ run[h].at # "down closing"
      /\ Gentle(h, Now) /\ UNCHANGED tp /\ run[h] \in Runs /\ gp \in Gps
  BY SoftNow DEF Handles
<1>2. w \in Runs
  BY <1>1 DEF Runs, Results, Gps
<1>3. v \in Runs
  BY <1>2 DEF Runs, Places
<1>4. \/ Rejected(h, Now)
      \/ Suspend(h, v, Now, lock) /\ UNCHANGED tasks
      \/ Built(h, w, Now)
      \/ Suspend(h, run[h], Now, lock) /\ UNCHANGED tasks
      \/ Built(h, run[h], Now)
  BY Zenon DEF Dispatched
<1> HIDE DEF v, w
<1>5. CASE Rejected(h, Now)
  BY <1>5, RejectedKeeps
<1>6. CASE Built(h, w, Now)
  BY <1>2, <1>6, BuiltKeeps
<1>7. CASE Built(h, run[h], Now)
  BY <1>1, <1>7, BuiltKeeps
<1>8. CASE Suspend(h, v, Now, lock) /\ UNCHANGED tasks
  BY <1>1, <1>3, <1>8, HostAt DEF tasks
<1>9. CASE Suspend(h, run[h], Now, lock) /\ UNCHANGED tasks
  BY <1>1, <1>9, HostAt DEF tasks
<1> QED
  BY <1>4, <1>5, <1>6, <1>7, <1>8, <1>9

LEMMA ReplyAnsweredKeeps ==
    ASSUME NEW h, Handles(h, Now), ReplyAnswered(h)
    PROVE  Keeps
<1> DEFINE u == Restored(Now, run[h])
<1>1. /\ h \in HostTasks /\ InClose(h) /\ OInv /\ run[h].at # "down closing"
      /\ Gentle(h, Now) /\ UNCHANGED tp /\ gp \in Gps
  BY SoftNow DEF Handles
<1>2. CASE gp.shake # 0 /\ Complete(h, "ready", Now)
  <2>1. Now.shake # 0
    BY <1>1, <1>2, NowIsGp
  <2> QED
    BY <1>2, <2>1, CompleteKeeps
<1>3. CASE Suspend(h, Asleep, Now, lock) /\ UNCHANGED tasks
  BY <1>1, <1>3, AsleepRun, HostAt DEF tasks
<1>4. CASE Rejected(h, u)
  <2>1. Handles(h, u)
    BY RestoredGentle
  <2> HIDE DEF u
  <2> QED
    BY <1>4, <2>1, RejectedKeeps
<1> QED
  BY <1>2, <1>3, <1>4 DEF ReplyAnswered

LEMMA HostTurnTidy ==
    ASSUME NEW h \in HostTasks, InClose(h), OInv, HostTurn(h)
    PROVE  Keeps
<1>1. UNCHANGED tp /\ run[h].at # "down closing"
  BY DEF HostTurn, Dispatched, ReplyAnswered, Completed
<1>2. Handles(h, Now)
  BY <1>1, GentleNow DEF Handles
<1> QED
  BY <1>2, CompletedKeeps, DispatchedKeeps, ReplyAnsweredKeeps DEF HostTurn

-----------------------------------------------------------------------------
(* The turns of the tasks: whom they wake does not wait for a report loop  *)
(* that is still cancelled.                                                *)
WakesNoWatch(s) ==
    \A b \in Agents : Due(s, Agent(b)) =>
        Due(gp, Agent(b)) \/ run[b].at # "stop loop" \/ loop'[run[b].obj] # "cancelling"

CancelsNone == \A i \in Links : loop'[i] = "cancelling" => loop[i] = "cancelling"

Idles == IInv /\ IInv' /\ OInv /\ UNCHANGED tp

LEMMA BecomesTidy ==
    ASSUME Idles, NEW s \in Gps, Once(s.due), Placid(s), Becomes(s),
           CancelsNone, WakesNoWatch(s)
    PROVE  Keeps
<1>1. /\ run \in [Agents -> Runs] /\ IInv /\ IInv' /\ Together(gp, tp) /\ UNCHANGED tp
      /\ Held(gp, lock, run) /\ Fitting(run) /\ Watched(gp, loop, run)
  BY DEF Idles, IInv, Typed, OInv, Orderly
<1>2. Settle(s, lock, run)
  BY DEF Becomes
<1>3. Held(s, lock, run)
  BY <1>1 DEF Held, Placid
<1>4. Watched(s, loop', run)
  <2> SUFFICES ASSUME NEW i \in Links, loop'[i] = "cancelling"
               PROVE  \E a \in Callers \cup Links :
                         run[a].at = "stop loop" /\ run[a].obj = i /\ ~Due(s, Agent(a))
    BY DEF Watched
  <2>1. loop[i] = "cancelling"
    BY DEF CancelsNone
  <2>2. PICK a \in Callers \cup Links :
             run[a].at = "stop loop" /\ run[a].obj = i /\ ~Due(gp, Agent(a))
    BY <1>1, <2>1 DEF Watched
  <2>3. a \in Agents
    BY ParticipantsApart
  <2>4. ~Due(s, Agent(a))
    BY <2>2, <2>3 DEF WakesNoWatch
  <2> QED
    BY <2>2, <2>4
<1>10. Unopened(s, run)
  BY DEF Idles, OInv, Orderly, Unopened, Placid
<1>5. Orderly(s, lock, run, loop')
  BY <1>1, <1>3, <1>4, <1>10 DEF Orderly
<1>6. /\ Orderly(gp', lock', run', loop')
      /\ gp'.open = s.open /\ gp'.sender = s.sender /\ gp'.closing = s.closing /\ gp'.torn = s.torn
      /\ lock' = lock
      /\ \A b \in Agents : run[b].at = "down closing" => run'[b].at = "down closing"
  BY <1>1, <1>2, <1>5, SettledOrderly
<1>7. Together(gp', tp')
  BY <1>1, <1>6 DEF Together, Placid
<1>8. Leaving(gp, run) => Leaving(gp', run')
  BY <1>6, ParticipantsApart DEF Leaving, Placid
<1>9. NoneRaises
  BY <1>6 DEF NoneRaises
<1> QED
  BY <1>6, <1>7, <1>8, <1>9 DEF Keeps, OInv

(* The turn of a task wakes nobody by itself.                              *)
LEMMA TaskGentle ==
    ASSUME IInv, NEW x, Turn(x), \A a \in Agents : x # Agent(a)
    PROVE  /\ Gentle(NoTask, Now) /\ Now \in Gps /\ Once(Now.due)
           /\ \A b \in Agents : Due(Now, Agent(b)) => Due(gp, Agent(b))
<1>1. gp \in Gps
  BY DEF IInv, Typed
<1>2. /\ Now \in Gps /\ Once(Now.due)
      /\ \A a \in Agents : Due(Now, Agent(a)) <=> Due(gp, Agent(a)) /\ Agent(a) # x
  BY TurnTaken
<1>3. Placid(Now)
  BY <1>1, NowIsGp DEF Placid
<1>4. \A b \in Agents : b # NoTask
  BY ParticipantsApart
<1> QED
  BY <1>2, <1>3, <1>4 DEF Gentle, Soft

LEMMA GentleTidy ==
    ASSUME Idles, NEW s, Gentle(NoTask, s), Becomes(s), CancelsNone
    PROVE  Keeps
<1>1. s \in Gps /\ Once(s.due) /\ Placid(s)
      /\ \A b \in Agents : Due(s, Agent(b)) => Due(gp, Agent(b))
  BY DEF Gentle, Soft
<1>2. WakesNoWatch(s)
  BY <1>1 DEF WakesNoWatch
<1> QED
  BY <1>1, <1>2, BecomesTidy

LEMMA StopperWakes ==
    ASSUME NEW s \in Gps, Once(s.due), NEW i, NEW places, NEW z, z = PostStopper(s, i, places)
    PROVE  /\ z \in Gps /\ Once(z.due)
           /\ z.open = s.open /\ z.sender = s.sender /\ z.closing = s.closing /\ z.torn = s.torn
           /\ \A b \in Agents : Due(z, Agent(b)) =>
                 Due(s, Agent(b)) \/ (run[b].at \in places /\ run[b].obj = i)
<1> DEFINE stoppers == {a \in Agents : run[a].at \in places /\ run[a].obj = i}
           a == CHOOSE b \in stoppers : TRUE
           p == Post(s, Agent(a))
<1>1. CASE stoppers = {}
  BY <1>1 DEF PostStopper
<1>2. CASE stoppers # {}
  <2>1. z = p
    BY <1>2 DEF PostStopper
  <2>2. a \in stoppers
    BY <1>2
  <2> HIDE DEF a
  <2>3. a \in Agents /\ run[a].at \in places /\ run[a].obj = i /\ Agent(a) \in Dues
    BY <2>2, AgentNames
  <2>4. /\ p \in Gps /\ (\E q \in Seq(Dues) : p = [s EXCEPT !.due = q])
        /\ \A y : Due(p, y) <=> Due(s, y) \/ y = Agent(a)
        /\ Once(p.due)
    BY <2>3, Posted
  <2>5. p.open = s.open /\ p.sender = s.sender /\ p.closing = s.closing /\ p.torn = s.torn
    BY <2>4 DEF Gps
  <2> HIDE DEF p
  <2>6. \A b \in Agents : Due(p, Agent(b)) =>
           Due(s, Agent(b)) \/ (run[b].at \in places /\ run[b].obj = i)
    BY <2>3, <2>4, AgentNames
  <2> QED
    BY <2>1, <2>4, <2>5, <2>6
<1> QED
  BY <1>1, <1>2

LEMMA ConnectedTidy ==
    ASSUME IInv, IInv', OInv, NEW i \in Links, Turn(<<"up", i>>), Connected(i)
    PROVE  Keeps
<1> DEFINE s == [Now EXCEPT !.state = "initializing"]
           m == [s EXCEPT !.shake = i]
<1>1. Gentle(NoTask, Now) /\ Now \in Gps
  BY AgentNames, TaskGentle
<1>2. /\ s \in Gps /\ s.due = Now.due /\ s.open = Now.open /\ s.sender = Now.sender
      /\ s.closing = Now.closing /\ s.torn = Now.torn
      /\ m \in Gps /\ m.due = Now.due /\ m.open = Now.open /\ m.sender = Now.sender
      /\ m.closing = Now.closing /\ m.torn = Now.torn
  BY <1>1, Zero DEF Gps, States
<1>3. Becomes(Post(m, <<"shake", i>>)) \/ Becomes(s)
  BY DEF Connected
<1> HIDE DEF s, m
<1>4. Gentle(NoTask, s) /\ Gentle(NoTask, m)
  BY <1>1, <1>2, GentleFields
<1>5. Gentle(NoTask, Post(m, <<"shake", i>>))
  BY <1>4, PostGentle
<1>6. Idles /\ CancelsNone
  BY DEF Idles, CancelsNone, Connected
<1> QED
  BY <1>3, <1>4, <1>5, <1>6, GentleTidy

LEMMA ShakeTurnTidy ==
    ASSUME IInv, IInv', OInv, NEW i \in Links, Turn(<<"shake", i>>), ShakeTurn(i)
    PROVE  Keeps
<1> DEFINE ws == shake[i].waiters
           e == [Now EXCEPT !.due = @ \o <<<<"told", i>>>>
                                      \o [k \in DOMAIN ws |-> Agent(ws[k])]]
<1>1. Idles /\ CancelsNone
  BY DEF Idles, CancelsNone, ShakeTurn
<1>2. /\ Gentle(NoTask, Now) /\ Now \in Gps
      /\ \A b \in Agents : Due(Now, Agent(b)) => Due(gp, Agent(b))
  BY AgentNames, TaskGentle
<1>3. Becomes(Now) \/ Becomes(e)
  BY DEF ShakeTurn
<1>4. /\ e \in Gps /\ Once(e.due)
      /\ \E q \in Seq(Dues) : e = [Now EXCEPT !.due = q]
      /\ \A y : Due(e, y) <=>
           \/ Due(Now, y) \/ y = <<"told", i>>
           \/ \E a \in Agents : Among(a, ws) /\ y = Agent(a)
  BY EndsDue
<1> HIDE DEF e
<1>5. Placid(e)
  <2>1. e.open = Now.open /\ e.sender = Now.sender /\ e.closing = Now.closing /\ e.torn = Now.torn
    BY <1>2, <1>4 DEF Gps
  <2> QED
    BY <1>2, <2>1 DEF Gentle, Placid
<1>6. WakesNoWatch(e)
  <2> SUFFICES ASSUME NEW b \in Agents, Due(e, Agent(b))
               PROVE  Due(gp, Agent(b)) \/ run[b].at # "stop loop"
    BY DEF WakesNoWatch
  <2>1. Due(Now, Agent(b)) \/ Among(b, ws)
    BY <1>4, AgentNames
  <2>2. Among(b, ws) => run[b].at \in Awaits
    BY DEF IInv, Ordered, Awaiting
  <2> QED
    BY <1>2, <2>1, <2>2 DEF Awaits
<1> QED
  BY <1>1, <1>2, <1>3, <1>4, <1>5, <1>6, BecomesTidy, GentleTidy

LEMMA ShakeToldTidy ==
    ASSUME IInv, IInv', OInv, NEW i \in Links, Turn(<<"told", i>>), ShakeTold(i)
    PROVE  Keeps
<1> DEFINE o == shake[i].task
<1>1. Idles /\ CancelsNone
  BY DEF Idles, CancelsNone, ShakeTold
<1>2. Gentle(NoTask, Now)
  BY AgentNames, TaskGentle
<1>3. Gentle(NoTask, AfterOutcome(Now, i, o))
  BY <1>2, OutcomeGentle
<1>4. Becomes(AfterOutcome(Now, i, o)) \/ Becomes(Now)
  BY DEF ShakeTold
<1> QED
  BY <1>1, <1>2, <1>3, <1>4, GentleTidy

LEMMA ReadyTurnTidy ==
    ASSUME IInv, IInv', OInv, NEW i \in Links, Turn(<<"ready", i>>), ReadyTurn(i)
    PROVE  Keeps
<1> DEFINE n == [Now EXCEPT !.ready = IF @ = i THEN 0 ELSE @]
           m == [n EXCEPT !.loop = IF @ = 0 THEN i ELSE @]
           p == Published(m)
           z == PostStopper(Now, i, {"stop ready", "cancel ready"})
           same(t) == /\ t \in Gps /\ t.due = Now.due /\ t.open = Now.open
                      /\ t.sender = Now.sender /\ t.closing = Now.closing /\ t.torn = Now.torn
<1>1. /\ Gentle(NoTask, Now) /\ Now \in Gps /\ Once(Now.due)
      /\ \A b \in Agents : Due(Now, Agent(b)) => Due(gp, Agent(b))
  BY AgentNames, TaskGentle
<1>2. same(n) /\ same(m)
  BY <1>1, Zero DEF Gps
<1>3. Becomes(z) \/ Becomes(Now) \/ Becomes(n) \/ Becomes(p)
  BY DEF ReadyTurn
<1>4. Idles /\ CancelsNone
  <2>1. UNCHANGED loop \/ loop' = [loop EXCEPT ![i] = "running"]
    BY DEF ReadyTurn
  <2>2. loop \in [Links -> Loops] /\ UNCHANGED tp
    BY DEF IInv, Typed, ReadyTurn
  <2> QED
    BY <2>1, <2>2 DEF Idles, CancelsNone
<1>5. same(p)
  <2>1. m \in Gps
    BY <1>2
  <2> HIDE DEF n, m
  <2>2. /\ p \in Gps /\ p.due = m.due /\ p.open = m.open
        /\ p.sender = m.sender /\ p.closing = m.closing /\ p.torn = m.torn
    BY <2>1, PublishedFields
  <2> HIDE DEF p
  <2> QED
    BY <1>2, <2>2
<1> HIDE DEF n, m, p
<1>6. Gentle(NoTask, n) /\ Gentle(NoTask, p)
  BY <1>1, <1>2, <1>5, GentleFields
<1> DEFINE places == {"stop ready", "cancel ready"}
<1>10. z = PostStopper(Now, i, places)
  OBVIOUS
<1> HIDE DEF z, places
<1>7. /\ z \in Gps /\ Once(z.due)
      /\ z.open = Now.open /\ z.sender = Now.sender /\ z.closing = Now.closing /\ z.torn = Now.torn
      /\ \A b \in Agents : Due(z, Agent(b)) =>
            Due(Now, Agent(b)) \/ (run[b].at \in places /\ run[b].obj = i)
  BY <1>1, <1>10, StopperWakes
<1>8. Placid(z) /\ WakesNoWatch(z)
  BY <1>1, <1>7 DEF Placid, Gentle, WakesNoWatch, places
<1> QED
  BY <1>1, <1>3, <1>4, <1>6, <1>7, <1>8, BecomesTidy, GentleTidy

LEMMA LoopTurnTidy ==
    ASSUME IInv, IInv', OInv, NEW i \in Links, Turn(<<"loop", i>>), LoopTurn(i)
    PROVE  Keeps
<1> DEFINE z == PostStopper(Now, i, {"stop loop"})
<1>1. /\ Gentle(NoTask, Now) /\ Now \in Gps /\ Once(Now.due)
      /\ \A b \in Agents : Due(Now, Agent(b)) => Due(gp, Agent(b))
  BY AgentNames, TaskGentle
<1>2. loop'[i] = "stopped" /\ \A j \in Links : j # i => loop'[j] = loop[j]
  BY DEF LoopTurn, IInv, Typed
<1>3. Idles /\ CancelsNone /\ Becomes(z)
  BY <1>2 DEF Idles, CancelsNone, LoopTurn
<1> DEFINE places == {"stop loop"}
<1>6. z = PostStopper(Now, i, places)
  OBVIOUS
<1> HIDE DEF z, places
<1>4. /\ z \in Gps /\ Once(z.due)
      /\ z.open = Now.open /\ z.sender = Now.sender /\ z.closing = Now.closing /\ z.torn = Now.torn
      /\ \A b \in Agents : Due(z, Agent(b)) =>
            Due(Now, Agent(b)) \/ (run[b].at \in places /\ run[b].obj = i)
  BY <1>1, <1>6, StopperWakes
<1>5. Placid(z) /\ WakesNoWatch(z)
  BY <1>1, <1>2, <1>4 DEF Placid, Gentle, WakesNoWatch, places
<1> QED
  BY <1>3, <1>4, <1>5, BecomesTidy

LEMMA RunTidy ==
    ASSUME IInv, IInv', OInv, Run
    PROVE  Keeps
<1>1. ASSUME NEW a \in Agents, Turn(Agent(a)) PROVE InClose(a)
  BY <1>1 DEF InClose, OInv
<1> QED
  BY <1>1, ParticipantsApart, CallerTurnTidy, HostTurnTidy, LinkTurnTidy, ConnectedTidy,
     ShakeTurnTidy, ShakeToldTidy, ReadyTurnTidy, LoopTurnTidy DEF Run

-----------------------------------------------------------------------------
(* The world outside moves nobody that closes.                             *)
LEMMA WorldTidy ==
    ASSUME IInv, IInv', OInv, NEW x \in Dues, gp' = Post(gp, x) \/ gp' = gp,
           UNCHANGED <<lock, loop>>, tp'.open = tp.open, Fitting(run'),
           \A c \in Callers : run'[c].at \in {"opening", "open closing"} => run[c].at = run'[c].at,
           \A a \in Agents : run[a].at \in Closes \cup {"down closing"} =>
               run'[a].at = run[a].at /\ run'[a].obj = run[a].obj,
           \A a \in Agents : x = Agent(a) => run[a].at # "stop loop"
    PROVE  Keeps
<1>1. gp \in Gps /\ Held(gp, lock, run) /\ Watched(gp, loop, run) /\ Together(gp, tp)
  BY DEF IInv, Typed, OInv, Orderly
<1>2. /\ \E q \in Seq(Dues) : gp' = [gp EXCEPT !.due = q]
      /\ \A y : Due(gp', y) => Due(gp, y) \/ y = x
  <2>1. CASE gp' = gp
    <3>1. gp = [gp EXCEPT !.due = gp.due] /\ gp.due \in Seq(Dues)
      BY <1>1 DEF Gps
    <3> QED
      BY <2>1, <3>1
  <2>2. CASE gp' = Post(gp, x)
    BY <1>1, <2>2, Posted
  <2> QED
    BY <2>1, <2>2
<1>3. gp'.open = gp.open /\ gp'.sender = gp.sender /\ gp'.closing = gp.closing /\ gp'.torn = gp.torn
  BY <1>1, <1>2 DEF Gps
<1>4. Held(gp', lock', run')
  BY <1>1, <1>3, ParticipantsApart DEF Held
<1>5. Watched(gp', loop', run')
  <2> SUFFICES ASSUME NEW i \in Links, loop'[i] = "cancelling"
               PROVE  \E a \in Callers \cup Links :
                         run'[a].at = "stop loop" /\ run'[a].obj = i /\ ~Due(gp', Agent(a))
    BY DEF Watched
  <2>1. PICK a \in Callers \cup Links :
             run[a].at = "stop loop" /\ run[a].obj = i /\ ~Due(gp, Agent(a))
    BY <1>1 DEF Watched
  <2>2. a \in Agents /\ run[a].at \in Closes
    BY <2>1, ParticipantsApart DEF Closes
  <2>3. run'[a].at = "stop loop" /\ run'[a].obj = i /\ x # Agent(a)
    BY <2>1, <2>2
  <2>4. ~Due(gp', Agent(a))
    BY <1>2, <2>1, <2>3
  <2> QED
    BY <2>3, <2>4
<1>6. Together(gp', tp')
  BY <1>1, <1>3 DEF Together
<1>7. Leaving(gp, run) => Leaving(gp', run')
  BY <1>3, ParticipantsApart DEF Leaving
<1>8. NoneRaises
  BY DEF NoneRaises
<1>9. Unopened(gp', run')
  BY <1>3 DEF OInv, Orderly, Unopened
<1> QED
  BY <1>4, <1>5, <1>6, <1>7, <1>8, <1>9 DEF Keeps, OInv, Orderly

LEMMA CallTidy ==
    ASSUME IInv, IInv', OInv, NEW c \in Callers, NEW fn \in Requests[c], Call(c, fn)
    PROVE  Keeps
<1>1. c \in Agents /\ run \in [Agents -> Runs] /\ run[c].at = "idle" /\ Fitting(run)
  BY ParticipantsApart DEF IInv, Typed, OInv, Orderly, Call
<1>2. /\ run'[c] = [fn |-> fn, at |-> "called", obj |-> 0,
                    body |-> IF fn = "close" THEN "close" ELSE "open",
                    res |-> IF fn = "close" THEN "ok" ELSE "none"]
      /\ \A a \in Agents : a # c => run'[a] = run[a]
  BY <1>1 DEF Call
<1>3. Fits(run'[c])
  BY <1>2 DEF Fits, Closes, Pasts
<1>4. Fitting(run')
  BY <1>1, <1>2, <1>3, ParticipantsApart DEF Fitting
<1>5. \A a \in Agents : run[a].at \in Closes \cup {"down closing"} =>
         run'[a].at = run[a].at /\ run'[a].obj = run[a].obj
  BY <1>1, <1>2 DEF Closes, Pasts
<1>6. Agent(c) \in Dues /\ \A a \in Agents : Agent(c) = Agent(a) => run[a].at # "stop loop"
  BY <1>1, AgentNames
<1>7. gp' = Post(gp, Agent(c)) /\ UNCHANGED <<lock, loop, tp>>
  BY DEF Call, Makes, tasks
<1>8. \A d \in Callers : run'[d].at \in {"opening", "open closing"} => run[d].at = run'[d].at
  <2>1. run'[c].at = "called"
    BY <1>2
  <2>2. \A a \in Agents : a # c => run'[a] = run[a]
    BY <1>2
  <2> QED
    BY <2>1, <2>2, ParticipantsApart
<1> QED
  BY <1>4, <1>5, <1>6, <1>7, <1>8, WorldTidy

(* What the world makes due, it has moved nobody.                          *)
LEMMA StillTidy ==
    ASSUME IInv, IInv', OInv, NEW x \in Dues, gp' = Post(gp, x) \/ gp' = gp,
           UNCHANGED <<lock, loop, run>>, tp'.open = tp.open,
           \A a \in Agents : x = Agent(a) => run[a].at # "stop loop"
    PROVE  Keeps
<1>1. Fitting(run')
  BY DEF OInv, Orderly, Fitting
<1> QED
  BY <1>1, WorldTidy

LEMMA AnswerTidy ==
    ASSUME IInv, IInv', OInv, NEW a \in Agents, Answer(a)
    PROVE  Keeps
<1>1. gp' = Post(gp, Agent(a)) /\ UNCHANGED <<lock, loop, run, tp>> /\ run[a].at # "stop loop"
  BY DEF Answer, Makes, tasks
<1>2. Agent(a) \in Dues /\ \A b \in Agents : Agent(a) = Agent(b) => run[b].at # "stop loop"
  BY <1>1, AgentNames
<1> QED
  BY <1>1, <1>2, StillTidy

LEMMA CutTidy ==
    ASSUME IInv, IInv', OInv, NEW c \in Callers, NEW res \in {"timeout", "cancelled"},
           Cut(c, res)
    PROVE  Keeps
<1>1. c \in Agents /\ run \in [Agents -> Runs] /\ Fitting(run)
  BY ParticipantsApart DEF IInv, Typed, OInv, Orderly
<1>2. /\ run'[c].at = run[c].at /\ run'[c].obj = run[c].obj /\ run'[c].body = run[c].body
      /\ run'[c].res = res
      /\ \/ run[c].at \in {"connecting", "wait ready", "woken"}
         \/ run[c].at = "opening" /\ "cancel open" \in Faults
      /\ \A a \in Agents : a # c => run'[a] = run[a]
  BY <1>1 DEF Cut, Attempting, Runs
<1>3. Fits(run'[c])
  BY <1>1, <1>2 DEF Fits, Fitting, Closes, Pasts
<1>4. Fitting(run')
  BY <1>1, <1>2, <1>3, ParticipantsApart DEF Fitting
<1>5. \A a \in Agents : run[a].at \in Closes \cup {"down closing"} =>
         run'[a].at = run[a].at /\ run'[a].obj = run[a].obj
  BY <1>2
<1>6. Agent(c) \in Dues /\ \A a \in Agents : Agent(c) = Agent(a) => run[a].at # "stop loop"
  BY <1>1, <1>2, AgentNames
<1>7. gp' = Post(gp, Agent(c)) /\ UNCHANGED <<lock, loop, tp>>
  BY DEF Cut, tasks
<1>8. \A d \in Callers : run'[d].at \in {"opening", "open closing"} => run[d].at = run'[d].at
  BY <1>2, ParticipantsApart
<1> QED
  BY <1>4, <1>5, <1>6, <1>7, <1>8, WorldTidy

LEMMA LinkUpTidy ==
    ASSUME IInv, IInv', OInv, LinkUp
    PROVE  Keeps
<1> DEFINE i == tp.links + 1
<1>1. tp \in Tps /\ tp.links \in Nat /\ MaxLinks \in Nat /\ tp.links < MaxLinks
  BY Zero DEF IInv, Typed, Tps, LinkUp
<1>2. i \in Links
  BY <1>1 DEF Links
<1>3. /\ tp' = [tp EXCEPT !.link = i, !.links = i] /\ gp' = Post(gp, <<"up", i>>)
      /\ UNCHANGED <<lock, loop, run>>
  BY DEF LinkUp, Makes, tasks
<1> HIDE DEF i
<1>4. tp'.open = tp.open
  BY <1>1, <1>3 DEF Tps
<1>5. <<"up", i>> \in Dues /\ \A a \in Agents : <<"up", i>> # Agent(a)
  BY <1>2, AgentNames
<1> QED
  BY <1>3, <1>4, <1>5, StillTidy

LEMMA LinkDownTidy ==
    ASSUME IInv, IInv', OInv, LinkDown
    PROVE  Keeps
<1> DEFINE i == tp.link
<1>1. /\ tp \in Tps /\ run \in [Agents -> Runs] /\ Numbered(tp, run) /\ i # 0
      /\ i \in 0 .. MaxLinks /\ Fitting(run)
  BY DEF IInv, Typed, Ordered, Tps, LinkDown, OInv, Orderly
<1>2. i \in Links /\ i \in Agents /\ i \notin Callers
  BY <1>1, ParticipantsApart DEF Links
<1>3. run[i].at = "idle"
  BY <1>1, <1>2 DEF Numbered
<1>4. \A a \in Agents : a # i => run'[a] = run[a]
  BY <1>1, <1>2 DEF LinkDown
<1>5. tp'.open = tp.open
  BY <1>1 DEF LinkDown, Tps
<1>6. Fitting(run')
  BY <1>1, <1>2, <1>4, ParticipantsApart DEF Fitting
<1>7. \A a \in Agents : run[a].at \in Closes \cup {"down closing"} =>
         run'[a].at = run[a].at /\ run'[a].obj = run[a].obj
  BY <1>3, <1>4 DEF Closes, Pasts
<1>8. Agent(i) \in Dues /\ \A a \in Agents : Agent(i) = Agent(a) => run[a].at # "stop loop"
  BY <1>2, <1>3, AgentNames
<1>9. gp' = Post(gp, Agent(i)) /\ UNCHANGED <<lock, loop>>
  BY DEF LinkDown, Makes, tasks
<1>10. \A d \in Callers : run'[d].at \in {"opening", "open closing"} => run[d].at = run'[d].at
  BY <1>2, <1>4, ParticipantsApart
<1> QED
  BY <1>5, <1>6, <1>7, <1>8, <1>9, <1>10, WorldTidy

LEMMA ReceiveTidy ==
    ASSUME IInv, IInv', OInv, NEW h \in HostTasks, NEW what, Receive(h, what)
    PROVE  Keeps
<1>1. /\ h \in Agents /\ run \in [Agents -> Runs] /\ h \notin Callers /\ Fitting(run)
      /\ run[h].at = "idle"
  BY ParticipantsApart DEF IInv, Typed, OInv, Orderly, Receive
<1>2. \A a \in Agents : a # h => run'[a] = run[a]
  BY <1>1 DEF Receive
<1>3. Fitting(run')
  BY <1>1, <1>2, ParticipantsApart DEF Fitting
<1>4. \A a \in Agents : run[a].at \in Closes \cup {"down closing"} =>
         run'[a].at = run[a].at /\ run'[a].obj = run[a].obj
  BY <1>1, <1>2 DEF Closes, Pasts
<1>5. Agent(h) \in Dues /\ \A a \in Agents : Agent(h) = Agent(a) => run[a].at # "stop loop"
  BY <1>1, AgentNames
<1>6. gp' = Post(gp, Agent(h)) /\ UNCHANGED <<lock, loop, tp>>
  BY DEF Receive, Makes, tasks
<1>7. \A d \in Callers : run'[d].at \in {"opening", "open closing"} => run[d].at = run'[d].at
  BY <1>1, <1>2, ParticipantsApart
<1> QED
  BY <1>3, <1>4, <1>5, <1>6, <1>7, WorldTidy

LEMMA TimeTidy ==
    ASSUME IInv, IInv', OInv, NEW i \in Links, Stir(i) \/ HoldoffEnds(i)
    PROVE  Keeps
<1>1. PICK k \in {"shake", "ready"} : Makes(<<k, i>>) /\ UNCHANGED <<run, tp>>
  BY DEF Stir, HoldoffEnds
<1>2. <<k, i>> \in Dues /\ \A a \in Agents : <<k, i>> # Agent(a)
  BY AgentNames
<1> QED
  BY <1>1, <1>2, StillTidy DEF Makes, tasks

(* A report loop that dies was not cancelled.                              *)
LEMMA LoopDiesTidy ==
    ASSUME IInv, IInv', OInv, NEW i \in Links, LoopDies(i)
    PROVE  Keeps
<1>1. loop \in [Links -> Loops]
  BY DEF IInv, Typed
<1>2. \A j \in Links : loop'[j] = "cancelling" => loop[j] = "cancelling"
  BY <1>1 DEF LoopDies
<1>3. UNCHANGED <<gp, lock, run, tp>>
  BY DEF LoopDies
<1>4. Orderly(gp', lock', run', loop')
  BY <1>2, <1>3 DEF OInv, Orderly, Held, Fitting, Watched, Unopened
<1> QED
  BY <1>3, <1>4 DEF Keeps, OInv, NoneRaises

LEMMA NextTidy ==
    ASSUME IInv, IInv', OInv, [Next]_vars
    PROVE  Keeps
<1>1. CASE UNCHANGED vars
  BY <1>1 DEF vars, Keeps, OInv, NoneRaises
<1>2. CASE Next
  BY <1>2, RunTidy, CallTidy, AnswerTidy, CutTidy, LinkUpTidy, LinkDownTidy,
     ReceiveTidy, TimeTidy, LoopDiesTidy DEF Next
<1> QED
  BY <1>1, <1>2

LEMMA InitTidy ==
    ASSUME Init
    PROVE  OInv /\ Leaving(gp, run)
<1>1. ~gp.open /\ ~gp.closing /\ ~tp.open /\ \A i \in Links : loop[i] = "none"
  BY DEF Init
<1>2. \A c \in Callers : run[c] = Asleep
  BY ParticipantsApart DEF Init
<1>3. Fits(Asleep)
  BY DEF Fits, Asleep, Closes, Pasts
<1>4. Fitting(run)
  BY <1>2, <1>3 DEF Fitting
<1> QED
  BY <1>1, <1>4 DEF OInv, Orderly, Held, Watched, Unopened, Together, Leaving

LEMMA Order == Spec => []OInv
<1>1. Init => OInv
  BY InitTidy
<1>2. IInv /\ IInv' /\ OInv /\ [Next]_vars => OInv'
  BY NextTidy DEF Keeps
<1> QED
  BY <1>1, <1>2, Invariance, PTL DEF Spec

LEMMA NothingLeft ==
    ASSUME "cancel open" \notin Faults, IInv, OInv, Leaving(gp, run)
    PROVE  NothingLeftOpen
<1> SUFFICES ASSUME Resting
             PROVE  /\ gp.open /\ ~gp.torn => gp.sender # 0 /\ tp.open
                    /\ ~gp.open =>
                          /\ gp.sender = 0 /\ ~tp.open
                          /\ \A i \in Links : loop[i] \notin {"running", "cancelling"}
  BY DEF NothingLeftOpen
<1>1. \A c \in Callers : run[c].at \notin Lockeds
  BY ParticipantsApart DEF IInv, Ordered, Exclusive, Resting
<1>2. \A i \in Links : run[i].at \notin {"down closing", "stop loop"}
  BY DEF Resting
<1>3. ~gp.closing
  BY <1>1 DEF OInv, Orderly, Held, Closes, Pasts, Lockeds
<1>4. (gp.open /\ ~gp.torn => gp.sender # 0) /\ (~gp.open => gp.sender = 0)
  BY <1>2, <1>3 DEF Leaving, IInv, Sole, Sendless
<1>5. (gp.open /\ ~gp.torn => tp.open) /\ (~gp.open => ~tp.open)
  BY DEF OInv, Together
<1>6. \A i \in Links : loop[i] # "cancelling"
  BY <1>1, <1>2 DEF OInv, Orderly, Watched, Lockeds
<1>7. ~gp.open => \A i \in Links : loop[i] # "running"
  BY DEF IInv, Sole, Known
<1> QED
  BY <1>4, <1>5, <1>6, <1>7

(* Where no close() raises and no application cancels open(), whatever     *)
(* requests, link losses and failures came before: once open(), close()    *)
(* and the disconnect callbacks are through, a closed controller has no    *)
(* sender, no open transport and no report loop, and an open one has a     *)
(* sender and an open transport, unless closing the transport raised in a  *)
(* disconnect callback, which tells nobody.                                *)
THEOREM NothingStaysOpen ==
    ASSUME "cancel open" \notin Faults
    PROVE  Spec /\ CloseNeverRaises => []NothingLeftOpen
<1>1. Init => Leaving(gp, run)
  BY InitTidy
<1>2. IInv /\ IInv' /\ OInv /\ Leaving(gp, run) /\ [Next]_vars
        /\ [\A c \in Callers :
              run[c].body = "close" /\ lock.holder = c /\ lock'.holder # c
                => run'[c].res # "error"]_vars
      => Leaving(gp, run)'
  BY NextTidy DEF Keeps, NoneRaises, Leaving, vars
<1>3. IInv /\ OInv /\ Leaving(gp, run) => NothingLeftOpen
  BY NothingLeft
<1> QED
  BY <1>1, <1>2, <1>3, Invariance, Order, PTL DEF Spec, CloseNeverRaises

-----------------------------------------------------------------------------
(* A direct controller has no readiness wait and no report loop: close()   *)
(* stops nothing that could have failed.                                   *)
Bare(s) ==
    /\ {"reporting", "ready", "loop"} \subseteq DOMAIN s
    /\ s.reporting = "direct" /\ s.ready = 0 /\ s.loop = 0

Waitless == \A i \in Links : ready[i].task = "none"

Barely == Bare(gp') /\ UNCHANGED ready

LEMMA BarePost ==
    ASSUME NEW s, Bare(s), NEW x
    PROVE  Bare(Post(s, x))
BY DEF Bare, Post

LEMMA BareSettle ==
    ASSUME NEW s, Bare(s), NEW l, NEW r, Settle(s, l, r)
    PROVE  Bare(gp')
<1>1. \A q : Bare([s EXCEPT !.due = q])
  BY DEF Bare
<1>2. \E q : \/ gp' = [s EXCEPT !.due = q]
             \/ \E x : gp' = Post([s EXCEPT !.due = q], x)
  BY Zenon DEF Settle
<1> QED
  BY <1>1, <1>2, BarePost

LEMMA BareSuspend ==
    ASSUME NEW s, Bare(s), NEW a, NEW w, NEW l, Suspend(a, w, s, l)
    PROVE  Bare(gp')
BY BareSettle DEF Suspend

LEMMA BareAt ==
    ASSUME NEW s, Bare(s), NEW there, NEW i, NEW a, NEW w, NEW l, At(there, i, a, w, s, l)
    PROVE  Bare(gp')
BY BareSuspend DEF At

LEMMA BareReturn ==
    ASSUME NEW s, Bare(s), NEW c, NEW res, NEW l, Return(c, res, s, l)
    PROVE  Bare(gp')
BY BareSuspend DEF Return

LEMMA BareOutcome ==
    ASSUME NEW s, Bare(s), NEW i, NEW o
    PROVE  Bare(AfterOutcome(s, i, o)) /\ ReadyAfter(s, i, o) = ready
BY DEF Bare, AfterOutcome, ReadyAfter, StartsReady, Failed, Published

LEMMA BareRaise ==
    ASSUME NEW s, Bare(s), NEW a, NEW w, NEW l, Raise(a, w, s, l)
    PROVE  Bare(gp')
<1>1. Bare([s EXCEPT !.disconnected = TRUE]) /\ Bare([s EXCEPT !.closing = FALSE])
  BY DEF Bare
<1> QED
  BY <1>1, BareAt, BareReturn DEF Raise

LEMMA BareStopLoop ==
    ASSUME NEW s, Bare(s), NEW a, NEW w, NEW l, StopLoop(a, w, s, l)
    PROVE  Bare(gp')
<1> DEFINE released == [s EXCEPT !.loop = 0, !.sender = 0]
           over == [released EXCEPT !.disconnected = TRUE]
           closed == [over EXCEPT !.state = "closed"]
           clear == [s EXCEPT !.disconnected = FALSE]
<1>1. Bare(released) /\ Bare(over) /\ Bare(closed) /\ Bare(clear)
  BY DEF Bare
<1>2. TasksStopped(a, w, s, l)
  BY DEF StopLoop, Bare
<1>3. \/ At("handled", 0, a, w, over, l)
      \/ At("down closing", 0, a, w, released, l)
      \/ At("handled", 0, a, w, closed, l)
      \/ At("request", 0, a, w, clear, l)
  BY <1>2 DEF TasksStopped, Unlinked
<1> HIDE DEF released, over, closed, clear
<1> QED
  BY <1>1, <1>3, BareAt

LEMMA BareStopReady ==
    ASSUME NEW s, Bare(s), NEW a, NEW w, NEW l, StopReady(a, w, s, l)
    PROVE  Barely
<1> DEFINE n == [s EXCEPT !.ready = 0]
<1>1. Bare(n)
  BY DEF Bare
<1>2. UNCHANGED ready /\ StopLoop(a, w, n, l)
  BY DEF StopReady, Bare
<1> HIDE DEF n
<1> QED
  BY <1>1, <1>2, BareStopLoop DEF Barely

LEMMA BareStopShake ==
    ASSUME NEW s, Bare(s), NEW a, NEW w, NEW l, StopShake(a, w, s, l)
    PROVE  Barely
<1> DEFINE n == [s EXCEPT !.shake = 0]
           p == Post(n, <<"shake", s.shake>>)
<1>1. Bare(n)
  BY DEF Bare
<1>2. \/ StopReady(a, w, n, l)
      \/ UNCHANGED ready /\ At("stop shake", s.shake, a, w, p, l)
  BY DEF StopShake
<1> HIDE DEF n
<1>3. Bare(p)
  BY <1>1, BarePost
<1> HIDE DEF p
<1> QED
  BY <1>1, <1>2, <1>3, BareStopReady, BareAt DEF Barely

LEMMA BareNow ==
    ASSUME Bare(gp)
    PROVE  Bare(Now)
BY DEF Bare, Now

LEMMA BareResume ==
    ASSUME NEW a, Bare(gp), Resume(a)
    PROVE  Barely
<1>1. Bare(Now)
  BY BareNow
<1>2. CASE StopReady(a, run[a], Now, lock)
  BY <1>1, <1>2, BareStopReady
<1>3. CASE UNCHANGED ready /\ StopLoop(a, run[a], Now, lock)
  BY <1>1, <1>3, BareStopLoop DEF Barely
<1>4. CASE UNCHANGED tasks /\ TasksStopped(a, run[a], Now, lock)
  <2>1. StopLoop(a, run[a], Now, lock)
    <3>1. Now.loop = 0
      BY <1>1 DEF Bare
    <3> QED
      BY <1>4, <3>1 DEF StopLoop, tasks
  <2> QED
    BY <1>1, <1>4, <2>1, BareStopLoop DEF Barely, tasks
<1> QED
  BY <1>2, <1>3, <1>4, Zenon DEF Resume

-----------------------------------------------------------------------------
(* The turns of callers.                                                   *)
LEMMA BareConnect ==
    ASSUME NEW s, Bare(s), NEW c, NEW w, NEW l, NEW x, Connect(c, w, s, l, x)
    PROVE  Barely
<1> DEFINE n == [s EXCEPT !.connected = FALSE, !.attempt = FALSE,
                       !.state = IF w.fn = "pair" THEN "advertising" ELSE "reconnecting"]
<1>1. Bare(n)
  BY DEF Bare
<1>2. UNCHANGED ready /\ At("connecting", 0, c, w, n, l)
  BY DEF Connect, tasks
<1> HIDE DEF n
<1> QED
  BY <1>1, <1>2, BareAt DEF Barely

LEMMA BareOpened ==
    ASSUME NEW s, Bare(s), NEW c, NEW w, NEW l, NEW x, Opened(c, w, s, l, x)
    PROVE  Barely
BY BareConnect, BareReturn, BareAt DEF Opened, Barely, tasks

LEMMA BareLocked ==
    ASSUME NEW s, Bare(s), NEW c, NEW w, NEW l, Locked(c, w, s, l)
    PROVE  Barely
<1> DEFINE n == [s EXCEPT !.closing = TRUE, !.state = "disconnecting"]
           m == [s EXCEPT !.state = "opening", !.protocolReady = FALSE,
                          !.initialized = FALSE, !.connected = FALSE, !.attempt = FALSE]
<1>1. Bare(n) /\ Bare(m)
  BY DEF Bare
<1>2. \/ Opened(c, w, s, Released(l), tp)
      \/ UNCHANGED tasks /\ At("opening", 0, c, w, m, l)
      \/ UNCHANGED tasks /\ Return(c, w.res, s, Released(l))
      \/ UNCHANGED tasks /\ At("neutral", 0, c, w, n, l)
      \/ StopShake(c, w, n, l)
  BY DEF Locked, OpenLocked, CloseLocked
<1> HIDE DEF n, m
<1> QED
  BY <1>1, <1>2, BareOpened, BareAt, BareReturn, BareStopShake DEF Barely, tasks

LEMMA BareAskForLock ==
    ASSUME NEW s, Bare(s), NEW c, NEW w, AskForLock(c, w, s)
    PROVE  Barely
BY BareLocked, BareAt DEF AskForLock, Barely, tasks

LEMMA BareOpenAnswered ==
    ASSUME Bare(gp), NEW c, OpenAnswered(c)
    PROVE  Barely
<1> DEFINE x == [tp EXCEPT !.open = TRUE, !.opens = @ + 1]
           n == [Now EXCEPT !.state = "opened", !.open = TRUE, !.sender = x.opens]
           m == [Now EXCEPT !.state = "failed"]
<1>1. Bare(Now)
  BY BareNow
<1>2. Bare(n) /\ Bare(m)
  BY <1>1 DEF Bare
<1>3. \/ Opened(c, run[c], n, Released(lock), x)
      \/ At("open closing", 0, c, run[c], m, lock) /\ UNCHANGED tasks
      \/ Return(c, "cancelled", Now, Released(lock)) /\ UNCHANGED tasks
  BY DEF OpenAnswered
<1> HIDE DEF n, m, x
<1> QED
  BY <1>1, <1>2, <1>3, BareOpened, BareAt, BareReturn DEF Barely, tasks

LEMMA BareAttemptCut ==
    ASSUME Bare(gp), NEW c, AttemptCut(c)
    PROVE  Barely
<1> DEFINE n == [Now EXCEPT !.ready = 0]
<1>1. Bare(Now)
  BY BareNow
<1>2. Bare(n)
  BY <1>1 DEF Bare
<1>3. gp.ready = 0
  BY DEF Bare
<1>4. \/ GivesUp(c, "timeout")
      \/ \E res : Finishes(c, res, n)
  BY <1>3 DEF AttemptCut
<1> HIDE DEF n
<1> QED
  BY <1>1, <1>2, <1>4, BareAskForLock, BareReturn DEF GivesUp, Finishes, Barely, tasks

LEMMA BareEnds ==
    ASSUME Bare(gp), NEW c, OpenFailed(c) \/ CloseAnswered(c)
    PROVE  Barely
<1> DEFINE n == [Now EXCEPT !.loop = 0, !.sender = 0, !.open = FALSE]
           m == [Now EXCEPT !.loop = 0, !.sender = 0, !.open = FALSE,
                          !.state = "closed", !.closing = FALSE, !.torn = FALSE]
           t == [Now EXCEPT !.torn = TRUE]
<1>1. Bare(n) /\ Bare(m) /\ Bare(t) /\ Bare(Now)
  BY BareNow DEF Bare
<1>2. UNCHANGED ready
  BY DEF OpenFailed, CloseAnswered, tasks
<1>3. \/ \E res, l : Return(c, res, n, l)
      \/ \E res, l : Return(c, res, Now, l)
      \/ \E res, l : Return(c, res, m, l)
      \/ Raise(c, run[c], t, lock)
  BY Zenon DEF OpenFailed, CloseAnswered
<1> HIDE DEF n, m, t
<1> QED
  BY <1>1, <1>2, <1>3, BareReturn, BareRaise DEF Barely

LEMMA BareCallerTurn ==
    ASSUME Bare(gp), NEW c, CallerTurn(c)
    PROVE  Barely
<1>1. Bare(Now)
  BY BareNow
<1>2. \A res : GivesUp(c, res) => Barely
  BY <1>1, BareAskForLock DEF GivesUp
<1>3. \A res : Finishes(c, res, Now) => Barely
  BY <1>1, BareReturn DEF Finishes, Barely, tasks
<1>4. Decided(c) => Barely
  BY <1>2, <1>3 DEF Decided
<1>5. Starts(c) => Barely
  BY <1>1, BareConnect, BareAskForLock DEF Starts
<1>6. GetsLock(c) => Barely
  BY <1>1, BareLocked DEF GetsLock
<1>7. PeerAnswered(c) => Barely
  BY <1>1, <1>3, BareConnect DEF PeerAnswered
<1>8. ConnectAnswered(c) => Barely
  BY <1>1, <1>2, <1>3, <1>4, BareAt DEF ConnectAnswered, Barely, tasks
<1>9. AttemptOver(c) \/ AttemptCancelled(c) => Barely
  BY <1>3, <1>4 DEF AttemptOver, AttemptCancelled
<1>10. NeutralSent(c) => Barely
  BY <1>1, BareStopShake DEF NeutralSent
<1>11. DisconnectRequested(c) \/ LinkWaitEnds(c) => Barely
  <2>1. Bare([Now EXCEPT !.torn = TRUE])
    BY <1>1 DEF Bare
  <2> QED
    BY <1>1, <2>1, BareAt, BareRaise DEF DisconnectRequested, LinkWaitEnds, Barely, tasks
<1> QED
  BY <1>5, <1>6, <1>7, <1>8, <1>9, <1>10, <1>11, BareOpenAnswered, BareAttemptCut, BareEnds,
     BareResume DEF CallerTurn

-----------------------------------------------------------------------------
(* The turns of the others.                                                *)
LEMMA BareLinkTurn ==
    ASSUME Bare(gp), NEW i, LinkTurn(i)
    PROVE  Barely
<1> DEFINE s == [Now EXCEPT !.connected = FALSE]
           o == [s EXCEPT !.shake = 0]
           n == [Now EXCEPT !.shake = 0]
           m == [Now EXCEPT !.open = FALSE, !.state = "closed", !.disconnected = TRUE,
                            !.torn = FALSE]
           t == [Now EXCEPT !.torn = TRUE]
<1>1. Bare(Now)
  BY BareNow
<1>2. Bare(s) /\ Bare(o) /\ Bare(n) /\ Bare(m) /\ Bare(t) /\ Bare(Failed(s))
  BY <1>1 DEF Bare, Failed
<1>3. CASE Down(i)
  <2>1. \/ StopShake(i, run[i], Failed(s), lock)
        \/ StopShake(i, run[i], s, lock)
        \/ At("await shake", gp.shake, i, run[i], s, lock) /\ UNCHANGED ready
        \/ Raise(i, run[i], s, lock) /\ UNCHANGED ready
        \/ StopReady(i, run[i], o, lock)
    BY <1>3 DEF Down
  <2> HIDE DEF s, o
  <2> QED
    BY <1>2, <2>1, BareStopShake, BareAt, BareRaise, BareStopReady DEF Barely
<1>4. CASE ShakeAwaited(i)
  <2>1. \/ Raise(i, run[i], Now, lock) /\ UNCHANGED ready
        \/ StopReady(i, run[i], n, lock)
    BY <1>4 DEF ShakeAwaited
  <2> HIDE DEF n
  <2> QED
    BY <1>1, <1>2, <2>1, BareRaise, BareStopReady DEF Barely
<1>5. CASE DownClosed(i)
  <2>1. /\ At("handled", 0, i, run[i], m, lock) \/ Raise(i, run[i], t, lock)
        /\ UNCHANGED ready
    BY <1>5 DEF DownClosed, tasks
  <2> HIDE DEF m, t
  <2> QED
    BY <1>2, <2>1, BareAt, BareRaise DEF Barely
<1> QED
  BY <1>3, <1>4, <1>5, BareResume DEF LinkTurn

LEMMA BareComplete ==
    ASSUME NEW s, Bare(s), NEW h, NEW o, Complete(h, o, s)
    PROVE  Barely
<1> DEFINE i == s.shake
           told == IF shake[i].stopped THEN s ELSE AfterOutcome(s, i, o)
           over == [told EXCEPT !.shake = 0]
           p == Post(s, <<"shake", i>>)
<1>1. Bare(told) /\ Bare(p) /\ ReadyAfter(s, i, o) = ready
  BY BareOutcome, BarePost
<1>2. Bare(over)
  BY <1>1 DEF Bare
<1>3. UNCHANGED ready
  BY <1>1 DEF Complete
<1>4. \/ Suspend(h, Asleep, IF o = "ready" THEN over ELSE told, lock)
      \/ At("completing", i, h, [run[h] EXCEPT !.res = o], p, lock)
  BY DEF Complete
<1> HIDE DEF told, over, p, i
<1> QED
  BY <1>1, <1>2, <1>3, <1>4, BareSuspend, BareAt DEF Barely

LEMMA BareRejected ==
    ASSUME NEW s, Bare(s), NEW h, Rejected(h, s)
    PROVE  Barely
<1>1. Bare(Failed(s))
  BY DEF Bare, Failed
<1> QED
  BY <1>1, BareComplete, BareSuspend DEF Rejected, Barely, tasks

LEMMA BareRestored ==
    ASSUME NEW s, Bare(s), NEW w
    PROVE  Bare(Restored(s, w))
BY DEF Bare, Restored

LEMMA BareBuilt ==
    ASSUME NEW s, Bare(s), NEW h, NEW w, Built(h, w, s)
    PROVE  Barely
<1> DEFINE t == [s EXCEPT !.protocolReady = TRUE, !.initialized = TRUE]
           u == [s EXCEPT !.protocolReady = FALSE]
<1>1. Bare(t) /\ Bare(u)
  BY DEF Bare
<1>2. \/ UNCHANGED ready /\ At("replying", w.obj, h, w, t, lock)
      \/ UNCHANGED ready /\ At("replying", w.obj, h, w, u, lock)
      \/ Rejected(h, Restored(s, w))
  BY DEF Built, tasks
<1> HIDE DEF t, u
<1> QED
  BY <1>1, <1>2, BareAt, BareRejected, BareRestored DEF Barely

LEMMA BareHostTurn ==
    ASSUME Bare(gp), NEW h, HostTurn(h)
    PROVE  Barely
<1> DEFINE u == Restored(Now, run[h])
           i == run[h].obj
           told == AfterOutcome(Now, i, run[h].res)
           over == [told EXCEPT !.shake = 0]
<1>1. Bare(Now)
  BY BareNow
<1>2. Bare(u)
  BY <1>1, BareRestored
<1>3. Bare(told) /\ ReadyAfter(gp, i, run[h].res) = ready
  BY <1>1, BareOutcome
<1>4. Bare(over)
  BY <1>3 DEF Bare
<1>5. CASE Dispatched(h)
  BY <1>1, <1>5, BareRejected, BareSuspend, BareBuilt DEF Dispatched, Barely, tasks
<1>6. CASE ReplyAnswered(h)
  <2>1. \/ Complete(h, "ready", Now)
        \/ Suspend(h, Asleep, Now, lock) /\ UNCHANGED tasks
        \/ Rejected(h, u)
    BY <1>6 DEF ReplyAnswered
  <2> HIDE DEF u
  <2> QED
    BY <1>1, <1>2, <2>1, BareComplete, BareSuspend, BareRejected DEF Barely, tasks
<1>7. CASE Completed(h)
  <2>1. /\ UNCHANGED ready
        /\ Suspend(h, Asleep, over, lock) \/ Suspend(h, Asleep, told, lock)
    BY <1>3, <1>7 DEF Completed
  <2> HIDE DEF told, over
  <2> QED
    BY <1>3, <1>4, <2>1, BareSuspend DEF Barely
<1> QED
  BY <1>5, <1>6, <1>7 DEF HostTurn

LEMMA BareBecomes ==
    ASSUME NEW s, Bare(s), Becomes(s)
    PROVE  Bare(gp')
BY BareSettle DEF Becomes

LEMMA BareStopper ==
    ASSUME NEW s, Bare(s), NEW i, NEW places
    PROVE  Bare(PostStopper(s, i, places))
BY BarePost DEF PostStopper

LEMMA BareTaskTurn ==
    ASSUME Bare(gp), Waitless, NEW i \in Links,
           \/ Connected(i) \/ ShakeTurn(i) \/ ShakeTold(i) \/ ReadyTurn(i) \/ LoopTurn(i)
    PROVE  Barely
<1> DEFINE s == [Now EXCEPT !.state = "initializing"]
           m == [s EXCEPT !.shake = i]
           e == [Now EXCEPT !.due = @ \o <<<<"told", i>>>>
                    \o [k \in DOMAIN shake[i].waiters |-> Agent(shake[i].waiters[k])]]
<1>1. Bare(Now)
  BY BareNow
<1>2. Bare(s) /\ Bare(m) /\ Bare(e)
  BY <1>1 DEF Bare
<1>3. CASE Connected(i)
  <2>1. UNCHANGED ready /\ (Becomes(Post(m, <<"shake", i>>)) \/ Becomes(s))
    BY <1>3 DEF Connected
  <2> HIDE DEF s, m
  <2> QED
    BY <1>2, <2>1, BarePost, BareBecomes DEF Barely
<1>4. CASE ShakeTurn(i)
  <2>1. UNCHANGED ready /\ (Becomes(e) \/ Becomes(Now))
    BY <1>4 DEF ShakeTurn
  <2> HIDE DEF e
  <2> QED
    BY <1>1, <1>2, <2>1, BareBecomes DEF Barely
<1>5. CASE ShakeTold(i)
  <2>1. Bare(gp)
    OBVIOUS
  <2>2. /\ UNCHANGED ready
        /\ Becomes(AfterOutcome(Now, i, shake[i].task)) \/ Becomes(Now)
    BY <1>5, <2>1, BareOutcome DEF ShakeTold
  <2> QED
    BY <1>1, <2>2, BareOutcome, BareBecomes DEF Barely
<1>6. CASE ReadyTurn(i)
  BY <1>6 DEF ReadyTurn, Waitless
<1>7. CASE LoopTurn(i)
  BY <1>1, <1>7, BareStopper, BareBecomes DEF LoopTurn, Barely
<1> QED
  BY <1>3, <1>4, <1>5, <1>6, <1>7

LEMMA BareRun ==
    ASSUME Bare(gp), Waitless, Run
    PROVE  Barely
BY BareCallerTurn, BareHostTurn, BareLinkTurn, BareTaskTurn DEF Run

LEMMA BareNext ==
    ASSUME Bare(gp), Waitless, [Next]_vars
    PROVE  Bare(gp') /\ Waitless'
<1>1. CASE Run
  BY <1>1, BareRun DEF Barely, Waitless
<1>2. CASE UNCHANGED ready /\ (UNCHANGED gp \/ \E x : gp' = Post(gp, x))
  BY <1>2, BarePost DEF Waitless
<1>3. [Next]_vars => Run \/ (UNCHANGED ready /\ (UNCHANGED gp \/ \E x : gp' = Post(gp, x)))
  <2>1. \A x : Makes(x) => UNCHANGED ready /\ gp' = Post(gp, x)
    BY DEF Makes, tasks
  <2> DEFINE Made  == \E x : Makes(x)
             Asked == UNCHANGED ready /\ \E c \in Callers : gp' = Post(gp, Agent(c))
             Still == UNCHANGED <<ready, gp>>
  <2>2. ASSUME NEW c \in Callers, NEW fn \in Requests[c], Call(c, fn) PROVE Made \/ Asked \/ Still
    BY <2>2 DEF Call
  <2>3. ASSUME NEW a \in Agents, Answer(a) PROVE Made \/ Asked \/ Still
    BY <2>3 DEF Answer
  <2>4. ASSUME NEW c \in Callers, NEW res, Cut(c, res) PROVE Made \/ Asked \/ Still
    BY <2>4 DEF Cut, Makes, tasks
  <2>5. ASSUME LinkUp \/ LinkDown PROVE Made \/ Asked \/ Still
    BY <2>5 DEF LinkUp, LinkDown
  <2>6. ASSUME NEW h \in HostTasks, NEW what, Receive(h, what) PROVE Made \/ Asked \/ Still
    BY <2>6 DEF Receive
  <2>7. ASSUME NEW i \in Links, Stir(i) \/ HoldoffEnds(i) \/ LoopDies(i)
        PROVE  Made \/ Asked \/ Still
    BY <2>7 DEF Stir, HoldoffEnds, LoopDies
  <2>8. Next => Run \/ Made \/ Asked \/ Still
    <3> HIDE DEF Made, Asked, Still
    <3> QED
      BY <2>2, <2>3, <2>4, <2>5, <2>6, <2>7 DEF Next
  <2>9. Made => UNCHANGED ready /\ \E x : gp' = Post(gp, x)
    BY <2>1
  <2>10. Asked \/ Still => UNCHANGED ready /\ (UNCHANGED gp \/ \E x : gp' = Post(gp, x))
    OBVIOUS
  <2> HIDE DEF Made, Asked, Still
  <2> QED
    BY <2>8, <2>9, <2>10 DEF vars
<1> QED
  BY <1>1, <1>2, <1>3

LEMMA DirectBare ==
    ASSUME Reporting \subseteq {"direct"}
    PROVE  Spec => [](Bare(gp) /\ Waitless)
<1>1. ASSUME Init PROVE Bare(gp) /\ Waitless
  <2>1. PICK reporting \in Reporting :
           gp = [reporting |-> reporting, state |-> "closed", open |-> FALSE,
                 closing |-> FALSE, sender |-> 0, shake |-> 0, ready |-> 0, loop |-> 0,
                 protocolReady |-> FALSE, connected |-> FALSE, attempt |-> FALSE,
                 disconnected |-> FALSE, initialized |-> FALSE, torn |-> FALSE,
                 due |-> << >>]
    BY <1>1 DEF Init
  <2>2. reporting = "direct"
    OBVIOUS
  <2>3. Bare(gp)
    BY <2>1, <2>2 DEF Bare
  <2>4. ready = [i \in Links |-> [task |-> "none", sender |-> 0]]
    BY <1>1 DEF Init
  <2>5. Waitless
    BY <2>4 DEF Waitless
  <2> QED
    BY <2>3, <2>5
<1>2. Bare(gp) /\ Waitless /\ [Next]_vars => (Bare(gp) /\ Waitless)'
  BY BareNext DEF Bare, Waitless
<1> QED
  BY <1>1, <1>2, PTL DEF Spec

(* close() of a direct controller raises no error of its own, unless what  *)
(* it asks of the transport raises: it has no task that could have died.   *)
THEOREM DirectCloseNeverRaises ==
    ASSUME Reporting \subseteq {"direct"}, "teardown" \notin Faults
    PROVE  Spec => CloseNeverRaises
<1>1. IInv /\ IInv' /\ OInv /\ Bare(gp) /\ [Next]_vars =>
        [\A c \in Callers :
              run[c].body = "close" /\ lock.holder = c /\ lock'.holder # c
                => run'[c].res # "error"]_vars
  BY NextTidy DEF Keeps, NoneRaises, Bare
<1> QED
  BY <1>1, Invariance, Order, DirectBare, PTL DEF Spec, CloseNeverRaises

(* A direct controller whose open() no application cancels leaves nothing  *)
(* open, whatever requests, link losses and failures came before, unless   *)
(* closing the transport raised.                                           *)
THEOREM DirectLeavesNothingOpen ==
    ASSUME Reporting \subseteq {"direct"}, "cancel open" \notin Faults
    PROVE  Spec => []NothingLeftOpen
<1>1. Init => Leaving(gp, run)
  BY InitTidy
<1>2. IInv /\ IInv' /\ OInv /\ Bare(gp) /\ Leaving(gp, run) /\ [Next]_vars => Leaving(gp, run)'
  BY NextTidy DEF Keeps, Bare, Leaving
<1>3. IInv /\ OInv /\ Leaving(gp, run) => NothingLeftOpen
  BY NothingLeft
<1> QED
  BY <1>1, <1>2, <1>3, Invariance, Order, DirectBare, PTL DEF Spec

===============================================================================
