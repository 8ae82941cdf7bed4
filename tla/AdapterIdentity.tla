---------------------------- MODULE AdapterIdentity ----------------------------
(***************************************************************************)
(* The address of a CSR adapter: the preparation of a profile's address    *)
(* when a controller is opened (swbt/transport/_adapter_identity.py), the  *)
(* check with which the transport then opens the adapter, and the probes   *)
(* of tools/ that share its sessions (_csr_bd_addr_harness.py), run by     *)
(* several processes against one adapter.                                  *)
(*                                                                         *)
(* The adapter holds the address three times: for good (flash), as the     *)
(* volatile value that a write changes (psram) and the one it answers to   *)
(* (active), which becomes the volatile one by a warm reset.  It executes  *)
(* commands in the order they were sent, also those whose sender has given *)
(* up; late answers are dropped, as they carry the command's own number.   *)
(* One session at a time has the adapter (an exclusive USB claim).         *)
(***************************************************************************)
EXTENDS Naturals, Sequences, FiniteSets

CONSTANTS
    Clients,        \* processes
    Addresses,
    Flash,          \* the address of the adapter after it was plugged in
    Requests,       \* programs that processes may start, with their addresses
    MaxRuns,        \* bound: number of programs
    MaxReplugs,     \* bound: how often the adapter is replugged
    NoClient

ASSUME AdapterAssumption ==
    /\ Flash \in Addresses
    /\ Requests \subseteq [prog : {"prepare", "volatile", "warm", "read"},
                            wanted : Addresses, original : Addresses]
    /\ \A req \in Requests : req.prog \in {"volatile", "warm"} => req.wanted # req.original
    /\ NoClient \notin Clients
    /\ MaxRuns \in Nat /\ MaxReplugs \in Nat

VARIABLES
    adapter,    \* the adapter
    owner,      \* who has the session with it
    client,     \* each process
    touched,    \* history: processes that have sent a write since they started
    spent       \* what the bounds count

vars == <<adapter, owner, client, touched, spent>>

-----------------------------------------------------------------------------
(* The programs, as the commands they wait for and the answers they need.  *)

Step(command, value, expected) == [command |-> command, value |-> value, expected |-> expected]
Initialize == Step("initialize", "none", "any")
Read(command, expected) == Step(command, "none", expected)
Write(value) == Step("write", value, "any")
WarmReset == Step("reset", "none", "any")

Baseline == <<Initialize, Read("standard", "original"), Read("psram", "original")>>
Changed == <<Write("wanted"), Read("psram", "wanted"), Read("standard", "original")>>
Restored == <<Write("original"), Read("psram", "original")>>
Rewrite == <<Initialize, Read("standard", "any"), Write("wanted"), WarmReset>>

(* prepare: _prepare_adapter_identity() up to the warm reset, and confirm  *)
(* after it; serve: the transport opens the adapter for a profile;         *)
(* volatile, warm, read: the probes; restore: what the volatile probe does *)
(* when it fails after its write.                                          *)
Steps(prog) ==
    CASE prog = "prepare" -> Rewrite
      [] prog = "confirm" -> <<Initialize, Read("standard", "wanted")>>
      [] prog = "serve" -> <<Initialize, Read("standard", "wanted")>>
      [] prog = "volatile" -> Baseline \o Changed \o Restored \o <<Read("standard", "original")>>
      [] prog = "restore" -> Restored
      [] prog = "warm" -> Baseline \o Changed \o <<WarmReset>>
      [] prog = "read" -> <<Initialize, Read("standard", "any"), Read("psram", "any")>>
      [] OTHER -> << >>

Outcomes == {"none", "already_active", "rewritten", "recovery_required", "error",
             "passed", "failed", "restored", "restore_failed", "cancelled"}

(* at: where the process is suspended; step: the command it waits for;     *)
(* wrote: write_started or restore_required; late: past its deadline.      *)
Idle == [prog |-> "none", at |-> "idle", step |-> 0, wanted |-> Flash, original |-> Flash,
         wrote |-> FALSE, late |-> FALSE, outcome |-> "none"]

(* An earlier program may have left another volatile address active.       *)
Init ==
    /\ \E a \in Addresses :
           adapter = [psram |-> a, active |-> a, up |-> TRUE, queue |-> << >>]
    /\ owner = NoClient
    /\ client = [c \in Clients |-> Idle]
    /\ touched = {}
    /\ spent = [runs |-> 0, replugs |-> 0]

-----------------------------------------------------------------------------
Becomes(c, rec) == client' = [client EXCEPT ![c] = rec]

(* A cancelled program ends with CancelledError, whatever it still does.   *)
Concluded(rec, outcome) ==
    [rec EXCEPT !.outcome = IF @ = "cancelled" THEN @ ELSE outcome]

Closes(c, rec, outcome) ==
    /\ Becomes(c, [Concluded(rec, outcome) EXCEPT !.at = "closing"])
    /\ UNCHANGED touched

(* The program is over, for good or for bad.                               *)
Over(c, rec, outcome) ==
    Becomes(c, [Idle EXCEPT !.prog = rec.prog, !.wanted = rec.wanted, !.original = rec.original,
                            !.outcome = Concluded(rec, outcome).outcome])

Value(rec, name) ==
    CASE name = "wanted" -> rec.wanted
      [] name = "original" -> rec.original
      [] OTHER -> Flash

(* Seeded bug: the write counts as begun when it is answered.              *)
WaitUnmarked(rec, k) ==
    [rec EXCEPT !.at = "asking", !.step = k,
                !.wrote = @ \/ (k > 1 /\ Steps(rec.prog)[k - 1].command = "write")]

(* state.write_started is set when the write is sent, not answered.        *)
Wait(rec, k) ==
    [rec EXCEPT !.at = "asking", !.step = k, !.wrote = @ \/ Steps(rec.prog)[k].command = "write"]

(* Process c, which is then rec, sends its k-th command to the adapter a,  *)
(* which is lost when the session is; it waits for the answer, but not for *)
(* that of a warm reset, after which it closes.                            *)
Asks(c, rec, k, a) ==
    LET s == Steps(rec.prog)[k]
        sent == [name |-> s.command, value |-> Value(rec, s.value),
                 from |-> IF s.command = "reset" THEN NoClient ELSE c]
    IN  /\ adapter' = IF owner' = c THEN [a EXCEPT !.queue = Append(@, sent)] ELSE a
        /\ IF s.command = "reset"
           THEN Closes(c, rec, "none")
           ELSE /\ Becomes(c, Wait(rec, k))
                /\ touched' = IF s.command = "write" THEN touched \cup {c} ELSE touched

(* What an exception makes of a program that has not yet succeeded.        *)
Failure(rec) ==
    CASE rec.prog \in {"prepare", "confirm"} -> IF rec.wrote THEN "recovery_required" ELSE "error"
      [] rec.prog = "serve" -> "error"
      [] rec.prog = "restore" -> "restore_failed"
      [] OTHER -> "failed"

(* Seeded bug: the volatile probe does not restore what it wrote.          *)
RaisesAtOnce(c, rec, a) == Closes(c, rec, Failure(rec)) /\ adapter' = a

(* An exception in the session of c: the volatile probe restores what it   *)
(* wrote, and the session is closed.                                       *)
Raises(c, rec, a) ==
    IF rec.prog = "volatile" /\ rec.wrote
    THEN Asks(c, [rec EXCEPT !.prog = "restore"], 1, a)
    ELSE Closes(c, rec, Failure(rec)) /\ adapter' = a

(* The last command of a program was answered as it should be.             *)
Succeeds(c, rec) ==
    CASE rec.prog = "serve" -> Becomes(c, [rec EXCEPT !.at = "serving"]) /\ UNCHANGED touched
      [] rec.prog = "confirm" -> Closes(c, rec, "rewritten")
      [] rec.prog = "restore" -> Closes(c, rec, "restored")
      [] OTHER -> Closes(c, rec, "passed")

(* Seeded bug: an answer is not compared with the address expected.        *)
AnsweredUnchecked(c, value, a) ==
    LET rec == client[c]
        s == Steps(rec.prog)[rec.step]
    IN  IF rec.prog = "prepare" /\ s.command = "standard" /\ value = rec.wanted
        THEN Closes(c, rec, "already_active") /\ adapter' = a
        ELSE IF rec.step = Len(Steps(rec.prog)) THEN Succeeds(c, rec) /\ adapter' = a
        ELSE Asks(c, rec, rec.step + 1, a)

(* Process c gets an answer.                                               *)
Answered(c, value, a) ==
    LET rec == client[c]
        s == Steps(rec.prog)[rec.step]
    IN  IF s.expected # "any" /\ value # Value(rec, s.expected) THEN Raises(c, rec, a)
        ELSE IF rec.prog = "prepare" /\ s.command = "standard" /\ value = rec.wanted
        THEN Closes(c, rec, "already_active") /\ adapter' = a
        ELSE IF rec.step = Len(Steps(rec.prog)) THEN Succeeds(c, rec) /\ adapter' = a
        ELSE Asks(c, rec, rec.step + 1, a)

-----------------------------------------------------------------------------
Start(c, req) ==
    /\ client[c].at = "idle"
    /\ spent.runs < MaxRuns
    /\ Becomes(c, [Idle EXCEPT !.prog = req.prog, !.at = "opening", !.wanted = req.wanted,
                               !.original = req.original])
    /\ touched' = touched \ {c}
    /\ spent' = [spent EXCEPT !.runs = @ + 1]
    /\ UNCHANGED <<adapter, owner>>

(* The USB device is there and nobody else has it.                         *)
Claims(c) ==
    /\ owner = NoClient /\ adapter.up
    /\ owner' = c

Opens(c) ==
    /\ client[c].at = "opening"
    /\ Claims(c)
    /\ Asks(c, client[c], 1, adapter)
    /\ UNCHANGED spent

OpenFails(c) ==
    /\ client[c].at = "opening"
    /\ Over(c, client[c], Failure(client[c]))
    /\ UNCHANGED <<adapter, owner, touched, spent>>

(* _open_reenumerated_session(): an attempt, which may be the last.        *)
PollOpens(c) ==
    /\ client[c].at = "polling"
    /\ Claims(c)
    /\ Asks(c, client[c], 1, adapter)
    /\ UNCHANGED spent

(* Seeded bug: the deadline is not looked at after a failed attempt.       *)
PollFailsAgain(c) == FALSE

PollFails(c) ==
    /\ client[c].at = "polling" /\ client[c].late
    /\ Over(c, client[c], Failure(client[c]))
    /\ UNCHANGED <<adapter, owner, touched, spent>>

DeadlinePasses(c) ==
    /\ client[c].at = "polling" /\ ~client[c].late
    /\ Becomes(c, [client[c] EXCEPT !.late = TRUE])
    /\ UNCHANGED <<adapter, owner, touched, spent>>

(* Nobody waits any more for the answer to the commands of c.              *)
GivenUp(c) ==
    [adapter EXCEPT !.queue =
        [i \in DOMAIN @ |-> IF @[i].from = c THEN [@[i] EXCEPT !.from = NoClient] ELSE @[i]]]

(* Process c, which is then rec, gives up the command it waits for.  One   *)
(* of the standard commands still has the command semaphore of the host,   *)
(* and _send_vendor_command() waits for it before it restores.             *)
GivesUp(c, rec) ==
    IF rec.prog = "volatile" /\ rec.wrote /\ Steps(rec.prog)[rec.step].command = "standard"
    THEN /\ Becomes(c, [rec EXCEPT !.prog = "restore", !.at = "blocked", !.step = 0])
         /\ adapter' = GivenUp(c)
         /\ UNCHANGED touched
    ELSE Raises(c, rec, GivenUp(c))

(* No answer came in time, or the session is broken.  The commands of      *)
(* "serve" have no timeout (power_on).                                     *)
TimesOut(c) ==
    /\ client[c].at = "asking"
    /\ UNCHANGED <<owner, spent>>
    /\ GivesUp(c, client[c])

(* The adapter has answered the standard command after all; if the answer  *)
(* is lost, the semaphore is never released.                               *)
Unblocks(c) ==
    /\ client[c].at = "blocked" /\ owner = c
    /\ \A i \in DOMAIN adapter.queue : adapter.queue[i].name # "standard"
    /\ UNCHANGED <<owner, spent>>
    /\ Asks(c, client[c], 1, adapter)

(* Seeded bug: a cancelled session is not closed.                          *)
CancelLeaking(c) ==
    /\ client[c].at = "asking"
    /\ Over(c, client[c], "cancelled")
    /\ adapter' = GivenUp(c)
    /\ UNCHANGED <<owner, touched, spent>>

(* The task is cancelled: CancelledError is no Exception, so nothing       *)
(* classifies it, but the session is closed and the address restored.  A   *)
(* cancelled restoring does not close its session; the probe then ends,    *)
(* and its process gives the adapter back, which is the closing here.      *)
Cancel(c) ==
    /\ client[c].at \in {"opening", "asking", "blocked", "polling"}
    /\ client[c].outcome # "cancelled"
    /\ UNCHANGED <<owner, spent>>
    /\ IF client[c].at \in {"asking", "blocked"}
       THEN GivesUp(c, [client[c] EXCEPT !.outcome = "cancelled"])
       ELSE Over(c, client[c], "cancelled") /\ UNCHANGED <<adapter, touched>>

(* close() of the session.  An error in it counts unless the adapter has   *)
(* been reset.  A preparation that succeeded is followed by the opening of *)
(* the transport.                                                          *)
SessionCloses(c, raised) ==
    LET rec == client[c]
        good == rec.outcome \in {"already_active", "rewritten"}
    IN  /\ rec.at = "closing"
        /\ owner' = IF owner = c THEN NoClient ELSE owner
        /\ IF rec.prog = "prepare" /\ rec.outcome = "none"
           THEN /\ Becomes(c, [rec EXCEPT !.prog = "confirm", !.at = "polling", !.step = 0])
                /\ UNCHANGED touched
           ELSE IF rec.prog \in {"prepare", "confirm"} /\ good /\ ~raised
           THEN /\ Becomes(c, [rec EXCEPT !.prog = "serve", !.at = "opening", !.step = 0])
                /\ touched' = touched \ {c}
           ELSE /\ CASE good /\ rec.prog # "serve" -> Over(c, rec, Failure(rec))
                     [] rec.outcome = "none" -> Over(c, rec, "passed")
                     [] rec.outcome = "passed" /\ raised -> Over(c, rec, "restored")
                     [] OTHER -> Over(c, rec, rec.outcome)
                /\ UNCHANGED touched
        /\ UNCHANGED <<adapter, spent>>

(* The controller is closed.                                               *)
StopsServing(c) ==
    /\ client[c].at = "serving"
    /\ Closes(c, client[c], client[c].outcome)
    /\ UNCHANGED <<adapter, owner, spent>>

-----------------------------------------------------------------------------
Answer(cmd, a) == IF cmd.name = "standard" THEN a.active ELSE a.psram

(* The adapter executes its next command; the answer may get lost.         *)
Execute(answered) ==
    /\ adapter.queue # << >>
    /\ LET cmd == Head(adapter.queue)
           a == [adapter EXCEPT !.queue = Tail(@),
                                !.psram = IF cmd.name = "write" THEN cmd.value ELSE @]
       IN  /\ cmd.name # "reset"
           /\ UNCHANGED <<owner, spent>>
           /\ IF answered /\ cmd.from # NoClient THEN Answered(cmd.from, Answer(cmd, a), a)
              ELSE adapter' = a /\ UNCHANGED <<client, touched>>

(* It refuses a write.                                                     *)
Refuse ==
    /\ adapter.queue # << >>
    /\ LET cmd == Head(adapter.queue)
           a == [adapter EXCEPT !.queue = Tail(@)]
       IN  /\ cmd.name = "write" /\ cmd.from # NoClient
           /\ UNCHANGED <<owner, spent>>
           /\ Raises(cmd.from, client[cmd.from], a)

(* A warm reset takes it off the bus and ends the session.                 *)
Reset ==
    /\ adapter.queue # << >> /\ Head(adapter.queue).name = "reset"
    /\ adapter' = [adapter EXCEPT !.active = adapter.psram, !.up = FALSE, !.queue = << >>]
    /\ owner' = NoClient
    /\ UNCHANGED <<client, touched, spent>>

Reenumerate ==
    /\ ~adapter.up
    /\ adapter' = [adapter EXCEPT !.up = TRUE]
    /\ UNCHANGED <<owner, client, touched, spent>>

Replug ==
    /\ spent.replugs < MaxReplugs
    /\ adapter' = [psram |-> Flash, active |-> Flash, up |-> TRUE, queue |-> << >>]
    /\ owner' = NoClient
    /\ spent' = [spent EXCEPT !.replugs = @ + 1]
    /\ UNCHANGED <<client, touched>>

Next ==
    \/ \E c \in Clients :
           \/ \E req \in Requests : Start(c, req)
           \/ Opens(c) \/ OpenFails(c) \/ PollOpens(c) \/ PollFails(c) \/ DeadlinePasses(c)
           \/ TimesOut(c) \/ Unblocks(c) \/ Cancel(c) \/ StopsServing(c)
           \/ \E raised \in BOOLEAN : SessionCloses(c, raised)
    \/ \E answered \in BOOLEAN : Execute(answered)
    \/ Refuse \/ Reset \/ Reenumerate \/ Replug

Spec == Init /\ [][Next]_vars

(* The answers to commands are awaited with a timeout, but for those of    *)
(* "serve"; opening and closing a USB device comes back by itself, and the *)
(* polling goes on until its deadline has passed.  Of the adapter nothing  *)
(* is assumed, so that a wait for the semaphore need not end.              *)
FairSpec ==
    /\ Spec
    /\ \A c \in Clients :
           /\ WF_vars(Opens(c) \/ OpenFails(c)) /\ WF_vars(PollOpens(c) \/ PollFails(c))
           /\ WF_vars(DeadlinePasses(c))
           /\ WF_vars(client[c].prog # "serve" /\ TimesOut(c))
           /\ WF_vars(\E raised \in BOOLEAN : SessionCloses(c, raised))

-----------------------------------------------------------------------------
(* The variables have their types, only processes that use the adapter     *)
(* have a session with it, and nothing is written but what a process was   *)
(* asked to.                                                               *)
TypeOK ==
    /\ adapter.psram \in Addresses /\ adapter.active \in Addresses /\ adapter.up \in BOOLEAN
    /\ adapter.queue \in Seq([name : {"initialize", "standard", "psram", "write", "reset"},
                              value : Addresses, from : Clients \cup {NoClient}])
    /\ owner # NoClient =>
           client[owner].at \in {"asking", "blocked", "serving", "closing"} /\ adapter.up
    /\ \A c \in Clients :
           /\ client[c].outcome \in Outcomes
           /\ client[c].step \in 0 .. Len(Steps(client[c].prog))
    /\ touched \subseteq Clients
    /\ spent \in [runs : 0 .. MaxRuns, replugs : 0 .. MaxReplugs]

(* A controller never runs under another address than that of its profile, *)
(* though other processes rewrite, reset or replug the adapter between its *)
(* preparation and the opening of the transport, and commands that were    *)
(* given up are executed late (spec/initial/risks.md:171).                 *)
ServesTarget ==
    \A c \in Clients : client[c].at = "serving" /\ owner = c => adapter.active = client[c].wanted

(* A preparation that fails after it sent the write asks for recovery, one *)
(* that fails earlier, or finds nothing to do, has left the adapter alone  *)
(* (docs/api.md:61).                                                       *)
DoubtReported ==
    \A c \in Clients : /\ client[c].prog \in {"prepare", "confirm", "serve"}
                       /\ client[c].outcome \in {"error", "already_active"}
                       => c \notin touched

(* The volatile probe says that the address is as it was only if it is: it *)
(* has restored it, or has not sent a write.                               *)
ProbeHonest ==
    \A c \in Clients :
        /\ client[c].prog = "volatile" /\ client[c].outcome = "failed" => c \notin touched
        /\ /\ client[c].prog \in {"volatile", "restore"} /\ owner = c
           /\ client[c].outcome \in {"passed", "restored"}
           => adapter.psram = client[c].original

(* Waits without a timeout: power_on() (transport/bumble.py:767), and for  *)
(* the command semaphore (_csr_bd_addr_harness.py:147).                    *)
Unlimited(c) ==
    client[c].at = "blocked" \/ (client[c].prog = "serve" /\ client[c].at = "asking")

(* However the adapter behaves, a preparation comes to an end or to the    *)
(* power_on() of the transport, and a probe to an end or to a restoring    *)
(* that waits for a read it has given up: nothing else can hold them up.   *)
PreparationEnds ==
    \A c \in Clients :
        client[c].at # "idle" ~> client[c].at \in {"idle", "serving"} \/ Unlimited(c)

=============================================================================
