------------------------ MODULE AdapterIdentityProofs ------------------------
(***************************************************************************)
(* For any number of processes and addresses: the types of AdapterIdentity *)
(* are kept, no controller serves under another address than its profile's,*)
(* and no program is silent about what it may have written.                *)
(***************************************************************************)
EXTENDS AdapterIdentity, TLAPS

Programs == {"prepare", "confirm", "serve", "volatile", "restore", "warm", "read"}
Commands == {"initialize", "standard", "psram", "write", "reset"}

Owners == Clients \cup {NoClient}
Entries == [name : Commands, value : Addresses, from : Owners]
Adapters == [psram : Addresses, active : Addresses, up : BOOLEAN, queue : Seq(Entries)]
Records == [prog : Programs \cup {"none"},
            at : {"idle", "opening", "asking", "blocked", "polling", "serving", "closing"},
            step : Nat, wanted : Addresses, original : Addresses,
            wrote : BOOLEAN, late : BOOLEAN, outcome : Outcomes]
Counts == [runs : 0 .. MaxRuns, replugs : 0 .. MaxReplugs]

Rewriting == {"prepare", "confirm"}
Good == {"already_active", "rewritten"}

Typed ==
    /\ adapter \in Adapters
    /\ owner \in Owners
    /\ client \in [Clients -> Records]
    /\ touched \subseteq Clients
    /\ spent \in Counts

(* What program p has come to, while it is not over.                       *)
Fresh(p) ==
    /\ p.prog \in Rewriting \cup {"volatile"} => p.outcome = "none"
    /\ p.prog = "restore" => p.outcome \in {"none", "cancelled"}

(* The record of a process makes sense by itself: where a program can be,  *)
(* which command it can wait for, and how it can have ended there.         *)
Local(p) ==
    /\ p.step \in 0 .. Len(Steps(p.prog))
    /\ p.at = "asking" => p.step # 0 /\ Steps(p.prog)[p.step].command # "reset"
    /\ p.at = "blocked" => p.prog = "restore" /\ p.step = 0
    /\ p.at = "opening" => p.prog \in {"prepare", "volatile", "warm", "read", "serve"}
    /\ p.at = "polling" => p.prog = "confirm"
    /\ p.at = "serving" => p.prog = "serve"
    /\ p.at \in {"opening", "polling"} => p.step = 0
    /\ p.at \in {"opening", "asking", "blocked", "polling"} => Fresh(p)
    /\ p.prog = "confirm" => p.outcome # "already_active"
    /\ p.prog \in {"volatile", "restore"} => p.outcome \notin Good
    /\ p.prog \in {"prepare", "volatile"} /\ p.at = "opening" => ~p.wrote
    /\ p.prog = "prepare" /\ p.at = "asking" /\ p.wrote => p.step >= 3

(* The process whose record is p has sent a write, or not, wrote.          *)
Written(p, wrote) ==
    /\ p.prog \in Rewriting \cup {"volatile"} /\ p.at # "idle" /\ wrote => p.wrote
    /\ p.prog = "serve" => ~wrote
    /\ p.prog \in Rewriting /\ p.outcome \in {"error", "already_active"} => ~wrote
    /\ p.prog = "volatile" /\ p.outcome = "failed" => ~wrote

NobodyWaits(a) == \A i \in 1 .. Len(a.queue) : a.queue[i].from = NoClient

NoWrites(a) == \A i \in 1 .. Len(a.queue) : a.queue[i].name # "write"

(* The last command of the queue is the one p waits for; all others were   *)
(* given up.                                                               *)
OnlyLast(c, p, a) ==
    \A i \in 1 .. Len(a.queue) :
        a.queue[i].from # NoClient =>
            /\ i = Len(a.queue) /\ a.queue[i].from = c
            /\ p.at = "asking" /\ a.queue[i].name = Steps(p.prog)[p.step].command

(* A probe has seen that its restored value is the one in the adapter, and *)
(* no command is left that would change it.                                *)
SeenRestored(p) ==
    \/ p.prog = "volatile" /\ p.at = "asking" /\ p.step = 9
    \/ p.prog \in {"volatile", "restore"} /\ p.outcome \in {"passed", "restored"}

(* Process c, whose record is p, has the session with the adapter a.       *)
Owned(c, p, a) ==
    /\ a.up /\ p.at \in {"asking", "blocked", "serving", "closing"}
    /\ OnlyLast(c, p, a)
    /\ p.at = "serving" => a.active = p.wanted
    /\ SeenRestored(p) => a.psram = p.original /\ NoWrites(a)

Session(o, cl, a) ==
    /\ o = NoClient => NobodyWaits(a)
    /\ o # NoClient => Owned(o, cl[o], a)

Inv ==
    /\ Typed
    /\ \A c \in Clients : Local(client[c]) /\ Written(client[c], c \in touched)
    /\ Session(owner, client, adapter)

-----------------------------------------------------------------------------
(* The programs.                                                           *)

StepSet == [command : Commands, value : {"none", "wanted", "original"},
            expected : {"any", "wanted", "original"}]

LEMMA StepTypes ==
    /\ Initialize \in StepSet /\ WarmReset \in StepSet
    /\ Initialize.command = "initialize" /\ WarmReset.command = "reset"
    /\ \A v \in {"wanted", "original"} : Write(v) \in StepSet /\ Write(v).command = "write"
    /\ \A n \in {"standard", "psram"}, e \in {"any", "wanted", "original"} :
           /\ Read(n, e) \in StepSet
           /\ Read(n, e).command = n /\ Read(n, e).expected = e
  BY DEF StepSet, Commands, Initialize, WarmReset, Write, Read, Step

LEMMA ShortPrograms ==
    /\ Steps("prepare") = <<Initialize, Read("standard", "any"), Write("wanted"), WarmReset>>
    /\ Steps("confirm") = <<Initialize, Read("standard", "wanted")>>
    /\ Steps("serve") = <<Initialize, Read("standard", "wanted")>>
    /\ Steps("restore") = <<Write("original"), Read("psram", "original")>>
    /\ Steps("read") = <<Initialize, Read("standard", "any"), Read("psram", "any")>>
    /\ Steps("none") = << >>
  BY DEF Steps, Rewrite, Restored

LEMMA ElementIn ==
    ASSUME NEW S, NEW q \in Seq(S), NEW i \in 1 .. Len(q)
    PROVE  q[i] \in S
  OBVIOUS

LEMMA Joined ==
    ASSUME NEW S, NEW q \in Seq(S), NEW r \in Seq(S)
    PROVE  /\ q \o r \in Seq(S) /\ Len(q \o r) = Len(q) + Len(r)
           /\ \A i \in 1 .. Len(q) + Len(r) :
                  (q \o r)[i] = IF i <= Len(q) THEN q[i] ELSE r[i - Len(q)]
  OBVIOUS

(* The probes, a command at a time.                                        *)
LEMMA ProbePrograms ==
    /\ Steps("volatile") \in Seq(StepSet) /\ Len(Steps("volatile")) = 9
    /\ Steps("volatile")[1] = Initialize
    /\ Steps("volatile")[8] = Read("psram", "original")
    /\ Steps("volatile")[9] = Read("standard", "original")
    /\ \A k \in 1 .. 9 : Steps("volatile")[k].command # "reset"
    /\ Steps("warm") \in Seq(StepSet) /\ Len(Steps("warm")) = 7
    /\ Steps("warm")[1] = Initialize
    /\ \A k \in 1 .. 6 : Steps("warm")[k].command # "reset"
<1> DEFINE S == {s \in StepSet : s.command # "reset"}
           base == Baseline \o Changed
           most == base \o Restored
           last == <<Read("standard", "original")>>
           whole == most \o last
           warm == base \o <<WarmReset>>
<1>1. /\ Initialize \in S /\ WarmReset \in StepSet
      /\ \A v \in {"wanted", "original"} : Write(v) \in S
      /\ \A n \in {"standard", "psram"}, e \in {"any", "wanted", "original"} : Read(n, e) \in S
  BY StepTypes
<1>2. \A s \in S : s \in StepSet /\ s.command # "reset"
  OBVIOUS
<1> HIDE DEF S
<1>3. /\ Baseline \in Seq(S) /\ Len(Baseline) = 3 /\ Baseline[1] = Initialize
      /\ Changed \in Seq(S) /\ Len(Changed) = 3
      /\ Restored \in Seq(S) /\ Len(Restored) = 2 /\ Restored[2] = Read("psram", "original")
      /\ last \in Seq(S) /\ Len(last) = 1 /\ last[1] = Read("standard", "original")
  BY <1>1 DEF Baseline, Changed, Restored
<1>4. /\ base \in Seq(S) /\ Len(base) = 6
      /\ \A i \in 1 .. 6 : base[i] = IF i <= 3 THEN Baseline[i] ELSE Changed[i - 3]
  <2>1. /\ Baseline \o Changed \in Seq(S) /\ Len(Baseline \o Changed) = Len(Baseline) + Len(Changed)
        /\ \A i \in 1 .. Len(Baseline) + Len(Changed) :
               (Baseline \o Changed)[i] = IF i <= Len(Baseline) THEN Baseline[i] ELSE Changed[i - Len(Baseline)]
    BY <1>3, Joined
  <2> QED
    BY <1>3, <2>1
<1> HIDE DEF base, last
<1>5. /\ most \in Seq(S) /\ Len(most) = 8
      /\ \A i \in 1 .. 8 : most[i] = IF i <= 6 THEN base[i] ELSE Restored[i - 6]
  <2>1. /\ base \o Restored \in Seq(S) /\ Len(base \o Restored) = Len(base) + Len(Restored)
        /\ \A i \in 1 .. Len(base) + Len(Restored) :
               (base \o Restored)[i] = IF i <= Len(base) THEN base[i] ELSE Restored[i - Len(base)]
    BY <1>3, <1>4, Joined
  <2> QED
    BY <1>3, <1>4, <2>1
<1> HIDE DEF most
<1>6. /\ whole \in Seq(S) /\ Len(whole) = 9
      /\ \A i \in 1 .. 9 : whole[i] = IF i <= 8 THEN most[i] ELSE last[i - 8]
  <2>1. /\ most \o last \in Seq(S) /\ Len(most \o last) = Len(most) + Len(last)
        /\ \A i \in 1 .. Len(most) + Len(last) :
               (most \o last)[i] = IF i <= Len(most) THEN most[i] ELSE last[i - Len(most)]
    BY <1>3, <1>5, Joined
  <2> QED
    BY <1>3, <1>5, <2>1
<1> HIDE DEF whole
<1>7. base \in Seq(StepSet) /\ <<WarmReset>> \in Seq(StepSet) /\ Len(<<WarmReset>>) = 1
  BY <1>1, <1>2, <1>4
<1>8. /\ warm \in Seq(StepSet) /\ Len(warm) = 7
      /\ \A i \in 1 .. 7 : warm[i] = IF i <= 6 THEN base[i] ELSE <<WarmReset>>[i - 6]
  <2>1. /\ base \o <<WarmReset>> \in Seq(StepSet) /\ Len(base \o <<WarmReset>>) = Len(base) + Len(<<WarmReset>>)
        /\ \A i \in 1 .. Len(base) + Len(<<WarmReset>>) :
               (base \o <<WarmReset>>)[i] = IF i <= Len(base) THEN base[i] ELSE <<WarmReset>>[i - Len(base)]
    BY <1>4, <1>7, Joined
  <2> QED
    BY <1>4, <1>7, <2>1
<1> HIDE DEF warm
<1>9. Steps("volatile") = whole /\ Steps("warm") = warm
  BY DEF Steps, base, most, last, whole, warm
<1>10. base[1] = Initialize /\ most[1] = Initialize /\ most[8] = Read("psram", "original")
       /\ whole[1] = Initialize /\ warm[1] = Initialize
  <2>1. base[1] = Initialize /\ most[1] = base[1] /\ warm[1] = base[1] /\ whole[1] = most[1]
    BY <1>3, <1>4, <1>5, <1>6, <1>8
  <2>2. 8 \in 1 .. 8 /\ ~(8 <= 6) /\ 8 - 6 = 2
    OBVIOUS
  <2> QED
    BY <1>3, <1>5, <2>1, <2>2
<1>11. whole[8] = most[8] /\ whole[9] = last[1]
  <2>1. 8 \in 1 .. 9 /\ 8 <= 8 /\ 9 \in 1 .. 9 /\ ~(9 <= 8) /\ 9 - 8 = 1
    OBVIOUS
  <2> QED
    BY <1>6, <2>1
<1>12. \A k \in 1 .. 9 : whole[k] \in S
  BY <1>6, ElementIn
<1>13. \A k \in 1 .. 6 : warm[k] \in S
  <2>1. \A k \in 1 .. 6 : base[k] \in S
    BY <1>4, ElementIn
  <2> QED
    BY <1>8, <2>1
<1>14. whole \in Seq(StepSet)
  BY <1>2, <1>6
<1> QED
  BY <1>2, <1>3, <1>6, <1>8, <1>9, <1>10, <1>11, <1>12, <1>13, <1>14

(* A reset, which nobody waits for, is the last command of its program.    *)
LEMMA StepFacts ==
    ASSUME NEW prog \in Programs
    PROVE  /\ Steps(prog) \in Seq(StepSet) /\ Len(Steps(prog)) \in Nat \ {0}
           /\ Steps(prog)[1].command # "reset"
           /\ \A k \in 1 .. Len(Steps(prog)) :
                  /\ Steps(prog)[k] \in StepSet
                  /\ Steps(prog)[k].command = "reset" => prog \in {"prepare", "warm"}
<1>1. CASE prog = "prepare"
  <2>1. Steps(prog) = <<Initialize, Read("standard", "any"), Write("wanted"), WarmReset>>
    BY <1>1, ShortPrograms
  <2>2. \A s \in {Initialize, Read("standard", "any"), Write("wanted"), WarmReset} :
            s \in StepSet /\ (s.command = "reset" => prog \in {"prepare", "warm"})
    BY <1>1, StepTypes
  <2>3. Initialize.command # "reset"
    BY StepTypes
  <2> QED
    BY <2>1, <2>2, <2>3
<1>2. CASE prog = "confirm"
  <2>1. Steps(prog) = <<Initialize, Read("standard", "wanted")>>
    BY <1>2, ShortPrograms
  <2>2. \A s \in {Initialize, Read("standard", "wanted")} :
            s \in StepSet /\ (s.command = "reset" => prog \in {"prepare", "warm"})
    BY <1>2, StepTypes
  <2>3. Initialize.command # "reset"
    BY StepTypes
  <2> QED
    BY <2>1, <2>2, <2>3
<1>3. CASE prog = "serve"
  <2>1. Steps(prog) = <<Initialize, Read("standard", "wanted")>>
    BY <1>3, ShortPrograms
  <2>2. \A s \in {Initialize, Read("standard", "wanted")} :
            s \in StepSet /\ (s.command = "reset" => prog \in {"prepare", "warm"})
    BY <1>3, StepTypes
  <2>3. Initialize.command # "reset"
    BY StepTypes
  <2> QED
    BY <2>1, <2>2, <2>3
<1>4. CASE prog = "restore"
  <2>1. Steps(prog) = <<Write("original"), Read("psram", "original")>>
    BY <1>4, ShortPrograms
  <2>2. \A s \in {Write("original"), Read("psram", "original")} :
            s \in StepSet /\ (s.command = "reset" => prog \in {"prepare", "warm"})
    BY <1>4, StepTypes
  <2>3. Write("original").command # "reset"
    BY StepTypes
  <2> QED
    BY <2>1, <2>2, <2>3
<1>5. CASE prog = "read"
  <2>1. Steps(prog) = <<Initialize, Read("standard", "any"), Read("psram", "any")>>
    BY <1>5, ShortPrograms
  <2>2. \A s \in {Initialize, Read("standard", "any"), Read("psram", "any")} :
            s \in StepSet /\ (s.command = "reset" => prog \in {"prepare", "warm"})
    BY <1>5, StepTypes
  <2>3. Initialize.command # "reset"
    BY StepTypes
  <2> QED
    BY <2>1, <2>2, <2>3
<1>6. CASE prog = "volatile"
  <2>1. \A k \in 1 .. 9 : Steps("volatile")[k] \in StepSet
    BY ProbePrograms, ElementIn
  <2>2. Initialize.command # "reset"
    BY StepTypes
  <2>3. /\ Steps("volatile") \in Seq(StepSet) /\ Len(Steps("volatile")) = 9
        /\ Steps("volatile")[1] = Initialize
        /\ \A k \in 1 .. 9 : Steps("volatile")[k].command # "reset"
    BY ProbePrograms
  <2> QED
    <3>1. 1 .. Len(Steps(prog)) = 1 .. 9 /\ Steps(prog) = Steps("volatile")
      BY <1>6, <2>3
    <3>2. /\ Steps(prog) \in Seq(StepSet) /\ Len(Steps(prog)) \in Nat \ {0}
          /\ Steps(prog)[1].command # "reset"
      BY <2>2, <2>3, <3>1
    <3>3. \A k \in 1 .. Len(Steps(prog)) :
              Steps(prog)[k] \in StepSet /\ Steps(prog)[k].command # "reset"
      BY <2>1, <2>3, <3>1
    <3> QED
      BY <3>2, <3>3
<1>7. CASE prog = "warm"
  <2>1. \A k \in 1 .. 7 : Steps("warm")[k] \in StepSet
    BY ProbePrograms, ElementIn
  <2> QED
    BY <1>7, <2>1, StepTypes, ProbePrograms
<1> QED
  BY <1>1, <1>2, <1>3, <1>4, <1>5, <1>6, <1>7 DEF Programs

(* Which commands of a program read, write and reset.                      *)
LEMMA WriteFacts ==
    /\ Len(Steps("prepare")) = 4
    /\ \A k \in 1 .. 4 : /\ Steps("prepare")[k].command = "write" => k = 3
                         /\ Steps("prepare")[k].command = "standard" => k = 2
    /\ \A prog \in {"confirm", "serve"} :
           /\ Len(Steps(prog)) = 2 /\ Steps(prog)[2] = Read("standard", "wanted")
           /\ Steps(prog)[1] = Initialize
    /\ Len(Steps("restore")) = 2
    /\ Steps("restore")[1] = Write("original") /\ Steps("restore")[2] = Read("psram", "original")
<1>1. /\ Initialize.command = "initialize" /\ Read("standard", "any").command = "standard"
      /\ Write("wanted").command = "write" /\ WarmReset.command = "reset"
  BY StepTypes
<1> QED
  BY <1>1, ShortPrograms

-----------------------------------------------------------------------------
(* One process takes a step.                                               *)

LEMMA InvFacts ==
    ASSUME Inv
    PROVE  /\ adapter \in Adapters /\ owner \in Owners /\ spent \in Counts
           /\ touched \subseteq Clients /\ NoClient \notin Clients /\ Flash \in Addresses
           /\ \A c \in Clients : /\ client[c] \in Records /\ Local(client[c])
                                 /\ Written(client[c], c \in touched)
           /\ owner = NoClient => NobodyWaits(adapter)
           /\ owner # NoClient => owner \in Clients /\ Owned(owner, client[owner], adapter)
  BY AdapterAssumption DEF Inv, Typed, Session, Owners

LEMMA ClientStep ==
    ASSUME Inv, NEW c \in Clients, NEW rec \in Records, Becomes(c, rec),
           touched' \subseteq Clients,
           \A u \in Clients \ {c} : u \in touched' <=> u \in touched,
           Local(rec), Written(rec, c \in touched'),
           adapter' \in Adapters, owner' \in Owners, spent' \in Counts,
           owner' = NoClient => NobodyWaits(adapter'),
           owner' = c => Owned(c, rec, adapter'),
           owner' \notin {c, NoClient} => Owned(owner', client[owner'], adapter')
    PROVE  Inv'
<1>1. /\ client' \in [Clients -> Records] /\ client'[c] = rec
      /\ \A u \in Clients \ {c} : client'[u] = client[u]
  BY DEF Becomes, Inv, Typed
<1>2. Typed'
  BY <1>1 DEF Typed
<1>3. ASSUME NEW u \in Clients
      PROVE  Local(client'[u]) /\ Written(client'[u], u \in touched')
  <2>1. CASE u = c
    BY <1>1, <2>1
  <2>2. CASE u # c
    BY <1>1, <2>2, InvFacts DEF Written
  <2> QED
    BY <2>1, <2>2
<1>4. owner' # NoClient => Owned(owner', client'[owner'], adapter')
  BY <1>1 DEF Owners
<1>5. Session(owner', client', adapter')
  BY <1>4 DEF Session
<1> QED
  BY <1>2, <1>3, <1>5 DEF Inv

LEMMA AdapterStep ==
    ASSUME Inv, UNCHANGED <<client, touched>>,
           adapter' \in Adapters, owner' \in Owners, spent' \in Counts,
           owner' = NoClient => NobodyWaits(adapter'),
           owner' # NoClient => Owned(owner', client[owner'], adapter')
    PROVE  Inv'
<1>1. Typed'
  BY DEF Inv, Typed
<1>2. \A u \in Clients : Local(client'[u]) /\ Written(client'[u], u \in touched')
  BY DEF Inv
<1>3. Session(owner', client', adapter')
  BY DEF Session
<1> QED
  BY <1>1, <1>2, <1>3 DEF Inv

-----------------------------------------------------------------------------
(* A process sends a command.                                              *)

(* Process c is in its program with the record p, or has just been         *)
(* cancelled in it.                                                        *)
Ongoing(c, p) ==
    /\ p.prog \in Programs
    /\ p.prog \in Rewriting \cup {"volatile", "restore"} => p.outcome \in {"none", "cancelled"}
    /\ p.prog \in Rewriting \cup {"volatile"} /\ c \in touched => p.wrote
    /\ p.prog = "serve" => c \notin touched

Active(c, p) == Ongoing(c, p) /\ p.step \in 0 .. Len(Steps(p.prog))

(* The session of whoever has it, when nobody waits for an answer to c.    *)
QuietFor(c, o, a) ==
    /\ o = NoClient => NobodyWaits(a)
    /\ o = c => NobodyWaits(a) /\ a.up
    /\ o \notin {c, NoClient} => Owned(o, client[o], a)

Waiting(rec, k) == Steps(rec.prog)[k].command = "write"

LEMMA WaitFacts ==
    ASSUME NEW rec \in Records, NEW k \in Nat
    PROVE  LET w == Wait(rec, k)
           IN  /\ w \in Records /\ w.at = "asking" /\ w.step = k
               /\ w.prog = rec.prog /\ w.outcome = rec.outcome
               /\ w.wanted = rec.wanted /\ w.original = rec.original
               /\ w.wrote <=> rec.wrote \/ Waiting(rec, k)
<1> DEFINE wrote == rec.wrote \/ Waiting(rec, k)
<1>1. Wait(rec, k) = [rec EXCEPT !.at = "asking", !.step = k, !.wrote = wrote]
  BY DEF Wait, Waiting
<1>2. wrote \in BOOLEAN
  BY DEF Records
<1> HIDE DEF wrote
<1>3. /\ Wait(rec, k) \in Records /\ Wait(rec, k).at = "asking" /\ Wait(rec, k).step = k
      /\ Wait(rec, k).prog = rec.prog /\ Wait(rec, k).outcome = rec.outcome
      /\ Wait(rec, k).wanted = rec.wanted /\ Wait(rec, k).original = rec.original
      /\ Wait(rec, k).wrote = wrote
  BY <1>1, <1>2 DEF Records
<1> QED
  BY <1>3 DEF wrote

LEMMA ClosedFacts ==
    ASSUME NEW rec \in Records, NEW outcome \in Outcomes
    PROVE  LET w == [Concluded(rec, outcome) EXCEPT !.at = "closing"]
           IN  /\ w \in Records /\ w.at = "closing" /\ w.step = rec.step
               /\ w.prog = rec.prog /\ w.wanted = rec.wanted /\ w.original = rec.original
               /\ w.wrote = rec.wrote
               /\ w.outcome = IF rec.outcome = "cancelled" THEN "cancelled" ELSE outcome
<1> DEFINE final == IF rec.outcome = "cancelled" THEN "cancelled" ELSE outcome
<1>1. [Concluded(rec, outcome) EXCEPT !.at = "closing"]
      = [rec EXCEPT !.at = "closing", !.outcome = final]
  BY DEF Concluded, Records
<1>2. final \in Outcomes
  BY DEF Outcomes
<1> HIDE DEF final
<1>3. LET w == [rec EXCEPT !.at = "closing", !.outcome = final]
      IN  /\ w \in Records /\ w.at = "closing" /\ w.step = rec.step
          /\ w.prog = rec.prog /\ w.wanted = rec.wanted /\ w.original = rec.original
          /\ w.wrote = rec.wrote /\ w.outcome = final
  BY <1>2 DEF Records
<1> QED
  BY <1>1, <1>3 DEF final

LEMMA ValueType ==
    ASSUME NEW rec \in Records, NEW name
    PROVE  Value(rec, name) \in Addresses
  BY AdapterAssumption DEF Value, Records

(* A command is put behind those that nobody waits for.                    *)
LEMMA Enqueued ==
    ASSUME NEW a \in Adapters, NoClient \notin Clients, NobodyWaits(a), NEW e \in Entries
    PROVE  LET b == [a EXCEPT !.queue = Append(@, e)]
           IN  /\ b \in Adapters /\ b.up = a.up /\ b.active = a.active /\ b.psram = a.psram
               /\ \A i \in 1 .. Len(b.queue) :
                      b.queue[i].from # NoClient => i = Len(b.queue) /\ b.queue[i] = e
               /\ e.from = NoClient => NobodyWaits(b)
               /\ NoWrites(a) /\ e.name # "write" => NoWrites(b)
<1> DEFINE q == Append(a.queue, e)
<1>1. a.queue \in Seq(Entries) /\ Len(a.queue) \in Nat
  BY DEF Adapters
<1>2. /\ q \in Seq(Entries) /\ Len(q) = Len(a.queue) + 1 /\ q[Len(q)] = e
      /\ \A i \in 1 .. Len(q) : i # Len(q) => i \in 1 .. Len(a.queue) /\ q[i] = a.queue[i]
  BY <1>1
<1> HIDE DEF q
<1>3. LET b == [a EXCEPT !.queue = q]
      IN  /\ b \in Adapters /\ b.up = a.up /\ b.active = a.active /\ b.psram = a.psram
          /\ b.queue = q
  BY <1>2 DEF Adapters
<1>4. \A i \in 1 .. Len(q) : i # Len(q) => q[i].from = NoClient
  BY <1>2 DEF NobodyWaits
<1>5. NoWrites(a) /\ e.name # "write" => \A i \in 1 .. Len(q) : q[i].name # "write"
  BY <1>2 DEF NoWrites
<1>6. \A i \in 1 .. Len(q) : q[i].from # NoClient => i = Len(q) /\ q[i] = e
  BY <1>2, <1>4
<1>7. e.from = NoClient => \A i \in 1 .. Len(q) : q[i].from = NoClient
  BY <1>6
<1>8. [a EXCEPT !.queue = Append(@, e)] = [a EXCEPT !.queue = q]
  BY DEF q
<1> QED
  BY <1>3, <1>5, <1>6, <1>7, <1>8 DEF NobodyWaits, NoWrites

Ready(c, rec, k) ==
    /\ Ongoing(c, rec) /\ Fresh(rec)
    /\ rec.prog \in {"prepare", "warm"} => rec.step \in 0 .. Len(Steps(rec.prog))
    /\ rec.prog = "prepare" /\ rec.wrote => k > 3

LEMMA AsksKeepsInv ==
    ASSUME Inv, NEW c \in Clients, NEW rec \in Records, NEW k \in 1 .. Len(Steps(rec.prog)),
           NEW a \in Adapters, Asks(c, rec, k, a), Ready(c, rec, k),
           owner' \in Owners, spent' \in Counts, QuietFor(c, owner', a),
           rec.prog \in {"volatile", "restore"} => rec.outcome \notin Good,
           owner' = c /\ rec.prog = "volatile" /\ k = 9 => a.psram = rec.original /\ NoWrites(a)
    PROVE  Inv'
<1> DEFINE s == Steps(rec.prog)[k]
           sent == [name |-> s.command, value |-> Value(rec, s.value),
                    from |-> IF s.command = "reset" THEN NoClient ELSE c]
<1>1. /\ rec.prog \in Programs /\ k \in Nat /\ s \in StepSet /\ Len(Steps(rec.prog)) \in Nat
      /\ s.command = "reset" => rec.prog \in {"prepare", "warm"}
  BY StepFacts DEF Ready, Ongoing
<1>2. sent \in Entries /\ sent.name = s.command
      /\ sent.from = IF s.command = "reset" THEN NoClient ELSE c
  BY <1>1, ValueType DEF Entries, Owners, StepSet
<1>3. adapter' = IF owner' = c THEN [a EXCEPT !.queue = Append(@, sent)] ELSE a
  BY DEF Asks
<1>4. /\ touched \subseteq Clients /\ NoClient \notin Clients
  BY InvFacts
<1> HIDE DEF sent
<1>5. /\ adapter' \in Adapters
      /\ owner' = c => ( /\ adapter'.up /\ adapter'.active = a.active /\ adapter'.psram = a.psram
                         /\ \A i \in 1 .. Len(adapter'.queue) :
                                adapter'.queue[i].from # NoClient =>
                                    i = Len(adapter'.queue) /\ adapter'.queue[i] = sent
                         /\ sent.from = NoClient => NobodyWaits(adapter')
                         /\ NoWrites(a) /\ sent.name # "write" => NoWrites(adapter') )
      /\ owner' # c => adapter' = a
  BY <1>2, <1>3, <1>4, Enqueued DEF QuietFor
<1>6. /\ owner' = NoClient => NobodyWaits(adapter')
      /\ owner' \notin {c, NoClient} => Owned(owner', client[owner'], adapter')
  BY <1>4, <1>5 DEF QuietFor
<1>7. CASE s.command = "reset"
  <2> DEFINE w == [Concluded(rec, "none") EXCEPT !.at = "closing"]
  <2>1. Becomes(c, w) /\ touched' = touched
    BY <1>7 DEF Asks, Closes
  <2>2. /\ w \in Records /\ w.at = "closing" /\ w.step = rec.step /\ w.prog = rec.prog
        /\ w.wrote = rec.wrote
        /\ w.outcome = IF rec.outcome = "cancelled" THEN "cancelled" ELSE "none"
    BY ClosedFacts DEF Outcomes
  <2> HIDE DEF w
  <2>3. Local(w)
    BY <1>1, <1>7, <2>2 DEF Local, Ready, Ongoing
  <2>4. Written(w, c \in touched')
    BY <1>1, <1>7, <2>1, <2>2 DEF Written, Ready, Ongoing
  <2>5. owner' = c => Owned(c, w, adapter')
    <3>1. ~SeenRestored(w) /\ sent.from = NoClient
      BY <1>1, <1>2, <1>7, <2>2 DEF SeenRestored
    <3>2. owner' = c => NobodyWaits(adapter') /\ adapter'.up
      BY <1>5, <3>1
    <3> QED
      BY <2>2, <3>1, <3>2 DEF Owned, OnlyLast, NobodyWaits
  <2> QED
    BY <1>4, <1>5, <1>6, <2>1, <2>2, <2>3, <2>4, <2>5, ClientStep
<1>8. CASE s.command # "reset"
  <2> DEFINE w == Wait(rec, k)
  <2>1. /\ Becomes(c, w)
        /\ touched' = IF s.command = "write" THEN touched \cup {c} ELSE touched
    BY <1>8 DEF Asks
  <2>2. /\ w \in Records /\ w.at = "asking" /\ w.step = k /\ w.prog = rec.prog
        /\ w.outcome = rec.outcome /\ w.original = rec.original
        /\ w.wrote <=> rec.wrote \/ s.command = "write"
    BY <1>1, WaitFacts DEF Waiting
  <2> HIDE DEF w
  <2>3. Local(w)
    <3>1. w.prog = "prepare" /\ w.wrote => w.step >= 3
      BY <1>1, <2>2, WriteFacts DEF Ready
    <3>2. w.prog = "confirm" => w.outcome # "already_active"
      BY <2>2 DEF Ready, Fresh, Rewriting
    <3> QED
      BY <1>1, <1>8, <2>2, <3>1, <3>2 DEF Local, Ready, Fresh
  <2>4. Written(w, c \in touched')
    <3>1. rec.prog = "serve" => s.command # "write"
      BY WriteFacts, StepTypes
    <3>2. rec.prog \in Rewriting \cup {"volatile"} => rec.outcome = "none"
      BY DEF Ready, Fresh
    <3> QED
      BY <2>1, <2>2, <3>1, <3>2 DEF Written, Ready, Ongoing
  <2>5. owner' = c => Owned(c, w, adapter')
    <3>1. OnlyLast(c, w, adapter') \/ owner' # c
      BY <1>2, <1>5, <1>8, <2>2 DEF OnlyLast
    <3>2. SeenRestored(w) => rec.prog = "volatile" /\ k = 9
      BY <2>2 DEF SeenRestored, Ready, Fresh
    <3>3. rec.prog = "volatile" /\ k = 9 => sent.name # "write"
      BY <1>2, ProbePrograms, StepTypes
    <3> QED
      BY <1>5, <2>2, <3>1, <3>2, <3>3 DEF Owned
  <2>6. touched' \subseteq Clients /\ \A u \in Clients \ {c} : u \in touched' <=> u \in touched
    BY <1>4, <2>1
  <2> QED
    BY <1>5, <1>6, <2>1, <2>2, <2>3, <2>4, <2>5, <2>6, ClientStep
<1> QED
  BY <1>7, <1>8

-----------------------------------------------------------------------------
(* A program ends, well or badly.                                          *)

(* It can be over like this, with the adapter a that o has.                *)
Honest(c, rec, outcome, o, a) ==
    /\ rec.prog = "confirm" => outcome # "already_active"
    /\ rec.prog \in {"volatile", "restore"} => outcome \notin Good
    /\ rec.prog \in Rewriting /\ outcome \in {"error", "already_active"} => c \notin touched
    /\ rec.prog = "volatile" /\ outcome = "failed" => c \notin touched
    /\ /\ o = c /\ rec.prog \in {"volatile", "restore"} /\ outcome \in {"passed", "restored"}
       => a.psram = rec.original /\ NoWrites(a)

LEMMA ClosesKeepsInv ==
    ASSUME Inv, NEW c \in Clients, NEW rec \in Records, NEW outcome \in Outcomes,
           NEW a \in Adapters, Closes(c, rec, outcome), adapter' = a, Active(c, rec),
           owner' \in Owners, spent' \in Counts, QuietFor(c, owner', a),
           Honest(c, rec, outcome, owner', a)
    PROVE  Inv'
<1> DEFINE w == [Concluded(rec, outcome) EXCEPT !.at = "closing"]
<1>1. Becomes(c, w) /\ touched' = touched
  BY DEF Closes
<1>2. /\ w \in Records /\ w.at = "closing" /\ w.step = rec.step /\ w.prog = rec.prog
      /\ w.wrote = rec.wrote /\ w.original = rec.original
      /\ w.outcome = IF rec.outcome = "cancelled" THEN "cancelled" ELSE outcome
  BY ClosedFacts
<1> HIDE DEF w
<1>3. Local(w)
  BY <1>2 DEF Local, Active, Ongoing, Honest, Good
<1>4. Written(w, c \in touched')
  BY <1>1, <1>2 DEF Written, Active, Ongoing, Honest
<1>5. owner' = c => Owned(c, w, adapter')
  <2>1. owner' = c => NobodyWaits(adapter') /\ adapter'.up
    BY DEF QuietFor
  <2>2. owner' = c /\ SeenRestored(w) => adapter'.psram = w.original /\ NoWrites(adapter')
    BY <1>2 DEF SeenRestored, Honest
  <2> QED
    BY <1>2, <2>1, <2>2 DEF Owned, OnlyLast, NobodyWaits
<1>6. /\ owner' = NoClient => NobodyWaits(adapter')
      /\ owner' \notin {c, NoClient} => Owned(owner', client[owner'], adapter')
  BY InvFacts DEF QuietFor
<1> QED
  BY <1>1, <1>2, <1>3, <1>4, <1>5, <1>6, InvFacts, ClientStep

LEMMA IdleType == Idle \in Records /\ Idle.at = "idle" /\ Idle.step = 0 /\ Idle.prog = "none"
                  /\ Idle.outcome = "none" /\ Idle.wrote = FALSE
  BY AdapterAssumption DEF Idle, Records, Outcomes

(* The program is over, and its process has no session.                    *)
LEMMA OverKeepsInv ==
    ASSUME Inv, NEW c \in Clients, NEW rec \in Records, NEW outcome \in Outcomes,
           Over(c, rec, outcome), UNCHANGED <<adapter, touched>>,
           owner' \in Owners, spent' \in Counts, owner' # c, QuietFor(c, owner', adapter),
           rec.outcome # "cancelled" => Honest(c, rec, outcome, owner', adapter),
           rec.prog = "serve" => c \notin touched
    PROVE  Inv'
<1> DEFINE final == IF rec.outcome = "cancelled" THEN "cancelled" ELSE outcome
           w == [Idle EXCEPT !.prog = rec.prog, !.wanted = rec.wanted,
                             !.original = rec.original, !.outcome = final]
<1>1. Concluded(rec, outcome).outcome = final
  BY DEF Concluded, Records
<1>2. Becomes(c, w)
  BY <1>1 DEF Over
<1>3. /\ w \in Records /\ w.outcome = final /\ w.prog = rec.prog /\ w.at = "idle" /\ w.step = 0
      /\ final = IF rec.outcome = "cancelled" THEN "cancelled" ELSE outcome
  <2>1. final \in Outcomes /\ rec.prog \in Programs \cup {"none"}
        /\ rec.wanted \in Addresses /\ rec.original \in Addresses
    BY DEF Outcomes, Records
  <2> HIDE DEF final
  <2>2. /\ w \in Records /\ w.outcome = final /\ w.prog = rec.prog
        /\ w.at = "idle" /\ w.step = 0
    BY <2>1, IdleType DEF Records
  <2> QED
    BY <2>2 DEF final
<1> HIDE DEF w, final
<1>4. rec.prog \in Programs \cup {"none"}
  BY DEF Records
<1>5. Len(Steps(rec.prog)) \in Nat
  BY <1>4, StepFacts, ShortPrograms
<1>6. Local(w)
  BY <1>3, <1>5 DEF Local, Honest, Good
<1>7. Written(w, c \in touched')
  BY <1>3 DEF Written, Honest
<1>8. /\ owner' = NoClient => NobodyWaits(adapter')
      /\ owner' \notin {c, NoClient} => Owned(owner', client[owner'], adapter')
  BY InvFacts DEF QuietFor
<1> QED
  BY <1>2, <1>3, <1>6, <1>7, <1>8, InvFacts, ClientStep

LEMMA FailureType ==
    ASSUME NEW rec
    PROVE  /\ Failure(rec) \in {"recovery_required", "error", "restore_failed", "failed"}
           /\ rec.prog \in Rewriting => (Failure(rec) = "error" <=> ~rec.wrote)
           /\ rec.prog = "volatile" => Failure(rec) = "failed"
           /\ rec.prog = "restore" => Failure(rec) = "restore_failed"
  BY DEF Failure, Rewriting

LEMMA RaisesKeepsInv ==
    ASSUME Inv, NEW c \in Clients, NEW rec \in Records, NEW a \in Adapters, Raises(c, rec, a),
           Active(c, rec), owner' \in Owners, spent' \in Counts, QuietFor(c, owner', a)
    PROVE  Inv'
<1>1. CASE rec.prog = "volatile" /\ rec.wrote
  <2> DEFINE r == [rec EXCEPT !.prog = "restore"]
  <2>1. /\ r \in Records /\ r.prog = "restore" /\ r.outcome = rec.outcome /\ r.step = rec.step
        /\ r.wrote = rec.wrote
    BY DEF Records, Programs
  <2>2. Asks(c, r, 1, a)
    BY <1>1 DEF Raises
  <2> HIDE DEF r
  <2>3. 1 \in 1 .. Len(Steps(r.prog)) /\ rec.outcome \notin Good
    BY <1>1, <2>1, WriteFacts DEF Active, Ongoing, Good
  <2>4. Ready(c, r, 1)
    BY <1>1, <2>1 DEF Ready, Active, Ongoing, Fresh, Rewriting, Programs
  <2> QED
    BY <2>1, <2>2, <2>3, <2>4, AsksKeepsInv
<1>2. CASE ~(rec.prog = "volatile" /\ rec.wrote)
  <2>1. Closes(c, rec, Failure(rec)) /\ adapter' = a
    BY <1>2 DEF Raises
  <2>2. Honest(c, rec, Failure(rec), owner', a)
    BY <1>2, FailureType DEF Honest, Active, Ongoing, Good
  <2> QED
    BY <2>1, <2>2, FailureType, ClosesKeepsInv DEF Outcomes
<1> QED
  BY <1>1, <1>2

-----------------------------------------------------------------------------
(* The steps of a process.                                                 *)

LEMMA ActiveNow ==
    ASSUME Inv, NEW c \in Clients,
           client[c].at \in {"opening", "asking", "blocked", "polling", "serving"}
    PROVE  /\ Active(c, client[c]) /\ client[c] \in Records
           /\ client[c].at \in {"opening", "asking", "blocked", "polling"} => Fresh(client[c])
           /\ client[c].prog \in {"volatile", "restore"} => client[c].outcome \notin Good
           /\ client[c].prog = "confirm" => client[c].outcome # "already_active"
<1>1. client[c] \in Records /\ Local(client[c]) /\ Written(client[c], c \in touched)
  BY InvFacts
<1>2. client[c].prog \in Programs
  <2>1. client[c].prog # "none"
    <3>1. client[c].at = "asking" => client[c].step \in 0 .. Len(Steps(client[c].prog))
                                     /\ client[c].step # 0
      BY <1>1 DEF Local
    <3> QED
      BY <1>1, <3>1, ShortPrograms DEF Local
  <2> QED
    BY <1>1, <2>1 DEF Records
<1>3. client[c].prog \in Rewriting \cup {"volatile", "restore"} =>
          client[c].outcome \in {"none", "cancelled"}
  BY <1>1 DEF Local, Fresh, Rewriting
<1> QED
  BY <1>1, <1>2, <1>3 DEF Active, Ongoing, Local, Written

LEMMA NotItsSession ==
    ASSUME Inv, NEW c \in Clients, client[c].at \notin {"asking", "blocked", "serving", "closing"}
    PROVE  owner # c /\ QuietFor(c, owner, adapter)
  BY InvFacts DEF Owned, QuietFor

LEMMA StartKeepsInv ==
    ASSUME Inv, NEW c \in Clients, NEW req \in Requests, Start(c, req)
    PROVE  Inv'
<1> DEFINE w == [Idle EXCEPT !.prog = req.prog, !.at = "opening", !.wanted = req.wanted,
                             !.original = req.original]
<1>1. /\ req.prog \in {"prepare", "volatile", "warm", "read"}
      /\ req.wanted \in Addresses /\ req.original \in Addresses
  BY AdapterAssumption
<1>2. /\ client[c].at = "idle" /\ Becomes(c, w) /\ touched' = touched \ {c}
      /\ adapter' = adapter /\ owner' = owner
  BY DEF Start
<1>3. /\ w \in Records /\ w.prog = req.prog /\ w.at = "opening" /\ w.step = 0
      /\ w.outcome = "none" /\ w.wrote = FALSE
  BY <1>1, IdleType DEF Records, Programs
<1> HIDE DEF w
<1>4. Local(w)
  <2>1. Len(Steps(w.prog)) \in Nat
    BY <1>1, <1>3, StepFacts DEF Programs
  <2> QED
    BY <1>1, <1>3, <2>1 DEF Local, Fresh, Good
<1>5. Written(w, c \in touched')
  BY <1>2 DEF Written
<1>6. spent' \in Counts
  BY InvFacts, AdapterAssumption DEF Start, Counts
<1>7. owner # c /\ QuietFor(c, owner, adapter)
  BY <1>2, NotItsSession
<1> QED
  BY <1>2, <1>3, <1>4, <1>5, <1>6, <1>7, InvFacts, ClientStep DEF QuietFor

LEMMA ClaimKeepsInv ==
    ASSUME Inv, NEW c \in Clients, client[c].at \in {"opening", "polling"}, Claims(c),
           Asks(c, client[c], 1, adapter), spent' = spent
    PROVE  Inv'
<1>1. /\ owner = NoClient /\ adapter.up /\ owner' = c
  BY DEF Claims
<1>2. NobodyWaits(adapter) /\ adapter \in Adapters /\ NoClient \notin Clients
  BY <1>1, InvFacts
<1>3. QuietFor(c, owner', adapter) /\ owner' \in Owners /\ spent' \in Counts
  BY <1>1, <1>2, InvFacts DEF QuietFor, Owners
<1>4. Ready(c, client[c], 1)
  <2>1. client[c].step = 0 /\ client[c].at # "asking"
    BY InvFacts DEF Local
  <2>2. ~(client[c].prog = "prepare" /\ client[c].wrote)
    BY <2>1, InvFacts DEF Local
  <2> QED
    BY <2>1, <2>2, ActiveNow DEF Ready, Active
<1>5. 1 \in 1 .. Len(Steps(client[c].prog))
  BY ActiveNow, StepFacts DEF Active, Ongoing
<1> QED
  BY <1>2, <1>3, <1>4, <1>5, ActiveNow, AsksKeepsInv

LEMMA OpenFailsKeepsInv ==
    ASSUME Inv, NEW c \in Clients, OpenFails(c) \/ PollFails(c)
    PROVE  Inv'
<1>1. /\ client[c].at \in {"opening", "polling"} /\ Over(c, client[c], Failure(client[c]))
      /\ UNCHANGED <<adapter, owner, touched, spent>>
  BY DEF OpenFails, PollFails
<1>2. Active(c, client[c]) /\ client[c] \in Records
  BY <1>1, ActiveNow
<1>3. Honest(c, client[c], Failure(client[c]), owner', adapter)
  <2>1. client[c].prog = "volatile" => c \notin touched \/ client[c].wrote
    BY <1>2 DEF Active, Ongoing
  <2>2. client[c].prog = "volatile" => ~client[c].wrote
    BY <1>1, InvFacts DEF Local
  <2> QED
    BY <1>2, <2>1, <2>2, FailureType DEF Honest, Active, Ongoing, Good, Rewriting
<1> QED
  BY <1>1, <1>2, <1>3, NotItsSession, InvFacts, FailureType, OverKeepsInv
     DEF Active, Ongoing, Outcomes

LEMMA DeadlinePassesKeepsInv ==
    ASSUME Inv, NEW c \in Clients, DeadlinePasses(c)
    PROVE  Inv'
<1> DEFINE w == [client[c] EXCEPT !.late = TRUE]
<1>1. /\ client[c].at = "polling" /\ Becomes(c, w)
      /\ UNCHANGED <<adapter, owner, touched, spent>>
  BY DEF DeadlinePasses
<1>2. /\ w \in Records /\ w.prog = client[c].prog /\ w.at = client[c].at
      /\ w.step = client[c].step /\ w.wrote = client[c].wrote /\ w.outcome = client[c].outcome
  BY InvFacts DEF Records
<1> HIDE DEF w
<1>3. Local(w) /\ Written(w, c \in touched')
  BY <1>1, <1>2, InvFacts DEF Local, Written, Fresh
<1>4. owner # c /\ QuietFor(c, owner, adapter)
  BY <1>1, NotItsSession
<1> QED
  BY <1>1, <1>2, <1>3, <1>4, InvFacts, ClientStep DEF QuietFor

(* A queue whose commands nobody waits for, or those of others do.         *)
LEMMA GivenUpFacts ==
    ASSUME Inv, NEW c \in Clients
    PROVE  LET b == GivenUp(c)
           IN  /\ b \in Adapters /\ b.up = adapter.up
               /\ b.active = adapter.active /\ b.psram = adapter.psram
               /\ Len(b.queue) = Len(adapter.queue)
               /\ \A i \in 1 .. Len(adapter.queue) :
                      /\ b.queue[i].name = adapter.queue[i].name
                      /\ b.queue[i].from =
                             IF adapter.queue[i].from = c THEN NoClient ELSE adapter.queue[i].from
<1> DEFINE E(e) == IF e.from = c THEN [e EXCEPT !.from = NoClient] ELSE e
           q == [i \in DOMAIN adapter.queue |-> E(adapter.queue[i])]
<1>1. /\ adapter \in Adapters /\ adapter.queue \in Seq(Entries)
      /\ Len(adapter.queue) \in Nat /\ DOMAIN adapter.queue = 1 .. Len(adapter.queue)
  BY InvFacts DEF Adapters
<1>2. GivenUp(c) = [adapter EXCEPT !.queue = q]
  BY DEF GivenUp
<1>3. \A e \in Entries : /\ E(e) \in Entries /\ E(e).name = e.name
                         /\ E(e).from = IF e.from = c THEN NoClient ELSE e.from
  BY DEF Entries, Owners
<1> HIDE DEF E
<1>4. q \in [1 .. Len(adapter.queue) -> Entries]
  BY <1>1, <1>3
<1>5. q \in Seq(Entries) /\ Len(q) = Len(adapter.queue)
  BY <1>1, <1>4
<1>6. \A i \in 1 .. Len(adapter.queue) : q[i] = E(adapter.queue[i]) /\ adapter.queue[i] \in Entries
  BY <1>1
<1> HIDE DEF q
<1>7. LET b == [adapter EXCEPT !.queue = q]
      IN  b \in Adapters /\ b.up = adapter.up /\ b.active = adapter.active
          /\ b.psram = adapter.psram /\ b.queue = q
  BY <1>1, <1>5 DEF Adapters
<1> QED
  BY <1>2, <1>3, <1>5, <1>6, <1>7

LEMMA QuietAfterGivingUp ==
    ASSUME Inv, NEW c \in Clients, owner' = owner
    PROVE  QuietFor(c, owner', GivenUp(c)) /\ GivenUp(c) \in Adapters /\ owner' \in Owners
<1> DEFINE b == GivenUp(c)
<1>1. /\ b \in Adapters /\ b.up = adapter.up
      /\ b.active = adapter.active /\ b.psram = adapter.psram
      /\ Len(b.queue) = Len(adapter.queue)
      /\ \A i \in 1 .. Len(adapter.queue) :
             /\ b.queue[i].name = adapter.queue[i].name
             /\ b.queue[i].from =
                    IF adapter.queue[i].from = c THEN NoClient ELSE adapter.queue[i].from
  BY GivenUpFacts
<1> HIDE DEF b
<1>2. owner = NoClient => NobodyWaits(b)
  BY <1>1, InvFacts DEF NobodyWaits
<1>3. owner = c => NobodyWaits(b) /\ b.up
  BY <1>1, InvFacts DEF Owned, OnlyLast, NobodyWaits
<1>4. owner \notin {c, NoClient} => Owned(owner, client[owner], b)
  <2>1. SUFFICES ASSUME owner \notin {c, NoClient}
                 PROVE  Owned(owner, client[owner], b)
    OBVIOUS
  <2>2. Owned(owner, client[owner], adapter)
    BY <2>1, InvFacts
  <2>3. OnlyLast(owner, client[owner], b)
    BY <1>1, <2>1, <2>2 DEF Owned, OnlyLast
  <2>4. NoWrites(adapter) => NoWrites(b)
    BY <1>1 DEF NoWrites
  <2> QED
    BY <1>1, <2>2, <2>3, <2>4 DEF Owned
<1> QED
  BY <1>1, <1>2, <1>3, <1>4, InvFacts DEF QuietFor, b

(* A command is given up: the program raises, or its restoring has to wait *)
(* for the semaphore.                                                      *)
LEMMA GivesUpKeepsInv ==
    ASSUME Inv, NEW c \in Clients, NEW rec \in Records, GivesUp(c, rec), Active(c, rec),
           owner' = owner, spent' = spent
    PROVE  Inv'
<1>1. /\ QuietFor(c, owner', GivenUp(c)) /\ GivenUp(c) \in Adapters
      /\ owner' \in Owners /\ spent' \in Counts
  BY QuietAfterGivingUp, InvFacts
<1>2. CASE rec.prog = "volatile" /\ rec.wrote /\ Steps(rec.prog)[rec.step].command = "standard"
  <2> DEFINE w == [rec EXCEPT !.prog = "restore", !.at = "blocked", !.step = 0]
  <2>1. Becomes(c, w) /\ adapter' = GivenUp(c) /\ touched' = touched
    BY <1>2 DEF GivesUp
  <2>2. /\ w \in Records /\ w.prog = "restore" /\ w.at = "blocked" /\ w.step = 0
        /\ w.outcome = rec.outcome
    BY DEF Records, Programs
  <2> HIDE DEF w
  <2>3. rec.outcome \in {"none", "cancelled"}
    BY <1>2 DEF Active, Ongoing
  <2>4. Local(w)
    BY <2>2, <2>3, ShortPrograms DEF Local, Fresh, Good, Rewriting
  <2>5. Written(w, c \in touched')
    BY <2>2 DEF Written, Rewriting
  <2>6. owner' = c => Owned(c, w, adapter')
    <3>1. owner' = c => NobodyWaits(adapter') /\ adapter'.up
      BY <1>1, <2>1 DEF QuietFor
    <3>2. ~SeenRestored(w)
      BY <2>2, <2>3 DEF SeenRestored
    <3> QED
      BY <2>2, <3>1, <3>2 DEF Owned, OnlyLast, NobodyWaits
  <2>7. /\ owner' = NoClient => NobodyWaits(adapter')
        /\ owner' \notin {c, NoClient} => Owned(owner', client[owner'], adapter')
    BY <1>1, <2>1 DEF QuietFor
  <2> QED
    BY <1>1, <2>1, <2>2, <2>4, <2>5, <2>6, <2>7, InvFacts, ClientStep
<1>3. CASE ~(rec.prog = "volatile" /\ rec.wrote
                /\ Steps(rec.prog)[rec.step].command = "standard")
  <2>1. Raises(c, rec, GivenUp(c))
    BY <1>3 DEF GivesUp
  <2> QED
    BY <1>1, <2>1, RaisesKeepsInv
<1> QED
  BY <1>2, <1>3

LEMMA TimesOutKeepsInv ==
    ASSUME Inv, NEW c \in Clients, TimesOut(c)
    PROVE  Inv'
<1>1. /\ client[c].at = "asking" /\ owner' = owner /\ spent' = spent
      /\ GivesUp(c, client[c])
  BY DEF TimesOut
<1> QED
  BY <1>1, ActiveNow, GivesUpKeepsInv

LEMMA UnblocksKeepsInv ==
    ASSUME Inv, NEW c \in Clients, Unblocks(c)
    PROVE  Inv'
<1>1. /\ client[c].at = "blocked" /\ owner = c /\ owner' = c /\ spent' = spent
      /\ Asks(c, client[c], 1, adapter)
  BY DEF Unblocks
<1>2. client[c].prog = "restore" /\ client[c] \in Records
  BY <1>1, InvFacts DEF Local
<1>3. QuietFor(c, owner', adapter) /\ owner' \in Owners
  BY <1>1, InvFacts DEF QuietFor, Owned, OnlyLast, NobodyWaits, Owners
<1>4. Ready(c, client[c], 1) /\ client[c].outcome \notin Good
  BY <1>1, <1>2, ActiveNow DEF Ready, Active
<1>5. 1 \in 1 .. Len(Steps(client[c].prog))
  BY <1>2, WriteFacts
<1> QED
  BY <1>1, <1>2, <1>3, <1>4, <1>5, InvFacts, AsksKeepsInv

LEMMA CancelKeepsInv ==
    ASSUME Inv, NEW c \in Clients, Cancel(c)
    PROVE  Inv'
<1>1. /\ client[c].at \in {"opening", "asking", "blocked", "polling"}
      /\ owner' = owner /\ spent' = spent
  BY DEF Cancel
<1>2. Active(c, client[c]) /\ client[c] \in Records
  BY <1>1, ActiveNow
<1>3. CASE client[c].at \in {"asking", "blocked"}
  <2> DEFINE w == [client[c] EXCEPT !.outcome = "cancelled"]
  <2>1. GivesUp(c, w)
    BY <1>3 DEF Cancel
  <2>2. /\ w \in Records /\ w.prog = client[c].prog /\ w.step = client[c].step
        /\ w.wrote = client[c].wrote /\ w.outcome = "cancelled"
    BY <1>2 DEF Records, Outcomes
  <2> HIDE DEF w
  <2>3. Active(c, w)
    BY <1>2, <2>2 DEF Active, Ongoing
  <2> QED
    BY <1>1, <2>1, <2>2, <2>3, GivesUpKeepsInv
<1>4. CASE client[c].at \notin {"asking", "blocked"}
  <2>1. Over(c, client[c], "cancelled") /\ UNCHANGED <<adapter, touched>>
    BY <1>4 DEF Cancel
  <2>2. Honest(c, client[c], "cancelled", owner', adapter)
    BY DEF Honest, Good
  <2>3. owner # c /\ QuietFor(c, owner, adapter)
    BY <1>1, <1>4, NotItsSession
  <2> QED
    BY <1>1, <1>2, <2>1, <2>2, <2>3, InvFacts, OverKeepsInv DEF Active, Ongoing, Outcomes
<1> QED
  BY <1>3, <1>4

LEMMA StopsServingKeepsInv ==
    ASSUME Inv, NEW c \in Clients, StopsServing(c)
    PROVE  Inv'
<1>1. /\ client[c].at = "serving" /\ client[c].prog = "serve"
      /\ Closes(c, client[c], client[c].outcome) /\ UNCHANGED <<adapter, owner, spent>>
  BY InvFacts DEF StopsServing, Local
<1>2. QuietFor(c, owner, adapter)
  BY <1>1, InvFacts DEF QuietFor, Owned, OnlyLast, NobodyWaits
<1>3. Honest(c, client[c], client[c].outcome, owner', adapter)
  BY <1>1 DEF Honest, Rewriting
<1>4. client[c].outcome \in Outcomes /\ Active(c, client[c]) /\ client[c] \in Records
  BY <1>1, ActiveNow DEF Records
<1> QED
  BY <1>1, <1>2, <1>3, <1>4, InvFacts, ClosesKeepsInv

LEMMA SessionClosesKeepsInv ==
    ASSUME Inv, NEW c \in Clients, NEW raised \in BOOLEAN, SessionCloses(c, raised)
    PROVE  Inv'
<1> DEFINE rec == client[c]
           good == rec.outcome \in {"already_active", "rewritten"}
<1>1. /\ rec.at = "closing" /\ owner' = IF owner = c THEN NoClient ELSE owner
      /\ UNCHANGED <<adapter, spent>>
  BY DEF SessionCloses
<1>2. /\ rec \in Records /\ Local(rec) /\ Written(rec, c \in touched)
      /\ rec.outcome \in Outcomes /\ rec.prog \in Programs \cup {"none"}
  BY InvFacts DEF Records
<1>3. QuietFor(c, owner', adapter) /\ owner' \in Owners /\ owner' # c /\ spent' \in Counts
  <2>1. CASE owner = c
    <3>1. NobodyWaits(adapter)
      BY <1>1, <2>1, InvFacts DEF Owned, OnlyLast, NobodyWaits
    <3> QED
      BY <1>1, <2>1, <3>1, InvFacts DEF QuietFor, Owners
  <2>2. CASE owner # c
    BY <1>1, <2>2, InvFacts DEF QuietFor
  <2> QED
    BY <2>1, <2>2
<1>4. CASE rec.prog = "prepare" /\ rec.outcome = "none"
  <2> DEFINE w == [rec EXCEPT !.prog = "confirm", !.at = "polling", !.step = 0]
  <2>1. Becomes(c, w) /\ touched' = touched
    BY <1>4 DEF SessionCloses
  <2>2. /\ w \in Records /\ w.prog = "confirm" /\ w.at = "polling" /\ w.step = 0
        /\ w.outcome = "none" /\ w.wrote = rec.wrote
    BY <1>2, <1>4 DEF Records, Programs
  <2> HIDE DEF w
  <2>3. Local(w)
    BY <2>2, ShortPrograms DEF Local, Fresh
  <2>4. Written(w, c \in touched')
    BY <1>1, <1>2, <1>4, <2>1, <2>2 DEF Written, Rewriting
  <2> QED
    BY <1>1, <1>3, <2>1, <2>2, <2>3, <2>4, InvFacts, ClientStep DEF QuietFor
<1>5. CASE rec.prog \in Rewriting /\ good /\ ~raised
  <2> DEFINE w == [rec EXCEPT !.prog = "serve", !.at = "opening", !.step = 0]
  <2>1. Becomes(c, w) /\ touched' = touched \ {c}
    BY <1>5 DEF SessionCloses, Rewriting
  <2>2. /\ w \in Records /\ w.prog = "serve" /\ w.at = "opening" /\ w.step = 0
    BY <1>2 DEF Records, Programs
  <2> HIDE DEF w
  <2>3. Local(w)
    BY <2>2, ShortPrograms DEF Local, Fresh, Rewriting
  <2>4. Written(w, c \in touched')
    BY <2>1, <2>2 DEF Written, Rewriting
  <2> QED
    BY <1>1, <1>3, <2>1, <2>2, <2>3, <2>4, InvFacts, ClientStep DEF QuietFor
<1>6. CASE /\ ~(rec.prog = "prepare" /\ rec.outcome = "none")
           /\ ~(rec.prog \in Rewriting /\ good /\ ~raised)
  <2>1. touched' = touched /\ CASE good /\ rec.prog # "serve" -> Over(c, rec, Failure(rec))
                                [] rec.outcome = "none" -> Over(c, rec, "passed")
                                [] rec.outcome = "passed" /\ raised -> Over(c, rec, "restored")
                                [] OTHER -> Over(c, rec, rec.outcome)
    BY <1>6 DEF SessionCloses, Rewriting
  <2>2. \A outcome \in Outcomes :
            Over(c, rec, outcome) /\ Honest(c, rec, outcome, owner', adapter) => Inv'
    BY <1>1, <1>2, <1>3, <2>1, InvFacts, OverKeepsInv DEF Written
  <2>3. CASE good /\ rec.prog # "serve"
    <3>1. Over(c, rec, Failure(rec)) /\ Failure(rec) \in Outcomes
      BY <2>1, <2>3, FailureType DEF Outcomes
    <3>2. Honest(c, rec, Failure(rec), owner', adapter)
      BY <1>1, <1>2, <2>3, FailureType DEF Honest, Local, Written, Good
    <3> QED
      BY <2>2, <3>1, <3>2
  <2>4. CASE rec.outcome = "none"
    <3>1. Over(c, rec, "passed")
      BY <2>1, <2>4
    <3>2. Honest(c, rec, "passed", owner', adapter)
      BY <1>3 DEF Honest, Good
    <3> QED
      BY <2>2, <3>1, <3>2 DEF Outcomes
  <2>5. CASE rec.outcome = "passed" /\ raised
    <3>1. Over(c, rec, "restored")
      BY <2>1, <2>5
    <3>2. Honest(c, rec, "restored", owner', adapter)
      BY <1>3 DEF Honest, Good
    <3> QED
      BY <2>2, <3>1, <3>2 DEF Outcomes
  <2>6. CASE /\ ~(good /\ rec.prog # "serve") /\ rec.outcome # "none"
             /\ ~(rec.outcome = "passed" /\ raised)
    <3>1. Over(c, rec, rec.outcome)
      BY <2>1, <2>6
    <3>2. Honest(c, rec, rec.outcome, owner', adapter)
      BY <1>2, <1>3 DEF Honest, Local, Written
    <3> QED
      BY <1>2, <2>2, <3>1, <3>2
  <2> QED
    BY <2>3, <2>4, <2>5, <2>6
<1> QED
  BY <1>4, <1>5, <1>6

-----------------------------------------------------------------------------
(* The steps of the adapter.                                               *)

(* The adapter takes its next command, after which it is a.                *)
LEMMA NextCommand ==
    ASSUME Inv, adapter.queue # << >>, NEW psram \in Addresses
    PROVE  LET a == [adapter EXCEPT !.queue = Tail(@), !.psram = psram]
               cmd == Head(adapter.queue)
           IN  /\ a \in Adapters /\ a.up = adapter.up /\ a.active = adapter.active
               /\ a.psram = psram
               /\ cmd \in Entries
               /\ owner = NoClient => NobodyWaits(a)
               /\ owner # NoClient => OnlyLast(owner, client[owner], a)
               /\ NoWrites(adapter) => NoWrites(a) /\ cmd.name # "write"
               /\ cmd.from # NoClient =>
                      /\ cmd.from \in Clients /\ owner = cmd.from
                      /\ client[cmd.from].at = "asking"
                      /\ cmd.name = Steps(client[cmd.from].prog)[client[cmd.from].step].command
                      /\ NobodyWaits(a) /\ NoWrites(a)
<1> DEFINE q == Tail(adapter.queue)
           n == Len(adapter.queue)
<1>1. adapter \in Adapters /\ adapter.queue \in Seq(Entries) /\ n \in Nat \ {0}
  BY InvFacts DEF Adapters
<1>2. /\ q \in Seq(Entries) /\ Len(q) = n - 1
      /\ \A i \in 1 .. Len(q) : q[i] = adapter.queue[i + 1] /\ i + 1 \in 1 .. n
      /\ Head(adapter.queue) = adapter.queue[1] /\ adapter.queue[1] \in Entries
  BY <1>1
<1> HIDE DEF q
<1>3. LET a == [adapter EXCEPT !.queue = q, !.psram = psram]
      IN  a \in Adapters /\ a.up = adapter.up /\ a.active = adapter.active
          /\ a.psram = psram /\ a.queue = q
  BY <1>1, <1>2 DEF Adapters
<1>4. owner = NoClient => \A i \in 1 .. Len(q) : q[i].from = NoClient
  BY <1>2, InvFacts DEF NobodyWaits
<1>5. owner # NoClient =>
          \A i \in 1 .. Len(q) :
              q[i].from # NoClient =>
                  /\ i = Len(q) /\ q[i].from = owner
                  /\ client[owner].at = "asking"
                  /\ q[i].name = Steps(client[owner].prog)[client[owner].step].command
  BY <1>1, <1>2, InvFacts DEF Owned, OnlyLast
<1>6. NoWrites(adapter) => /\ \A i \in 1 .. Len(q) : q[i].name # "write"
                           /\ adapter.queue[1].name # "write"
  BY <1>1, <1>2 DEF NoWrites
<1>7. adapter.queue[1].from # NoClient =>
          /\ adapter.queue[1].from \in Clients /\ owner = adapter.queue[1].from
          /\ client[owner].at = "asking" /\ Len(q) = 0
          /\ adapter.queue[1].name = Steps(client[owner].prog)[client[owner].step].command
  <2>1. 1 \in 1 .. n /\ (n = 1 => Len(q) = 0)
    BY <1>1, <1>2
  <2>2. SUFFICES ASSUME adapter.queue[1].from # NoClient
                 PROVE  /\ adapter.queue[1].from \in Clients /\ owner = adapter.queue[1].from
                        /\ client[owner].at = "asking" /\ n = 1
                        /\ adapter.queue[1].name
                           = Steps(client[owner].prog)[client[owner].step].command
    BY <2>1
  <2>3. owner # NoClient
    BY <2>1, <2>2, InvFacts DEF NobodyWaits
  <2>4. owner \in Clients /\ OnlyLast(owner, client[owner], adapter)
    BY <2>3, InvFacts DEF Owned
  <2> QED
    BY <2>1, <2>2, <2>4 DEF OnlyLast
<1> DEFINE a == [adapter EXCEPT !.queue = q, !.psram = psram]
<1> HIDE DEF n
<1>8. [adapter EXCEPT !.queue = Tail(@), !.psram = psram]
      = [adapter EXCEPT !.queue = q, !.psram = psram]
  BY DEF q
<1>9. a \in Adapters /\ a.up = adapter.up /\ a.active = adapter.active
      /\ a.psram = psram /\ a.queue = q
  BY <1>3
<1> HIDE DEF a
<1>10. /\ owner = NoClient => NobodyWaits(a)
       /\ owner # NoClient => OnlyLast(owner, client[owner], a)
       /\ NoWrites(adapter) => NoWrites(a) /\ adapter.queue[1].name # "write"
  BY <1>4, <1>5, <1>6, <1>9 DEF OnlyLast, NobodyWaits, NoWrites
<1>11. adapter.queue[1].from # NoClient => NobodyWaits(a) /\ NoWrites(a)
  BY <1>7, <1>9 DEF NobodyWaits, NoWrites
<1>12. [adapter EXCEPT !.queue = Tail(@), !.psram = psram] = a
  BY <1>8 DEF a
<1> QED
  BY <1>2, <1>7, <1>9, <1>10, <1>11, <1>12

(* The answer is to the command the process waits for, and nobody's        *)
(* command is left.                                                        *)
LEMMA AnsweredKeepsInv ==
    ASSUME Inv, NEW c \in Clients, owner = c, client[c].at = "asking",
           NEW a \in Adapters, a.up, NobodyWaits(a), NoWrites(a), NEW value,
           Answered(c, value, a), UNCHANGED <<owner, spent>>,
           LET s == Steps(client[c].prog)[client[c].step]
           IN  value = IF s.command = "standard" THEN a.active ELSE a.psram,
           client[c].prog = "volatile" /\ client[c].step = 9 => a.psram = client[c].original
    PROVE  Inv'
<1> DEFINE rec == client[c]
           s == Steps(rec.prog)[rec.step]
<1>1. /\ rec \in Records /\ Active(c, rec) /\ Fresh(rec) /\ Local(rec)
      /\ rec.prog \in Programs /\ rec.step \in 1 .. Len(Steps(rec.prog))
      /\ Len(Steps(rec.prog)) \in Nat
      /\ rec.prog \in {"volatile", "restore"} => rec.outcome \notin Good
  <2>1. rec \in Records /\ Active(c, rec) /\ Fresh(rec) /\ Local(rec)
        /\ (rec.prog \in {"volatile", "restore"} => rec.outcome \notin Good)
    BY ActiveNow, InvFacts
  <2>2. rec.prog \in Programs /\ rec.step # 0 /\ rec.step \in 0 .. Len(Steps(rec.prog))
    BY <2>1 DEF Active, Ongoing, Local
  <2>3. Len(Steps(rec.prog)) \in Nat
    BY <2>2, StepFacts
  <2> QED
    BY <2>1, <2>2, <2>3
<1>2. QuietFor(c, owner', a) /\ owner' \in Owners /\ spent' \in Counts /\ owner' = c
      /\ c # NoClient
  BY InvFacts DEF QuietFor
<1>3. CASE s.expected # "any" /\ value # Value(rec, s.expected)
  <2>1. Raises(c, rec, a)
    BY <1>3 DEF Answered
  <2> QED
    BY <1>1, <1>2, <2>1, RaisesKeepsInv
<1>4. CASE /\ ~(s.expected # "any" /\ value # Value(rec, s.expected))
           /\ rec.prog = "prepare" /\ s.command = "standard" /\ value = rec.wanted
  <2>1. Closes(c, rec, "already_active") /\ adapter' = a
    BY <1>4 DEF Answered
  <2>2. c \notin touched
    <3>1. rec.step = 2
      BY <1>1, <1>4, WriteFacts
    <3>2. ~rec.wrote
      BY <1>1, <1>4, <3>1 DEF Local
    <3> QED
      BY <1>1, <1>4, <3>2 DEF Active, Ongoing, Rewriting
  <2>3. Honest(c, rec, "already_active", owner', a)
    BY <1>4, <2>2 DEF Honest
  <2> QED
    BY <1>1, <1>2, <2>1, <2>3, ClosesKeepsInv DEF Outcomes
<1>5. CASE /\ ~(s.expected # "any" /\ value # Value(rec, s.expected))
           /\ ~(rec.prog = "prepare" /\ s.command = "standard" /\ value = rec.wanted)
           /\ rec.step = Len(Steps(rec.prog))
  <2>1. Succeeds(c, rec) /\ adapter' = a
    BY <1>5 DEF Answered
  <2>2. CASE rec.prog = "serve"
    <3> DEFINE w == [rec EXCEPT !.at = "serving"]
    <3>1. Becomes(c, w) /\ touched' = touched
      BY <2>1, <2>2 DEF Succeeds
    <3>2. /\ w \in Records /\ w.prog = "serve" /\ w.at = "serving" /\ w.step = rec.step
          /\ w.wanted = rec.wanted
      BY <1>1, <2>2 DEF Records
    <3>3. a.active = rec.wanted
      <4>1. s = Read("standard", "wanted")
        BY <1>5, <2>2, WriteFacts
      <4>2. s.command = "standard" /\ s.expected = "wanted"
        BY <4>1, StepTypes
      <4> QED
        BY <1>5, <4>2 DEF Value
    <3> HIDE DEF w
    <3>4. Local(w)
      BY <1>1, <2>2, <3>2 DEF Local
    <3>5. Written(w, c \in touched')
      BY <1>1, <2>2, <3>1, <3>2 DEF Written, Active, Ongoing, Rewriting
    <3>6. Owned(c, w, adapter')
      BY <2>1, <3>2, <3>3 DEF Owned, OnlyLast, NobodyWaits, SeenRestored
    <3> QED
      BY <1>2, <2>1, <3>1, <3>2, <3>4, <3>5, <3>6, InvFacts, ClientStep
  <2>3. CASE rec.prog = "confirm"
    <3>1. Closes(c, rec, "rewritten")
      BY <2>1, <2>3 DEF Succeeds
    <3>2. Honest(c, rec, "rewritten", owner', a)
      BY <2>3 DEF Honest
    <3> QED
      BY <1>1, <1>2, <2>1, <3>1, <3>2, ClosesKeepsInv DEF Outcomes
  <2>4. CASE rec.prog = "restore"
    <3>1. Closes(c, rec, "restored")
      BY <2>1, <2>4 DEF Succeeds
    <3>2. a.psram = rec.original
      <4>1. s = Read("psram", "original")
        BY <1>5, <2>4, WriteFacts
      <4>2. s.command = "psram" /\ s.expected = "original"
        BY <4>1, StepTypes
      <4> QED
        BY <1>5, <4>2 DEF Value
    <3>3. Honest(c, rec, "restored", owner', a)
      BY <2>4, <3>2 DEF Honest, Good, Rewriting
    <3> QED
      BY <1>1, <1>2, <2>1, <3>1, <3>3, ClosesKeepsInv DEF Outcomes
  <2>5. CASE rec.prog \notin {"serve", "confirm", "restore"}
    <3>1. Closes(c, rec, "passed")
      BY <2>1, <2>5 DEF Succeeds
    <3>2. rec.prog = "volatile" => a.psram = rec.original
      BY <1>5, ProbePrograms
    <3>3. Honest(c, rec, "passed", owner', a)
      BY <2>5, <3>2 DEF Honest, Good
    <3> QED
      BY <1>1, <1>2, <2>1, <3>1, <3>3, ClosesKeepsInv DEF Outcomes
  <2> QED
    BY <2>2, <2>3, <2>4, <2>5
<1>6. CASE /\ ~(s.expected # "any" /\ value # Value(rec, s.expected))
           /\ ~(rec.prog = "prepare" /\ s.command = "standard" /\ value = rec.wanted)
           /\ rec.step # Len(Steps(rec.prog))
  <2>1. Asks(c, rec, rec.step + 1, a)
    BY <1>6 DEF Answered
  <2>2. rec.step + 1 \in 1 .. Len(Steps(rec.prog))
    BY <1>1, <1>6
  <2>3. Ready(c, rec, rec.step + 1)
    BY <1>1 DEF Ready, Active, Local
  <2>4. rec.prog = "volatile" /\ rec.step + 1 = 9 => a.psram = rec.original
    <3>1. SUFFICES ASSUME rec.prog = "volatile", rec.step + 1 = 9
                   PROVE  a.psram = rec.original
      OBVIOUS
    <3>2. rec.step = 8
      BY <1>1, <3>1
    <3>3. s = Read("psram", "original")
      BY <3>1, <3>2, ProbePrograms
    <3>4. s.command = "psram" /\ s.expected = "original"
      BY <3>3, StepTypes
    <3> QED
      BY <1>6, <3>4 DEF Value
  <2> HIDE DEF rec
  <2> QED
    BY <1>1, <1>2, <2>1, <2>2, <2>3, <2>4, AsksKeepsInv
<1> QED
  BY <1>3, <1>4, <1>5, <1>6

(* A command is executed and nobody gets an answer.                        *)
LEMMA ExecutedKeepsInv ==
    ASSUME Inv, adapter.queue # << >>, NEW psram \in Addresses,
           adapter' = [adapter EXCEPT !.queue = Tail(@), !.psram = psram],
           psram = adapter.psram \/ Head(adapter.queue).name = "write",
           UNCHANGED <<client, touched, owner, spent>>
    PROVE  Inv'
<1>1. /\ adapter' \in Adapters /\ adapter'.up = adapter.up
      /\ adapter'.active = adapter.active /\ adapter'.psram = psram
      /\ owner = NoClient => NobodyWaits(adapter')
      /\ owner # NoClient => OnlyLast(owner, client[owner], adapter')
      /\ NoWrites(adapter) => NoWrites(adapter') /\ Head(adapter.queue).name # "write"
  BY NextCommand
<1>2. owner # NoClient => Owned(owner, client[owner], adapter')
  BY <1>1, InvFacts DEF Owned
<1> QED
  BY <1>1, <1>2, InvFacts, AdapterStep

LEMMA ExecuteKeepsInv ==
    ASSUME Inv, NEW answered \in BOOLEAN, Execute(answered)
    PROVE  Inv'
<1> DEFINE cmd == Head(adapter.queue)
           psram == IF cmd.name = "write" THEN cmd.value ELSE adapter.psram
           a == [adapter EXCEPT !.queue = Tail(@), !.psram = psram]
<1>1. adapter.queue # << >> /\ UNCHANGED <<owner, spent>>
  BY DEF Execute
<1>2. [adapter EXCEPT !.queue = Tail(@), !.psram = IF cmd.name = "write" THEN cmd.value ELSE @] = a
  BY InvFacts DEF Adapters
<1>3. IF answered /\ cmd.from # NoClient THEN Answered(cmd.from, Answer(cmd, a), a)
      ELSE adapter' = a /\ UNCHANGED <<client, touched>>
  BY <1>2 DEF Execute
<1>4. psram \in Addresses /\ (psram = adapter.psram \/ cmd.name = "write")
  <2>1. adapter.psram \in Addresses /\ cmd \in Entries
    BY <1>1, InvFacts, NextCommand DEF Adapters
  <2> QED
    BY <2>1 DEF Entries
<1> HIDE DEF psram
<1>5. CASE answered /\ cmd.from # NoClient
  <2> DEFINE c == cmd.from
  <2>1. /\ a \in Adapters /\ a.up = adapter.up /\ a.psram = psram
        /\ c \in Clients /\ owner = c /\ client[c].at = "asking"
        /\ cmd.name = Steps(client[c].prog)[client[c].step].command
        /\ NobodyWaits(a) /\ NoWrites(a)
        /\ NoWrites(adapter) => cmd.name # "write"
    BY <1>1, <1>4, <1>5, NextCommand
  <2>2. Owned(c, client[c], adapter) /\ c # NoClient
    BY <2>1, InvFacts
  <2>3. client[c].prog = "volatile" /\ client[c].step = 9 => a.psram = client[c].original
    BY <1>4, <2>1, <2>2 DEF Owned, SeenRestored
  <2>4. Answered(c, Answer(cmd, a), a)
    BY <1>3, <1>5
  <2>5. Answer(cmd, a) = IF cmd.name = "standard" THEN a.active ELSE a.psram
    BY DEF Answer
  <2>6. a.up
    BY <2>1, <2>2 DEF Owned
  <2> HIDE DEF a, c, cmd
  <2> QED
    BY <1>1, <2>1, <2>3, <2>4, <2>5, <2>6, AnsweredKeepsInv
<1>6. CASE ~(answered /\ cmd.from # NoClient)
  BY <1>1, <1>3, <1>4, <1>6, ExecutedKeepsInv
<1> QED
  BY <1>5, <1>6

LEMMA RefuseKeepsInv ==
    ASSUME Inv, Refuse
    PROVE  Inv'
<1> DEFINE cmd == Head(adapter.queue)
           c == cmd.from
           a == [adapter EXCEPT !.queue = Tail(@), !.psram = adapter.psram]
<1>1. /\ adapter.queue # << >> /\ c # NoClient /\ UNCHANGED <<owner, spent>>
      /\ Raises(c, client[c], [adapter EXCEPT !.queue = Tail(@)])
  BY DEF Refuse
<1>2. [adapter EXCEPT !.queue = Tail(@)] = a /\ adapter.psram \in Addresses
  BY InvFacts DEF Adapters
<1>3. /\ a \in Adapters /\ a.up = adapter.up
      /\ c \in Clients /\ owner = c /\ client[c].at = "asking"
      /\ NobodyWaits(a)
  BY <1>1, <1>2, NextCommand
<1>4. Owned(c, client[c], adapter)
  BY <1>1, <1>3, InvFacts
<1>5. QuietFor(c, owner', a) /\ owner' \in Owners /\ spent' \in Counts
  BY <1>1, <1>3, <1>4, InvFacts DEF QuietFor, Owned
<1>6. Raises(c, client[c], a)
  BY <1>1, <1>2
<1>7. Active(c, client[c]) /\ client[c] \in Records
  BY <1>3, ActiveNow
<1> HIDE DEF a, c
<1> QED
  BY <1>3, <1>5, <1>6, <1>7, RaisesKeepsInv

(* The adapter leaves the bus, with its session and its queue.             *)
LEMMA OffBusKeepsInv ==
    ASSUME Inv, NEW a \in Adapters, adapter' = a, a.queue = << >>, owner' = NoClient,
           UNCHANGED <<client, touched>>, spent' \in Counts
    PROVE  Inv'
<1>1. NobodyWaits(adapter')
  BY DEF NobodyWaits
<1> QED
  BY <1>1, AdapterStep DEF Owners

LEMMA ResetKeepsInv ==
    ASSUME Inv, Reset \/ Replug
    PROVE  Inv'
<1>1. CASE Reset
  <2> DEFINE a == [adapter EXCEPT !.active = adapter.psram, !.up = FALSE, !.queue = << >>]
  <2>1. adapter \in Adapters /\ adapter.psram \in Addresses /\ << >> \in Seq(Entries)
    BY InvFacts DEF Adapters
  <2>2. a \in Adapters
    BY <2>1 DEF Adapters
  <2>3. a.queue = << >>
    BY <2>1 DEF Adapters
  <2>4. adapter' = a /\ owner' = NoClient /\ UNCHANGED <<client, touched, spent>>
    BY <1>1 DEF Reset
  <2> HIDE DEF a
  <2> QED
    BY <2>2, <2>3, <2>4, InvFacts, OffBusKeepsInv
<1>2. CASE Replug
  <2>1. [psram |-> Flash, active |-> Flash, up |-> TRUE, queue |-> << >>] \in Adapters
    BY AdapterAssumption DEF Adapters
  <2>2. spent' \in Counts
    BY <1>2, InvFacts, AdapterAssumption DEF Replug, Counts
  <2> QED
    BY <1>2, <2>1, <2>2, OffBusKeepsInv DEF Replug
<1> QED
  BY <1>1, <1>2

LEMMA ReenumerateKeepsInv ==
    ASSUME Inv, Reenumerate
    PROVE  Inv'
<1>1. /\ ~adapter.up /\ adapter' = [adapter EXCEPT !.up = TRUE]
      /\ UNCHANGED <<owner, client, touched, spent>>
  BY DEF Reenumerate
<1>2. adapter' \in Adapters /\ adapter'.queue = adapter.queue
  BY <1>1, InvFacts DEF Adapters
<1>3. owner = NoClient
  BY <1>1, InvFacts DEF Owned
<1>4. NobodyWaits(adapter')
  BY <1>2, <1>3, InvFacts DEF NobodyWaits
<1> QED
  BY <1>1, <1>2, <1>3, <1>4, InvFacts, AdapterStep

-----------------------------------------------------------------------------
(* The invariant.                                                          *)

LEMMA InvInit ==
    ASSUME Init
    PROVE  Inv
<1>1. PICK x \in Addresses : adapter = [psram |-> x, active |-> x, up |-> TRUE, queue |-> << >>]
  BY DEF Init
<1>2. adapter \in Adapters /\ NobodyWaits(adapter)
  BY <1>1 DEF Adapters, NobodyWaits
<1>3. \A c \in Clients : client[c] = Idle /\ c \notin touched
  BY DEF Init
<1>4. Local(Idle) /\ Written(Idle, FALSE)
  BY IdleType, ShortPrograms DEF Local, Written, Good
<1>5. Typed
  <2>1. spent \in Counts
    BY AdapterAssumption DEF Init, Counts
  <2>2. client \in [Clients -> Records]
    BY IdleType DEF Init
  <2> QED
    BY <1>2, <2>1, <2>2 DEF Init, Typed, Owners
<1>6. \A c \in Clients : Local(client[c]) /\ Written(client[c], c \in touched)
  BY <1>3, <1>4 DEF Written
<1>7. Session(owner, client, adapter)
  BY <1>2 DEF Init, Session
<1> QED
  BY <1>5, <1>6, <1>7 DEF Inv

LEMMA InvStep ==
    ASSUME Inv, [Next]_vars
    PROVE  Inv'
<1>1. ASSUME NEW c \in Clients, NEW req \in Requests, Start(c, req)
      PROVE  Inv'
  BY <1>1, StartKeepsInv
<1>2. ASSUME NEW c \in Clients, Opens(c) \/ PollOpens(c)
      PROVE  Inv'
  BY <1>2, ClaimKeepsInv DEF Opens, PollOpens
<1>3. ASSUME NEW c \in Clients, OpenFails(c) \/ PollFails(c) \/ DeadlinePasses(c)
      PROVE  Inv'
  BY <1>3, OpenFailsKeepsInv, DeadlinePassesKeepsInv
<1>4. ASSUME NEW c \in Clients, TimesOut(c) \/ Unblocks(c) \/ Cancel(c)
                                  \/ StopsServing(c)
      PROVE  Inv'
  BY <1>4, TimesOutKeepsInv, UnblocksKeepsInv, CancelKeepsInv, StopsServingKeepsInv
<1>5. ASSUME NEW c \in Clients, NEW raised \in BOOLEAN, SessionCloses(c, raised)
      PROVE  Inv'
  BY <1>5, SessionClosesKeepsInv
<1>6. ASSUME NEW answered \in BOOLEAN, Execute(answered)
      PROVE  Inv'
  BY <1>6, ExecuteKeepsInv
<1>7. CASE Refuse \/ Reset \/ Reenumerate \/ Replug
  BY <1>7, RefuseKeepsInv, ResetKeepsInv, ReenumerateKeepsInv
<1>8. CASE UNCHANGED vars
  <2>1. UNCHANGED <<adapter, owner, client, touched, spent>>
    BY <1>8 DEF vars
  <2> QED
    BY <2>1, InvFacts, AdapterStep
<1> QED
  BY <1>1, <1>2, <1>3, <1>4, <1>5, <1>6, <1>7, <1>8 DEF Next

LEMMA InvAlways == Spec => []Inv
<1>1. Init => Inv
  BY InvInit
<1>2. Inv /\ [Next]_vars => Inv'
  BY InvStep
<1> QED
  BY <1>1, <1>2, PTL DEF Spec

-----------------------------------------------------------------------------
(* The variables keep their types, whoever has a session is in the middle  *)
(* of using it, and nothing but an address it was asked for is ever sent   *)
(* to the adapter.                                                         *)
THEOREM TypeCorrect == Spec => []TypeOK
<1>1. Inv => TypeOK
  <2> SUFFICES ASSUME Inv PROVE TypeOK
    OBVIOUS
  <2>1. \A c \in Clients : /\ client[c].outcome \in Outcomes
                           /\ client[c].step \in 0 .. Len(Steps(client[c].prog))
    BY InvFacts DEF Records, Local
  <2>2. /\ adapter.psram \in Addresses /\ adapter.active \in Addresses /\ adapter.up \in BOOLEAN
        /\ adapter.queue \in Seq(Entries)
    BY InvFacts DEF Adapters
  <2>3. owner # NoClient =>
            client[owner].at \in {"asking", "blocked", "serving", "closing"} /\ adapter.up
    BY InvFacts DEF Owned
  <2> QED
    BY <2>1, <2>2, <2>3, InvFacts DEF TypeOK, Entries, Commands, Owners, Counts
<1> QED
  BY <1>1, InvAlways, PTL

(* A controller that is served has the address of its profile: after its   *)
(* preparation the transport opens the adapter with a check of the active  *)
(* address in the session it keeps, and only a reset or a replugging,      *)
(* which end that session, change the active address.                      *)
THEOREM TargetServed == Spec => []ServesTarget
<1>1. Inv => ServesTarget
  BY InvFacts DEF Owned, ServesTarget
<1> QED
  BY <1>1, InvAlways, PTL

(* _prepare_adapter_identity() reports an ordinary error, or that there    *)
(* was nothing to do, only if it has not sent a write: write_started is    *)
(* set before the write, and nothing is written after the address matched. *)
THEOREM DoubtIsReported == Spec => []DoubtReported
<1>1. Inv => DoubtReported
  BY InvFacts DEF Written, DoubtReported, Rewriting
<1> QED
  BY <1>1, InvAlways, PTL

(* The volatile probe reports a mere failure only if it has not written,   *)
(* and a restored address only if the adapter holds the original one and   *)
(* no command that was given up can change it any more.                    *)
THEOREM ProbeIsHonest == Spec => []ProbeHonest
<1>1. Inv => ProbeHonest
  BY InvFacts DEF Written, Owned, SeenRestored, ProbeHonest
<1> QED
  BY <1>1, InvAlways, PTL

=============================================================================
