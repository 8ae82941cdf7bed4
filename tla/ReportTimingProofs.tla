-------------------------- MODULE ReportTimingProofs ---------------------------
(* No pacer ever sends a burst, for every period, clock and lateness.      *)
EXTENDS ReportTiming, TLAPS

(* Whole periods in a time.                                                *)
LEMMA WholePeriods ==
    ASSUME NEW a \in Nat
    PROVE  /\ a \div Period \in Nat
           /\ (a \div Period) * Period <= a
           /\ a < (a \div Period) * Period + Period
  BY PeriodAssumption, SMT

(* A whole number of periods leaves nothing over.                          *)
LEMMA NothingOver ==
    ASSUME NEW g \in Nat
    PROVE  (g * Period) % Period = 0
<1> DEFINE q == (g * Period) \div Period
           r == (g * Period) % Period
<1>1. g * Period \in Nat
  BY PeriodAssumption, SMT
<1>2. q \in Nat /\ q * Period <= g * Period /\ g * Period < q * Period + Period
  BY <1>1, WholePeriods
<1>3. r \in Nat /\ g * Period = q * Period + r
  BY <1>1, PeriodAssumption, SMT
<1> HIDE DEF q, r
<1>4. ~(q < g)
  <2>1. SUFFICES ASSUME q < g PROVE FALSE
    OBVIOUS
  <2>2. g >= q + 1
    BY <2>1, <1>2, SMT
  <2>3. g * Period >= (q + 1) * Period
    BY <2>2, <1>2, PeriodAssumption, SMT
  <2> QED
    BY <2>3, <1>2, PeriodAssumption, SMT
<1>5. ~(g < q)
  BY <1>2, PeriodAssumption, SMT
<1>6. q = g
  BY <1>2, <1>4, <1>5, SMT
<1>7. r = 0
  BY <1>3, <1>6, PeriodAssumption, SMT
<1> QED
  BY <1>7 DEF r

(* The next deadline is a whole number of periods on, at least one, and    *)
(* falls due at once or within a period.                                   *)
LEMMA NextDue ==
    ASSUME NEW kind \in {"loop", "phase"}, NEW d \in Nat, NEW t \in Nat, d <= t
    PROVE  /\ NextDeadline(kind, d, t) \in Nat
           /\ d + Period <= NextDeadline(kind, d, t)
           /\ t <= NextDeadline(kind, d, t)
           /\ NextDeadline(kind, d, t) <= t + Period
           /\ \E k \in Nat : NextDeadline(kind, d, t) = d + k * Period
<1> DEFINE e == d + Period
           late == PeriodsLate(kind, e, t)
<1>1. e \in Nat /\ e <= t + Period /\ Period \in Nat /\ Period > 0
  BY PeriodAssumption, SMT
<1>2. /\ late \in Nat
      /\ t <= e + late * Period
      /\ e + late * Period <= t + Period
  <2>1. CASE kind = "loop" /\ e < t
    <3> DEFINE over == t - e + Period - 1
    <3>1. over \in Nat
      BY <1>1, <2>1, SMT
    <3>2. late = over \div Period
      BY <2>1 DEF PeriodsLate
    <3>3. late \in Nat /\ late * Period <= over /\ over < late * Period + Period
      BY <3>1, <3>2, WholePeriods
    <3>4. late * Period \in Nat
      BY <3>3, <1>1, SMT
    <3> HIDE DEF late, e
    <3> QED
      BY <3>3, <3>4, <1>1, SMT
  <2>2. CASE kind = "phase" /\ e <= t
    <3> DEFINE q == (t - e) \div Period
    <3>1. t - e \in Nat
      BY <1>1, <2>2, SMT
    <3>2. late = q + 1
      BY <2>2 DEF PeriodsLate
    <3>3. q \in Nat /\ q * Period <= t - e /\ t - e < q * Period + Period
      BY <3>1, WholePeriods
    <3> HIDE DEF late, e, q
    <3>4. late \in Nat /\ late * Period = q * Period + Period /\ q * Period \in Nat
      BY <3>2, <3>3, <1>1, SMT
    <3> QED
      BY <3>3, <3>4, <1>1, SMT
  <2>3. CASE ~(kind = "loop" /\ e < t) /\ ~(kind = "phase" /\ e <= t)
    <3>1. late = 0
      BY <2>3 DEF PeriodsLate
    <3>2. t <= e
      BY <2>3, <1>1, SMT
    <3> HIDE DEF late, e
    <3> QED
      BY <3>1, <3>2, <1>1, SMT
  <2> QED
    BY <2>1, <2>2, <2>3
<1>3. NextDeadline(kind, d, t) = e + late * Period
  BY DEF NextDeadline
<1> HIDE DEF late
<1>4. late * Period \in Nat /\ e + late * Period = d + (late + 1) * Period
  BY <1>1, <1>2, SMT
<1> QED
  BY <1>1, <1>2, <1>3, <1>4, SMT

-----------------------------------------------------------------------------
(* The invariant: types, the grid written with a witness, and how far the  *)
(* deadline and the clock are ahead of the reports sent.                   *)
Paces ==
    [kind : {"loop", "phase"}, at : {"sleep", "send", "done"}, sent : Nat,
     deadline : Nat]

Grid == \E g \in Nat : pace.deadline = g * Period

(* The reports a pacer may have started one period after the time t.       *)
Allowance == IF pace.kind = "loop" THEN 0 ELSE Period

Ahead ==
    /\ pace.sent * Period <= now + Allowance
    /\ pace.at = "sleep" => pace.sent * Period + Period <= pace.deadline + Allowance
    /\ pace.at = "send" => /\ pace.deadline <= now
                           /\ pace.sent * Period <= pace.deadline + Allowance

PaceInv == now \in Nat /\ pace \in Paces /\ Grid /\ Ahead

LEMMA PaceInvInit == PaceInit => PaceInv
<1> SUFFICES ASSUME PaceInit PROVE PaceInv
  OBVIOUS
<1> USE PeriodAssumption, KindAssumption DEF PaceInit, StartedPaces
<1>1. PICK k \in Kinds :
        pace = [kind |-> k, at |-> "sleep", sent |-> 0,
                deadline |-> IF k = "loop" THEN Period ELSE 0]
  OBVIOUS
<1>2. k \in {"loop", "phase"} /\ pace.deadline = (IF k = "loop" THEN 1 ELSE 0) * Period
  BY <1>1, SMT
<1>3. now \in Nat /\ pace \in Paces
  BY <1>1, <1>2, SMT DEF Paces
<1>4. Grid
  BY <1>2, SMT DEF Grid
<1>5. Ahead
  BY <1>1, <1>2, SMT DEF Ahead, Allowance
<1> QED
  BY <1>3, <1>4, <1>5 DEF PaceInv

LEMMA PaceInvStep == PaceInv /\ [PaceNext]_pacing => PaceInv'
<1> SUFFICES ASSUME PaceInv, [PaceNext]_pacing PROVE PaceInv'
  OBVIOUS
<1> USE PeriodAssumption DEF PaceInv, Paces
<1>1. CASE Tick
  <2>1. now' \in Nat /\ now <= now' /\ pace' = pace
    BY <1>1, SMT DEF Tick
  <2>2. Ahead'
    BY <2>1, SMT DEF Ahead, Allowance
  <2> QED
    BY <2>1, <2>2 DEF Grid
<1>2. CASE Sends
  <2>1. /\ now' = now /\ pace.at = "sleep" /\ pace.deadline <= now
        /\ pace' = [pace EXCEPT !.at = "send", !.sent = pace.sent + 1]
    BY <1>2, SMT DEF Sends
  <2>2. pace'.sent * Period = pace.sent * Period + Period
    BY <2>1, SMT
  <2>3. pace' \in Paces
    <3>1. pace.sent + 1 \in Nat
      BY SMT
    <3> QED
      BY <2>1, <3>1
  <2>4. Ahead'
    BY <2>1, <2>2, SMT DEF Ahead, Allowance
  <2>5. Grid'
    BY <2>1 DEF Grid
  <2> QED
    BY <2>1, <2>3, <2>4, <2>5
<1>3. CASE Sent
  <2> DEFINE next == NextDeadline(pace.kind, pace.deadline, now)
  <2>1. /\ now' = now /\ pace.at = "send" /\ pace.deadline <= now
        /\ pace' = [pace EXCEPT !.at = "sleep", !.deadline = next]
    BY <1>3 DEF Sent, Ahead
  <2>2. /\ next \in Nat /\ pace.deadline + Period <= next
        /\ \E k \in Nat : next = pace.deadline + k * Period
    BY <2>1, NextDue
  <2> HIDE DEF next
  <2>3. pace' \in Paces
    BY <2>1, <2>2
  <2>4. Ahead'
    BY <2>1, <2>2, SMT DEF Ahead, Allowance
  <2>5. Grid'
    <3>1. PICK g \in Nat : pace.deadline = g * Period
      BY DEF Grid
    <3>2. PICK k \in Nat : next = pace.deadline + k * Period
      BY <2>2
    <3>3. g + k \in Nat /\ pace'.deadline = (g + k) * Period
      BY <2>1, <3>1, <3>2, SMT
    <3> QED
      BY <3>3 DEF Grid
  <2> QED
    BY <2>1, <2>3, <2>4, <2>5
<1>4. CASE Stops \/ SendRaises
  <2>1. now' = now /\ pace' = [pace EXCEPT !.at = "done"]
    BY <1>4 DEF Stops, SendRaises
  <2>2. Ahead'
    BY <2>1, SMT DEF Ahead, Allowance
  <2> QED
    BY <2>1, <2>2 DEF Grid
<1>5. CASE UNCHANGED pacing
  BY <1>5 DEF pacing, Grid, Ahead, Allowance
<1> QED
  BY <1>1, <1>2, <1>3, <1>4, <1>5 DEF PaceNext

LEMMA PaceInvBounds == PaceInv => RateBounded /\ OnGrid
<1> SUFFICES ASSUME PaceInv PROVE RateBounded /\ OnGrid
  OBVIOUS
<1>1. RateBounded
  <2>1. pace.kind \in {"loop", "phase"} /\ now \in Nat
    BY DEF PaceInv, Paces
  <2>2. CASE pace.kind = "loop"
    <3>1. pace.sent * Period <= now
      BY <2>1, <2>2, PeriodAssumption, SMT DEF PaceInv, Ahead, Allowance, Paces
    <3> QED
      BY <2>2, <3>1, Zenon DEF RateBounded
  <2>3. CASE pace.kind = "phase"
    <3>1. pace.sent * Period <= now + Period
      BY <2>3 DEF PaceInv, Ahead, Allowance
    <3> QED
      BY <2>3, <3>1, Zenon DEF RateBounded
  <2> QED
    BY <2>1, <2>2, <2>3
<1>2. OnGrid
  BY NothingOver DEF PaceInv, Grid, OnGrid
<1> QED
  BY <1>1, <1>2

LEMMA PaceStepDue == PaceInv /\ [PaceNext]_pacing => [DueWithinPeriod]_pacing
<1> SUFFICES ASSUME PaceInv, PaceNext, pace.at = "send", pace'.at = "sleep"
             PROVE  now <= pace'.deadline /\ pace'.deadline <= now + Period
  BY DEF DueWithinPeriod
<1>1. Sent
  BY DEF PaceNext, PaceInv, Paces, Tick, Sends, Stops, SendRaises
<1>2. /\ pace.deadline <= now /\ now \in Nat /\ pace.deadline \in Nat
      /\ pace.kind \in {"loop", "phase"}
      /\ pace'.deadline = NextDeadline(pace.kind, pace.deadline, now)
  BY <1>1 DEF Sent, PaceInv, Paces, Ahead
<1> QED
  BY <1>2, NextDue

-----------------------------------------------------------------------------
(* A pacer never starts more reports than periods have passed, keeps its   *)
(* grid, and after a late report waits for the next deadline, for every    *)
(* period and however late wake-ups and sends are: ReportLoop._run and     *)
(* _send_phase.                                                            *)
THEOREM NeverBursts == PaceSpec => NoBurst
<1>1. PaceInit => PaceInv
  BY PaceInvInit
<1>2. PaceInv /\ [PaceNext]_pacing => PaceInv'
  BY PaceInvStep
<1>3. PaceInv => RateBounded /\ OnGrid
  BY PaceInvBounds
<1>4. PaceInv /\ [PaceNext]_pacing => [DueWithinPeriod]_pacing
  BY PaceStepDue
<1> QED
  BY <1>1, <1>2, <1>3, <1>4, PTL DEF PaceSpec, NoBurst

=============================================================================
