----------------------------- MODULE ReportTiming ------------------------------
(***************************************************************************)
(* When periodic reports are sent: the deadlines of ReportLoop._run        *)
(* (swbt/report_loop.py) and of _send_phase, which the credit probe        *)
(* (tools/hci_credit_gyro_probe.py) paces direct sends with.  Sleeping and *)
(* sending take any time: a wake-up may be late and the transport slow.    *)
(***************************************************************************)
EXTENDS Integers

CONSTANTS
    Kinds,          \* the pacers of this instance, among "loop" and "phase"
    Period,         \* the report period, in clock ticks
    PhaseLength,    \* duration of a phase, in clock ticks
    MaxTime         \* bound: the clock is not followed further

ASSUME KindAssumption == Kinds \subseteq {"loop", "phase"}
ASSUME PeriodAssumption == Period \in Nat \ {0}

VARIABLES
    now,        \* the monotonic clock
    pace        \* the pacer: where it is, its deadline and its sends so far

pacing == <<now, pace>>

(* The loop waits a period before its first report, a phase does not.      *)
StartedPaces ==
    {[kind |-> k, at |-> "sleep", sent |-> 0,
      deadline |-> IF k = "loop" THEN Period ELSE 0] : k \in Kinds}

PaceInit == now = 0 /\ pace \in StartedPaces

(* Seeded bug: every missed report is made up for.                     *)
NextDeadlineCatchingUp(kind, d, t) == d + Period

(* The deadline after one at d, when its report is done at time t.  A      *)
(* pacer that is late moves on by whole periods: the loop keeps a deadline *)
(* that is due just now, a phase skips it.                                 *)
PeriodsLate(kind, e, t) ==
    CASE kind = "loop" /\ e < t   -> (t - e + Period - 1) \div Period
      [] kind = "phase" /\ e <= t -> ((t - e) \div Period) + 1
      [] OTHER                    -> 0

NextDeadline(kind, d, t) ==
    d + Period + PeriodsLate(kind, d + Period, t) * Period

(* The clock, followed up to MaxTime and until the pacer is done.          *)
Tick ==
    /\ now < MaxTime /\ pace.at # "done"
    /\ now' = now + 1 /\ UNCHANGED pace

(* The pacer wakes up at its deadline or later, and starts a report.       *)
Sends ==
    /\ pace.at = "sleep" /\ now >= pace.deadline
    /\ pace.kind = "phase" => pace.deadline < PhaseLength
    /\ pace' = [pace EXCEPT !.at = "send", !.sent = @ + 1]
    /\ UNCHANGED now

Sent ==
    /\ pace.at = "send"
    /\ pace' = [pace EXCEPT !.at = "sleep",
                            !.deadline = NextDeadline(pace.kind, @, now)]
    /\ UNCHANGED now

(* The loop is stopped while it sleeps, or a phase is over.                *)
Stops ==
    /\ pace.at = "sleep"
    /\ pace.kind = "phase" => pace.deadline >= PhaseLength
    /\ pace' = [pace EXCEPT !.at = "done"]
    /\ UNCHANGED now

(* A refused or cancelled report ends the pacer.                           *)
SendRaises ==
    /\ pace.at = "send"
    /\ pace' = [pace EXCEPT !.at = "done"]
    /\ UNCHANGED now

PaceNext == Tick \/ Sends \/ Sent \/ Stops \/ SendRaises

PaceSpec == PaceInit /\ [][PaceNext]_pacing

-----------------------------------------------------------------------------
(* Never more reports than periods have passed, whatever was missed: the   *)
(* loop has started at most one for each whole period, a phase one more.   *)
RateBounded ==
    CASE pace.kind = "loop"  -> pace.sent * Period <= now
      [] pace.kind = "phase" -> pace.sent * Period <= now + Period

(* Deadlines stay on the grid the pacer started on, and once a report is   *)
(* done the next one is due at once or within a period, not before.        *)
OnGrid == pace.deadline % Period = 0

DueWithinPeriod ==
    pace.at = "send" /\ pace'.at = "sleep" =>
        /\ now <= pace'.deadline
        /\ pace'.deadline <= now + Period

(* "skips overdue deadlines without burst catch up": report_loop.py:214.   *)
NoBurst == [](RateBounded /\ OnGrid) /\ [][DueWithinPeriod]_pacing

=============================================================================
