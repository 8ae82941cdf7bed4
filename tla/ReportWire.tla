------------------------------ MODULE ReportWire -------------------------------
(***************************************************************************)
(* One connection as its host sees it: the input reports a pacer sends and *)
(* the replies to the host's requests, byte for byte.  The order in which  *)
(* several tasks reach the transport is the business of ReportSender; here *)
(* one pacer and one host take turns, and the question is whether what is  *)
(* on the wire says what was asked for.                                    *)
(*                                                                         *)
(* A connection is entered at any moment of its life: the timer may be     *)
(* about to wrap, and the host may have set the session up or not.         *)
(***************************************************************************)
EXTENDS ReportTiming, ReportFormats

CONSTANTS
    Profiles,           \* the controller profiles of this instance
    Edits(_),           \* the input states a caller of a profile asks for
    Requests(_),        \* the requests of the host to a profile
    Orientations,       \* the quaternions a rotation may lead to
    Timers,             \* the report timers a connection is entered with
    Address,            \* the Bluetooth address told to the host
    MaxEdits, MaxAsks,  \* bounds: inputs applied, requests made
    LastTurn            \* bound: the time of the last of them

VARIABLES
    profile,    \* the controller profile, which never changes
    input,      \* InputStateStore._state
    asked,      \* the edit the input comes from
    session,    \* SwitchHidSession._state, as far as reports depend on it
    timer,      \* ReportSender._timer
    wire,       \* the report handed to the transport in this tick, or none
    edits, asks \* how many inputs were applied and requests made

content == <<profile, input, asked, session, timer, wire, edits, asks>>
vars == <<pacing, content>>

Nobody == [by |-> "nobody"]

(* orientation and known (previous_report_ns is set) are the encoding state*)
(* of the quaternion modes.                                                *)
Identity == <<0, 0, 0, One>>

Epoch(s, mode) ==
    [s EXCEPT !.mode = mode, !.orientation = Identity, !.known = FALSE]

NewSession(ready) ==
    [mode |-> 0, orientation |-> Identity, known |-> FALSE,
     supported |-> ready, lit |-> ready]

Init ==
    /\ PaceInit
    /\ profile \in Profiles
    /\ input = NeutralInput /\ asked = Nobody
    /\ \E ready \in BOOLEAN : session = NewSession(ready)
    /\ timer \in Timers
    /\ wire = Nobody
    /\ edits = 0 /\ asks = 0

-----------------------------------------------------------------------------
(* Input: apply() of an edited neutral state; what the edit or the profile *)
(* refuses changes nothing.                                                *)

Edited(e) ==
    CASE e.by = "buttons"  -> WithButtons(NeutralInput, e.buttons)
      [] e.by = "raw"      -> WithStick(NeutralInput, e.side, RawStick(e.x, e.y))
      [] e.by = "tilt"     -> WithStick(NeutralInput, e.side, Tilt(e.x, e.y))
      [] e.by = "gyro"     -> WithSamples(NeutralInput, "gyro", e.samples)
      [] e.by = "accel"    -> WithSamples(NeutralInput, "accel", e.samples)
      [] e.by = "rate"     -> WithSamples(NeutralInput, "gyro", <<GyroRaw(e.sample)>>)
      [] e.by = "g"        -> WithSamples(NeutralInput, "accel", <<AccelRaw(e.sample)>>)

Applies(e) ==
    /\ edits < MaxEdits /\ now <= LastTurn
    /\ edits' = edits + 1
    /\ LET new == Edited(e)
       IN  IF IF new = Refused THEN FALSE ELSE Shows(profile, new)
           THEN input' = new /\ asked' = e
           ELSE UNCHANGED <<input, asked>>
    /\ UNCHANGED <<profile, session, timer, wire, asks, pacing>>

-----------------------------------------------------------------------------
(* Input reports.                                                          *)

(* encode_imu: the block, and the encoding state it leaves.  A quaternion  *)
(* turns with the gyroscope, once a previous report gives it a time.       *)
Turned(s, frames) ==
    IF s.known /\ \E f \in 1 .. 3 : SubSeq(frames[f], 4, 6) # <<0, 0, 0>>
    THEN Orientations \cup {s.orientation}
    ELSE {s.orientation}

Block(mode, frames, q) ==
    CASE mode = 0 -> Zeros(36)
      [] mode = 1 -> StandardImu(frames)
      [] OTHER    -> QuaternionImu(frames, q, now)

Submits ==
    /\ Sends
    /\ \E q \in Turned(session, input.frames) :
         /\ session' =
              IF session.mode < 2 THEN Epoch(session, session.mode)
              ELSE [session EXCEPT !.orientation = q, !.known = TRUE]
         /\ wire' = [by |-> "input", at |-> now, shown |-> input, asked |-> asked,
                     mode |-> session.mode, orientation |-> q, timer |-> timer,
                     report |-> Build0x30(profile, input, timer,
                                          Block(session.mode, input.frames, q))]
    /\ UNCHANGED <<profile, input, asked, timer, edits, asks>>

(* _advance_timer, once the transport has accepted the report.             *)
Accepted ==
    /\ Sent
    /\ timer' = (timer + 1) % 256
    /\ UNCHANGED <<profile, input, asked, session, wire, edits, asks>>

-----------------------------------------------------------------------------
(* Requests.  A request is what the host means: over which channel, with   *)
(* which HIDP header or report type, which report, and what is in it.      *)

HostReport(r) ==
    CASE r.report = "subcommand" ->
            <<1, 0>> \o Zeros(r.rumble) \o <<r.sub>> \o r.args
      [] r.report = "rumble"     -> <<\h10, 0>> \o Zeros(r.rumble)
      [] r.report = "empty"      -> <<>>
      [] r.report = "other"      -> <<\h11, 0>>

Received(r) ==
    IF r.via = "set_report"
    THEN FromSetReport(r.header, Head(HostReport(r)), Tail(HostReport(r)))
    ELSE Unframed(<<r.header>> \o HostReport(r))

Transition(s, sub, arg) ==
    CASE sub = \h03 -> [s EXCEPT !.supported = (arg = \h30)]
      [] sub = \h30 -> [s EXCEPT !.lit = (arg # 0)]
      [] sub = \h40 -> Epoch(s, arg)
      [] OTHER      -> s

(* dispatch: the reply shows the input once the host has set up reports    *)
(* and lights, neutral until then; it is the session before the request    *)
(* that decides.                                                           *)
ReplyTo(sub, args) ==
    LET data == ReplyData(profile, Address, sub, args)
    IN  IF data = Refused THEN Refused
        ELSE Build0x21(profile,
                       IF session.supported /\ session.lit THEN input
                                                           ELSE NeutralInput,
                       timer, sub, data)

Silence(r) == [by |-> "silence", request |-> r]

Answers(r) ==
    LET got == Parsed(Received(r))
        reply == IF got \in {Refused, Rumble} THEN Refused
                 ELSE ReplyTo(got.sub, got.args)
    IN  IF reply = Refused
        THEN wire' = Silence(r) /\ UNCHANGED <<session, timer>>
        ELSE /\ wire' = [by |-> "reply", request |-> r, report |-> reply,
                         timer |-> timer, was |-> session, shown |-> input]
             /\ session' = Transition(session, got.sub,
                                      IF got.args = <<>> THEN 0 ELSE got.args[1])
             /\ timer' = (timer + 1) % 256

(* A request while no input report holds the sender lock.                  *)
Asks(r) ==
    /\ pace.at # "send" /\ asks < MaxAsks /\ now <= LastTurn
    /\ asks' = asks + 1
    /\ Answers(r)
    /\ UNCHANGED <<profile, input, asked, edits, pacing>>

Next ==
    \/ \E e \in Edits(profile) : Applies(e)
    \/ \E r \in Requests(profile) : Asks(r)
    \/ Submits
    \/ Accepted
    \/ Tick /\ wire' = Nobody
            /\ UNCHANGED <<profile, input, asked, session, timer, edits, asks>>
    \/ (Stops \/ SendRaises) /\ UNCHANGED content

Spec == Init /\ [][Next]_vars

-----------------------------------------------------------------------------
(* What the host reads.                                                    *)

Unsigned(bytes, start, width) ==
    MapThenSumSet(LAMBDA b : Bit(bytes, start + b) * 2 ^ b, 0 .. width - 1)

Signed(bytes, start, width) ==
    Unsigned(bytes, start, width) - Bit(bytes, start + width - 1) * 2 ^ width

SeenButtons(r) ==
    {b \in DOMAIN profile.buttons :
        Bit(r, 8 * profile.buttons[b][1] + profile.buttons[b][2]) = 1}

SeenStick(r, at) ==
    [x |-> r[at + 1] + 256 * (r[at + 2] % 16),
     y |-> (r[at + 2] \div 16) + 16 * r[at + 3]]

(* The controls in the first 13 bytes, and no bit of another button.       *)
SeesControls(r, shown) ==
    /\ SeenButtons(r) = shown.buttons
    /\ MapThenSumSet(LAMBDA i : Bit(r, i), 24 .. 47) = Cardinality(shown.buttons)
    /\ SeenStick(r, 6) = shown.left /\ SeenStick(r, 9) = shown.right

(* Byte 13 is where the IMU block starts.                                  *)
SeenAxis(r, f, a) == Signed(r, 104 + 96 * (f - 1) + 16 * (a - 1), 16)

SeesAxes(r, frames, last) ==
    \A f \in 1 .. 3, a \in 1 .. last : SeenAxis(r, f, a) = frames[f][a]

(* The three components sent say where each of the quaternion's lies, to   *)
(* 1/2^20, after the sign of the one left out, the largest.                *)
SeesOrientation(r, q) ==
    LET left == Unsigned(r, 104 + 50, 2)
        sign == IF q[left + 1] < 0 THEN -1 ELSE 1
        sent == <<Signed(r, 104 + 52, 21), Signed(r, 104 + 73, 21),
                  Unsigned(r, 104 + 94, 2) + 4 * Signed(r, 104 + 144, 19)>>
    IN  /\ Unsigned(r, 104 + 48, 2) = 2 /\ Unsigned(r, 104 + 282, 6) = 3
        /\ \A j \in 1 .. 4 : Size(q[j]) <= Size(q[left + 1])
        /\ \A n \in 1 .. 3 :
             q[((left + n) % 4) + 1] * sign - 1024 * sent[n] \in 0 .. 1023

(* What a caller asked for in other units: a tilt goes to its side, and to *)
(* the end for a whole one; the host's scales, from the calibration it     *)
(* reads in the flash (4 G and 936 degrees per second), give back the      *)
(* acceleration, and the rate to half a step.                              *)
Side(n) == IF n < 0 THEN -1 ELSE IF n > 0 THEN 1 ELSE 0

SeesTilt(n, x) ==
    Side(x - Center) = Side(n) /\ (Size(n) = Steps => x \in {0, 4095})

Reference(address, i) == Signed(ReadFlash(profile, address, 12), 48 + 16 * (i - 1), 16)

SeesAsked(r, e) ==
    CASE e.by = "tilt" ->
            LET stick == SeenStick(r, IF e.side = "left" THEN 6 ELSE 9)
            IN  SeesTilt(e.x, stick.x) /\ SeesTilt(e.y, stick.y)
      [] e.by = "g" /\ wire.mode > 0 ->
            \A f \in 1 .. 3, i \in 1 .. 3 :
                SeenAxis(r, f, i) * 32 = e.sample[i] * Reference(\h6020, i)
      [] e.by = "rate" /\ wire.mode = 1 ->
            \A f \in 1 .. 3, i \in 1 .. 3 :
                /\ Size(7 * SeenAxis(r, f, i + 3) - e.sample[i]) <= 3
                /\ Size(7 * Reference(\h602C, i) - 93600) <= 3
      [] OTHER -> TRUE

(* An input report shows the host the buttons, sticks and motion that the  *)
(* caller asked for, in the format the host chose: build_0x30,             *)
(* encode_imu_block and the conversions of input.py and imu.py.            *)
HostSees ==
    wire.by = "input" =>
        LET r == wire.report
        IN  /\ Len(r) = 49 /\ r[1] = \h30 /\ r[2] = wire.timer
            /\ SeesControls(r, wire.shown)
            /\ SeesAsked(r, wire.asked)
            /\ CASE wire.mode = 0 -> SubSeq(r, 14, 49) = Zeros(36)
                 [] wire.mode = 1 -> SeesAxes(r, wire.shown.frames, 6)
                 [] OTHER         -> /\ SeesAxes(r, wire.shown.frames, 3)
                                     /\ SeesOrientation(r, wire.orientation)
                                     /\ Unsigned(r, 104 + 271, 11) = wire.at % 2048

(* What the documented flash holds at an address.                          *)
FlashHolds(a) ==
    LET Int16Byte(value, i) == (value \div (IF i % 2 = 0 THEN 1 ELSE 256)) % 256
    IN  CASE a = \h6012             -> profile.type
          [] a = \h601B             -> 1
          [] a \in \h6020 .. \h6025 -> 0
          [] a \in \h6026 .. \h602B -> Int16Byte(\h4000, a)
          [] a \in \h602C .. \h6031 -> 0
          [] a \in \h6032 .. \h6037 -> Int16Byte(\h343B, a)
          [] a \in \h6050 .. \h605B ->
                LET i == a - \h6050
                IN  (profile.colors[(i \div 3) + 1] \div 256 ^ (2 - (i % 3))) % 256
          [] OTHER                  -> \hFF

(* The requests a controller has to answer, and what it has to say.        *)
Answerable(sub, args) ==
    CASE sub \in {\h02, \h04, \h08, \h21} -> TRUE
      [] sub \in {\h03, \h30} -> Len(args) > 0
      [] sub = \h22 -> Len(args) > 0 /\ args[1] < 3
      [] sub = \h40 -> Len(args) > 0 /\ args[1] < 6
      [] sub = \h48 -> Len(args) > 0 /\ args[1] < 2
      [] sub = \h10 -> /\ Len(args) >= 5 /\ args[5] <= 29
                       /\ Unsigned(args, 0, 24) + args[5] <= 524288
      [] OTHER      -> FALSE

Legitimate(r) ==
    /\ r.report = "subcommand" /\ r.rumble = 8
    /\ r.header = IF r.via = "set_report" THEN 2 ELSE 162
    /\ Answerable(r.sub, r.args)

Says(sub, args, data) ==
    CASE sub = \h02 -> data[3] = profile.type /\ SubSeq(data, 5, 10) = Address
      [] sub = \h04 -> \A i \in 1 .. 7 :
            Unsigned(data, 16 * (i - 1), 16) =
                IF <<"L", "R", "ZL", "ZR", "SL", "SR", "HOME">>[i] \in profile.triggers
                THEN 300 ELSE 0
      [] sub = \h10 ->
            /\ SubSeq(data, 1, 5) = SubSeq(args, 1, 5)
            /\ \A i \in 1 .. args[5] :
                 data[i + 5] = FlashHolds(Unsigned(args, 0, 24) + i - 1)
      [] sub = \h21 -> data[1] = 1 /\ data[34] = \hC8
      [] OTHER      -> data = Zeros(35)

(* A request that is well formed and answerable gets its reply, with its   *)
(* number, its data and the controls as the session allows; any other gets *)
(* none: the HIDP decoding, the parser, the responder and the flash.       *)
RepliesRight ==
    /\ wire.by = "silence" => ~Legitimate(wire.request)
    /\ wire.by = "reply" =>
        LET r == wire.report
            ready == wire.was.supported /\ wire.was.lit
        IN  /\ Legitimate(wire.request)
            /\ Len(r) = 50 /\ r[1] = \h21 /\ r[2] = wire.timer
            /\ SeesControls(r, IF ready THEN wire.shown ELSE NeutralInput)
            /\ r[14] >= 128 /\ r[15] = wire.request.sub
            /\ Says(wire.request.sub, wire.request.args, SubSeq(r, 16, 50))

=============================================================================
