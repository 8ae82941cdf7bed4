---------------------------- MODULE ReportFormats -----------------------------
(***************************************************************************)
(* The bytes of the reports: input states (swbt/input.py, imu.py) and how  *)
(* they are packed (protocol/input_report.py, imu_report.py, buttons.py),  *)
(* the virtual SPI flash (spi.py), the controller profiles, and the parts  *)
(* of a request and its reply (output_report.py, subcommand.py).  Bytes    *)
(* are numbers, a report is a sequence of them.                            *)
(***************************************************************************)
EXTENDS Integers, Sequences, FiniteSetsExt, SequencesExt

CONSTANT Refused    \* what raises

(* The n lowest bytes of value, low byte first; negative values wrap.      *)
Little(value, n) == [i \in 1 .. n |-> (value \div 256 ^ (i - 1)) % 256]

Big(value, n) == Reverse(Little(value, n))

Bit(bytes, i) == (bytes[(i \div 8) + 1] \div 2 ^ (i % 8)) % 2

(* The bits a value sets when it is written at start, low bit first.       *)
Field(start, width, value) ==
    {start + b : b \in {c \in 0 .. width - 1 : (value \div 2 ^ c) % 2 = 1}}

(* The bytes whose set bits are those given: _put_bits only ever adds bits.*)
FromBits(bits, n) ==
    [i \in 1 .. n |->
        MapThenSumSet(LAMBDA b : 2 ^ b, {b \in 0 .. 7 : 8 * (i - 1) + b \in bits})]

Zeros(n) == [i \in 1 .. n |-> 0]

-----------------------------------------------------------------------------
(* Controller profiles.  A button is placed by <<byte, bit>>.              *)

ProButtons ==
    [Y |-> <<3, 0>>, X |-> <<3, 1>>, B |-> <<3, 2>>, A |-> <<3, 3>>,
     R |-> <<3, 6>>, ZR |-> <<3, 7>>, MINUS |-> <<4, 0>>, PLUS |-> <<4, 1>>,
     RIGHT_STICK |-> <<4, 2>>, LEFT_STICK |-> <<4, 3>>, HOME |-> <<4, 4>>,
     CAPTURE |-> <<4, 5>>, DPAD_DOWN |-> <<5, 0>>, DPAD_UP |-> <<5, 1>>,
     DPAD_RIGHT |-> <<5, 2>>, DPAD_LEFT |-> <<5, 3>>, L |-> <<5, 6>>,
     ZL |-> <<5, 7>>]

LeftButtons ==
    [MINUS |-> <<4, 0>>, LEFT_STICK |-> <<4, 3>>, CAPTURE |-> <<4, 5>>,
     DPAD_DOWN |-> <<5, 0>>, DPAD_UP |-> <<5, 1>>, DPAD_RIGHT |-> <<5, 2>>,
     DPAD_LEFT |-> <<5, 3>>, SR |-> <<5, 4>>, SL |-> <<5, 5>>, L |-> <<5, 6>>,
     ZL |-> <<5, 7>>]

RightButtons ==
    [Y |-> <<3, 0>>, X |-> <<3, 1>>, B |-> <<3, 2>>, A |-> <<3, 3>>,
     SR |-> <<3, 4>>, SL |-> <<3, 5>>, R |-> <<3, 6>>, ZR |-> <<3, 7>>,
     PLUS |-> <<4, 1>>, RIGHT_STICK |-> <<4, 2>>, HOME |-> <<4, 4>>]

ProController ==
    [type |-> 3, tail |-> <<3, 2>>, buttons |-> ProButtons, sticks |-> {"left", "right"},
     triggers |-> {"L", "R"},
     colors |-> <<\h323232, \hFFFFFF, \h00B2FF, \hFF3B30>>]

JoyConLeft ==
    [type |-> 1, tail |-> <<1, 1>>, buttons |-> LeftButtons, sticks |-> {"left"},
     triggers |-> {"SL", "SR"},
     colors |-> <<\h00B2FF, \h323232, \h00B2FF, \h00B2FF>>]

JoyConRight ==
    [type |-> 2, tail |-> <<1, 1>>, buttons |-> RightButtons, sticks |-> {"right"},
     triggers |-> {"SL", "SR"},
     colors |-> <<\hFF3B30, \h323232, \hFF3B30, \hFF3B30>>]

ImuModes == 0 .. 5
BatteryConnection == \h80
VibratorInput == 0

AccelCalibration == <<0, 0, 0, \h4000, \h4000, \h4000>>
GyroCalibration == <<0, 0, 0, \h343B, \h343B, \h343B>>

-----------------------------------------------------------------------------
(* Input states.  A frame is <<accel xyz, gyro xyz>>.                      *)

Center == 2048
Centered == [x |-> Center, y |-> Center]

NeutralFrame == <<0, 0, 0, 0, 0, 0>>

NeutralInput ==
    [buttons |-> {}, left |-> Centered, right |-> Centered,
     frames |-> <<NeutralFrame, NeutralFrame, NeutralFrame>>]

(* round(n / d): the nearest integer, of two the even one.                 *)
Rounded(n, d) ==
    LET q == (2 * n + d) \div (2 * d)
    IN  IF (2 * n + d) % (2 * d) = 0 /\ q % 2 = 1 THEN q - 1 ELSE q

(* A normalized axis is n / Steps, from -1 to 1.                           *)
Steps == 8

Axis(n) ==
    Center + IF n < 0 THEN Rounded(n * Center, Steps)
                      ELSE Rounded(n * (4095 - Center), Steps)

(* Stick.raw and Stick.tilt; up, down, left and right tilt along one axis. *)
RawStick(x, y) ==
    IF {x, y} \subseteq 0 .. 4095 THEN [x |-> x, y |-> y] ELSE Refused

Tilt(x, y) ==
    IF {x, y} \subseteq -Steps .. Steps THEN RawStick(Axis(x), Axis(y)) ELSE Refused

Valid(axes) == \A i \in 1 .. 3 : axes[i] \in -32768 .. 32767

WithAxes(frame, sensor, axes) ==
    IF sensor = "gyro" THEN SubSeq(frame, 1, 3) \o axes ELSE axes \o SubSeq(frame, 4, 6)

(* accel_g in eighths of a G at 4096 per G, gyro_rate in hundredths of a   *)
(* degree per second at 0.07 degrees per second.                           *)
AccelRaw(eighths) == [i \in 1 .. 3 |-> Rounded(4096 * eighths[i], 8)]
GyroRaw(hundredths) == [i \in 1 .. 3 |-> Rounded(hundredths[i], 7)]

(* One sample serves all three frames, three serve one each.               *)
Samples(samples) ==
    CASE Len(samples) = 1 -> <<samples[1], samples[1], samples[1]>>
      [] Len(samples) = 3 -> samples
      [] OTHER            -> Refused

(* with_gyro and with_accel: each sample goes into its frame.              *)
WithSamples(input, sensor, samples) ==
    IF Samples(samples) = Refused \/ \E i \in DOMAIN samples : ~Valid(samples[i])
    THEN Refused
    ELSE [input EXCEPT !.frames =
            [i \in 1 .. 3 |-> WithAxes(input.frames[i], sensor, Samples(samples)[i])]]

WithButtons(input, buttons) == [input EXCEPT !.buttons = buttons]

WithStick(input, side, stick) ==
    IF stick = Refused THEN Refused
    ELSE IF side = "left" THEN [input EXCEPT !.left = stick]
                          ELSE [input EXCEPT !.right = stick]

(* What validate_input_state lets through for a profile.                   *)
Shows(p, input) ==
    /\ input.buttons \subseteq DOMAIN p.buttons
    /\ "left" \notin p.sticks => input.left = Centered
    /\ "right" \notin p.sticks => input.right = Centered

-----------------------------------------------------------------------------
(* Packing an input state into a report.                                   *)

PackStick(stick) ==
    <<stick.x % 256,
      ((stick.x \div 256) % 16) + (stick.y % 16) * 16,
      (stick.y \div 16) % 256>>

PackButtons(p, buttons) ==
    SubSeq(FromBits({8 * p.buttons[b][1] + p.buttons[b][2] : b \in buttons}, 6), 4, 6)

(* What three of the axes of each frame set, from 12 bytes a frame.        *)
Axes(frames, from, to) ==
    UNION {Field(96 * (f - 1) + 16 * (a - 1), 16, frames[f][a]) :
             f \in 1 .. 3, a \in from .. to}

StandardImu(frames) == FromBits(Axes(frames, 1, 6), 36)

(* An orientation is a quaternion <<x, y, z, w>> in units of 2^-30.  The   *)
(* component of largest size is left out and the others take its sign.     *)
One == \h40000000

Size(n) == IF n < 0 THEN -n ELSE n

LargestOf(q) ==
    CHOOSE i \in 1 .. 4 :
        /\ \A j \in 1 .. 4 : Size(q[j]) <= Size(q[i])
        /\ \A j \in 1 .. i - 1 : Size(q[j]) < Size(q[i])

(* Seeded bug: the sign of the one left out is forgotten.              *)
ComponentUnsigned(q, n) == q[((LargestOf(q) + n) % 4) + 1] \div 1024

Component(q, n) ==
    LET sign == IF q[LargestOf(q)] < 0 THEN -1 ELSE 1
    IN  (q[((LargestOf(q) + n) % 4) + 1] * sign) \div 1024

QuaternionImu(frames, q, millis) ==
    FromBits(Axes(frames, 1, 3)
             \cup Field(48, 2, 2) \cup Field(50, 2, LargestOf(q) - 1)
             \cup Field(52, 21, Component(q, 0))
             \cup Field(73, 21, Component(q, 1))
             \cup Field(94, 2, Component(q, 2))
             \cup Field(144, 19, Component(q, 2) \div 4)
             \cup Field(271, 11, millis) \cup Field(282, 6, 3), 36)

Build0x30(p, input, timer, block) ==
    <<\h30, timer % 256, BatteryConnection>> \o PackButtons(p, input.buttons)
    \o PackStick(input.left) \o PackStick(input.right) \o <<VibratorInput>> \o block

-----------------------------------------------------------------------------
(* The virtual SPI flash.                                                  *)

Int16s(values) == FlattenSeq([i \in DOMAIN values |-> Little(values[i], 2)])

Colors(p) == FlattenSeq([i \in 1 .. 4 |-> Big(p.colors[i], 3)])

Segments(p) ==
    {[at |-> \h6012, data |-> <<p.type>>], [at |-> \h601B, data |-> <<1>>],
     [at |-> \h6050, data |-> Colors(p)],
     [at |-> \h6020, data |-> Int16s(AccelCalibration)],
     [at |-> \h602C, data |-> Int16s(GyroCalibration)]}

(* No segment lies beyond STORAGE_SIZE: what is not stored reads as erased.*)
FlashByte(p, address) ==
    LET Holding == {s \in Segments(p) : address - s.at \in 0 .. Len(s.data) - 1}
    IN  IF Holding = {} THEN \hFF
        ELSE LET s == CHOOSE t \in Holding : TRUE IN s.data[address - s.at + 1]

(* Seeded bug: the last byte of the address space cannot be read.      *)
ReadFlashShort(p, address, size) ==
    IF size > \h1D \/ address < 0 \/ address + size >= \h80000
    THEN Refused
    ELSE [i \in 1 .. size |-> FlashByte(p, address + i - 1)]

ReadFlash(p, address, size) ==
    IF size > \h1D \/ address < 0 \/ address + size > \h80000
    THEN Refused
    ELSE [i \in 1 .. size |-> FlashByte(p, address + i - 1)]

-----------------------------------------------------------------------------
(* The reply to a subcommand: its acknowledgement and its data.            *)

Ack(byte, data) == IF data = Refused THEN Refused ELSE [ack |-> byte, data |-> data]

DeviceInfo(p, address) == <<4, 0, p.type, 2>> \o address \o p.tail

(* 300 ticks, for the buttons that start pairing.                          *)
TriggerTimes(p) ==
    LET Order == <<"L", "R", "ZL", "ZR", "SL", "SR", "HOME">>
    IN  FlattenSeq([i \in 1 .. 7 |-> IF Order[i] \in p.triggers THEN Little(300, 2)
                                                                ELSE <<0, 0>>])

McuConfig ==
    <<1, 0, \hFF, 0, 8, 0, \h1B, 1>> \o Zeros(25) \o <<\hC8>>

ReadReply(p, args) ==
    LET address == args[1] + 256 * args[2] + 65536 * args[3] + 16777216 * args[4]
        data == ReadFlash(p, address, args[5])
    IN  IF Len(args) < 5 THEN Refused
        ELSE IF data = Refused THEN Refused ELSE SubSeq(args, 1, 5) \o data

(* The first argument, where it is one of those accepted.                  *)
WithArgument(args, accepted) ==
    IF args = <<>> THEN Refused ELSE IF args[1] \in accepted THEN <<>> ELSE Refused

ReplyData(p, address, sub, args) ==
    CASE sub = \h02            -> Ack(\h82, DeviceInfo(p, address))
      [] sub \in {\h03, \h30}  -> Ack(\h80, WithArgument(args, 0 .. 255))
      [] sub = \h04            -> Ack(\h83, TriggerTimes(p))
      [] sub = \h08            -> Ack(\h80, <<>>)
      [] sub = \h10            -> Ack(\h90, ReadReply(p, args))
      [] sub = \h21            -> Ack(\hA0, McuConfig)
      [] sub = \h22            -> Ack(\h80, WithArgument(args, 0 .. 2))
      [] sub = \h40            -> Ack(\h80, WithArgument(args, ImuModes))
      [] sub = \h48            -> Ack(\h80, WithArgument(args, 0 .. 1))
      [] OTHER                 -> Refused

(* The prefix of an input report, then the acknowledgement, the subcommand *)
(* it answers and the data, in 50 bytes.                                   *)
Build0x21(p, input, timer, sub, answer) ==
    LET prefix == SubSeq(Build0x30(p, input, timer, Zeros(36)), 2, 13)
    IN  IF Len(answer.data) > 35 THEN Refused
        ELSE <<\h21>> \o prefix \o <<answer.ack, sub>> \o answer.data
             \o Zeros(35 - Len(answer.data))

-----------------------------------------------------------------------------
(* A report of the host, out of what its transport hands over: a PDU of    *)
(* the interrupt or control channel, or a SET_REPORT.                      *)

Unframed(pdu) ==
    IF pdu = <<>> THEN Refused
    ELSE IF pdu[1] \div 16 = 10 /\ pdu[1] % 4 = 2 THEN Tail(pdu) ELSE Refused

FromSetReport(type, id, data) ==
    IF type = 2 /\ id \in 0 .. 255 THEN <<id>> \o data ELSE Refused

(* Parsed into its subcommand, or none: a rumble report (0x10).            *)
NoSubcommand == -1
Rumble == [sub |-> NoSubcommand, args |-> <<>>]

Parsed(report) ==
    CASE report = Refused \/ report = <<>>      -> Refused
      [] report[1] = 1 /\ Len(report) >= 11     ->
            [sub |-> report[11], args |-> SubSeq(report, 12, Len(report))]
      [] report[1] = \h10 /\ Len(report) >= 10  -> Rumble
      [] OTHER                                  -> Refused

=============================================================================
