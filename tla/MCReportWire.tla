----------------------------- MODULE MCReportWire ------------------------------
(* Instances of ReportWire for TLC.                                        *)
EXTENDS ReportWire

MCProfiles == {ProController, JoyConLeft, JoyConRight}

(* Every button alone, all of them, and one the profile does not have; the *)
(* ends of every stick axis and the steps around them; samples at the ends *)
(* of 16 bits, beyond them, and different for each frame.                  *)
Sides == {"left", "right"}
Gyro == <<-32768, 32767, -1>>
Accel == <<1, -2, 4096>>

MCEdits(p) ==
    {[by |-> "buttons", buttons |-> {b}] : b \in DOMAIN p.buttons \cup {"ZL"}}
    \cup {[by |-> "buttons", buttons |-> DOMAIN p.buttons]}
    \cup {[by |-> "raw", side |-> s, x |-> xy[1], y |-> xy[2]] :
            s \in Sides, xy \in {<<0, 4095>>, <<2730, 1365>>, <<4096, 0>>}}
    \cup {[by |-> "tilt", side |-> s, x |-> xy[1], y |-> xy[2]] :
            s \in Sides, xy \in {<<-8, 8>>, <<1, -1>>, <<0, 4>>, <<9, 0>>}}
    \cup {[by |-> "gyro", samples |-> s] :
            s \in {<<Gyro>>, <<Gyro, Accel, Gyro>>, <<Gyro, Gyro>>,
                   <<<<0, 0, 32768>>>>}}
    \cup {[by |-> "accel", samples |-> <<Accel, Gyro, Accel>>]}
    \cup {[by |-> "rate", sample |-> s] : s \in {<<100, -100, 229369>>, <<0, 0, 230000>>}}
    \cup {[by |-> "g", sample |-> s] : s \in {<<-64, 63, 1>>, <<64, 0, 0>>}}

MCOrientations ==
    {<<536870912, -536870912, 536870912, 536870912>>,
     <<-One, 0, 0, 0>>, <<5000, -5, -One, 7>>}

(* The subcommands with good and bad arguments, reads at the edges of the  *)
(* flash's segments and of its address space, and reports that come over   *)
(* each channel well formed and malformed.                                 *)
Asked(sub, args) ==
    [via |-> "interrupt", header |-> 162, report |-> "subcommand", rumble |-> 8,
     sub |-> sub, args |-> args]

Reads ==
    {Little(at[1], 4) \o <<at[2]>> :
        at \in {<<\h6012, 1>>, <<\h6011, 29>>, <<\h6020, 24>>, <<\h602B, 2>>,
                <<\h6037, 29>>, <<\h6050, 12>>, <<\h604F, 14>>, <<\hFFF0, 29>>,
                <<\h6020, 30>>, <<\h7FFE3, 29>>, <<\h7FFE4, 29>>, <<\h80000, 0>>}}

Channels ==
    {[Asked(2, <<>>) EXCEPT !.via = v, !.header = h, !.report = r, !.rumble = n] :
        v \in {"control", "set_report"}, h \in {162, 161, 2, 1},
        r \in {"subcommand", "rumble", "other"}, n \in {7, 8}}
    \cup {[Asked(2, <<>>) EXCEPT !.report = "empty"]}

MCRequests(p) ==
    {Asked(s, <<>>) : s \in {2, 4, 8, \h21, 3, \h10, \h30, \h40, \h48, \h22, \h50}}
    \cup {Asked(\h10, a) : a \in Reads \cup {<<\h20, \h60, 0, 0>>}}
    \cup {Asked(3, <<m>>) : m \in {\h30, \h31}}
    \cup {Asked(\h30, <<l>>) : l \in {0, 1}}
    \cup {Asked(\h40, <<m>>) : m \in {0, 1, 2, 5, 6}}
    \cup {Asked(\h48, <<v>>) : v \in {1, 2}}
    \cup {Asked(\h22, <<v>>) : v \in {2, 3}}
    \cup Channels

MCAddress == <<\h12, \h34, \h56, \h78, \h9A, \hBC>>

=============================================================================
