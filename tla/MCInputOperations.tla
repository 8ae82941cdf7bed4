-------------------------- MODULE MCInputOperations ---------------------------
(* Instances of InputOperations for TLC: a Joy-Con that has the buttons A  *)
(* and B, and one stick.                                                   *)
EXTENDS InputOperations, TLC

CONSTANTS t1, t2, closer

Request(name, buttons, sticks, sides, imu) ==
    [name |-> name, sides |-> sides,
     input |-> [buttons |-> buttons, imu |-> imu,
                sticks |-> [side \in Sides |-> IF side \in sticks THEN "tilted" ELSE "center"]]]

MCOperations ==
    {Request("press", {"A"}, {}, {}, "rest"), Request("press", {"X"}, {}, {}, "rest"),
     Request("release", {"A", "B"}, {}, {}, "rest"), Request("tap", {"A"}, {}, {}, "rest"),
     Request("tap", {"A", "B"}, {}, {}, "rest"), Request("sticks", {}, {"left"}, {"left"}, "rest"),
     Request("sticks", {}, {"right"}, {"right"}, "rest"), Request("imu", {}, {}, {}, "moved"),
     Request("neutral", {}, {}, {}, "rest"), Request("apply", {"B"}, {"left"}, {}, "rest"),
     Request("send", {"B"}, {}, {}, "rest")}

MCButtons == {"A", "B", "X"}
MCSupported == {"A", "B"}
MCSticks == {"left"}

=============================================================================
