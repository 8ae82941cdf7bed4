------------------------- MODULE MCControllerRuntime --------------------------
(* Instances of ControllerRuntime for TLC.                                 *)
EXTENDS ControllerRuntime, TLC

CONSTANTS c1, c2, h1, h2

(* Which caller makes which requests.                                      *)
EveryRequest == [c \in Callers |-> {"open", "pair", "reconnect", "close"}]
PairAndClose == [c \in Callers |-> {"pair", "close"}]
OneOnlyCloses == [c \in Callers |-> IF c = c1 THEN {"pair", "close"} ELSE {"close"}]

=============================================================================
