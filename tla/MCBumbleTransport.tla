-------------------------- MODULE MCBumbleTransport ---------------------------
(* Instances of BumbleTransport for TLC.                                   *)
EXTENDS BumbleTransport, TLC

CONSTANTS c1, c2

=============================================================================
