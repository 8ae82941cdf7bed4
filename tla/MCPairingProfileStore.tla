------------------------- MODULE MCPairingProfileStore -------------------------
(* Instances of PairingProfileStore for TLC.                               *)
EXTENDS PairingProfileStore, TLC

CONSTANTS p1, p2, hciA, hciB, local

MCAdapter == (p1 :> hciA) @@ (p2 :> hciB)

=============================================================================
