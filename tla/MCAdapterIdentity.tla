-------------------------- MODULE MCAdapterIdentity ---------------------------
(* Instances of AdapterIdentity for TLC.                                   *)
EXTENDS AdapterIdentity

CONSTANTS p1, p2

Request(prog, wanted, original) == [prog |-> prog, wanted |-> wanted, original |-> original]

MCRequests ==
    {Request("prepare", "a", "flash"), Request("prepare", "b", "flash"),
     Request("volatile", "a", "flash"), Request("volatile", "a", "b"),
     Request("warm", "b", "flash"), Request("read", "flash", "flash")}

=============================================================================
