-------------------------------- MODULE HidLink -------------------------------
(***************************************************************************)
(* What a HID transport promises to the controller that registered its     *)
(* callbacks (swbt/transport/base.py): the connected callback is not       *)
(* invoked again before the link it announced was announced as gone, and   *)
(* closing the transport takes the link away without a call.               *)
(***************************************************************************)
EXTENDS Naturals

VARIABLES
    link,       \* "up" after the connected callback, "down" otherwise
    call        \* alternates with every callback that is invoked

Init == link = "down" /\ call = 0

Connected == link = "down" /\ link' = "up" /\ call' = 1 - call

(* A link that never came up as far as the controller knows may also be    *)
(* announced as gone.                                                      *)
Disconnected == link' = "down" /\ call' = 1 - call

Closed == link' = "down" /\ call' = call

Next == Connected \/ Disconnected \/ Closed

Spec == Init /\ [][Next]_<<link, call>>

=============================================================================
