------------------------------ MODULE MCPins -------------------------------
(***************************************************************************)
(* RelayPins for TLC: the pins of the build configuration, one more, one   *)
(* that is not allowed (USB), and one that is allowed but that the         *)
(* ESP32-S3 does not have.                                                 *)
(***************************************************************************)
EXTENDS RelayPins

Trio(p, r, s) == [power |-> p, reset |-> r, sense |-> s]

MCDefaults == Trio(4, 5, 6)

(* The defaults, moves that exchange relays and sense, one to another pin, *)
(* a bad choice, and one absent pin in each place.                         *)
MCPosted ==
    {Trio(4, 5, 6), Trio(5, 6, 4), Trio(4, 19, 6),
     Trio(22, 5, 4), Trio(6, 22, 13), Trio(13, 4, 22)}

AbsentPosted == {Trio(13, 22, 6)}
============================================================================
