---------------------------- MODULE MCRelayOne -----------------------------
(***************************************************************************)
(* RelayTiming for TLC: calls begin at tick 0, or shortly before the       *)
(* counter wraps.                                                          *)
(***************************************************************************)
EXTENDS RelayTiming

AroundTheWrap == {0} \cup (TickMod - 7 .. TickMod - 1)
============================================================================
