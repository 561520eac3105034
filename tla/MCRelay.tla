------------------------------ MODULE MCRelay ------------------------------
(***************************************************************************)
(* RelayController for TLC.                                                *)
(***************************************************************************)
EXTENDS RelayController, TLC

Zero == {0}
EveryTick == 0 .. TickMod - 1
CallerSymmetry == Permutations(Callers)
============================================================================
