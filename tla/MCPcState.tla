----------------------------- MODULE MCPcState -----------------------------
(***************************************************************************)
(* PcState for TLC.                                                        *)
(***************************************************************************)
EXTENDS PcState
============================================================================
