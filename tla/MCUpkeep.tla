----------------------------- MODULE MCUpkeep ------------------------------
(***************************************************************************)
(* Upkeep for TLC: a build with a device key of its own and one without.   *)
(***************************************************************************)
EXTENDS Upkeep

MCBuiltIn == [b \in Builds |-> IF b = "keyed" THEN "secret" ELSE NoKey]

(* A static address with a new key, a malformed address, and no static     *)
(* address with an empty key.                                              *)
MCPosted ==
    {[wifi_ip |-> "a", wifi_use_static |-> TRUE, api_token |-> "own"],
     [wifi_ip |-> Malformed],
     [wifi_use_static |-> FALSE, api_token |-> NoKey]}

(* As in a backup with its secrets, of a device that had no key; without   *)
(* clear_static_ip the address is put in force unseen.                     *)
MCImported == {[wifi_ip |-> "b", wifi_use_static |-> TRUE, api_token |-> NoKey]}
============================================================================
