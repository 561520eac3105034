------------------------------- MODULE MCPc --------------------------------
(***************************************************************************)
(* PcController for TLC: two clients, one of which may lack the device     *)
(* key; times in ticks of 0, 1, 2 and one above MaxHold = 3.               *)
(***************************************************************************)
EXTENDS PcController

Command(name) == [op |-> name, authorized |-> TRUE]

Hold(halves) == [op |-> "power_hold", authorized |-> TRUE, duration_ms |-> halves]

MCRequests ==
    {Command("power_press"), Command("reset_press"), Command("release_all"),
     [op |-> "power_press", authorized |-> FALSE],
     Hold(1), Hold(9),
     [op |-> "settings", authorized |-> TRUE,
      body |-> [local_lock |-> TRUE, power_press_ms |-> 8]],
     [op |-> "settings", authorized |-> TRUE,
      body |-> [local_lock |-> FALSE, local_lock_blocks_api |-> FALSE,
                power_press_ms |-> 1, reset_press_ms |-> 0]],
     [op |-> "config", authorized |-> TRUE,
      body |-> [local_lock |-> TRUE, local_lock_blocks_api |-> TRUE,
                power_press_ms |-> 4, default_long_press_ms |-> 10]]}

PressAndRelease == {Hold(6), Command("release_all")}

MCDefaultPrefs ==
    [local_lock |-> FALSE, local_lock_blocks_api |-> TRUE,
     power_press_ms |-> 2, reset_press_ms |-> 1, default_long_press_ms |-> 2]

Zero == {0}
============================================================================
