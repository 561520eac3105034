---------------------------- MODULE AtomicUpdate ---------------------------
(***************************************************************************)
(* What a firmware update promises: the device has one build to boot, and  *)
(* an update exchanges it in one step for a build that was offered, or not *)
(* at all.                                                                 *)
(***************************************************************************)
CONSTANTS Builds, None

VARIABLES current, offered

Init == current \in Builds /\ offered = None

Offer(b) == offered = None /\ offered' = b /\ UNCHANGED current

Withdraw == offered' = None /\ UNCHANGED current

Exchange == offered \in Builds /\ current' = offered /\ UNCHANGED offered

Next == (\E b \in Builds : Offer(b)) \/ Withdraw \/ Exchange

Spec == Init /\ [][Next]_<<current, offered>>
============================================================================
