-------------------------- MODULE CommandContract --------------------------
(***************************************************************************)
(* What a client may rely on: a command closes the contact at most once,   *)
(* while no other command has it closed, and is answered with ESP_OK only  *)
(* when the contact has been closed and is open again.  A command that is  *)
(* answered with an error, or lost, has not closed it.                     *)
(***************************************************************************)
CONSTANT Clients

VARIABLES
    phase,      \* of each client's command: none, asked, closed, opened
    reply       \* what it was told: nothing, ESP_OK, or anything else

vars == <<phase, reply>>

Init ==
    /\ phase = [c \in Clients |-> "none"]
    /\ reply = [c \in Clients |-> "none"]

Become(c, from, to) == phase[c] = from /\ phase' = [phase EXCEPT ![c] = to]

Tell(c, answers) == \E a \in answers : reply' = [reply EXCEPT ![c] = a]

Ask(c) == Become(c, "none", "asked") /\ Tell(c, {"none"})

Close(c) ==
    /\ \A d \in Clients : phase[d] # "closed"
    /\ Become(c, "asked", "closed")
    /\ UNCHANGED reply

Open(c) == Become(c, "closed", "opened") /\ UNCHANGED reply

Done(c) == Become(c, "opened", "none") /\ Tell(c, {"ESP_OK", "gone"})

Refuse(c) == Become(c, "asked", "none") /\ Tell(c, {"other", "gone"})

GiveUp(c) == phase[c] # "none" /\ Tell(c, {"gone"}) /\ UNCHANGED phase

(* Requests that are no commands.                                          *)
OtherRequest(c) ==
    phase[c] = "none" /\ Tell(c, {"none", "ESP_OK", "other", "gone"}) /\ UNCHANGED phase

Next == \E c \in Clients :
    Ask(c) \/ Close(c) \/ Open(c) \/ Done(c) \/ Refuse(c) \/ GiveUp(c) \/ OtherRequest(c)

Spec == Init /\ [][Next]_vars
============================================================================
