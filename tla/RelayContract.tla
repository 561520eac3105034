--------------------------- MODULE RelayContract ---------------------------
(***************************************************************************)
(* What the relay board promises the PC: at most one of the two contacts   *)
(* is closed at any time, a closed contact opens before Limit ticks have   *)
(* gone by, and it does open.                                              *)
(***************************************************************************)
EXTENDS Integers

CONSTANTS
    Contact,    \* the two relay contacts
    None,       \* value of closed when both are open, not a contact
    Limit       \* longest time, in ticks, for which a contact is closed

VARIABLES
    closed,     \* the contact that is closed
    age         \* ticks for which it has been closed

vars == <<closed, age>>

Init == closed = None /\ age = 0

Close(c) == closed = None /\ closed' = c /\ age' = 0

Open == closed # None /\ closed' = None /\ age' = 0

Age == closed # None /\ age < Limit /\ age' = age + 1 /\ UNCHANGED closed

Next == (\E c \in Contact : Close(c)) \/ Open \/ Age

SafetySpec == Init /\ [][Next]_vars

Spec == SafetySpec /\ WF_vars(Open)
============================================================================
