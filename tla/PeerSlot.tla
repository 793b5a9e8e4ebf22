------------------------------ MODULE PeerSlot ------------------------------
(***************************************************************************)
(* What the coordinator promises about the charger's single BLE peer slot, *)
(* whatever its tasks, timers and callbacks do: one client at a time is    *)
(* established and not yet disconnected, a client is taken only when the   *)
(* previous one has been given back, and after the stop no client is taken *)
(* any more.                                                               *)
(***************************************************************************)
CONSTANT Conns          \* the clients that can be established

VARIABLES
    holders,            \* clients established and not yet disconnected
    stopped             \* the owner has finished shutting down

vars == <<holders, stopped>>

Init ==
    /\ holders = {}
    /\ stopped = FALSE

\* A new client is established: only while nobody else holds the slot.
Take(c) ==
    /\ ~stopped
    /\ holders = {}
    /\ holders' = {c}
    /\ UNCHANGED stopped

\* The holder is disconnected.
Give(c) ==
    /\ c \in holders
    /\ holders' = holders \ {c}
    /\ UNCHANGED stopped

\* The owner stops for good, with the slot given back.
Stop ==
    /\ ~stopped
    /\ holders = {}
    /\ stopped' = TRUE
    /\ UNCHANGED holders

Next ==
    \/ \E c \in Conns : Take(c) \/ Give(c)
    \/ Stop

Spec == Init /\ [][Next]_vars
=============================================================================
