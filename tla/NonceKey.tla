------------------------------ MODULE NonceKey ------------------------------
(***************************************************************************)
(* The life of one AES-CCM key whose nonce is a counter: every counter up  *)
(* to a limit encrypts once, in order, and none after the key was given    *)
(* up.                                                                     *)
(***************************************************************************)
EXTENDS Naturals, Sequences

CONSTANT Limit      \* the largest counter

VARIABLES
    used,           \* the counters something was encrypted with, in order
    closed          \* the key has been given up

vars == <<used, closed>>

Init == used = <<>> /\ closed = FALSE

\* Encrypt once more: n earlier encryptions have used 0 .. n - 1.
Encrypt ==
    /\ ~closed /\ Len(used) <= Limit
    /\ used' = Append(used, Len(used))
    /\ UNCHANGED closed

GiveUp ==
    /\ ~closed /\ closed' = TRUE
    /\ UNCHANGED used

Next == Encrypt \/ GiveUp

Spec == Init /\ [][Next]_vars
=============================================================================
