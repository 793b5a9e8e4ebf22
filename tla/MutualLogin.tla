----------------------------- MODULE MutualLogin -----------------------------
(***************************************************************************)
(* What a login promises, whatever frames it takes: the charger shows that *)
(* it knows the token for one pair of random numbers, only then does the   *)
(* host show the same, only then does the charger open a session for that  *)
(* pair, and only then are the keys handed to the caller.                  *)
(***************************************************************************)
CONSTANT NoPair
VARIABLES
    shown,          \* pairs for which the charger has shown its knowledge
    answered,       \* pairs for which the host has
    session,        \* the pair the charger's session is for
    returned        \* the pair whose keys the caller was given

vars == <<shown, answered, session, returned>>

Init == /\ shown = {} /\ answered = {}
        /\ session = NoPair /\ returned = NoPair

Show == /\ shown \subseteq shown'
        /\ UNCHANGED <<answered, session, returned>>

Answer == /\ answered \subseteq answered' /\ answered' \subseteq shown
          /\ UNCHANGED <<shown, session, returned>>

Open == /\ session' \in answered
        /\ UNCHANGED <<shown, answered, returned>>

Close == /\ session' = NoPair
         /\ UNCHANGED <<shown, answered, returned>>

Return == /\ session # NoPair
          /\ returned' = session
          /\ UNCHANGED <<shown, answered, session>>

Forget == /\ returned' = NoPair
          /\ UNCHANGED <<shown, answered, session>>

Next == Show \/ Answer \/ Open \/ Close \/ Return \/ Forget

Spec == Init /\ [][Next]_vars
=============================================================================
