------------------------ MODULE EntrySetupProperties ------------------------
(***************************************************************************)
(* What setting up and unloading an entry have to guarantee.               *)
(***************************************************************************)
EXTENDS EntrySetup

Lifecycles == {"not_loaded", "refreshing", "forwarding", "loaded", "retry",
               "error", "unloading", "stopping", "failed"}
Entries == [token : Tokens, options : Nat]
Areas == {NoArea, "kitchen", "bedroom"}
Devices == [exists : BOOLEAN, linked : BOOLEAN, area : Areas,
            version : BOOLEAN]

\* Every variable keeps its type.
EntryType == data \in Entries /\ used \in Entries /\ edits \in Nat
StateType ==
    /\ lifecycle \in Lifecycles
    /\ listening \in BOOLEAN /\ again \in BOOLEAN /\ asks \in BOOLEAN
    /\ visible \in BOOLEAN
    /\ reloads \in Nat /\ faults \in Nat
LinkType == setups \in Nat /\ held \subseteq 0..setups
RegistryType ==
    /\ parent \in [exists : BOOLEAN, area : Areas]
    /\ child \in [Ports -> Devices]
    /\ legacy \in [Keys -> {"none", "ours", "theirs"}]
TypeOK == EntryType /\ StateType /\ LinkType /\ RegistryType

\* An entry that is not loaded leaves the charger to the phone: no coordinator
\* of an earlier setup, reload or failed platform still holds its connection.
FreeWhenStopped ==
    /\ Cardinality(held) <= 1
    /\ lifecycle \in {"not_loaded", "retry", "error", "refreshing"} => held = {}

\* A loaded entry works with the token and options that are stored, unless a
\* reload that will see to it is waiting.
LoadedIsCurrent == lifecycle = "loaded" /\ reloads = 0 => used = data

\* A new token is asked for only when the stored one is none, or is not the
\* charger's: a charger out of reach is tried again instead.
AsksOnlyIfRejected ==
    [][~asks /\ asks' => data.token # ChargersToken
                         \/ used.token # ChargersToken]_vars

\* A first refresh that fails for another reason than the token is tried again
\* until it succeeds: the entry does not stay down waiting for a new token.
Tried == lifecycle \in {"retry", "refreshing"} /\ ~asks /\ used = data
         /\ data.token = ChargersToken /\ edits = MaxEdits
TriedAgain == Tried ~> (lifecycle = "loaded" \/ (lifecycle = "error" /\ ~asks))
=============================================================================
