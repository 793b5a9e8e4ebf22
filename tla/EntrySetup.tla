----------------------------- MODULE EntrySetup -----------------------------
(***************************************************************************)
(* __init__.py: setting up and unloading the entry of one charger, and     *)
(* what Home Assistant does around it (external): it serialises setup and  *)
(* unload, tries a setup that was not ready again, asks for a new token    *)
(* when one was rejected, reloads the entry on request, and runs what was  *)
(* registered with async_on_unload when a setup fails or an unload         *)
(* succeeds: the update listener and, because the coordinator is given the *)
(* entry, the coordinator's async_shutdown.                                *)
(***************************************************************************)
EXTENDS Naturals, Sequences, FiniteSets

CONSTANTS
    Tokens,         \* tokens the entry may hold
    NotHex, Short,  \* those that are no 12 bytes of hexadecimal
    ChargersToken,  \* the charger's
    Ports,          \* PORTS
    Keys,           \* UNSAFE_LEGACY_SWITCH_KEYS
    EditDuringSetup,\* whether options may change while a setup is under way
    MaxEdits,       \* bound on changes of token or options
    MaxFaults       \* bound on setups, unloads and links that fail

ASSUME EntryConstants ==
    /\ {NotHex, Short, ChargersToken} \subseteq Tokens
    /\ ChargersToken \notin {NotHex, Short}
    /\ EditDuringSetup \in BOOLEAN
    /\ MaxEdits \in Nat /\ MaxFaults \in Nat

VARIABLES
    lifecycle,      \* of the entry: ConfigEntryState, and where a step awaits
    data,           \* the token and the options of the entry
    setups,         \* how many coordinators were made
    used,           \* the token and options of the present one
    held,           \* the coordinators that hold the charger's one connection
    listening,      \* whether _async_update_listener is registered
    reloads,        \* reloads requested and not begun
    again,          \* whether the unload under way is part of a reload
    asks,           \* whether Home Assistant asks for a new token
    visible,        \* whether the address was seen advertising
    parent,         \* the charger's device: its existence and area
    child,          \* the device of each port
    legacy,         \* owners of the switches older versions registered
    edits, faults

vars == <<lifecycle, data, setups, used, held, listening, reloads, again,
          asks, visible, parent, child, legacy, edits, faults>>
links == <<used, held>>
registry == <<parent, child, legacy>>
limits == <<edits, faults>>

NoArea == "none"
Absent == [exists |-> FALSE, linked |-> FALSE, area |-> NoArea,
           version |-> FALSE]
\* Devices of an earlier version: perhaps orphans, with a version of their own.
Old == [exists |-> TRUE, linked |-> FALSE, area |-> NoArea, version |-> TRUE]
Placed == [Old EXCEPT !.area = "bedroom"]

Init ==
    /\ lifecycle = "not_loaded" /\ again = TRUE
    /\ \E token \in Tokens : data = [token |-> token, options |-> 0]
    /\ setups = 0 /\ used = data /\ held = {} /\ listening = FALSE
    /\ reloads = 0 /\ asks = FALSE /\ visible = TRUE
    /\ parent \in {[exists |-> FALSE, area |-> NoArea],
                   [exists |-> TRUE, area |-> "kitchen"]}
    /\ child \in [Ports -> IF parent.exists THEN {Absent, Old, Placed}
                           ELSE {Absent, Old}]
    /\ legacy \in [Keys -> {"none", "ours", "theirs"}]
    /\ edits = 0 /\ faults = 0

Fault == faults < MaxFaults /\ faults' = faults + 1
Edit == edits < MaxEdits /\ edits' = edits + 1
-----------------------------------------------------------------------------
(***************************************************************************)
(* Setting up.                                                             *)
(***************************************************************************)
\* Mutant: the coordinator does not belong to the entry.
OnUnload_ListenerOnly ==
    /\ listening' = FALSE /\ held' = held

\* What Home Assistant runs when a setup has failed or an unload succeeded.
OnUnload == listening' = FALSE /\ held' = held \ {setups}

\* _remove_unsafe_legacy_entities
Unregistered ==
    [k \in Keys |-> IF legacy[k] = "ours" THEN "none" ELSE legacy[k]]

Malformed == {NotHex, Short}

NewCoordinator == setups + 1

\* Mutant: the update listener is not added.
Listens_Never == FALSE

\* The update listener is added once the first refresh has succeeded.
Listens == TRUE

\* async_setup_entry up to the first refresh.
async_setup_entry ==
    /\ lifecycle = "retry" \/ (lifecycle = "not_loaded" /\ again)
    /\ legacy' = Unregistered
    /\ UNCHANGED <<data, listening, reloads, again, visible, parent, child,
                   limits, held>>
    /\ \/ /\ ~visible /\ lifecycle' = "retry"
          /\ UNCHANGED <<setups, used, asks>>
       \/ /\ visible /\ data.token \in Malformed
          /\ lifecycle' = "error" /\ asks' = TRUE
          /\ UNCHANGED <<setups, used>>
       \/ /\ visible /\ data.token \notin Malformed
          /\ setups' = NewCoordinator /\ used' = data
          /\ lifecycle' = "refreshing"
          /\ UNCHANGED asks

\* What the first refresh may raise, from the error caught to its first cause.
Rejections == {<<"AuthFailed", "InvalidToken">>,
               <<"NotReady", "UpdateFailed", "InvalidToken">>}
Failures == {<<"NotReady">>, <<"NotReady", "UpdateFailed", "Timeout">>}

\* Mutant: any failure of the first refresh counts as a rejected token.
_is_invalid_token_failure_Any(chain) == TRUE

_is_invalid_token_failure(chain) ==
    \E i \in DOMAIN chain : chain[i] = "InvalidToken"

\* The devices of the ports after _ensure_device_hierarchy.
Repaired(device, area) ==
    IF ~device.exists THEN device
    ELSE [device EXCEPT !.linked = TRUE, !.version = FALSE,
                        !.area = IF @ = NoArea THEN area ELSE @]

\* The first refresh succeeds; the devices are linked, the listener added.
Refreshed ==
    /\ lifecycle = "refreshing" /\ held = {} /\ used.token = ChargersToken
    /\ held' = {setups}
    /\ parent' = [parent EXCEPT !.exists = TRUE]
    /\ child' = [p \in Ports |-> Repaired(child[p], parent.area)]
    /\ listening' = Listens
    /\ lifecycle' = "forwarding"
    /\ UNCHANGED <<data, setups, used, reloads, again, asks, visible, legacy,
                   limits>>

\* It fails, with the charger's rejection or without.
NotRefreshed ==
    /\ lifecycle = "refreshing"
    /\ \E chain \in Rejections \cup Failures :
        /\ \/ chain \in Rejections /\ UNCHANGED faults
              /\ used.token # ChargersToken
           \/ chain \in Failures /\ Fault
        /\ \/ /\ _is_invalid_token_failure(chain)
              /\ lifecycle' = "error" /\ asks' = TRUE
           \/ /\ ~_is_invalid_token_failure(chain)
              /\ lifecycle' = "retry" /\ UNCHANGED asks
    /\ OnUnload
    /\ UNCHANGED <<data, setups, used, reloads, again, visible, registry,
                   edits>>

\* The platforms are set up: each port's entities bring its device, which the
\* registry links to the parent it finds.
Forwarded ==
    /\ lifecycle = "forwarding"
    /\ child' = [p \in Ports |->
                    IF child[p].exists THEN child[p]
                    ELSE [Absent EXCEPT !.exists = TRUE, !.linked = TRUE]]
    /\ lifecycle' = "loaded"
    /\ UNCHANGED <<data, setups, links, listening, reloads, again, asks,
                   visible, parent, legacy, limits>>

NotForwarded ==
    /\ lifecycle = "forwarding" /\ Fault
    /\ lifecycle' = "error"
    /\ OnUnload
    /\ UNCHANGED <<data, setups, used, reloads, again, asks, visible,
                   registry, edits>>
-----------------------------------------------------------------------------
(***************************************************************************)
(* Unloading.                                                              *)
(***************************************************************************)
\* A reload begins, when no setup or unload is under way.
async_reload ==
    /\ reloads > 0 /\ lifecycle \in {"loaded", "retry", "error", "not_loaded"}
    /\ reloads' = reloads - 1
    /\ again' = TRUE
    /\ lifecycle' = IF lifecycle = "loaded" THEN "unloading" ELSE "not_loaded"
    /\ UNCHANGED <<data, setups, links, listening, asks, visible, registry,
                   limits>>

\* The user disables the entry, or enables it.
Disable ==
    /\ lifecycle \in {"loaded", "retry"} /\ reloads = 0 /\ Edit
    /\ again' = FALSE
    /\ lifecycle' = IF lifecycle = "loaded" THEN "unloading" ELSE "not_loaded"
    /\ UNCHANGED <<data, setups, links, listening, reloads, asks, visible,
                   registry, faults>>
Enable ==
    /\ lifecycle = "not_loaded" /\ ~again /\ Edit
    /\ again' = TRUE
    /\ UNCHANGED <<lifecycle, data, setups, links, listening, reloads, asks,
                   visible, registry, faults>>

\* async_unload_entry: the platforms, and then the coordinator, which waits
\* for work in flight.
PlatformsUnloaded ==
    /\ lifecycle = "unloading"
    /\ \/ lifecycle' = "stopping" /\ UNCHANGED faults
       \/ lifecycle' = "failed" /\ Fault
    /\ UNCHANGED <<data, setups, links, listening, reloads, again, asks,
                   visible, registry, edits>>

Stopped ==
    /\ lifecycle = "stopping"
    /\ lifecycle' = "not_loaded"
    /\ OnUnload
    /\ UNCHANGED <<data, setups, used, reloads, again, asks, visible,
                   registry, limits>>
-----------------------------------------------------------------------------
(***************************************************************************)
(* The user changes options, token or areas; the charger comes and goes.   *)
(***************************************************************************)
\* The options form stores what was entered; _async_update_listener reloads.
UpdateOptions ==
    /\ Edit /\ lifecycle # "failed"
    /\ EditDuringSetup
       \/ lifecycle \notin {"refreshing", "forwarding", "unloading",
                            "stopping"}
    /\ data' = [data EXCEPT !.options = @ + 1]
    /\ reloads' = reloads + IF listening THEN 1 ELSE 0
    /\ UNCHANGED <<lifecycle, setups, links, listening, again, asks, visible,
                   registry, faults>>

\* async_update_reload_and_abort of the token dialog reloads by itself.
ReplaceToken ==
    /\ Edit /\ asks /\ asks' = FALSE
    /\ \E token \in Tokens \ Malformed :
        data' = [data EXCEPT !.token = token]
    /\ reloads' = reloads + 1 + IF listening THEN 1 ELSE 0
    /\ UNCHANGED <<lifecycle, setups, links, listening, again, visible,
                   registry, faults>>

AssignArea ==
    /\ parent.exists /\ Edit
    /\ parent' = [parent EXCEPT !.area = "kitchen"]
    /\ UNCHANGED <<lifecycle, data, setups, links, listening, reloads, again,
                   asks, visible, child, legacy, faults>>

\* A coordinator that is loaded releases its link when idle, and takes it up.
Link ==
    /\ lifecycle = "loaded"
    /\ \/ held' = {}
       \/ held = {} /\ visible /\ held' = {setups}
    /\ UNCHANGED <<lifecycle, data, setups, used, listening, reloads, again,
                   asks, visible, registry, limits>>

Disappear ==
    /\ visible /\ Fault /\ visible' = FALSE
    /\ UNCHANGED <<lifecycle, data, setups, links, listening, reloads, again,
                   asks, registry, edits>>
Appear ==
    /\ ~visible /\ visible' = TRUE
    /\ UNCHANGED <<lifecycle, data, setups, links, listening, reloads, again,
                   asks, registry, limits>>

SettingUp == async_setup_entry \/ Refreshed \/ NotRefreshed \/ Forwarded
             \/ NotForwarded
Unloading == async_reload \/ PlatformsUnloaded \/ Stopped
User == Disable \/ Enable \/ UpdateOptions \/ ReplaceToken \/ AssignArea

Next == SettingUp \/ Unloading \/ User \/ Link \/ Disappear \/ Appear

Fairness == WF_vars(SettingUp) /\ WF_vars(Unloading) /\ WF_vars(Appear)

Spec == Init /\ [][Next]_vars /\ Fairness
=============================================================================
