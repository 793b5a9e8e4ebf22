-------------------------- MODULE EntrySetupProofs --------------------------
(***************************************************************************)
(* Proofs about an entry's setup, for any tokens, ports and switch keys    *)
(* and however often something is edited or fails.                         *)
(***************************************************************************)
EXTENDS EntrySetupProperties, FiniteSetTheorems, TLAPS

-----------------------------------------------------------------------------
(* Types.                                                                  *)

\* What becomes of a device is a device.
LEMMA DeviceType ==
    /\ {Absent, Old, Placed} \subseteq Devices
    /\ [Absent EXCEPT !.exists = TRUE, !.linked = TRUE] \in Devices
    /\ \A device \in Devices, area \in Areas : Repaired(device, area) \in Devices
<1>1. Absent \in Devices /\ Old \in Devices /\ Placed \in Devices
  BY DEF Devices, Areas, Absent, Old, Placed, NoArea
<1>2. [Absent EXCEPT !.exists = TRUE, !.linked = TRUE] \in Devices
  BY <1>1 DEF Devices
<1>3. ASSUME NEW device \in Devices, NEW area \in Areas
      PROVE  Repaired(device, area) \in Devices
  BY DEF Devices, Repaired
<1> QED
  BY <1>1, <1>2, <1>3

LEMMA InitType == Init => TypeOK
<1> SUFFICES ASSUME Init PROVE TypeOK
  OBVIOUS
<1>1. EntryType
  BY EntryConstants DEF Init, EntryType, Entries
<1>2. StateType
  BY DEF Init, StateType, Lifecycles
<1>3. LinkType
  BY DEF Init, LinkType
<1>4. RegistryType
  <2>1. parent \in [exists : BOOLEAN, area : Areas]
    <3>1. /\ [exists |-> FALSE, area |-> NoArea] \in [exists : BOOLEAN, area : Areas]
          /\ [exists |-> TRUE, area |-> "kitchen"] \in [exists : BOOLEAN, area : Areas]
      BY DEF Areas
    <3> QED
      BY <3>1 DEF Init
  <2>2. child \in [Ports -> Devices]
    BY DeviceType DEF Init
  <2> QED
    BY <2>1, <2>2 DEF Init, RegistryType
<1> QED
  BY <1>1, <1>2, <1>3, <1>4 DEF TypeOK

\* A fault is counted, and so is an edit.
LEMMA CountedType ==
    /\ faults \in Nat /\ Fault => faults' \in Nat
    /\ edits \in Nat /\ Edit => edits' \in Nat
BY DEF Fault, Edit

LEMMA SettingUpType == TypeOK /\ SettingUp => TypeOK'
<1> SUFFICES ASSUME TypeOK, SettingUp PROVE TypeOK'
  OBVIOUS
<1> USE DEF TypeOK
<1>1. EntryType'
  BY CountedType DEF SettingUp, async_setup_entry, Refreshed, NotRefreshed,
     Forwarded, NotForwarded, links, limits, EntryType
<1>2. StateType'
  <2> USE DEF StateType, Lifecycles
  <2>1. ASSUME async_setup_entry PROVE StateType'
    BY <2>1 DEF async_setup_entry, limits
  <2>2. ASSUME Refreshed \/ Forwarded PROVE StateType'
    BY <2>2 DEF Refreshed, Forwarded, links, limits, Listens
  <2>3. ASSUME NotRefreshed \/ NotForwarded PROVE StateType'
    BY <2>3, CountedType DEF NotRefreshed, NotForwarded, OnUnload
  <2> QED
    BY <2>1, <2>2, <2>3 DEF SettingUp
<1>3. LinkType'
  BY DEF SettingUp, async_setup_entry, Refreshed, NotRefreshed, Forwarded,
     NotForwarded, OnUnload, NewCoordinator, links, LinkType
<1>4. RegistryType'
  <2> USE DEF RegistryType
  <2>1. ASSUME async_setup_entry PROVE RegistryType'
    BY <2>1 DEF async_setup_entry, Unregistered
  <2>2. ASSUME Refreshed PROVE RegistryType'
    <3>1. parent' \in [exists : BOOLEAN, area : Areas]
      BY <2>2 DEF Refreshed
    <3>2. \A p \in Ports : Repaired(child[p], parent.area) \in Devices
      BY DeviceType
    <3> QED
      BY <2>2, <3>1, <3>2 DEF Refreshed
  <2>3. ASSUME Forwarded PROVE RegistryType'
    BY <2>3, DeviceType DEF Forwarded
  <2>4. ASSUME NotRefreshed \/ NotForwarded PROVE RegistryType'
    BY <2>4 DEF NotRefreshed, NotForwarded, registry
  <2> QED
    BY <2>1, <2>2, <2>3, <2>4 DEF SettingUp
<1> QED
  BY <1>1, <1>2, <1>3, <1>4

LEMMA OthersType ==
    TypeOK /\ (Unloading \/ User \/ Link \/ Disappear \/ Appear) => TypeOK'
<1> SUFFICES ASSUME TypeOK, Unloading \/ User \/ Link \/ Disappear \/ Appear
             PROVE  TypeOK'
  OBVIOUS
<1> USE DEF TypeOK
<1>1. ASSUME Unloading PROVE TypeOK'
  <2>1. EntryType' /\ RegistryType'
    BY <1>1 DEF Unloading, async_reload, PlatformsUnloaded, Stopped, links,
                registry, limits, EntryType, RegistryType
  <2>2. StateType'
    <3> USE DEF StateType, Lifecycles
    <3>1. ASSUME async_reload PROVE StateType'
      BY <3>1 DEF async_reload, limits
    <3>2. ASSUME PlatformsUnloaded PROVE StateType'
      BY <3>2, CountedType DEF PlatformsUnloaded
    <3>3. ASSUME Stopped PROVE StateType'
      BY <3>3 DEF Stopped, OnUnload, limits
    <3> QED
      BY <1>1, <3>1, <3>2, <3>3 DEF Unloading
  <2>3. LinkType'
    BY <1>1 DEF Unloading, async_reload, PlatformsUnloaded, Stopped, OnUnload,
                links, LinkType
  <2> QED
    BY <2>1, <2>2, <2>3
<1>2. ASSUME User PROVE TypeOK'
  <2>1. EntryType'
    <3>1. ASSUME NEW n \in Nat PROVE [data EXCEPT !.options = n] \in Entries
      BY DEF EntryType, Entries
    <3>2. ASSUME NEW token \in Tokens
          PROVE  [data EXCEPT !.token = token] \in Entries
      BY DEF EntryType, Entries
    <3>3. data.options + 1 \in Nat
      BY DEF EntryType, Entries
    <3> QED
      BY <1>2, <3>1, <3>2, <3>3, CountedType
         DEF User, Disable, Enable, UpdateOptions, ReplaceToken, AssignArea,
             links, EntryType
  <2>2. StateType'
    <3> USE DEF StateType, Lifecycles
    <3>1. ASSUME Disable \/ Enable PROVE StateType'
      BY <3>1 DEF Disable, Enable
    <3>2. ASSUME UpdateOptions PROVE StateType'
      BY <3>2 DEF UpdateOptions
    <3>3. ASSUME ReplaceToken PROVE StateType'
      <4>1. reloads' \in Nat
        BY <3>3 DEF ReplaceToken
      <4>2. asks' \in BOOLEAN
        BY <3>3 DEF ReplaceToken
      <4> QED
        BY <3>3, <4>1, <4>2 DEF ReplaceToken
    <3>4. ASSUME AssignArea PROVE StateType'
      BY <3>4 DEF AssignArea
    <3> QED
      BY <1>2, <3>1, <3>2, <3>3, <3>4 DEF User
  <2>3. LinkType'
    BY <1>2 DEF User, Disable, Enable, UpdateOptions, ReplaceToken, AssignArea,
                links, LinkType
  <2>4. RegistryType'
    <3>1. [parent EXCEPT !.area = "kitchen"] \in [exists : BOOLEAN, area : Areas]
      BY DEF RegistryType, Areas
    <3> QED
      BY <1>2, <3>1 DEF User, Disable, Enable, UpdateOptions, ReplaceToken,
                        AssignArea, registry, RegistryType
  <2> QED
    BY <2>1, <2>2, <2>3, <2>4
<1>3. ASSUME Link \/ Disappear \/ Appear PROVE TypeOK'
  <2>1. EntryType' /\ RegistryType'
    BY <1>3 DEF Link, Disappear, Appear, links, registry, limits, EntryType,
                RegistryType
  <2>2. StateType'
    BY <1>3, CountedType DEF Link, Disappear, Appear, limits, StateType
  <2>3. LinkType'
    <3> USE DEF LinkType
    <3>1. ASSUME Link PROVE LinkType'
      BY <3>1 DEF Link
    <3>2. ASSUME Disappear \/ Appear PROVE LinkType'
      BY <3>2 DEF Disappear, Appear, links
    <3> QED
      BY <1>3, <3>1, <3>2
  <2> QED
    BY <2>1, <2>2, <2>3
<1> QED
  BY <1>1, <1>2, <1>3

\* Every reachable state is well typed.
THEOREM EntryTypeCorrect == Spec => []TypeOK
<1>1. TypeOK /\ [Next]_vars => TypeOK'
  <2>1. TypeOK /\ UNCHANGED vars => TypeOK'
    BY DEF vars, TypeOK, EntryType, StateType, LinkType, RegistryType
  <2> QED
    BY <2>1, SettingUpType, OthersType DEF Next
<1> QED
  BY InitType, <1>1, PTL DEF Spec

-----------------------------------------------------------------------------
(* Who holds the charger.                                                  *)

\* Only the present coordinator may hold the connection, and none does where
\* no setup is under way and none has succeeded.
Unheld == {"not_loaded", "retry", "error", "refreshing"}
OnlyPresent ==
    /\ held \subseteq {setups}
    /\ lifecycle \in Unheld => held = {}

LEMMA OnlyPresentKept == OnlyPresent /\ [Next]_vars => OnlyPresent'
<1> SUFFICES ASSUME OnlyPresent, [Next]_vars PROVE OnlyPresent'
  OBVIOUS
<1> USE DEF OnlyPresent, Unheld
<1>1. ASSUME SettingUp PROVE OnlyPresent'
  BY <1>1 DEF SettingUp, async_setup_entry, Refreshed, NotRefreshed, Forwarded,
              NotForwarded, OnUnload, links, limits
<1>2. ASSUME Unloading PROVE OnlyPresent'
  BY <1>2 DEF Unloading, async_reload, PlatformsUnloaded, Stopped, OnUnload,
              links, limits
<1>3. ASSUME User PROVE OnlyPresent'
  BY <1>3 DEF User, Disable, Enable, UpdateOptions, ReplaceToken, AssignArea,
              links
<1>4. ASSUME Link \/ Disappear \/ Appear PROVE OnlyPresent'
  BY <1>4 DEF Link, Disappear, Appear, links, limits
<1>5. ASSUME UNCHANGED vars PROVE OnlyPresent'
  BY <1>5 DEF vars
<1> QED
  BY <1>1, <1>2, <1>3, <1>4, <1>5 DEF Next

\* An entry that is not loaded leaves the charger to the phone.
THEOREM AlwaysFreed == Spec => []FreeWhenStopped
<1>1. Init => OnlyPresent
  BY DEF Init, OnlyPresent
<1>2. OnlyPresent => FreeWhenStopped
  <2> SUFFICES ASSUME OnlyPresent PROVE FreeWhenStopped
    OBVIOUS
  <2>1. held = {} \/ held = {setups}
    BY DEF OnlyPresent
  <2>2. Cardinality(held) <= 1
    <3>1. CASE held = {}
      <4>1. Cardinality(held) = 0
        BY <3>1, FS_EmptySet
      <4> QED
        BY <4>1
    <3>2. CASE held = {setups}
      <4>1. Cardinality(held) = 1
        BY <3>2, FS_Singleton
      <4> QED
        BY <4>1
    <3> QED
      BY <2>1, <3>1, <3>2
  <2> QED
    BY <2>2 DEF OnlyPresent, Unheld, FreeWhenStopped
<1> QED
  BY <1>1, <1>2, OnlyPresentKept, PTL DEF Spec

-----------------------------------------------------------------------------
(* What a loaded entry works with.                                         *)

\* From the copy that the setup makes on, what is used is what is stored or a
\* reload is waiting; once the first refresh is done somebody listens.
Current ==
    /\ reloads \in Nat
    /\ lifecycle \in {"refreshing", "forwarding", "loaded"} /\ reloads = 0
        => used = data
    /\ lifecycle \in {"forwarding", "loaded"} => listening

LEMMA CurrentKept ==
    ASSUME ~EditDuringSetup, Current, [Next]_vars
    PROVE  Current'
<1> USE DEF Current
<1>1. ASSUME async_setup_entry PROVE Current'
  BY <1>1 DEF async_setup_entry, limits
<1>2. ASSUME Refreshed \/ Forwarded PROVE Current'
  BY <1>2 DEF Refreshed, Forwarded, Listens, links, limits
<1>3. ASSUME NotRefreshed \/ NotForwarded PROVE Current'
  BY <1>3 DEF NotRefreshed, NotForwarded, OnUnload
<1>4. ASSUME Unloading PROVE Current'
  BY <1>4 DEF Unloading, async_reload, PlatformsUnloaded, Stopped, OnUnload,
              links, limits
<1>5. ASSUME Disable \/ Enable \/ AssignArea PROVE Current'
  BY <1>5 DEF Disable, Enable, AssignArea, links
<1>6. ASSUME UpdateOptions PROVE Current'
  <2>1. lifecycle \in {"loaded"} => reloads' # 0
    BY <1>6 DEF UpdateOptions
  <2>2. lifecycle \notin {"refreshing", "forwarding"}
    BY <1>6 DEF UpdateOptions
  <2>3. reloads' \in Nat /\ lifecycle' = lifecycle /\ listening' = listening
    BY <1>6 DEF UpdateOptions, links
  <2> QED
    BY <2>1, <2>2, <2>3
<1>7. ASSUME ReplaceToken PROVE Current'
  <2>1. reloads' \in Nat /\ reloads' # 0
    BY <1>7 DEF ReplaceToken
  <2>2. lifecycle' = lifecycle /\ listening' = listening
    BY <1>7 DEF ReplaceToken, links
  <2> QED
    BY <2>1, <2>2
<1>8. ASSUME Link \/ Disappear \/ Appear PROVE Current'
  BY <1>8 DEF Link, Disappear, Appear, links, limits
<1>9. ASSUME UNCHANGED vars PROVE Current'
  BY <1>9 DEF vars
<1> QED
  BY <1>1, <1>2, <1>3, <1>4, <1>5, <1>6, <1>7, <1>8, <1>9
     DEF Next, SettingUp, User

\* A loaded entry works with what is stored, if nothing is edited while a
\* setup or an unload is under way: the code does not see such an edit.
THEOREM AlwaysCurrent ==
    ASSUME ~EditDuringSetup
    PROVE  Spec => []LoadedIsCurrent
<1>1. Init => Current
  BY DEF Init, Current
<1>2. Current /\ [Next]_vars => Current'
  BY CurrentKept
<1>3. Current => LoadedIsCurrent
  BY DEF Current, LoadedIsCurrent
<1> QED
  BY <1>1, <1>2, <1>3, PTL DEF Spec

-----------------------------------------------------------------------------
(* When a new token is asked for.                                          *)

\* Only a rejection of the charger counts as one, wherever it is in the chain
\* of causes.
LEMMA OnlyRejections ==
    \A chain \in Failures : ~_is_invalid_token_failure(chain)
BY DEF Failures, _is_invalid_token_failure

\* The token asked for is one the charger rejected, or could not have taken.
THEOREM OnlyRejectedAsked == Spec => AsksOnlyIfRejected
<1>1. ASSUME Next, ~asks, asks'
      PROVE  data.token # ChargersToken \/ used.token # ChargersToken
  <2>1. CASE async_setup_entry
    BY <1>1, <2>1, EntryConstants DEF async_setup_entry, Malformed
  <2>2. CASE NotRefreshed
    BY <1>1, <2>2, OnlyRejections DEF NotRefreshed
  <2>3. CASE ~async_setup_entry /\ ~NotRefreshed
    BY <1>1, <2>3 DEF Next, SettingUp, Refreshed, Forwarded, NotForwarded,
       Unloading, async_reload, PlatformsUnloaded, Stopped, User, Disable,
       Enable, UpdateOptions, ReplaceToken, AssignArea, Link, Disappear,
       Appear
  <2> QED
    BY <2>1, <2>2, <2>3
<1>2. [Next]_vars => [~asks /\ asks' => data.token # ChargersToken
                         \/ used.token # ChargersToken]_vars
  BY <1>1
<1> QED
  BY <1>2, PTL DEF Spec, AsksOnlyIfRejected
=============================================================================
