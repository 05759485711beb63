----------------------------- MODULE EntryLifecycle -----------------------------
(***************************************************************************)
(* The config entries of the integration from setup to unload:             *)
(* async_setup_entry, async_unload_entry, HikvisionDevice.init_coordinators *)
(* and ISAPIClient.set_alarm_server, with what Home Assistant does with     *)
(* their results.                                                          *)
(*                                                                         *)
(* An entry whose control_alarm_server_host is set writes its address into *)
(* its device when it is set up and takes it out again when it is          *)
(* unloaded; each is a read and a write, awaited one after the other.  All *)
(* entries share one HTTP view, which the first of them registers.         *)
(*                                                                         *)
(* Home Assistant (external) never runs setup and unload of one entry at   *)
(* the same time; different entries interleave freely.                     *)
(***************************************************************************)
EXTENDS Naturals

CONSTANTS
    N,        \* the entries, in the order of hass.config_entries
    Capable   \* the entries whose device has a notification host setting

Entries == 1..N

ASSUME EntriesAssumption ==
    /\ N \in Nat \ {0}
    /\ Capable \subseteq Entries

\* The notification host stored in a device: this Home Assistant, the reset
\* value http://0.0.0.0:80/, or anything else.
Hosts == {"ha", "reset", "other"}

VARIABLES
    calm,      \* no fault and nobody intervenes from now on
    host,      \* per device: its notification host
    disabled,  \* per entry: entry.disabled_by is set
    control,   \* per entry: entry.data["set_alarm_server"]
    reload,    \* per entry: Home Assistant was asked to reload it
    state,     \* per entry: entry.state
    step,      \* per entry: what its running setup or unload awaits
    controls,  \* per entry: device.control_alarm_server_host
    supports,  \* per entry: capabilities.support_alarm_server
    view,      \* EventNotificationsView is registered
    clean,     \* history, per capable entry: no fault since its last setup or unload began
    wasLoaded  \* history, per capable entry: it was loaded when it was last unloaded

userVars == <<disabled, control>>
deviceVars == <<controls, supports>>
vars == <<calm, host, userVars, reload, state, step, deviceVars, view, clean, wasLoaded>>

States == {"not_loaded", "setup_in_progress", "loaded", "setup_retry", "setup_error",
           "unload_in_progress"}
Steps == {"none", "discover", "read", "write", "refresh", "platforms"}

TypeOK ==
    /\ calm \in BOOLEAN
    /\ host \in [Entries -> Hosts]
    /\ disabled \in [Entries -> BOOLEAN]
    /\ control \in [Entries -> BOOLEAN]
    /\ reload \in [Entries -> BOOLEAN]
    /\ state \in [Entries -> States]
    /\ step \in [Entries -> Steps]
    /\ controls \in [Entries -> BOOLEAN]
    /\ supports \in [Entries -> BOOLEAN]
    /\ view \in BOOLEAN
    /\ clean \in [Entries -> BOOLEAN]
    /\ wasLoaded \in [Entries -> BOOLEAN]

Init ==
    /\ calm = FALSE
    /\ host = [e \in Entries |-> "other"]
    /\ disabled = [e \in Entries |-> FALSE]
    /\ control \in [Entries -> BOOLEAN]
    /\ reload = [e \in Entries |-> FALSE]
    /\ state = [e \in Entries |-> "not_loaded"]
    /\ step = [e \in Entries |-> "none"]
    /\ controls = [e \in Entries |-> FALSE]
    /\ supports = [e \in Entries |-> FALSE]
    /\ view = FALSE
    /\ clean = [e \in Entries |-> FALSE]
    /\ wasLoaded = [e \in Entries |-> FALSE]
--------------------------------------------------------------------------------
\* Users, and the world.

Settle ==
    /\ ~calm
    /\ calm' = TRUE
    /\ UNCHANGED <<host, userVars, reload, state, step, deviceVars, view, clean, wasLoaded>>

\* Disabling and enabling take effect at once, the reload they ask for later.
SetDisabled(e) ==
    /\ ~calm
    /\ disabled' = [disabled EXCEPT ![e] = ~@]
    /\ reload' = [reload EXCEPT ![e] = TRUE]
    /\ UNCHANGED <<calm, host, control, state, step, deviceVars, view, clean, wasLoaded>>

\* A reconfiguration: async_update_reload_and_abort.
Reconfigure(e) ==
    /\ ~calm
    /\ control' = [control EXCEPT ![e] = ~@]
    /\ reload' = [reload EXCEPT ![e] = TRUE]
    /\ UNCHANGED <<calm, host, disabled, state, step, deviceVars, view, clean, wasLoaded>>

\* Somebody writes the setting in the device itself.
SetInDevice(e) ==
    /\ ~calm
    /\ e \in Capable
    /\ \E h \in Hosts \ {"ha"} : host' = [host EXCEPT ![e] = h]
    /\ clean' = [clean EXCEPT ![e] = FALSE]
    /\ UNCHANGED <<calm, userVars, reload, state, step, deviceVars, view, wasLoaded>>

\* Home Assistant stops, or crashes, and starts again: nothing is unloaded.
Restart ==
    /\ ~calm
    /\ reload' = [e \in Entries |-> FALSE]
    /\ state' = [e \in Entries |-> "not_loaded"]
    /\ step' = [e \in Entries |-> "none"]
    /\ controls' = [e \in Entries |-> FALSE]
    /\ supports' = [e \in Entries |-> FALSE]
    /\ view' = FALSE
    /\ clean' = [e \in Entries |-> FALSE]
    /\ wasLoaded' = [e \in Entries |-> FALSE]
    /\ UNCHANGED <<calm, host, userVars>>
--------------------------------------------------------------------------------
\* Setup.

\* The running setup of e ends in state s, or its unload does.
End(e, s) ==
    /\ state' = [state EXCEPT ![e] = s]
    /\ step' = [step EXCEPT ![e] = "none"]

Await(e, s) ==
    /\ step' = [step EXCEPT ![e] = s]
    /\ UNCHANGED state

\* An outcome other than a good answer.
Fault(e) ==
    /\ ~calm
    /\ clean' = [clean EXCEPT ![e] = FALSE]

NoFault == UNCHANGED clean

\* Faulty: a setup that failed is not retried.
MaySetUp_Once(e) == state[e] = "not_loaded"

\* Home Assistant retries after ConfigEntryNotReady, and after nothing else.
MaySetUp(e) == state[e] \in {"not_loaded", "setup_retry"}

\* async_setup_entry builds a new HikvisionDevice from the entry's data.
StartSetup(e) ==
    /\ MaySetUp(e)
    /\ ~disabled[e]
    /\ ~reload[e]
    /\ state' = [state EXCEPT ![e] = "setup_in_progress"]
    /\ step' = [step EXCEPT ![e] = "discover"]
    /\ controls' = [controls EXCEPT ![e] = control[e]]
    /\ supports' = [supports EXCEPT ![e] = FALSE]
    /\ clean' = [clean EXCEPT ![e] = e \in Capable]
    /\ UNCHANGED <<calm, host, userVars, reload, view, wasLoaded>>

\* init_coordinators sets the notification host of a device that supports it.
SetsHost(e, s) == controls[e] /\ s

\* get_hardware_info.  HTTP errors are suppressed: the setting is then taken to
\* be missing.  A refused login ends the setup, any other error makes it retry.
Discover(e) ==
    /\ step[e] = "discover"
    /\ \/ \E s \in BOOLEAN :
            /\ s => e \in Capable
            /\ supports' = [supports EXCEPT ![e] = s]
            /\ Await(e, IF SetsHost(e, s) THEN "read" ELSE "refresh")
            /\ IF s = (e \in Capable) THEN NoFault ELSE Fault(e)
       \/ /\ Fault(e)
          /\ \E s \in {"setup_retry", "setup_error"} : End(e, s)
          /\ UNCHANGED supports
    /\ UNCHANGED <<calm, host, userVars, reload, controls, view, wasLoaded>>

\* Faulty: unloading clears the address instead of writing the reset value.
Target_Cleared(e) == IF state[e] = "unload_in_progress" THEN "none" ELSE "ha"

\* Setting up writes this Home Assistant's address, unloading the reset value.
Target(e) == IF state[e] = "unload_in_progress" THEN "reset" ELSE "ha"

\* Faulty: any address of a Home Assistant is taken for the one to be set.
IsSet_NotOther(e) == host[e] # "other"

IsSet(e) == host[e] = Target(e)

\* set_alarm_server does not recognise a domain name (it looks for it under a key
\* the device does not use) nor an address without a port, and writes them again.
MayWrite(e) == ~IsSet(e) \/ Target(e) = "ha"

\* Where set_alarm_server leads: an unload ignores how it ended, a setup goes on
\* unless it raised, and then ends in an error nobody retries.
AfterHost(e, failed) ==
    IF state[e] = "unload_in_progress" THEN End(e, "not_loaded")
    ELSE IF failed THEN End(e, "setup_error")
    ELSE Await(e, "refresh")

\* An HTTP error: set_alarm_server goes on with an empty answer during setup.
HttpError(e) == Fault(e) /\ AfterHost(e, FALSE)

\* No answer, or a refused login.
Lost(e) == Fault(e) /\ AfterHost(e, TRUE)

\* set_alarm_server reads the setting of the device.
ReadHost(e) ==
    /\ step[e] = "read"
    /\ \/ /\ e \in Capable
          /\ \/ IsSet(e) /\ AfterHost(e, FALSE)
             \/ MayWrite(e) /\ Await(e, "write")
          /\ NoFault
       \/ /\ e \notin Capable
          /\ AfterHost(e, FALSE)
          /\ NoFault
       \/ HttpError(e)
       \/ Lost(e)
    /\ UNCHANGED <<calm, host, userVars, reload, deviceVars, view, wasLoaded>>

\* set_alarm_server writes the setting back.  An answer may get lost after the
\* device took the request.
WriteHost(e) ==
    /\ step[e] = "write"
    /\ \/ /\ host' = [host EXCEPT ![e] = Target(e)]
          /\ AfterHost(e, FALSE)
          /\ NoFault
       \/ HttpError(e) /\ UNCHANGED host
       \/ /\ Lost(e)
          /\ \E h \in {host[e], Target(e)} : host' = [host EXCEPT ![e] = h]
    /\ UNCHANGED <<calm, userVars, reload, deviceVars, view, wasLoaded>>

\* The first refresh of the coordinators; if it fails, Home Assistant retries.
FirstRefresh(e) ==
    /\ step[e] = "refresh"
    /\ \/ NoFault /\ Await(e, "platforms")
       \/ Fault(e) /\ End(e, "setup_retry")
    /\ UNCHANGED <<calm, host, userVars, reload, deviceVars, view, wasLoaded>>

Enabled == {e \in Entries : ~disabled[e]}

\* Faulty: the last one.
IsFirst_Last(e) == e \in Enabled /\ \A f \in Enabled : f <= e

\* get_first_instance_unique_id.
IsFirst(e) == e \in Enabled /\ \A f \in Enabled : e <= f

\* The platforms are set up; the first enabled entry registers the view.  With
\* every entry disabled there is no first one, and the lookup raises.
FinishSetup(e) ==
    /\ state[e] = "setup_in_progress"
    /\ step[e] = "platforms"
    /\ \/ Enabled # {} /\ End(e, "loaded") /\ NoFault
       \/ Enabled = {} /\ End(e, "setup_error") /\ clean' = [clean EXCEPT ![e] = FALSE]
    /\ view' = (view \/ IsFirst(e))
    /\ UNCHANGED <<calm, host, userVars, reload, deviceVars, wasLoaded>>
--------------------------------------------------------------------------------
\* Unload.

\* Home Assistant gets to a reload: a loaded entry is unloaded, any other is just
\* marked as not loaded.  An entry that is not disabled is then set up again.
StartUnload(e) ==
    /\ reload[e]
    /\ step[e] = "none"
    /\ reload' = [reload EXCEPT ![e] = FALSE]
    /\ IF state[e] = "loaded"
       THEN /\ state' = [state EXCEPT ![e] = "unload_in_progress"]
            /\ step' = [step EXCEPT ![e] = "platforms"]
       ELSE End(e, "not_loaded")
    /\ clean' = [clean EXCEPT ![e] = e \in Capable]
    /\ wasLoaded' = [wasLoaded EXCEPT ![e] = e \in Capable /\ state[e] = "loaded"]
    /\ UNCHANGED <<calm, host, userVars, deviceVars, view>>

\* Faulty: asks the entry's new configuration, not the device that is unloaded.
Resets_NewConfig(e) == control[e]

\* async_unload_entry resets the host if this device was told to control it.
Resets(e) == controls[e]

\* The platforms are unloaded.
UnloadPlatforms(e) ==
    /\ state[e] = "unload_in_progress"
    /\ step[e] = "platforms"
    /\ IF Resets(e) THEN Await(e, "read") ELSE End(e, "not_loaded")
    /\ UNCHANGED <<calm, host, userVars, reload, deviceVars, view, clean, wasLoaded>>

Run(e) ==
    \/ StartSetup(e)
    \/ Discover(e)
    \/ ReadHost(e)
    \/ WriteHost(e)
    \/ FirstRefresh(e)
    \/ FinishSetup(e)
    \/ StartUnload(e)
    \/ UnloadPlatforms(e)

Next ==
    \/ Settle
    \/ Restart
    \/ \E e \in Entries : SetDisabled(e)
    \/ \E e \in Entries : Reconfigure(e)
    \/ \E e \in Entries : SetInDevice(e)
    \/ \E e \in Entries : Run(e)

Spec == Init /\ [][Next]_vars

\* Setup and unload go on, a setup is retried, an asked-for reload happens.
FairSpec == Spec /\ \A e \in Entries : WF_vars(Run(e))
--------------------------------------------------------------------------------
\* A loaded entry that is to control the notification host receives the events of
\* its device: the host is this Home Assistant, unless a request failed on the way
\* or somebody changed it (init_coordinators, hikvision_device.py:85).
HostIsSetWhileLoaded ==
    \A e \in Capable :
        state[e] = "loaded" /\ controls[e] /\ clean[e] => host[e] = "ha"

\* After an entry was unloaded no device is left sending events here, unless a
\* request of the unload failed; also when the entry was reconfigured in between
\* (async_unload_entry, __init__.py:107).
HostIsResetAfterLoaded ==
    \A e \in Capable :
        state[e] = "not_loaded" /\ wasLoaded[e] /\ clean[e] /\ controls[e] => host[e] = "reset"

\* README.md:102: the host is reverted "on integration unload", whatever state the
\* unloaded entry was in, unless a request of the unload failed.
HostIsReset ==
    \A e \in Capable : state[e] = "not_loaded" /\ clean[e] => host[e] # "ha"

\* The setting of a device whose entry was never told to control it is left alone.
HostIsLeftAlone ==
    [][\A e \in Entries :
          ~controls[e] /\ host'[e] # host[e] => SetInDevice(e)]_vars

\* Once nobody intervenes, every enabled entry ends up loaded, or in the error of a
\* setup that is not retried, and stays there.
SetupsEnd ==
    calm ~> [](\A e \in Enabled : state[e] \in {"loaded", "setup_error"})

\* While the very first entry is enabled, the view is there in the end, unless the
\* setup of that entry failed for good (get_first_instance_unique_id).
FirstEntryServes ==
    calm /\ ~disabled[1] ~> [](view \/ state[1] = "setup_error")
================================================================================
