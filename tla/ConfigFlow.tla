------------------------------ MODULE ConfigFlow ------------------------------
(***************************************************************************)
(* The entries of the integration and the flows that add and change them:  *)
(* config_flow.py, and the part of async_migrate_entry (__init__.py) that   *)
(* changes an entry's unique id.                                           *)
(*                                                                         *)
(* A flow shows its form, awaits the device at the host the user entered   *)
(* (get_device_info), and goes on with the answer; what it does then is one *)
(* step.  Other flows, and the addresses of the devices, may change while  *)
(* it waits, so any device may turn out to answer.  What                   *)
(* HikvisionConfigFlow inherits from Home Assistant's ConfigFlow is         *)
(* modelled from how it is used here.                                      *)
(***************************************************************************)
EXTENDS Naturals

CONSTANTS
    Entries,  \* the ids Home Assistant gives to entries; an id is used once
    Flows,    \* flows that may be in progress at the same time
    Devices,  \* a device is known by its serial number
    Nothing   \* no device, no entry

ASSUME NothingAssumption == Nothing \notin Devices /\ Nothing \notin Entries

VARIABLES
    frozen,     \* Home Assistant refuses to have an entry's version assigned
    present,    \* the entries there are
    used,       \* the entry ids that were given away
    disabled,   \* the entries disabled by the user, which are not set up
    version,    \* ConfigEntry.version
    nested,     \* entries whose unique_id is still the nested list of version 1
    unique_id,  \* ConfigEntry.unique_id, the serial number in it
    data,       \* ConfigEntry.data, seen as the device that answered when it was stored
    flow,       \* the flows in progress
    reauthed,   \* history: entries whose data a reauthentication stored
    twins       \* history: entries added while the device's entry had the nested id

historyVars == <<reauthed, twins>>
entryVars == <<present, used, disabled, version, nested, unique_id, data>>
vars == <<frozen, entryVars, flow, historyVars>>

\* What a flow keeps while it awaits the user ("form") or the device ("asking"): its
\* source, its _entry, and the unique id in its context.
InProgress ==
    [step : {"form", "asking"}, source : {"user", "reconfigure", "reauth"},
     entry : Entries \union {Nothing}, context : Devices \union {Nothing}]

NoFlow == [step |-> "none"]

TypeOK ==
    /\ frozen \in BOOLEAN
    /\ used \in SUBSET Entries
    /\ present \in SUBSET used
    /\ disabled \in SUBSET Entries
    /\ version \in [Entries -> 1..3]
    \* Only entries of version 1 have the unique id of version 1.
    /\ nested \in SUBSET {e \in present : version[e] = 1}
    /\ unique_id \in [Entries -> Devices \union {Nothing}]
    /\ data \in [Entries -> Devices \union {Nothing}]
    /\ flow \in [Flows -> InProgress \union {NoFlow}]
    /\ reauthed \in SUBSET Entries
    /\ twins \in SUBSET Entries
--------------------------------------------------------------------------------
\* Home Assistant starts with the entries of earlier versions of the integration,
\* each for a device of its own.
Init ==
    /\ frozen \in BOOLEAN
    /\ present \in SUBSET Entries
    /\ used = present
    /\ disabled \in SUBSET present
    /\ version \in [Entries -> 1..3]
    /\ \A e \in Entries \ present : version[e] = 3
    /\ nested \in SUBSET {e \in present : version[e] = 1}
    /\ unique_id \in [Entries -> Devices \union {Nothing}]
    /\ \A e \in Entries : unique_id[e] = Nothing <=> e \notin present
    /\ \A d, e \in present : d # e => unique_id[d] # unique_id[e]
    /\ data = unique_id
    /\ flow = [f \in Flows |-> NoFlow]
    /\ reauthed = {}
    /\ twins = {}

\* Faulty: a version 1 entry is only renumbered.
Converted_VersionOnly(e) == nested

\* The unique id of version 1 is replaced by the serial number in it.
Converted(e) == nested \ {e}

\* Home Assistant sets an enabled entry up and has it migrated first.  The version of
\* a version 1 entry is assigned directly: where that is refused, the migration ends
\* there, with the unique id already converted.
Migrate(e) ==
    /\ e \in present \ disabled
    /\ version[e] < 3
    /\ nested' = Converted(e)
    /\ version' = [version EXCEPT ![e] = IF @ = 1 /\ frozen THEN 1 ELSE 3]
    /\ UNCHANGED <<frozen, present, used, disabled, unique_id, data, flow, historyVars>>

\* The user disables an entry, or enables it.
SetDisabled(e) ==
    /\ e \in present
    /\ disabled' = IF e \in disabled THEN disabled \ {e} ELSE disabled \union {e}
    /\ UNCHANGED <<frozen, present, used, version, nested, unique_id, data, flow, historyVars>>

IsReauthOf(f, e) == flow[f] # NoFlow /\ flow[f].source = "reauth" /\ flow[f].entry = e

\* The user removes an entry, which ends its reauthentication.
Remove(e) ==
    /\ e \in present
    /\ present' = present \ {e}
    /\ disabled' = disabled \ {e}
    /\ version' = [version EXCEPT ![e] = 3]
    /\ nested' = nested \ {e}
    /\ unique_id' = [unique_id EXCEPT ![e] = Nothing]
    /\ data' = [data EXCEPT ![e] = Nothing]
    /\ flow' = [f \in Flows |-> IF IsReauthOf(f, e) THEN NoFlow ELSE flow[f]]
    /\ reauthed' = reauthed \ {e}
    /\ twins' = twins \ {e}
    /\ UNCHANGED <<frozen, used>>
--------------------------------------------------------------------------------
\* A flow begins and shows its form.
Start(f, source, e, context) ==
    /\ flow[f] = NoFlow
    /\ flow' = [flow EXCEPT ![f] = [step |-> "form", source |-> source,
                                    entry |-> e, context |-> context]]
    /\ UNCHANGED <<frozen, entryVars, historyVars>>

StartUser(f) == Start(f, "user", Nothing, Nothing)

StartReconfigure(f, e) == e \in present /\ Start(f, "reconfigure", e, Nothing)

\* An entry that is set up asks for credentials, unless a flow of its is open.  Home
\* Assistant gives the flow the entry's unique id.
StartReauth(f, e) ==
    /\ e \in present \ disabled
    /\ version[e] = 3
    /\ \A g \in Flows : flow[g] # NoFlow => flow[g].entry # e
    /\ Start(f, "reauth", e, unique_id[e])

At(f, step) == flow[f] # NoFlow /\ flow[f].step = step

\* The user submits the form, and the flow asks the device.
Submit(f) ==
    /\ At(f, "form")
    /\ flow' = [flow EXCEPT ![f].step = "asking"]
    /\ UNCHANGED <<frozen, entryVars, historyVars>>

\* The user closes the dialog.
Close(f) ==
    /\ At(f, "form")
    /\ flow[f].source # "reauth"
    /\ flow' = [flow EXCEPT ![f] = NoFlow]
    /\ UNCHANGED <<frozen, entryVars, historyVars>>

\* Forbidden, unauthorized and any other error: the form is shown again.  It stays
\* open, too, if Home Assistant no longer knows the entry.
ShowErrors(f) ==
    /\ At(f, "asking")
    /\ flow' = [flow EXCEPT ![f].step = "form"]
    /\ UNCHANGED <<frozen, entryVars, historyVars>>

HasUniqueId(e, d) == e \notin nested /\ unique_id[e] = d

\* Faulty: does not set the flow's unique id before it is compared.
Matches_Unset(f, d) == flow[f].entry \notin nested

\* A reconfiguration sets its unique id to the serial number of the device d that
\* answered before it is compared with the entry's; a reauthentication compares the
\* one it was started with.
Matches(f, d) ==
    HasUniqueId(flow[f].entry, IF flow[f].source = "reconfigure" THEN d ELSE flow[f].context)

\* Faulty: looks at the flows in progress only.
IsConfigured_InProgress(f, d) == \E g \in Flows \ {f} : flow[g] # NoFlow /\ flow[g].context = d

\* Another flow is in progress for the device, or an entry has its unique id.
IsConfigured(f, d) ==
    \/ \E g \in Flows \ {f} : flow[g] # NoFlow /\ flow[g].context = d
    \/ \E e \in present : HasUniqueId(e, d)

\* The flow ends: async_update_reload_and_abort, or an abort that changes nothing.
Update(f, d) ==
    LET e == flow[f].entry IN
    /\ At(f, "asking")
    /\ e \in present
    /\ flow' = [flow EXCEPT ![f] = NoFlow]
    /\ IF Matches(f, d)
       THEN /\ data' = [data EXCEPT ![e] = d]
            /\ reauthed' = IF flow[f].source = "reauth" THEN reauthed \union {e}
                           ELSE reauthed \ {e}
       ELSE UNCHANGED <<data, reauthed>>
    /\ UNCHANGED <<frozen, present, used, disabled, version, nested, unique_id, twins>>

\* already_configured, or already_in_progress.
Abort(f, d) ==
    /\ At(f, "asking")
    /\ flow[f].source = "user"
    /\ IsConfigured(f, d)
    /\ flow' = [flow EXCEPT ![f] = NoFlow]
    /\ UNCHANGED <<frozen, entryVars, historyVars>>

\* The device is new: its entry is added.
CreateEntry(f, d, e) ==
    /\ At(f, "asking")
    /\ flow[f].source = "user"
    /\ ~IsConfigured(f, d)
    /\ e \notin used
    /\ flow' = [flow EXCEPT ![f] = NoFlow]
    /\ present' = present \union {e}
    /\ used' = used \union {e}
    /\ version' = [version EXCEPT ![e] = 3]
    /\ unique_id' = [unique_id EXCEPT ![e] = d]
    /\ data' = [data EXCEPT ![e] = d]
    /\ twins' = IF \E n \in nested : unique_id[n] = d THEN twins \union {e} ELSE twins
    /\ UNCHANGED <<frozen, disabled, nested, reauthed>>

Next ==
    \/ \E e \in Entries : Migrate(e) \/ SetDisabled(e) \/ Remove(e)
    \/ \E f \in Flows, e \in Entries : StartReconfigure(f, e) \/ StartReauth(f, e)
    \/ \E f \in Flows : StartUser(f) \/ Submit(f) \/ Close(f) \/ ShowErrors(f)
    \/ \E f \in Flows, d \in Devices : Update(f, d) \/ Abort(f, d)
    \/ \E f \in Flows, d \in Devices, e \in Entries : CreateEntry(f, d, e)

Spec == Init /\ [][Next]_vars
--------------------------------------------------------------------------------
\* A device has one entry, however many flows were open for it at once, with one
\* exception: while an entry still has the nested id of version 1, which a disabled one
\* keeps, the device can be added again (_abort_if_unique_id_configured,
\* config_flow.py:101).
OneEntryPerDevice ==
    \A d, e \in present :
        d # e /\ unique_id[d] = unique_id[e] => d \in twins \/ e \in twins

\* The data of an entry leads to the entry's own device: whatever moved while a flow
\* was open, the device that answered for the stored data has the entry's unique id.
\* A reauthentication does not look (config_flow.py:96) and is excepted, until a
\* reconfiguration has checked the device again.
EntryKeepsItsDevice ==
    \A e \in present : data[e] = unique_id[e] \/ e \in reauthed
================================================================================
