----------------------------- MODULE EventEntities -----------------------------
(***************************************************************************)
(* The binary sensor of one event of one camera of a recorder, from the     *)
(* setup of its entry on: the cameras and events are read, the entity is    *)
(* added (binary_sensor.py), its entry in Home Assistant's registry is      *)
(* brought in line with the device (refresh_disabled_entities_in_registry   *)
(* of __init__.py), and alerts of the recorder's cameras turn it on         *)
(* (notifications.py).  Events do not influence each other, so that one of  *)
(* them is enough; which camera's it is is chosen at the start.             *)
(*                                                                         *)
(* Home Assistant's registry, its disablers and the reload 30 seconds after *)
(* an entity was enabled are modelled from how the integration uses them.   *)
(***************************************************************************)
EXTENDS Discovery

CONSTANTS
    AnalogInputs,  \* the numbers of analog inputs considered
    MaxChanges     \* bound on what the user and the device do

ASSUME AnalogInputsAssumption == AnalogInputs \subseteq Nat
ASSUME MaxChangesAssumption == MaxChanges \in Nat

VARIABLES
    analog,     \* analog inputs of the recorder
    watched,    \* the camera whose event is watched
    pref,       \* ConfigEntry.pref_disable_new_entities
    source,     \* the sources of the recorder's proxied inputs
    center,     \* the event is set to notify the surveillance center
    stage,      \* how far async_setup_entry has come
    cameras,    \* device.cameras
    event,      \* the event in camera.events_info: none, silent (disabled) or reported
    entry,      \* the registry entry: absent, enabled, or what it is disabled by
    device_off, \* the camera's device is disabled in Home Assistant
    sensor,     \* the entity's state
    due,        \* a reload is due because an entity was enabled
    by,         \* history: who disabled the entity and did not lift that since
    changes     \* outside changes so far

hwVars == <<analog, watched, pref>>
deviceVars == <<source, center>>
registryVars == <<entry, device_off, due, by>>
setupVars == <<stage, cameras, event>>
vars == <<hwVars, deviceVars, registryVars, setupVars, sensor, changes>>

TypeOK ==
    /\ analog \in AnalogInputs
    /\ watched \in 1..(analog + Digital)
    /\ pref \in BOOLEAN
    /\ source \in [Inputs -> Sources \union {NoSource}]
    /\ center \in BOOLEAN
    /\ stage \in {"down", "cameras", "events", "added", "loaded"}
    /\ \A c \in cameras : c.id \in 1..(analog + Digital)
    /\ event \in {"none", "silent", "reported"}
    /\ entry \in {"absent", "enabled", "integration", "user", "device"}
    /\ device_off \in BOOLEAN
    /\ sensor \in {"none", "off", "on", "unavailable"}
    /\ due \in BOOLEAN
    /\ by \in {"nobody", "integration", "preference", "user", "device"}
    /\ changes \in 0..MaxChanges
    \* Only an enabled entity has a state.
    /\ sensor # "none" => entry = "enabled"

Init ==
    /\ analog \in AnalogInputs
    /\ watched \in 1..(analog + Digital)
    /\ pref \in BOOLEAN
    /\ source \in [Inputs -> Sources \union {NoSource}]
    /\ center \in BOOLEAN
    /\ stage = "down"
    /\ cameras = {}
    /\ event = "none"
    /\ entry = "absent"
    /\ device_off = FALSE
    /\ sensor = "none"
    /\ due = FALSE
    /\ by = "nobody"
    /\ changes = 0

\* The entity is one of those that the platform was given.
Provided == event # "none" /\ \E c \in cameras : c.id = watched
--------------------------------------------------------------------------------
\* async_setup_entry, from one answer of the device to the next.
ReadCameras ==
    /\ stage = "down"
    /\ stage' = "cameras"
    /\ cameras' = Cameras(analog, source)
    /\ UNCHANGED <<hwVars, deviceVars, registryVars, event, sensor, changes>>

\* What get_device_event_capabilities finds for the camera among the events listed.
Capability ==
    IF watched \notin Channels(analog, source) THEN "none"
    ELSE IF center THEN "reported" ELSE "silent"

ReadEvents ==
    /\ stage = "cameras"
    /\ stage' = "events"
    /\ event' = Capability
    /\ UNCHANGED <<hwVars, deviceVars, registryVars, cameras, sensor, changes>>

\* The disabler of a new registry entry: the entity is not enabled by default, or the
\* user does not want new entities enabled.  Home Assistant marks both alike.
NewEntry == IF event = "silent" \/ pref THEN "integration" ELSE "enabled"

AddEntities ==
    /\ stage = "events"
    /\ stage' = "added"
    /\ entry' = IF Provided /\ entry = "absent" THEN NewEntry ELSE entry
    /\ by' = IF entry' = entry \/ entry' = "enabled" THEN by
             ELSE IF event = "silent" THEN "integration" ELSE "preference"
    /\ sensor' = IF Provided /\ entry' = "enabled" THEN "off" ELSE sensor
    /\ UNCHANGED <<hwVars, deviceVars, device_off, due, cameras, event, changes>>

\* Faulty: enables whatever is disabled.
Refreshed_AnyOwner ==
    IF Provided /\ event = "silent" /\ entry = "enabled" THEN "integration"
    ELSE IF Provided /\ event = "reported" /\ entry # "absent" THEN "enabled"
    ELSE entry

\* Faulty: enables only.
Refreshed_EnableOnly ==
    IF Provided /\ event = "reported" /\ entry = "integration" THEN "enabled" ELSE entry

\* The registry entry after update_entity.
Refreshed ==
    IF Provided /\ event = "silent" /\ entry = "enabled" THEN "integration"
    ELSE IF Provided /\ event = "reported" /\ entry = "integration" THEN "enabled"
    ELSE entry

\* refresh_disabled_entities_in_registry, after which the entry is loaded.
Refresh ==
    /\ stage = "added"
    /\ stage' = "loaded"
    /\ entry' = Refreshed
    /\ by' = IF entry' = entry THEN by
             ELSE IF entry' = "integration" THEN "integration"
             ELSE IF by = "integration" THEN "nobody" ELSE by
    /\ due' = (due \/ (entry # "enabled" /\ entry' = "enabled"))
    /\ sensor' = IF entry' = "enabled" THEN sensor ELSE "none"
    /\ UNCHANGED <<hwVars, deviceVars, device_off, cameras, event, changes>>

\* The entities given to the platform become unavailable.
Unload ==
    /\ stage' = "down"
    /\ cameras' = {}
    /\ event' = "none"
    /\ sensor' = IF Provided /\ sensor # "none" THEN "unavailable" ELSE sensor
    /\ UNCHANGED <<hwVars, deviceVars, entry, device_off, by>>

\* Home Assistant reloads the entry because an entity was enabled.
ReloadDue ==
    /\ due
    /\ stage \in {"down", "loaded"}
    /\ Unload
    /\ due' = FALSE
    /\ UNCHANGED changes

\* Home Assistant polls the entity, which knows of no alert.
Poll ==
    /\ stage = "loaded"
    /\ Provided
    /\ sensor = "on"
    /\ sensor' = "off"
    /\ UNCHANGED <<hwVars, deviceVars, registryVars, setupVars, changes>>

\* The recorder reports an event of the watched kind at its camera c.
Alert(c) ==
    /\ stage = "loaded"
    /\ c = watched => center
    /\ \E n \in Reported(analog, c) :
        sensor' = IF Resolved(cameras, n) = watched /\ sensor # "none" THEN "on" ELSE sensor
    /\ UNCHANGED <<hwVars, deviceVars, registryVars, setupVars, changes>>
--------------------------------------------------------------------------------
\* What the user and the device do.
Change == changes < MaxChanges /\ changes' = changes + 1

\* A request of the setup fails; Home Assistant tries again.
SetupFails ==
    /\ Change
    /\ stage \in {"cameras", "events"}
    /\ Unload
    /\ UNCHANGED due

UserReloads ==
    /\ Change
    /\ stage = "loaded"
    /\ Unload
    /\ UNCHANGED due

\* The user disables the entity, or enables it.
UserDisables ==
    /\ Change
    /\ entry = "enabled"
    /\ entry' = "user"
    /\ by' = "user"
    /\ sensor' = "none"
    /\ UNCHANGED <<hwVars, deviceVars, setupVars, device_off, due>>

UserEnables ==
    /\ Change
    /\ entry \in {"user", "integration"}
    /\ ~device_off
    /\ entry' = "enabled"
    /\ by' = "nobody"
    /\ due' = TRUE
    /\ UNCHANGED <<hwVars, deviceVars, setupVars, device_off, sensor>>

\* The user disables the camera's device and with it the entities that are enabled, or
\* enables it and with it the entities that were disabled so.
DisableDevice ==
    /\ Change
    /\ ~device_off
    /\ entry # "absent"
    /\ device_off' = TRUE
    /\ entry' = IF entry = "enabled" THEN "device" ELSE entry
    /\ by' = IF entry = "enabled" THEN "device" ELSE by
    /\ sensor' = "none"
    /\ UNCHANGED <<hwVars, deviceVars, setupVars, due>>

EnableDevice ==
    /\ Change
    /\ device_off
    /\ device_off' = FALSE
    /\ entry' = IF entry = "device" THEN "enabled" ELSE entry
    /\ by' = IF by = "device" THEN "nobody" ELSE by
    /\ due' = (due \/ entry = "device")
    /\ UNCHANGED <<hwVars, deviceVars, setupVars, sensor>>

\* The event's notification is switched at the device.
SwitchCenter ==
    /\ Change
    /\ center' = ~center
    /\ UNCHANGED <<hwVars, source, registryVars, setupVars, sensor>>

\* An IP camera is attached, replaced or detached.
Plug(k) ==
    /\ Change
    /\ \E s \in Sources \union {NoSource} : s # source[k] /\ source' = [source EXCEPT ![k] = s]
    /\ UNCHANGED <<hwVars, center, registryVars, setupVars, sensor>>

Setup == ReadCameras \/ ReadEvents \/ AddEntities \/ Refresh

Next ==
    \/ Setup
    \/ ReloadDue
    \/ Poll
    \/ \E c \in Channels(analog, source) : Alert(c)
    \/ SetupFails \/ UserReloads
    \/ UserDisables \/ UserEnables
    \/ DisableDevice \/ EnableDevice
    \/ SwitchCenter
    \/ \E k \in Inputs : Plug(k)

\* Home Assistant goes on with a setup, and its timers fire.
Fairness == WF_vars(Setup) /\ WF_vars(ReloadDue) /\ WF_vars(Poll)

Spec == Init /\ [][Next]_vars /\ Fairness
--------------------------------------------------------------------------------
\* README.md:44: entities disabled by the user or with their device stay disabled, and
\* only those are enabled again that the integration disabled itself: whenever the
\* entity is enabled, whoever had disabled it has lifted that.  Excepted is the
\* preference not to have new entities enabled, which the registry does not tell from a
\* disablement of the integration's (__init__.py:180).
OwnerIsRespected == entry = "enabled" => by \in {"nobody", "preference"}

\* The cameras that were read are the ones the recorder has.
Current == stage = "loaded" /\ cameras = Cameras(analog, source)

\* Every IP camera has the number of its proxied input as its input port, or the
\* recorder has proxied inputs only and every camera a single input.
PortsTellInputs ==
    \/ \A k \in Connected(source) : source[k].port = k
    \/ analog = 0 /\ \A k \in Connected(source) : source[k].port = 1

\* No camera has an id that an alert uses for another one.
IdsAreNotOffset == analog + Digital <= ProxyOffset

\* An alert is given to the camera it came from (update_alert_channel, notifications.py:
\* 204): as long as the cameras read at setup are still the recorder's, which has at most
\* 32, and their input ports tell the proxied inputs apart.
AlertsReachTheirCamera ==
    Current /\ PortsTellInputs /\ IdsAreNotOffset =>
        \A c \in Channels(analog, source) : \A n \in Reported(analog, c) : Resolved(cameras, n) = c

\* No two cameras are registered as one device, whatever serial numbers the recorder has
\* for their sources (get_cameras, isapi.py:186).
IdentitiesAreDistinct ==
    \A c, d \in cameras : c.serial_no = d.serial_no => c.id = d.id

\* Once user and device leave things alone, reloads end (the refresh at the end of each
\* setup may enable the entity, which reloads the entry, which refreshes again), and
\* every enabled entity of the device is active, none of them one whose event the device
\* does not report.
Settles ==
    <>[](/\ stage = "loaded" /\ ~due
         /\ Provided => (sensor # "none" <=> entry = "enabled")
         /\ Provided /\ event = "silent" => sensor = "none")
================================================================================
