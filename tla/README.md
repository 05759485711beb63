# Verification of the Hikvision integration

`custom_components/hikvision_next` lets Home Assistant poll and control Hikvision
recorders and cameras over ISAPI (XML over HTTP) and receive their event
notifications.  It is asyncio code: everything between two `await`s is one step, and
coordinators, switch commands, camera images, event posts and the setup and unload of
an entry interleave at every `await`, with a device that may be slow, busy, rebooting,
reconfigured or unreachable.

This directory models the parts of it in which order, failure and sharing matter,
checks them with TLC on small instances, and proves the most important results with
TLAPS for every instance.

## Inventory

| Component | State | Operations | What is hard | What makes it correct |
|---|---|---|---|---|
| Polling coordinators (`coordinator.py`, `sensor.py`) | `data`, `last_update_success`, `failed_keys`, `last_successful_update`, `device.storage`, `_poll_storage` | `_async_update_data`, `_complete_poll`, `data_is_current` | partial failure; errors suppressed during setup; state written in the middle of a poll | an available value is recent; availability follows the last poll; nothing good is lost; recovery |
| Authentication (`hikvision_device.py`, `isapi/isapi.py`) | `_auth_method`, `auth_token_expired` | `request`, `_detect_auth_method`, `handle_exception` | several coordinators share both | the user is asked for credentials when, and only when, they are refused |
| Entry lifecycle (`__init__.py`, `hikvision_device.py`) | entry state, the notification host stored in the device, the registered view | set up, retry, unload, reload, disable | a setup that fails half way; requests lost; entries in any order | the host is set while loaded and reverted after; one view |
| Switch commands (`switch.py`, `isapi/isapi.py`) | the device's switches | mutex check, read, write, requested refresh | check-then-act over three requests; polls at the same time | exclusive detections are not both enabled; the switch shows what was set |
| Event notifications (`notifications.py`, `binary_sensor.py`) | the posts' lists and lookups, sensor states | post, lookup, routing, trigger | devices that share an address; entries unload during a lookup | an event reaches the sensor of the device that sent it |
| Stream discovery (`isapi/isapi.py`) | `camera.streams` | `discover_camera_streams`, `get_camera_streams` | old recorders reject valid channels after an unsupported one | required streams of all cameras survive |
| Snapshots (`camera.py`, `isapi/isapi.py`) | `stream.use_alternate_picture_url` | `get_camera_image` | recursion with a shared flag | ends; finds the URL that works |
| Entity registry (`__init__.py`, `binary_sensor.py`) | `disabled_by` of entities, their states | platform setup, `refresh_disabled_entities_in_registry` | the flag has several owners; each enabling reloads the entry | only what the integration disabled is enabled again; reloads end |
| Config flow (`config_flow.py`) | entry data, unique id, open flows | user, reconfigure, reauth | validation awaits the device; several flows at once | one entry per device; an entry keeps its device |
| Migration (`__init__.py`) | entry version, unique id | `async_migrate_entry` | two updates, the second of which may be refused | unique ids and versions agree |
| Device, camera and event discovery (`isapi/isapi.py`), alert routing (`notifications.py`) | `cameras`, `supported_events` | `get_hardware_info` and its parts, `update_alert_channel` | missing or repeated serial numbers; cameras that come and go; several ways to number a camera | distinct identities; an alert reaches the sensor of its camera |
| Services, snapshot files, diagnostics | none that outlives a call | reboot, raw request, dump | - | - |

The interaction: `async_setup_entry` creates a `HikvisionDevice` (an `ISAPIClient` with
the entry's configuration), reads the hardware, sets the notification host, runs the
first refresh of both coordinators and forwards the entry to the platforms.  Entities
read the coordinators' `data`; switches send commands through the client and request
a refresh; the shared HTTP view finds the entry by the sender's address.

## Modules, runs and bounds

Every module models one component and has an `MC` module with the values of its
constants; `<run>.cfg` is the configuration of a run.  A run that is marked (violation)
checks one statement of the repository's docs, comments or tests, and TLC shows how the
code breaks it.  Every other run passes.  All properties of a module are checked by one
run on one instance, as large as a few minutes allow.

### PollCycle, SampleCache

`PollCycle` is one coordinator, from the setup of its entry to its periodic polls.
A poll asks its keys one at a time in the order of the code.  The device answers in one
step (`DeviceAnswers`), the poll goes on with the answer in a later one (`Resume`), and
the device may change in between.  The last `Resume` of a poll includes
`_complete_poll` and what `DataUpdateCoordinator` does with its result.  The setup
phases matter because `ISAPIClient.request` turns HTTP errors into empty answers until
`pending_initialization` is cleared, which is after the first refresh.

`SampleCache` is the promise of README.md:25-26 of the repository with one step per
poll.  `PollCycle` implements it (`CacheSpec`): checked by TLC and proved.

- `poll_events` (pass): a camera event and storage, two values; every mix of
  answers, errors, device changes and setup failures.
- `poll_first_refresh` (violation): "only values whose requests failed are marked
  unavailable" fails: an HTTP error in the first refresh becomes a made-up "off" that is shown
  as available.  For the secondary coordinator, whose getters raise on an empty answer, the
  same statement is proved (`SecondaryFailuresShow`).

Two keys are enough: one that fails while the other succeeds is a partial failure, and
the two kinds differ in what they write.  Two values distinguish old from new.

### AuthRecovery

All coordinators of an entry share one client.  A poll sends `Requests` requests; each
is answered by the device (`DeviceAnswers`) and processed later (`Resume`, `Detected`
for the detection request).  Tokens are numbered by the boot that issued them.  Which
coordinators the entry has (`active`) is chosen initially.

- `auth` (pass, with fairness): with one or two coordinators, two requests per poll and one
  reboot: a refusal always reaches the user, and with valid credentials all end up
  polling without a 401.  Alone, a coordinator asks the user only for credentials that the
  device refused, and only after a retry.
- `auth_race` (violation): with two coordinators one reboot makes the integration ask the
  user for credentials that are valid: the second 401 belongs to a request that was sent
  before the token was dropped.

One reboot (`MaxReboots`) is a bound that `AloneReauthOnlyIfRejected` needs: a second reboot
between the retry and its answer is indistinguishable from a refusal.

### Snapshot

`get_camera_image` for concurrent calls: each device answer and what the call does with
it is one step, since nothing is shared before the answer is looked at.

- `snapshots` (pass, with fairness): two calls on two streams, so both that share a stream
  and that do not.  `AlternateIsTried` names its exception: a call whose answer arrives
  after another call switched the stream returns the XML error as its picture
  (`overtaken`; `isapi.py:806` tests the shared flag, not the URL that was asked).

`SentCap` bounds the history counter one above the largest value the property allows.

### EntryLifecycle

The entries of the integration: setup in its awaited parts (`step`: hardware discovery, the
read and the write of `set_alarm_server`, the first refreshes, the platforms), retries,
unload, reload after a reconfiguration, disabling, restarts of Home Assistant, and the
device's notification host, which others may change too.  `HttpError` is an answer that
`request` turns into an empty one during setup; `Lost` is a request that raises.

- `lifecycle` (pass, with fairness): two entries, the first with a device that has the
  notification host setting.  The devices of two entries share nothing, so one
  with the setting is enough for the host properties, and two entries are needed for the
  view.  Deadlock is not checked: all entries may be disabled for good.
- `lifecycle_revert` (violation): a setup that set the host and then failed leaves it set
  when the entry is unloaded, because Home Assistant does not call `async_unload_entry` for
  an entry that is not loaded.

The view (`view`) has no property beyond `FirstEntryServes`, because the code does not give
one: reloading the first entry registers the view again, although `__init__.py:78`
speaks of once, and no entry registers it if the first enabled one is disabled before it
was loaded.

### StreamDiscovery

`discover_camera_streams` asks for the required streams of all cameras and then for the optional
ones (`Plan`, of two `Pass`es over the cameras), with retries for the required ones (`Attempts`) and, for recorders, streams assumed
without the device's consent (`Fallback`).  The device may reject each valid channel up to `Transient`
times, and everything after it was asked for an optional stream it does not have, until it calms
down.

- `streams` (pass): two cameras, recorder or not, any supported streams, up to two transient
  rejections: one less than the attempts, which is what a device without the fallback can
  stand.  A failed request ends the setup, and discovery ends anyway, so deadlock is not checked.

### SwitchCommands

A command is a mutex check (events, if the device supports it), a read and a write, each
an awaited request whose answer may be lost, and a refresh requested at the end.  Polls of the two coordinators
run at the same time: a refresh requested while one runs is dropped by
`DataUpdateCoordinator` (`dropped`); others are left `asked` until it starts.

- `switches` (pass): two commands on devices with any two of two exclusive events, an output
  and the holiday mode.  Two commands touch at most two switches, so two at a time are enough.
  `ExclusiveEventsStayExclusive` excepts two events turned on at the same time (`raced`): the
  check and the write are separate requests, so both pass.

### EventNotifications

A post takes the list of loaded entries, looks the names of their hosts up one by one
(awaited), and attributes the event to the entry whose host has the sender's address, or
among several to the one that has the alert's MAC address.  Entries are set up and unloaded
meanwhile; Home Assistant deletes an unloaded entry's `runtime_data`, and reading it ends
the post with an error that is logged.  Posts share only the sensors, so one is followed.

- `notifications` (pass): three entries, two hosts and two addresses, in every combination:
  different devices, several behind one router, two entries with one host.  Three entries
  are needed for a device to be absent while two others share its address.
  `EventsArrive` names its exception: an entry unloaded during the lookups
  ends the search for the devices of all other entries as well.

The list is taken before the lookups (`notifications.py:76`), and an entry's state is not looked at
again: an entry whose unload begins during a lookup may still be chosen and its sensor,
unavailable by then, set to on, although `tests/test_notifications.py:111` has "Only loaded entries
participate in notification source matching".  `Trigger` in the model shows it; no property forbids it.

### ConfigFlow

The entries of the integration and the flows that add and change them.  A flow shows its
form, asks the device at the host that was entered, and goes on with whichever device
answered (`Update`, `Abort`, `CreateEntry` or `ShowErrors`).  A device is its serial
number, an entry's `data` is the device that answered when it was stored: the addresses of the
devices may change at any time, so that any device may answer.  `Migrate` is the part of
`async_migrate_entry` that changes the unique id; `frozen` is a Home Assistant that refuses
`config_entry.version = 2` (2024.3 and later; hacs.json admits 2022.8), where a version 1 entry stays at version 1 with
its unique id already converted.

- `config_flow` (pass): two flows at a time, three entries in turn, two devices.  Two flows
  race for one device, one of three entries may be removed and the device added again, and two devices
  are enough for the wrong one to answer.  An entry with the nested unique id of version 1 that is disabled is not
  migrated, and its device can be added a second time (`twins`, excepted from
  `OneEntryPerDevice`).  A reauthentication compares the unique id that Home Assistant gave it
  and not the device's (`config_flow.py:96`): what it stores may lead anywhere (`reauthed`,
  excepted from `EntryKeepsItsDevice`).

### Discovery, EventEntities

`Discovery` has what is computed without waiting: the cameras of a recorder, with their ids, input
ports and identities (`serial_no`), and the camera that the channel of an alert is led to.
`EventEntities` uses it for the binary sensor of one event of one camera, of which it does not matter
which: the setup reads the cameras, then the events, adds the entity and brings its
registry entry in line with the device (`Refreshed`); the user, the user's preference, the camera's
device in Home Assistant and the integration disable and enable it; Home Assistant reloads the
entry after it was enabled (`due`); cameras are plugged and unplugged, and alerts arrive.

- `event_entities` (pass, with fairness): two proxied inputs whose cameras have port 1 or 2, and one
  serial number or none, with no or two analog inputs before them, and up to three changes
  from outside (`MaxChanges`).  Two cameras with one serial number, a port that is another camera's, and an
  analog camera with the port of a proxied one all occur; three changes are enough to disable by two
  owners and enable by one.  Deadlock is not checked: a loaded entry rests once the changes are
  used up.

`AlertsReachTheirCamera` names what it needs.  The cameras read at setup are still those of
the recorder (`Current`): a camera attached later is unknown until a reload.  No input has a
number above 32 (`IdsAreNotOffset`), since larger ids look like proxied ones.  And input ports
tell the proxied inputs apart (`PortsTellInputs`), or there is no analog input and
every camera has port 1, as the network cameras of recorders report it: then only channel 33 finds a
port, that of camera 1, and the fallback `channel - 32` is right for the others.  Elsewhere the code misleads alerts: the first IP camera with
a matching port is taken, whichever input it is at.

## Fairness

Home Assistant's timers call the coordinators again and again and retry a failed setup
(`ConfigEntryNotReady`), so `StartPoll`, `Discover` and the setups of EntryLifecycle (`Run`)
are weakly fair.  Every request ends: httpx
raises after the timeout of 20 seconds the client passes (`isapi.py:866`), so answers and
resumptions are weakly fair.  Nothing makes the device behave: the liveness properties
speak of a device that has settled (`calm`), and no fairness makes it settle.

## What is proved

Each component's theorems are in a module of their own, `<module>Proofs`; all hold for
every value of the constants that satisfies the module's assumptions.

`PollCycleProofs`: type correctness, `CurrentIsRecent`,
`AvailabilityFollowsLastPoll`, `StorageAgrees`, `AgeOfEverySample`, and that
`Spec` implements `SampleCache`, for all sets of keys and values that satisfy the
assumptions of `PollCycle` (a key has a kind, one coordinator's kinds, at
most one storage listing and never storage alone).  The inductive invariant adds to the
properties what a running poll
knows: answered and failed keys are disjoint and attempted, drafts of keys not answered
are the old samples, answers in flight were held by the device since the poll began,
and storage agrees with the draft once the storage key was answered.
`SecondaryFailuresShow` is `FailedRequestIsUnavailable` for a coordinator without the kinds whose getters
read a value out of an empty answer; `MadeUpValuesEnd` is what holds of the others: the
made-up values of the first refresh are gone with the first poll of the loaded entry that made up none.
`SamplesAreKept` (a value is not forgotten while its entry goes on) follows from the refinement: of the
steps of `SampleCache` only `Forget` loses samples.  `RecoveryTakesOnePoll` is the part of `Recovery`
that needs no fairness: the first poll that a settled device answered without trouble
(`Untroubled`) sets every polled value right, and no later poll spoils one.
`RecoveryFromScheduling` is `Recovery` itself, from hypotheses about the scheduling (see below).

`AuthRecoveryProofs`: type correctness for any number of coordinators and reboots, and
`ReauthAfterRetry` for an entry with a single coordinator: as long as nobody else writes
`auth_token_expired`, a 401 that starts reauthentication answers a
request sent under suspicion (`SuspicionInv`).  `OneRebootIsRecovered` is `AloneReauthOnlyIfRejected` for
one reboot at most: the first token is dropped only after the reboot is over, so that every later
detection is challenged and yields a token the device accepts (`FreshInv`).
For any number of coordinators, `FalseReauthTakesReboot` says that without a reboot or a refusal
nothing, failed requests included, brings up reauthentication, which bounds the finding of
`auth_race`; `RecoveryLasts` that a recovered entry stays so; `SuspicionEndsInReauth`
that a poll cannot clear a suspicion that is justified, for it is cleared only by a clean poll, and
none is clean once the polls begun with good credentials ended (`Refused`).  `RefusalFromScheduling` is
`RefusalReachesUser`.

`StreamProofs`, of Snapshot: type correctness, `RequestsAreBounded`, `AlternateIsTried`,
`BusyDeviceIsRetried`, and `AlternateIsNeeded` (a stream whose main URL works keeps it), for any number of
calls and streams.  The inductive invariant bounds the requests sent by the attempt of a call and by whether it
still uses the main URL, so that a switch of the URL, which restarts the attempts, happens at most once.
`BoundedCallsEnd` draws `CallsEnd` from it: the requests sent are the variant.

`StreamProofs`, of StreamDiscovery: type correctness, `RequiredStreamsFound`,
`FallbackIsForRecorders` and `StreamsAreInOrder` for any number of cameras.  The first lemmas say where in `Plan`
each channel is (`Position`), and that no optional one is before a required one.  The inductive invariant says of the channels asked so far what
the properties say at the end (`FoundInv`, `FallbackInv`); that the device is calm until
the first optional request, which is what the order of the requests is for (`CalmInv`); and that
an attempt for a supported required channel fails only by a rejection for no reason, of which the device has
`Transient` (`TriesInv`).  `RequiredStreamsAreFound` assumes fewer of those than
attempts, which only a device without the fallback needs (`RecordersKeepRequiredStreams`).

`SwitchCommandsProofs`: type correctness, `ExclusiveEventsStayExclusive`, `ChangesArePolled` and
`SuccessMeansEffect`, for any number of commands at a time.  Exclusion is between pairs of distinct events (`ExclusiveAssumption`).  The
inductive invariant adds what holds unless two commands raced: no two commands turn exclusive events on
(`NoneRace`), and one that passed the check finds it still holds when it writes (`CheckHolds`).

`EntryLifecycleProofs`: type correctness, `HostIsSetWhileLoaded`, `HostIsResetAfterLoaded` and
`HostIsLeftAlone` (an entry that does not control the host never changes it) for any number of entries.  The
inductive invariant says per entry which
steps its state may await, and what is already true of the host at each of them: after
the write of a setup without a fault it is this Home Assistant's, after that of an unload the reset value.
Its proof shows once that a step of one entry leaves the others alone, and then
goes through the steps of one.  `FirstEntryRegisters`: the first entry does not stay
loaded without the view, unless its reload is still to come, whatever other entries do.
`EnabledEntriesSettle` is `SetupsEnd` for one entry: its variant (`Distance`) counts the steps from each state to a final
one, and 10 more for a reload that is still to come, at whatever step it finds the entry.
`FirstEntryServesInTheEnd` is `FirstEntryServes`.

`EventNotificationsProofs`: type correctness, `RightSensor` and `EventsArrive` for any number of
entries and any network.  The inductive invariant adds that, while a post
awaits a lookup and no entry of its list was unloaded, all of the list are still loaded
(`LookupInv`); lemmas about `Matches` and `Chosen` then say who is chosen.

`ConfigFlowProofs`: type correctness, `OneEntryPerDevice` and `EntryKeepsItsDevice` for any numbers of entries,
flows and devices.  The two properties are inductive together with the types and with the fact that only flows of
the user have no entry.

`EventEntitiesProofs`: type correctness, `OwnerIsRespected`, `IdentitiesAreDistinct` and
`AlertsReachTheirCamera`, for any number of inputs, ports, serial numbers and changes.  The inductive
invariant says that the cameras known are those of some state of the recorder (`CamerasWereRead`) and relates the
registry entry to who disabled it; lemmas about `Cameras` and `Resolved` do the rest.
`LoadedEntitiesAreInLine` is the safety half of `Settles`: an enabled entity of a loaded entry is active, or
the reload that its enabling caused is due (`ActiveInv`).  `ReloadsEnd` is `Settles`: the
setup that starts after the last change from outside reads the device as it is (`UpToDate`), the
one after it enables what that says, and the third has nothing to enable
(`NothingToEnable`).

Five theorems above end in a liveness property that a run checks under fairness: `BoundedCallsEnd`,
`RecoveryFromScheduling`, `RefusalFromScheduling`, `ReloadsEnd`, `FirstEntryServesInTheEnd`
(and `EnabledEntriesSettle`).  The provers cannot expand ENABLED, so fairness is a hypothesis,
written with a state predicate in its place: `<>[]P => []~[][~A]_vars` is weak fairness of `A` where `P`
says when `A` is possible (`~[][~A]_vars` is `<><<A>>_vars`).  What each assumes:

| theorem | hypotheses beside `Spec` |
|---|---|
| `BoundedCallsEnd` | a request that is awaited ends |
| `RecoveryFromScheduling` | polls end; polls, discovery, the addition of entities and the end of a setup happen where they are possible |
| `RefusalFromScheduling` | polls begun before the device settled are over in the end; a device that refuses has its 401s handled |
| `ReloadsEnd` | changes from outside end; setups and due reloads go on |
| `EnabledEntriesSettle`, `FirstEntryServesInTheEnd` | setups, unloads and reloads of that one entry go on |

The hypotheses of `BoundedCallsEnd`, those of `ReloadsEnd` about setups and reloads, and those of
`RecoveryFromScheduling` except that polls end, are what the `WF_` formulas of the
specification say; changes from outside end because `MaxChanges` bounds them.  The others are not fairness of an action but
follow from it: that polls end, that a refusal takes over, that 401s are handled, that the steps of an entry go on.
TLC found each of them true under `FairSpec` on the instance of its run.

Only model-checked: the liveness properties as consequences of the `WF_` formulas of the specifications,
because of ENABLED; `RecoversAlone`, of which `RecoveryLasts` is the lasting half (a device may accept an
old token for good, so that the state it starts from need not come); `SetupsEnd` for all entries at once,
since joining what holds of each takes an induction over their number; and that a poll of
PollCycle ends, which takes one over the number of its keys.

## What is not modelled

Services, snapshot files and diagnostics, which keep no state.  The parts of discovery that only read and
store (names, models, ports, capabilities), the channels of a single camera, and its additional
requests for scene change and multi-channel events; alarm inputs and PIR.  The removal of the alarm server sensors of
version 2, `async_remove_config_entry_device`, and an entity whose camera is missing at setup, which Home
Assistant keeps with the state it had.  In the modelled components: a
platform that refuses to unload, and
the second attempt of Home Assistant at a platform that fails; the text of requests and
answers; that storage is polled without having entities if its request in the first
refresh got an HTTP error (`coordinator.py:86` says otherwise); fields of the configuration other than the
device they lead to.

## Plan

Done, the most important behaviour first: polling, authentication, snapshots, entry lifecycle,
switch commands, stream discovery, event notifications, config flow, discovery and event entities.

Next: a composition of SwitchCommands with PollCycle, to tell whether a requested refresh shows what
was set; alarm inputs in Discovery.  To prove: more of the hypotheses
of `RefusalFromScheduling` from the fairness of the single actions; `RecoversAlone`
for a device that drops old tokens.
