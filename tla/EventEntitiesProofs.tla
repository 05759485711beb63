-------------------------- MODULE EventEntitiesProofs --------------------------
(***************************************************************************)
(* Theorems about Discovery and EventEntities for any number of inputs, any *)
(* ports and serial numbers, and any number of changes: which disablements  *)
(* are lifted, how cameras are identified, and where alerts arrive.        *)
(***************************************************************************)
EXTENDS EventEntities, TLAPS

\* The sources that a recorder may have for its proxied inputs.
Configurations == [Inputs -> Sources \union {NoSource}]

\* The cameras are those of some configuration, or none were read yet.
CamerasWereRead ==
    cameras = {} \/ \E s \in Configurations : cameras = Cameras(analog, s)

\* Who disabled an entity is known from its registry entry, but for the preference.
MarksTellOwners ==
    /\ entry = "absent" => by = "nobody"
    /\ entry = "integration" => by \in {"integration", "preference"}
    /\ entry = "device" => by = "device"

IInv == TypeOK /\ CamerasWereRead /\ MarksTellOwners /\ OwnerIsRespected
--------------------------------------------------------------------------------
\* The ids of the cameras of a recorder are those of its channels.
LEMMA CameraIds ==
    ASSUME NEW a \in Nat, NEW s \in Configurations, NEW c \in Cameras(a, s)
    PROVE  c.id \in 1..(a + Digital)
<1>1. CASE \E k \in Connected(s) : c = IPCamera(a, s, k)
  <2>1. PICK k \in Connected(s) : c = IPCamera(a, s, k)
    BY <1>1
  <2>2. c.id = a + k /\ k \in 1..Digital
    BY <2>1 DEF IPCamera, Connected, Inputs
  <2> QED
    BY <2>2, DigitalAssumption
<1>2. CASE \E i \in 1..a : c = AnalogCamera(i)
  BY <1>2, DigitalAssumption DEF AnalogCamera
<1> QED
  BY <1>1, <1>2 DEF Cameras

\* Cameras of one recorder with the same serial number are the same camera.
LEMMA SerialsIdentify ==
    ASSUME NEW a \in Nat, NEW s \in Configurations,
           NEW c \in Cameras(a, s), NEW d \in Cameras(a, s), c.serial_no = d.serial_no
    PROVE  c.id = d.id
<1>1. CASE \E i, j \in 1..a : c = AnalogCamera(i) /\ d = AnalogCamera(j)
  BY <1>1 DEF AnalogCamera
<1>2. CASE \E j, k \in Connected(s) : c = IPCamera(a, s, j) /\ d = IPCamera(a, s, k)
  <2>1. PICK j, k \in Connected(s) : c = IPCamera(a, s, j) /\ d = IPCamera(a, s, k)
    BY <1>2
  <2>2. j \in Nat /\ k \in Nat /\ c.id = a + j /\ d.id = a + k
    BY <2>1, DigitalAssumption DEF IPCamera, Connected, Inputs
  <2>3. CASE KeepsSerial(s, j) /\ KeepsSerial(s, k)
    <3>1. s[j].serial = s[k].serial
      BY <2>1, <2>3 DEF IPCamera
    <3>2. ~(j < k) /\ ~(k < j)
      BY <2>1, <2>3, <3>1 DEF KeepsSerial
    <3> QED
      BY <2>2, <3>2
  <2>4. CASE ~KeepsSerial(s, j) /\ ~KeepsSerial(s, k)
    BY <2>1, <2>2, <2>4 DEF IPCamera
  <2>5. CASE KeepsSerial(s, j) /\ ~KeepsSerial(s, k)
    BY <2>1, <2>5 DEF IPCamera
  <2>6. CASE ~KeepsSerial(s, j) /\ KeepsSerial(s, k)
    BY <2>1, <2>6 DEF IPCamera
  <2> QED
    BY <2>3, <2>4, <2>5, <2>6
<1>3. ASSUME NEW k \in Connected(s), NEW i \in 1..a
      PROVE  IPCamera(a, s, k).serial_no # AnalogCamera(i).serial_no
  BY DEF IPCamera, AnalogCamera
<1> QED
  BY <1>1, <1>2, <1>3 DEF Cameras

\* The smallest of a set of ids, as the list of cameras is searched from its start.
LEMMA FirstFound ==
    ASSUME NEW S \in SUBSET Nat, NEW i \in S, \A j \in S : i <= j
    PROVE  (CHOOSE k \in S : \A j \in S : k <= j) = i
<1>1. \A k \in S : (\A j \in S : k <= j) => k = i
  BY SMT
<1> QED
  BY <1>1

\* A channel that a recorder names in an alert is led back to the camera.
LEMMA ResolvedIsRight ==
    ASSUME NEW a \in Nat, NEW s \in Configurations, a + Digital <= ProxyOffset,
           \/ \A k \in Connected(s) : s[k].port = k
           \/ a = 0 /\ \A k \in Connected(s) : s[k].port = 1,
           NEW c \in Channels(a, s), NEW n \in Reported(a, c)
    PROVE  Resolved(Cameras(a, s), n) = c
<1> DEFINE found(p) == {d.id : d \in {e \in Cameras(a, s) : e.ip /\ e.input_port = p}}
<1>1. c \in 1..(a + Digital)
  BY DigitalAssumption DEF Channels, Connected, Inputs
<1>2. c <= ProxyOffset /\ c \in Nat
  BY <1>1, DigitalAssumption DEF ProxyOffset
<1>3. CASE n = c
  BY <1>2, <1>3 DEF Resolved
<1>4. CASE n # c
  <2>1. c > a /\ n = ProxyOffset + (c - a)
    BY <1>4 DEF Reported
  <2>2. PICK k \in Connected(s) : c = a + k
    BY <1>1, <2>1 DEF Channels
  <2>3. k \in 1..Digital
    BY DEF Connected, Inputs
  <2>4. n = ProxyOffset + k /\ n - ProxyOffset = k /\ ~(n <= ProxyOffset)
    BY <2>1, <2>2, <2>3, DigitalAssumption DEF ProxyOffset
  <2>5. Resolved(Cameras(a, s), n) =
          IF found(k) = {} THEN k ELSE CHOOSE i \in found(k) : \A j \in found(k) : i <= j
    <3>1. Resolved(Cameras(a, s), n) =
            IF found(n - ProxyOffset) = {} THEN n - ProxyOffset
            ELSE CHOOSE i \in found(n - ProxyOffset) : \A j \in found(n - ProxyOffset) : i <= j
      BY <2>4, Zenon DEF Resolved
    <3> QED
      BY <2>4, <3>1, Zenon
  <2>6. found(k) = {a + j : j \in {i \in Connected(s) : s[i].port = k}}
    <3>1. ASSUME NEW d \in Cameras(a, s), d.ip, d.input_port = k
          PROVE  \E j \in Connected(s) : s[j].port = k /\ d.id = a + j
      BY <3>1 DEF Cameras, IPCamera, AnalogCamera
    <3>2. ASSUME NEW j \in Connected(s), s[j].port = k
          PROVE  a + j \in found(k)
      <4>1. /\ IPCamera(a, s, j) \in Cameras(a, s)
            /\ IPCamera(a, s, j).ip /\ IPCamera(a, s, j).input_port = k
            /\ IPCamera(a, s, j).id = a + j
        BY <3>2 DEF Cameras, IPCamera
      <4> QED
        BY <4>1
    <3> QED
      BY <3>1, <3>2
  <2>7. found(k) \subseteq Nat
    BY <2>6, DigitalAssumption DEF Connected, Inputs
  <2>8. CASE \A i \in Connected(s) : s[i].port = i
    <3>1. found(k) = {a + k}
      BY <2>6, <2>8
    <3> HIDE DEF found
    <3> QED
      BY <2>2, <2>5, <3>1
  <2>9. CASE a = 0 /\ \A i \in Connected(s) : s[i].port = 1
    <3>1. CASE k = 1
      <4>1. a + k \in found(k)
        BY <2>6, <2>9, <3>1
      <4>2. \A j \in found(k) : a + k <= j
        BY <2>6, <2>9, <3>1, DigitalAssumption DEF Connected, Inputs
      <4> HIDE DEF found
      <4> QED
        BY <2>2, <2>5, <2>7, <4>1, <4>2, FirstFound
    <3>2. CASE k # 1
      <4>1. found(k) = {}
        BY <2>6, <2>9, <3>2
      <4> HIDE DEF found
      <4> QED
        BY <2>2, <2>3, <2>5, <2>9, <4>1, DigitalAssumption
    <3> QED
      BY <3>1, <3>2
  <2> QED
    BY <2>8, <2>9
<1> QED
  BY <1>3, <1>4
--------------------------------------------------------------------------------
LEMMA AnalogIsNat == TypeOK => analog \in Nat
BY AnalogInputsAssumption DEF TypeOK

LEMMA InitIInv == Init => IInv
<1> SUFFICES ASSUME Init PROVE IInv
  OBVIOUS
<1>0. changes \in 0..MaxChanges
  BY MaxChangesAssumption DEF Init
<1>1. TypeOK
  BY <1>0 DEF Init, TypeOK
<1>2. CamerasWereRead /\ MarksTellOwners /\ OwnerIsRespected
  BY DEF Init, CamerasWereRead, MarksTellOwners, OwnerIsRespected
<1> QED
  BY <1>1, <1>2 DEF IInv

\* A change is counted.
LEMMA ChangeIsCounted == TypeOK /\ Change => changes' \in 0..MaxChanges
BY MaxChangesAssumption DEF TypeOK, Change

\* Steps of a setup.
LEMMA SetupKeepsIInv ==
    ASSUME IInv, Setup
    PROVE  IInv'
<1> USE DEF hwVars, deviceVars, registryVars
<1>1. CASE ReadCameras
  <2>1. source \in Configurations /\ analog \in Nat
    BY AnalogIsNat DEF IInv, TypeOK, Configurations
  <2>2. \A c \in cameras' : c.id \in 1..(analog + Digital)
    BY <1>1, <2>1, CameraIds DEF ReadCameras
  <2>3. TypeOK'
    BY <1>1, <2>2 DEF ReadCameras, IInv, TypeOK
  <2>4. CamerasWereRead'
    BY <1>1, <2>1 DEF ReadCameras, CamerasWereRead
  <2>5. MarksTellOwners' /\ OwnerIsRespected'
    BY <1>1 DEF ReadCameras, IInv, MarksTellOwners, OwnerIsRespected
  <2> QED
    BY <2>3, <2>4, <2>5 DEF IInv
<1>2. CASE ReadEvents
  BY <1>2 DEF ReadEvents, Capability, IInv, TypeOK, CamerasWereRead, MarksTellOwners, OwnerIsRespected
<1>3. CASE AddEntities
  BY <1>3 DEF AddEntities, NewEntry, IInv, TypeOK, CamerasWereRead, MarksTellOwners,
              OwnerIsRespected
<1>4. CASE Refresh
  <2>1. due' \in BOOLEAN
    BY <1>4 DEF Refresh
  <2>2. entry' = entry \/ (entry = "enabled" /\ entry' = "integration")
                       \/ (entry = "integration" /\ entry' = "enabled")
    BY <1>4 DEF Refresh, Refreshed
  <2>3. TypeOK'
    BY <1>4, <2>1, <2>2 DEF Refresh, IInv, TypeOK, MarksTellOwners
  <2>4. CamerasWereRead' /\ MarksTellOwners' /\ OwnerIsRespected'
    BY <1>4, <2>2 DEF Refresh, IInv, CamerasWereRead, MarksTellOwners, OwnerIsRespected
  <2> QED
    BY <2>3, <2>4 DEF IInv
<1> QED
  BY <1>1, <1>2, <1>3, <1>4 DEF Setup

\* Steps after which the device object is gone.
LEMMA UnloadKeepsIInv ==
    ASSUME IInv, Unload, due' \in BOOLEAN, changes' \in 0..MaxChanges
    PROVE  IInv'
BY DEF Unload, hwVars, deviceVars, IInv, TypeOK, CamerasWereRead, MarksTellOwners,
       OwnerIsRespected

\* Steps that concern the entity's state or the device, not the registry.
LEMMA OtherStepsKeepIInv ==
    ASSUME IInv, UNCHANGED <<hwVars, registryVars, setupVars>>,
           source' \in Configurations, center' \in BOOLEAN, changes' \in 0..MaxChanges,
           \/ sensor' = sensor
           \/ sensor # "none" /\ sensor' \in {"off", "on"}
    PROVE  IInv'
BY DEF hwVars, registryVars, setupVars, Configurations, IInv, TypeOK, CamerasWereRead,
       MarksTellOwners, OwnerIsRespected

\* Steps of the user that concern the registry.
LEMMA RegistryStepsKeepIInv ==
    ASSUME IInv, UserDisables \/ UserEnables \/ DisableDevice \/ EnableDevice
    PROVE  IInv'
<1> USE DEF hwVars, deviceVars, setupVars
<1>1. changes' \in 0..MaxChanges
  BY ChangeIsCounted DEF IInv, UserDisables, UserEnables, DisableDevice, EnableDevice
<1>2. CASE UserDisables
  BY <1>1, <1>2 DEF UserDisables, IInv, TypeOK, CamerasWereRead, MarksTellOwners,
                    OwnerIsRespected
<1>3. CASE UserEnables
  BY <1>1, <1>3 DEF UserEnables, IInv, TypeOK, CamerasWereRead, MarksTellOwners,
                    OwnerIsRespected
<1>4. CASE DisableDevice
  BY <1>1, <1>4 DEF DisableDevice, IInv, TypeOK, CamerasWereRead, MarksTellOwners,
                    OwnerIsRespected
<1>5. CASE EnableDevice
  <2>1. due' \in BOOLEAN
    BY <1>5 DEF EnableDevice
  <2>2. TypeOK'
    BY <1>1, <1>5, <2>1 DEF EnableDevice, IInv, TypeOK
  <2>3. CamerasWereRead' /\ MarksTellOwners' /\ OwnerIsRespected'
    BY <1>5 DEF EnableDevice, IInv, CamerasWereRead, MarksTellOwners, OwnerIsRespected
  <2> QED
    BY <2>2, <2>3 DEF IInv
<1> QED
  BY <1>2, <1>3, <1>4, <1>5

LEMMA NextKeepsIInv == IInv /\ [Next]_vars => IInv'
<1> SUFFICES ASSUME IInv, [Next]_vars PROVE IInv'
  OBVIOUS
<1>1. /\ due \in BOOLEAN /\ center \in BOOLEAN /\ changes \in 0..MaxChanges
      /\ source \in Configurations
  BY DEF IInv, TypeOK, Configurations
<1>2. CASE Setup
  BY <1>2, SetupKeepsIInv
<1>3. CASE ReloadDue \/ SetupFails \/ UserReloads
  BY <1>1, <1>3, UnloadKeepsIInv, ChangeIsCounted
     DEF ReloadDue, SetupFails, UserReloads, IInv
<1>4. CASE Poll
  BY <1>1, <1>4, OtherStepsKeepIInv DEF Poll, deviceVars
<1>5. ASSUME NEW c \in Channels(analog, source), Alert(c)
      PROVE  IInv'
  <2>1. sensor' = sensor \/ (sensor # "none" /\ sensor' = "on")
    BY <1>5 DEF Alert
  <2>2. UNCHANGED <<hwVars, deviceVars, registryVars, setupVars, changes>>
    BY <1>5 DEF Alert
  <2> QED
    BY <1>1, <2>1, <2>2, OtherStepsKeepIInv DEF deviceVars
<1>6. CASE UserDisables \/ UserEnables \/ DisableDevice \/ EnableDevice
  BY <1>6, RegistryStepsKeepIInv
<1>7. CASE SwitchCenter
  BY <1>1, <1>7, OtherStepsKeepIInv, ChangeIsCounted DEF SwitchCenter, IInv
<1>8. ASSUME NEW k \in Inputs, Plug(k)
      PROVE  IInv'
  <2>1. source' \in Configurations
    BY <1>1, <1>8 DEF Plug, Configurations
  <2> QED
    BY <1>1, <1>8, <2>1, OtherStepsKeepIInv, ChangeIsCounted DEF Plug, IInv
<1>9. CASE UNCHANGED vars
  BY <1>1, <1>9, OtherStepsKeepIInv DEF vars, deviceVars
<1> QED
  BY <1>2, <1>3, <1>4, <1>5, <1>6, <1>7, <1>8, <1>9 DEF Next

LEMMA Invariance == Spec => []IInv
BY InitIInv, NextKeepsIInv, PTL DEF Spec
--------------------------------------------------------------------------------
\* Type correctness, for all recorders and any number of changes.
THEOREM TypeCorrect == Spec => []TypeOK
<1>1. IInv => TypeOK
  BY DEF IInv
<1> QED
  BY Invariance, <1>1, PTL

\* However setups, refreshes and reloads follow on what the user and the device do, an
\* entity is enabled only if whoever had disabled it has lifted that, the preference for
\* new entities excepted (refresh_disabled_entities_in_registry).
THEOREM DisablementsStand == Spec => []OwnerIsRespected
<1>1. IInv => OwnerIsRespected
  BY DEF IInv
<1> QED
  BY Invariance, <1>1, PTL

\* Whatever serial numbers a recorder has for its sources, each of its cameras is a
\* device of its own (get_cameras).
THEOREM CamerasAreDistinct == Spec => []IdentitiesAreDistinct
<1>1. IInv => IdentitiesAreDistinct
  BY AnalogIsNat, SerialsIdentify DEF IInv, CamerasWereRead, IdentitiesAreDistinct
<1> QED
  BY Invariance, <1>1, PTL

\* For any number of inputs up to 32 in all, alerts are led back to the camera they came
\* from, if the cameras are up to date and their ports tell the inputs apart
\* (update_alert_channel).
THEOREM AlertsAreNotMisrouted == Spec => []AlertsReachTheirCamera
<1>1. IInv => AlertsReachTheirCamera
  <2> SUFFICES ASSUME IInv, Current, PortsTellInputs, IdsAreNotOffset,
                      NEW c \in Channels(analog, source), NEW n \in Reported(analog, c)
               PROVE  Resolved(cameras, n) = c
    BY DEF AlertsReachTheirCamera
  <2>1. analog \in Nat /\ source \in Configurations
    BY AnalogIsNat DEF IInv, TypeOK, Configurations
  <2>2. cameras = Cameras(analog, source)
    BY DEF Current
  <2> QED
    BY <2>1, <2>2, ResolvedIsRight DEF PortsTellInputs, IdsAreNotOffset
<1> QED
  BY Invariance, <1>1, PTL
--------------------------------------------------------------------------------
\* An entity that the platform was given has a registry entry; if it is enabled it has a
\* state, unless the reload that its enabling caused is still due; and it has none if its
\* event was read as not reported.
ProvidedIsRegistered ==
    stage \in {"added", "loaded"} /\ Provided => entry # "absent"

EnabledIsActive ==
    stage \in {"added", "loaded"} /\ Provided /\ entry = "enabled" /\ ~due => sensor # "none"

SilentIsInactive ==
    stage = "loaded" /\ Provided /\ event = "silent" => sensor = "none"

ActiveInv == ProvidedIsRegistered /\ EnabledIsActive /\ SilentIsInactive

LEMMA InitActive == Init => ActiveInv
BY DEF Init, ActiveInv, ProvidedIsRegistered, EnabledIsActive, SilentIsInactive

LEMMA NextKeepsActive ==
    ASSUME IInv, ActiveInv, [Next]_vars
    PROVE  ActiveInv'
<1> USE DEF ActiveInv, ProvidedIsRegistered, EnabledIsActive, SilentIsInactive, Provided,
            hwVars, deviceVars, registryVars, setupVars
<1>1. sensor # "none" => entry = "enabled"
  BY DEF IInv, TypeOK
<1>2. CASE ReadCameras \/ ReadEvents
  BY <1>2 DEF ReadCameras, ReadEvents
<1>3. CASE AddEntities
  BY <1>3 DEF AddEntities, NewEntry
<1>4. CASE Refresh
  <2>1. UNCHANGED <<watched, cameras, event>> /\ stage = "added" /\ entry' = Refreshed
    BY <1>4 DEF Refresh
  <2>2. /\ entry' = "enabled" => sensor' = sensor
        /\ entry' # "enabled" => sensor' = "none"
        /\ ~due' => ~due /\ (entry' = "enabled" => entry = "enabled")
    BY <1>4 DEF Refresh
  <2>3. /\ Provided /\ event = "silent" => entry' # "enabled"
        /\ entry # "absent" => entry' # "absent"
    BY <2>1 DEF Refreshed
  <2> QED
    BY <2>1, <2>2, <2>3
<1>5. CASE ReloadDue \/ SetupFails \/ UserReloads
  BY <1>5 DEF ReloadDue, SetupFails, UserReloads, Unload
<1>6. CASE Poll
  BY <1>6 DEF Poll
<1>7. ASSUME NEW c \in Channels(analog, source), Alert(c)
      PROVE  ActiveInv'
  <2>1. UNCHANGED <<watched, cameras, event, stage, entry, due>>
    BY <1>7 DEF Alert
  <2>2. sensor' = sensor \/ (sensor # "none" /\ sensor' = "on")
    BY <1>7 DEF Alert
  <2> QED
    BY <2>1, <2>2
<1>8. CASE UserDisables \/ UserEnables \/ DisableDevice \/ EnableDevice
  BY <1>8 DEF UserDisables, UserEnables, DisableDevice, EnableDevice
<1>9. CASE SwitchCenter \/ \E k \in Inputs : Plug(k)
  BY <1>9 DEF SwitchCenter, Plug
<1>10. CASE UNCHANGED vars
  BY <1>10 DEF vars
<1> QED
  BY <1>2, <1>3, <1>4, <1>5, <1>6, <1>7, <1>8, <1>9, <1>10 DEF Next, Setup

\* What Settles says of an entity whose entry is loaded with no reload due.
InLine ==
    /\ Provided => (sensor # "none" <=> entry = "enabled")
    /\ Provided /\ event = "silent" => sensor = "none"

\* Whatever user and device did, whenever the entry is loaded and no reload is due, the
\* enabled entities are the active ones, and none of them is one whose event was read as
\* not reported: an entity that was enabled without a reload to come would stay dead.
THEOREM LoadedEntitiesAreInLine == Spec => [](stage = "loaded" /\ ~due => InLine)
<1>1. IInv /\ ActiveInv => (stage = "loaded" /\ ~due => InLine)
  BY DEF IInv, TypeOK, ActiveInv, EnabledIsActive, SilentIsInactive, InLine
<1>2. IInv /\ ActiveInv /\ [Next]_vars => ActiveInv'
  BY NextKeepsActive
<1> QED
  BY InitActive, Invariance, <1>1, <1>2, PTL DEF Spec
--------------------------------------------------------------------------------
\* Reloads end: a setup that reads the device anew leaves nothing to enable for the next.

\* What was read is what the device would answer now.
UpToDate ==
    /\ stage \in {"cameras", "events", "added", "loaded"} => cameras = Cameras(analog, source)
    /\ stage \in {"events", "added", "loaded"} => event = Capability

\* No refresh of an up to date entry will enable the entity.
NothingToEnable == entry \in {"absent", "integration"} => Capability # "reported"

\* The camera of a channel is among those read.
LEMMA ChannelsHaveCameras ==
    ASSUME NEW a \in Nat, NEW s \in Configurations, NEW w \in Channels(a, s)
    PROVE  \E c \in Cameras(a, s) : c.id = w
<1>1. CASE w \in 1..a
  <2>1. AnalogCamera(w) \in Cameras(a, s) /\ AnalogCamera(w).id = w
    BY <1>1 DEF Cameras, AnalogCamera
  <2> QED
    BY <2>1
<1>2. ASSUME NEW k \in Connected(s), w = a + k
      PROVE  \E c \in Cameras(a, s) : c.id = w
  <2>1. IPCamera(a, s, k) \in Cameras(a, s) /\ IPCamera(a, s, k).id = w
    BY <1>2 DEF Cameras, IPCamera
  <2> QED
    BY <2>1
<1> QED
  BY <1>1, <1>2 DEF Channels

\* An event that the device reports is given to the platform by an up to date setup.
LEMMA ReportedIsProvided ==
    ASSUME IInv, UpToDate, stage \in {"events", "added", "loaded"}, Capability = "reported"
    PROVE  Provided /\ event = "reported"
<1>1. event = "reported" /\ cameras = Cameras(analog, source)
  BY DEF UpToDate
<1>2. watched \in Channels(analog, source)
  BY DEF Capability
<1>3. analog \in Nat /\ source \in Configurations
  BY AnalogIsNat DEF IInv, TypeOK, Configurations
<1>4. \E c \in cameras : c.id = watched
  BY <1>1, <1>2, <1>3, ChannelsHaveCameras
<1> QED
  BY <1>1, <1>4 DEF Provided

\* Without a change from outside the answers of the device stay the same.
LEMMA AnswersStay ==
    ASSUME [Next]_vars, ~Change
    PROVE  UNCHANGED <<analog, watched, pref, source, center>> /\ Capability' = Capability
<1>1. UNCHANGED <<analog, watched, pref, source, center>>
  BY DEF Next, Setup, vars, hwVars, deviceVars, ReadCameras, ReadEvents, AddEntities, Refresh,
         ReloadDue, Unload, Poll, Alert, SetupFails, UserReloads, UserDisables, UserEnables,
         DisableDevice, EnableDevice, SwitchCenter, Plug
<1> QED
  BY <1>1 DEF Capability

\* What the steps that are not changes from outside do, for the argument below.
LEMMA QuietStep ==
    ASSUME IInv, ActiveInv, [Next]_vars, [~Change]_vars
    PROVE  /\ UpToDate => UpToDate'
           /\ due /\ ~due' => stage' = "down"
           /\ stage = "loaded" /\ ~due => stage' = "loaded" /\ ~due'
           /\ UpToDate /\ stage # "loaded" /\ stage' = "loaded" => NothingToEnable'
           /\ UpToDate /\ NothingToEnable => NothingToEnable' /\ (~due => ~due')
<1> USE DEF hwVars, deviceVars, registryVars, setupVars
<1>0. stage \in {"down", "cameras", "events", "added", "loaded"}
  BY DEF IInv, TypeOK
<1>a. ~Change
  <2>1. UNCHANGED vars => ~Change
    BY MaxChangesAssumption DEF vars, Change, IInv, TypeOK
  <2> QED
    BY <2>1
<1>1. UNCHANGED <<analog, watched, pref, source, center>> /\ Capability' = Capability
  BY <1>a, AnswersStay
<1>2. CASE ReadCameras
  BY <1>1, <1>2 DEF ReadCameras, UpToDate, NothingToEnable
<1>3. CASE ReadEvents
  BY <1>1, <1>3 DEF ReadEvents, UpToDate, NothingToEnable
<1>4. CASE AddEntities
  <2>1. entry' \in {"absent", "integration"} => entry \in {"absent", "integration"}
    BY <1>4 DEF AddEntities
  <2>2. UpToDate => UpToDate'
    BY <1>1, <1>4 DEF AddEntities, UpToDate
  <2> QED
    BY <1>1, <1>4, <2>1, <2>2 DEF AddEntities, NothingToEnable
<1>5. CASE Refresh
  <2>1. stage = "added" /\ stage' = "loaded" /\ entry' = Refreshed
        /\ UNCHANGED <<cameras, event>>
        /\ (due' => due \/ (entry # "enabled" /\ entry' = "enabled"))
        /\ (due => due')
    BY <1>5 DEF Refresh
  <2>2. UpToDate => UpToDate'
    BY <1>1, <2>1 DEF UpToDate
  <2>3. UpToDate => event = Capability
    BY <2>1 DEF UpToDate
  <2>4. UpToDate /\ Capability = "reported" => Provided /\ event = "reported"
    BY <2>1, ReportedIsProvided
  <2>5. UpToDate => NothingToEnable'
    <3>1. UpToDate /\ Capability = "reported" => entry' # "integration"
      BY <2>1, <2>4 DEF Refreshed
    <3>2. UpToDate /\ Capability = "reported" => entry' # "absent"
      BY <2>1, <2>4 DEF Refreshed, ActiveInv, ProvidedIsRegistered
    <3> QED
      BY <1>1, <3>1, <3>2 DEF NothingToEnable
  <2>6. UpToDate /\ NothingToEnable /\ entry # "enabled" => entry' # "enabled"
    BY <2>1, <2>3 DEF Refreshed, NothingToEnable
  <2> QED
    BY <2>1, <2>2, <2>5, <2>6
<1>6. CASE ReloadDue
  BY <1>1, <1>6 DEF ReloadDue, Unload, UpToDate, NothingToEnable
<1>7. CASE Poll
  BY <1>1, <1>7 DEF Poll, UpToDate, NothingToEnable
<1>8. CASE \E c \in Channels(analog, source) : Alert(c)
  BY <1>1, <1>8 DEF Alert, UpToDate, NothingToEnable
<1>9. CASE UNCHANGED vars
  BY <1>1, <1>9 DEF vars, UpToDate, NothingToEnable
<1> QED
  BY <1>a, <1>2, <1>3, <1>4, <1>5, <1>6, <1>7, <1>8, <1>9
     DEF Next, Setup, SetupFails, UserReloads, UserDisables, UserEnables, DisableDevice,
         EnableDevice, SwitchCenter, Plug

\* Where the setup is, and what it does about it without a change from outside.
At(s) == stage = s
Reloadable == due /\ stage \in {"down", "loaded"}

LEMMA SetupStep ==
    ASSUME IInv, ActiveInv, [Next]_vars, [~Change]_vars
    PROVE  /\ At("down") \/ At("cameras") \/ At("events") \/ At("added") \/ At("loaded")
           /\ At("down") => At("down")' \/ At("cameras")'
           /\ At("cameras") => At("cameras")' \/ At("events")'
           /\ At("events") => At("events")' \/ At("added")'
           /\ At("added") => At("added")' \/ At("loaded")'
           /\ At("loaded") => At("loaded")' \/ ~due'
           /\ Setup => ~At("loaded") /\ (At("down") => At("cameras")')
                       /\ (At("cameras") => At("events")') /\ (At("events") => At("added")')
                       /\ (At("added") => At("loaded")')
           /\ ReloadDue => ~due'
<1> USE DEF At, hwVars, deviceVars, registryVars, setupVars
<1>0. ~Change
  <2>1. UNCHANGED vars => ~Change
    BY MaxChangesAssumption DEF vars, Change, IInv, TypeOK
  <2> QED
    BY <2>1
<1>1. stage \in {"down", "cameras", "events", "added", "loaded"}
  BY DEF IInv, TypeOK
<1>2. CASE Setup
  BY <1>1, <1>2 DEF Setup, ReadCameras, ReadEvents, AddEntities, Refresh, ReloadDue
<1>3. CASE ReloadDue
  BY <1>1, <1>3 DEF ReloadDue, Unload, Setup, ReadCameras, ReadEvents, AddEntities, Refresh
<1>4. CASE ~Setup /\ ~ReloadDue
  <2>1. UNCHANGED stage
    BY <1>0, <1>4 DEF Next, vars, Poll, Alert, SetupFails, UserReloads, UserDisables, UserEnables,
                      DisableDevice, EnableDevice, SwitchCenter, Plug
  <2> QED
    BY <1>1, <1>4, <2>1
<1> QED
  BY <1>2, <1>3, <1>4

\* Settles, if changes from outside end.  The first setup after the last change may work
\* with old answers, and so may its refresh; the next one enables what the device reports,
\* and the one after that has nothing left to enable.  The other hypotheses say what
\* WF_vars(Setup) and WF_vars(ReloadDue) do: Setup is possible unless the entry is loaded,
\* ReloadDue while a reload is due and no setup runs.  (~[][~A]_vars is <><<A>>_vars.)
THEOREM ReloadsEnd ==
  /\ Spec
  /\ <>[][~Change]_vars
  /\ <>[](~At("loaded")) => []~[][~Setup]_vars
  /\ <>[]Reloadable => []~[][~ReloadDue]_vars
  => Settles
<1> DEFINE Down == At("down")
           Loaded == At("loaded")
           Due == due
           CameraStage == At("cameras")
           EventStage == At("events")
           Added == At("added")
<1>1. IInv /\ ActiveInv /\ [Next]_vars /\ [~Change]_vars =>
        /\ UpToDate => UpToDate'
        /\ Due /\ ~Due' => Down'
        /\ Loaded /\ ~Due => Loaded' /\ ~Due'
        /\ UpToDate /\ ~Loaded /\ Loaded' => NothingToEnable'
        /\ UpToDate /\ NothingToEnable => NothingToEnable' /\ (~Due => ~Due')
  BY QuietStep DEF At
<1>2. IInv /\ ActiveInv /\ [Next]_vars /\ [~Change]_vars =>
        /\ Down \/ CameraStage \/ EventStage \/ Added \/ Loaded
        /\ Down => Down' \/ CameraStage'
        /\ CameraStage => CameraStage' \/ EventStage'
        /\ EventStage => EventStage' \/ Added'
        /\ Added => Added' \/ Loaded'
        /\ Loaded => Loaded' \/ ~Due'
  BY SetupStep
<1>3. IInv /\ ActiveInv /\ [Next]_vars /\ [~Change]_vars /\ ~[~Setup]_vars =>
        /\ Down => CameraStage'
        /\ CameraStage => EventStage'
        /\ EventStage => Added'
        /\ Added => Loaded'
  BY SetupStep
<1>4. IInv /\ ActiveInv /\ [Next]_vars /\ [~Change]_vars /\ ~[~ReloadDue]_vars => ~Due'
  BY SetupStep
<1>5. /\ Down => UpToDate /\ ~Loaded
      /\ Due /\ Loaded => Reloadable
  BY DEF UpToDate, At, Reloadable
<1>6. IInv /\ ActiveInv /\ [Next]_vars => ActiveInv'
  BY NextKeepsActive
<1>7. /\ Loaded /\ ~Due
      /\ stage = "loaded" /\ ~due => InLine
      => /\ stage = "loaded" /\ ~due
         /\ Provided => (sensor # "none" <=> entry = "enabled")
         /\ Provided /\ event = "silent" => sensor = "none"
  BY DEF InLine, At
<1>8. (<>[](~At("loaded")) => []~[][~Setup]_vars) => (<>[](~Loaded) => []~[][~Setup]_vars)
  BY PTL
<1> HIDE DEF Down, Loaded, Due, CameraStage, EventStage, Added
<1>9. Spec /\ <>[][~Change]_vars /\ (<>[](~Loaded) => []~[][~Setup]_vars)
        => <>[](~Loaded ~> Loaded)
  BY InitActive, Invariance, <1>2, <1>3, <1>6, PTL DEF Spec
<1>10. /\ Spec /\ <>[][~Change]_vars /\ <>[](~Loaded ~> Loaded)
       /\ <>[]Reloadable => []~[][~ReloadDue]_vars
       => <>[](Due ~> ~Due)
  BY InitActive, Invariance, <1>2, <1>4, <1>5, <1>6, PTL DEF Spec
<1>11. Spec /\ <>[][~Change]_vars /\ <>[](~Loaded ~> Loaded) /\ <>[](Due ~> ~Due)
        => <>[](Loaded /\ ~Due)
  BY InitActive, Invariance, <1>1, <1>5, <1>6, PTL DEF Spec
<1> QED
  BY LoadedEntitiesAreInLine, <1>7, <1>8, <1>9, <1>10, <1>11, PTL DEF Settles
================================================================================
