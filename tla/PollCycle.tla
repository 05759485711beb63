------------------------------- MODULE PollCycle -------------------------------
(***************************************************************************)
(* One polling coordinator of a config entry, from the setup of the entry  *)
(* to its periodic polls: coordinator.py, with the parts of                *)
(* ISAPIClient.request, async_setup_entry and sensor.py that decide what a *)
(* poll stores and which entities may show it.                             *)
(*                                                                         *)
(* A poll asks its keys one at a time and awaits every answer.  The device *)
(* keeps changing while the poll runs, so an answer is taken by the device *)
(* in one step (DeviceAnswers) and processed by the poll in a later one    *)
(* (Resume).  Everything between two awaits is one step: the last Resume   *)
(* of a poll includes _complete_poll and what DataUpdateCoordinator does   *)
(* with its result.                                                        *)
(***************************************************************************)
EXTENDS Naturals

CONSTANTS
    Keys,      \* the keys the coordinator may poll (disabled events are not)
    Kind,      \* what a key is: a function from Keys to KeyKinds
    Values,    \* what the device can report for a key
    Blank,     \* what the getters make of an empty answer: False, or no disk
    NoSample,  \* a key that is not in coordinator.data
    NoReply    \* the poll awaits the device

\* The kinds in the order in which the two coordinators ask for them.
KeyKinds == {"camera", "device", "output", "storage", "holiday", "alarm"}

\* Faulty: storage is asked for first.
Rank_StorageFirst == [kind \in KeyKinds |-> IF kind = "storage" THEN 0 ELSE 1]

Rank == [kind \in KeyKinds |->
            CASE kind = "camera"  -> 1
              [] kind = "device"  -> 2
              [] kind = "output"  -> 3
              [] kind = "storage" -> 4
              [] kind = "holiday" -> 5
              [] kind = "alarm"   -> 6]

\* An answer: the value, an HTTP error other than 401, or no usable answer at
\* all (a timeout, a refused connection, a 401).
Replies == [key : Keys, status : {"ok", "http", "lost"}, value : Values]

ASSUME KindAssumption == Kind \in [Keys -> KeyKinds]
ASSUME BlankAssumption == Blank \in Values /\ NoSample \notin Values
ASSUME NoReplyAssumption == NoReply \notin Replies

StorageKeys == {k \in Keys : Kind[k] = "storage"}

\* EventsCoordinator polls the first four kinds, SecondaryCoordinator the others.
EventsKinds == {"camera", "device", "output", "storage"}

ASSUME CoordinatorAssumption ==
    \/ \A k \in Keys : Kind[k] \in EventsKinds
    \/ \A k \in Keys : Kind[k] \notin EventsKinds

\* There is one storage listing, and storage is never all there is to poll (a
\* coordinator with nothing to poll sends no request and is left out).
ASSUME StorageAssumption ==
    /\ \A k, j \in StorageKeys : k = j
    /\ Keys # StorageKeys

VARIABLES
    truth,              \* device: the state a request for each key would read
    calm,               \* device: no fault and no change from now on
    phase,              \* where async_setup_entry is
    storage,            \* HikvisionDevice.storage
    pollStorage,        \* EventsCoordinator._poll_storage
    data,               \* coordinator.data
    lastUpdateSuccess,  \* coordinator.last_update_success
    failedKeys,         \* coordinator.failed_keys
    sampled,            \* the keys of coordinator.last_successful_update
    polling,            \* _async_update_data is running
    draft,              \* its local data, a copy of self.data
    succeeded,          \* its local succeeded
    failures,           \* the keys of its local failures
    reply,              \* the answer the poll has not processed yet
    held,               \* history: values the device held since the last completed poll began
    window,             \* history: values the device held since the running poll began
    erred,              \* history: keys whose request failed in the last completed poll
    suppressed,         \* history: those of erred that were read as an empty answer
    erredNow,           \* history: erred, of the running poll
    suppressedNow       \* history: suppressed, of the running poll

deviceVars == <<truth, calm>>
sampleVars == <<data, lastUpdateSuccess, failedKeys, sampled>>
pollVars == <<polling, draft, succeeded, failures, reply>>
lastPollVars == <<held, erred, suppressed>>
thisPollVars == <<window, erredNow, suppressedNow>>
vars == <<deviceVars, phase, storage, pollStorage, sampleVars, pollVars,
          lastPollVars, thisPollVars>>

\* "discovering" until get_hardware_info is done, "first" until the first
\* refresh is, "platforms" until sensor.py has read device.storage, "adding"
\* until pending_initialization is cleared, "loaded" from then on.
Phases == {"discovering", "first", "platforms", "adding", "loaded"}

pending_initialization == phase # "loaded"

Samples == [Keys -> Values \union {NoSample}]
Nothing == [k \in Keys |-> NoSample]

TypeOK ==
    /\ truth \in [Keys -> Values]
    /\ calm \in BOOLEAN
    /\ phase \in Phases
    /\ storage \in Values
    /\ pollStorage \in BOOLEAN
    /\ data \in Samples
    /\ lastUpdateSuccess \in BOOLEAN
    /\ failedKeys \in SUBSET Keys
    /\ sampled \in SUBSET Keys
    /\ polling \in BOOLEAN
    /\ draft \in Samples
    /\ succeeded \in SUBSET Keys
    /\ failures \in SUBSET Keys
    /\ reply \in Replies \union {NoReply}
    /\ held \in [Keys -> SUBSET Values]
    /\ window \in [Keys -> SUBSET Values]
    /\ erred \in SUBSET Keys
    /\ suppressed \in SUBSET Keys
    /\ erredNow \in SUBSET Keys
    /\ suppressedNow \in SUBSET Keys
--------------------------------------------------------------------------------
\* Faulty: ignores that the key's request failed in the last poll.
data_is_current_AnySample(k) == lastUpdateSuccess /\ k \in sampled

\* What an entity's `available` asks (coordinator.data_is_current).
data_is_current(k) ==
    /\ lastUpdateSuccess
    /\ k \notin failedKeys
    /\ k \in sampled

\* The keys this entry's polls ask for.
Attempted == {k \in Keys : Kind[k] = "storage" => pollStorage}

Remaining == Attempted \ (succeeded \union failures)

\* Cameras first, then device events, outputs and storage.
NextKeys == {k \in Remaining : \A j \in Remaining : Rank[Kind[k]] <= Rank[Kind[j]]}

\* ISAPIClient.request turns an HTTP error into an empty answer while the entry
\* is being set up, and these getters read a value out of an empty answer; the
\* holiday and alarm server getters raise on it.
Suppressed(r) ==
    /\ r.status = "http"
    /\ pending_initialization
    /\ Kind[r.key] \in EventsKinds

Accepted(r) == r.status = "ok" \/ Suppressed(r)
--------------------------------------------------------------------------------
Init ==
    /\ truth \in [Keys -> Values]
    /\ calm = FALSE
    /\ phase = "discovering"
    /\ storage = Blank
    /\ pollStorage = FALSE
    /\ data = Nothing
    /\ lastUpdateSuccess = TRUE
    /\ failedKeys = {}
    /\ sampled = {}
    /\ polling = FALSE
    /\ draft = Nothing
    /\ succeeded = {}
    /\ failures = {}
    /\ reply = NoReply
    /\ held = [k \in Keys |-> {truth[k]}]
    /\ window = held
    /\ erred = {}
    /\ suppressed = {}
    /\ erredNow = {}
    /\ suppressedNow = {}

\* Somebody, or the world, changes what the device reports for k.
DeviceChanges(k, v) ==
    /\ ~calm
    /\ v # truth[k]
    /\ truth' = [truth EXCEPT ![k] = v]
    /\ held' = [held EXCEPT ![k] = @ \union {v}]
    /\ window' = [window EXCEPT ![k] = @ \union {v}]
    /\ UNCHANGED <<calm, phase, storage, pollStorage, sampleVars, pollVars,
                   erred, suppressed, erredNow, suppressedNow>>

\* The device and the network behave from here on.
Settle ==
    /\ ~calm
    /\ calm' = TRUE
    /\ UNCHANGED <<truth, phase, storage, pollStorage, sampleVars, pollVars,
                   lastPollVars, thisPollVars>>

\* get_hardware_info reads the storage listing (its errors are suppressed) and
\* init_coordinators builds a fresh coordinator.  A setup that fails before
\* this point is retried and has no effect here.
Discover ==
    /\ phase = "discovering"
    /\ \E listing \in IF StorageKeys = {} THEN {Blank}
                      ELSE {truth[k] : k \in StorageKeys}
                           \union (IF calm THEN {} ELSE {Blank}) :
          /\ storage' = listing
          /\ pollStorage' = (listing # Blank)
    /\ phase' = "first"
    /\ data' = Nothing
    /\ lastUpdateSuccess' = TRUE
    /\ failedKeys' = {}
    /\ sampled' = {}
    /\ erred' = {}
    /\ suppressed' = {}
    /\ UNCHANGED <<deviceVars, pollVars, held, thisPollVars>>

\* Faulty: a failed poll is not followed by another.
MayPoll_OnlyAfterSuccess ==
    phase = "first" \/ (phase \in {"adding", "loaded"} /\ lastUpdateSuccess)

\* Polls run from the first refresh on, but nobody asks for one between it and
\* the creation of the entities.
MayPoll == phase \in {"first", "adding", "loaded"}

\* The first refresh, a timer, or a requested refresh starts _async_update_data.
StartPoll ==
    /\ MayPoll
    /\ ~polling
    /\ polling' = TRUE
    /\ draft' = data
    /\ succeeded' = {}
    /\ failures' = {}
    /\ window' = [k \in Keys |-> {truth[k]}]
    /\ erredNow' = {}
    /\ suppressedNow' = {}
    /\ UNCHANGED <<deviceVars, phase, storage, pollStorage, sampleVars, reply,
                   lastPollVars>>

\* The device serves the request for k, or fails to.
DeviceAnswers(k) ==
    /\ polling
    /\ reply = NoReply
    /\ k \in NextKeys
    /\ \/ reply' = [key |-> k, status |-> "ok", value |-> truth[k]]
       \/ /\ ~calm
          /\ \E status \in {"http", "lost"} :
                reply' = [key |-> k, status |-> status, value |-> Blank]
    /\ UNCHANGED <<deviceVars, phase, storage, pollStorage, sampleVars, polling,
                   draft, succeeded, failures, lastPollVars, thisPollVars>>

\* Faulty: a key that failed once stays failed.
FailedKeysAfter_NeverCleared(f) == failedKeys \union f

FailedKeysAfter(f) == f

\* Faulty: only the last poll's keys have an age.
SampledAfter_LastPollOnly(s) == s

SampledAfter(s) == sampled \union s

\* Faulty: a rejected poll leaves no data at all.
DataAfter_NoneOnFailure(d, s) == IF s # {} THEN d ELSE NoSample

\* Faulty: publishes the answered keys only, and loses the last good samples.
DataAfter_AnsweredOnly(d, s) ==
    IF s # {} THEN [k \in Keys |-> IF k \in s THEN d[k] ELSE NoSample] ELSE data

\* UpdateFailed keeps the old data.
DataAfter(d, s) == IF s # {} THEN d ELSE data

\* _complete_poll, and DataUpdateCoordinator storing or rejecting its result.  A
\* first refresh that is rejected makes Home Assistant retry the whole setup.
CompletePoll(d, s, f) ==
    /\ failedKeys' = FailedKeysAfter(f)
    /\ sampled' = SampledAfter(s)
    /\ lastUpdateSuccess' = (s # {})
    /\ data' = DataAfter(d, s)
    /\ polling' = FALSE
    /\ phase' = IF phase # "first" THEN phase
                ELSE IF s = {} THEN "discovering" ELSE "platforms"
    /\ held' = window
    /\ erred' = erredNow'
    /\ suppressed' = suppressedNow'

KeepPolling ==
    UNCHANGED <<phase, sampleVars, polling, lastPollVars>>

\* _async_update_data continues with the answer, and finishes if it was the last.
Resume ==
    /\ reply # NoReply
    /\ LET k == reply.key
           d == IF Accepted(reply) THEN [draft EXCEPT ![k] = reply.value] ELSE draft
           s == IF Accepted(reply) THEN succeeded \union {k} ELSE succeeded
           f == IF Accepted(reply) THEN failures ELSE failures \union {k}
       IN  /\ draft' = d
           /\ succeeded' = s
           /\ failures' = f
           /\ storage' = IF Accepted(reply) /\ k \in StorageKeys THEN reply.value ELSE storage
           /\ erredNow' = IF reply.status = "ok" THEN erredNow ELSE erredNow \union {k}
           /\ suppressedNow' = IF Suppressed(reply) THEN suppressedNow \union {k}
                               ELSE suppressedNow
           /\ reply' = NoReply
           /\ IF Attempted \subseteq s \union f THEN CompletePoll(d, s, f) ELSE KeepPolling
    /\ UNCHANGED <<deviceVars, pollStorage, window>>

\* The other coordinator's first refresh, or a platform, fails the setup.
AbandonSetup ==
    /\ phase = "platforms"
    /\ ~calm
    /\ phase' = "discovering"
    /\ UNCHANGED <<deviceVars, storage, pollStorage, sampleVars, pollVars,
                   lastPollVars, thisPollVars>>

\* The sensor platform is set up, with one sensor per disk of device.storage: entities
\* poll from here on, still with errors read as empty answers.
AddEntities ==
    /\ phase = "platforms"
    /\ phase' = "adding"
    /\ UNCHANGED <<deviceVars, storage, pollStorage, sampleVars, pollVars, lastPollVars,
                   thisPollVars>>

\* The platforms are set up: pending_initialization is cleared.
FinishSetup ==
    /\ phase = "adding"
    /\ phase' = "loaded"
    /\ UNCHANGED <<deviceVars, storage, pollStorage, sampleVars, pollVars,
                   lastPollVars, thisPollVars>>

Next ==
    \/ \E k \in Keys, v \in Values : DeviceChanges(k, v)
    \/ Settle
    \/ Discover
    \/ StartPoll
    \/ \E k \in Keys : DeviceAnswers(k)
    \/ Resume
    \/ AbandonSetup
    \/ AddEntities
    \/ FinishSetup

Spec == Init /\ [][Next]_vars

\* Home Assistant retries a failed setup and keeps polling; a request is always
\* answered, if only by its timeout.  Nothing makes the device settle.
Fairness ==
    /\ WF_vars(Discover)
    /\ WF_vars(StartPoll)
    /\ WF_vars(\E k \in Keys : DeviceAnswers(k))
    /\ WF_vars(Resume)
    /\ WF_vars(AddEntities)
    /\ WF_vars(FinishSetup)

FairSpec == Spec /\ Fairness
--------------------------------------------------------------------------------
\* A value shown as available was held by the device at some time since the last
\* completed poll began, unless it stands for an HTTP error of a request that was
\* sent while the entry was still being set up (data_is_current, coordinator.py:75).
CurrentIsRecent ==
    \A k \in Keys : data_is_current(k) =>
        data[k] \in held[k] \/ (k \in suppressed /\ data[k] = Blank)

\* Once a poll completed, a polled key is available exactly if its request did
\* not fail in that poll, setup-time HTTP errors aside (_complete_poll).
AvailabilityFollowsLastPoll ==
    phase \in {"platforms", "adding", "loaded"} =>
        \A k \in Attempted : data_is_current(k) <=> k \notin erred \ suppressed

\* The listing the storage sensors fall back to, device.storage, never differs
\* from the published sample (sensor.py:111, coordinator.py:142).
StorageAgrees ==
    phase # "discovering" =>
        \A k \in StorageKeys : data[k] # NoSample => storage = data[k]

\* A key has an age (last_successful_update) exactly if it has a value, whatever
\* mix of partial and total failures the polls went through.
AgeOfEverySample ==
    \A k \in Keys : k \in sampled <=> data[k] # NoSample

\* README.md:25-26: "only values whose requests failed are marked unavailable",
\* so a value whose request failed is.
FailedRequestIsUnavailable ==
    \A k \in erred : ~data_is_current(k)

\* Whatever happened before, once the device settles every polled value becomes
\* available again and shows the device's state, and so does device.storage, from which
\* sensors are made, unless it is empty (coordinator.py:86).
Recovery ==
    calm ~> [](/\ phase = "loaded"
               /\ \A k \in Attempted : data_is_current(k) /\ data[k] = truth[k]
               /\ \A k \in StorageKeys : storage \in {Blank, truth[k]})

\* The coordinator implements the promise of SampleCache.
Available == {k \in Keys : data_is_current(k)}

Cache == INSTANCE SampleCache WITH
            cache <- data,
            current <- Available,
            serving <- phase \in {"adding", "loaded"}

CacheSpec == Cache!Spec
================================================================================
