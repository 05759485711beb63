---------------------------- MODULE StreamDiscovery ----------------------------
(***************************************************************************)
(* The streams of the cameras, found while an entry is set up:             *)
(* discover_camera_streams and get_camera_streams of ISAPIClient.          *)
(*                                                                         *)
(* Requests go out one at a time.  The docstring of                        *)
(* discover_camera_streams gives the reason for their order: some          *)
(* recorders reject valid channels for a while after an unsupported third  *)
(* or transcoded stream was requested.  The device here is of that kind,   *)
(* and may reject any request of a channel a few times on top of that.     *)
(***************************************************************************)
EXTENDS Naturals, Sequences

CONSTANTS
    Cameras,    \* the number of cameras
    Transient   \* how often the device may reject a channel for no reason

ASSUME CamerasAssumption == Cameras \in Nat \ {0}
ASSUME TransientAssumption == Transient \in Nat

PRIMARY == {1, 2}
OPTIONAL == {3, 4}
STREAM_TYPE == PRIMARY \union OPTIONAL
PRIMARY_STREAM_DISCOVERY_ATTEMPTS == 3

Channel == [camera : 1..Cameras, type : STREAM_TYPE]

\* One pass over the cameras, asking each for width types of stream from first on.
Pass(first, width) ==
    [n \in 1..(width * Cameras) |->
        [camera |-> (n - 1) \div width + 1, type |-> first + ((n - 1) % width)]]

\* Faulty: all streams of a camera before those of the next one.
Plan_PerCamera == Pass(1, 4)

\* Main and sub-streams of all cameras first.
Plan == Pass(1, 2) \o Pass(3, 2)

VARIABLES
    is_nvr,     \* device_info.is_nvr: the cameras are those of a recorder
    supported,  \* device: the channels it has
    upset,      \* device: it rejects every channel for the time being
    rejections, \* device: per channel, how often it was rejected for no reason
    failed,     \* the setup ended because a request was lost
    next,       \* the position in Plan of the channel to ask for
    tries,      \* how many requests for it got no stream
    streams     \* per camera: the types of camera.streams, in their order

streamVars == <<is_nvr, supported, upset, rejections, failed, next, tries, streams>>

StreamTypeOK ==
    /\ is_nvr \in BOOLEAN
    /\ supported \subseteq Channel
    /\ upset \in BOOLEAN
    /\ rejections \in [Channel -> 0..Transient]
    /\ failed \in BOOLEAN
    /\ next \in 1..(4 * Cameras + 1)
    /\ tries \in 0..(PRIMARY_STREAM_DISCOVERY_ATTEMPTS - 1)
    /\ streams \in [1..Cameras -> Seq(STREAM_TYPE)]

\* Every camera has a main stream.
DiscoverInit ==
    /\ is_nvr \in BOOLEAN
    /\ supported \in SUBSET Channel
    /\ \A camera \in 1..Cameras : [camera |-> camera, type |-> 1] \in supported
    /\ upset = FALSE
    /\ rejections = [channel \in Channel |-> 0]
    /\ failed = FALSE
    /\ next = 1
    /\ tries = 0
    /\ streams = [camera \in 1..Cameras |-> <<>>]
--------------------------------------------------------------------------------
Running == ~failed /\ next <= Len(Plan)

Asked == Plan[next]

\* Faulty: one attempt too many.
Attempts_OneMore(type) ==
    IF type \in PRIMARY THEN PRIMARY_STREAM_DISCOVERY_ATTEMPTS + 1 ELSE 1

Attempts(type) == IF type \in PRIMARY THEN PRIMARY_STREAM_DISCOVERY_ATTEMPTS ELSE 1

\* Faulty: every stream a camera might have is assumed.
Fallback_Always(type) == type \in PRIMARY

\* The standard id is assumed for a required stream of a recorder.
Fallback(type) == is_nvr /\ type \in PRIMARY

\* The device answers with the id it was asked for, so no id is known already.
Add == [streams EXCEPT ![Asked.camera] = Append(@, Asked.type)]

\* A stream was found, or given up.
Advance ==
    /\ next' = next + 1
    /\ tries' = 0

Found ==
    /\ Running
    /\ Asked \in supported
    /\ ~upset
    /\ streams' = Add
    /\ Advance
    /\ UNCHANGED <<is_nvr, supported, upset, rejections, failed>>

\* The request is rejected with an HTTP error, which is suppressed during setup.
\* The device may be upset by a channel it does not have, and calm down later.
Rejected ==
    /\ Running
    /\ \/ upset /\ UNCHANGED <<upset, rejections>>
       \/ /\ Asked \notin supported
          /\ upset' = (upset \/ Asked.type \in OPTIONAL)
          /\ UNCHANGED rejections
       \/ /\ rejections[Asked] < Transient
          /\ rejections' = [rejections EXCEPT ![Asked] = @ + 1]
          /\ UNCHANGED upset
    /\ IF tries + 1 < Attempts(Asked.type)
       THEN /\ tries' = tries + 1
            /\ UNCHANGED <<next, streams>>
       ELSE /\ streams' = IF Fallback(Asked.type) THEN Add ELSE streams
            /\ Advance
    /\ UNCHANGED <<is_nvr, supported, failed>>

CalmDown ==
    /\ upset
    /\ upset' = FALSE
    /\ UNCHANGED <<is_nvr, supported, rejections, failed, next, tries, streams>>

\* A request that is lost, or refused with 401, ends the setup.
Lost ==
    /\ Running
    /\ failed' = TRUE
    /\ UNCHANGED <<is_nvr, supported, upset, rejections, next, tries, streams>>

DiscoverStep == Found \/ Rejected \/ CalmDown \/ Lost

DiscoverSpec == DiscoverInit /\ [][DiscoverStep]_streamVars
--------------------------------------------------------------------------------
Discovered == ~failed /\ next > Len(Plan)

Types(camera) == {streams[camera][i] : i \in DOMAIN streams[camera]}

\* isapi.py:367-370 and test_isapi.py:31: neither a transient rejection nor the
\* rejection of an optional stream of one camera hides a required stream of any.
RequiredStreamsFound ==
    Discovered => \A channel \in supported :
        channel.type \in PRIMARY => channel.type \in Types(channel.camera)

\* Every camera's streams are in the order of their types, none of them twice, also
\* when a required stream was assumed (camera.streams, from which the entities and their
\* unique ids are made).
StreamsAreInOrder ==
    \A camera \in 1..Cameras : \A i, j \in DOMAIN streams[camera] :
        i < j => streams[camera][i] < streams[camera][j]

\* test_isapi.py:81: a known channel of a recorder has its entities whatever the
\* recorder rejected; and a camera does not get streams it does not have.
FallbackIsForRecorders ==
    Discovered => \A camera \in 1..Cameras :
        IF is_nvr THEN PRIMARY \subseteq Types(camera)
        ELSE \A type \in Types(camera) : [camera |-> camera, type |-> type] \in supported
================================================================================
