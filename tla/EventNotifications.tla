--------------------------- MODULE EventNotifications ---------------------------
(***************************************************************************)
(* Event notifications: EventNotificationsView of notifications.py, and    *)
(* the event sensors of binary_sensor.py that it turns on.                 *)
(*                                                                         *)
(* A device posts an event.  The view takes the list of the loaded entries *)
(* and goes through it, awaiting a name lookup for every host name it      *)
(* meets for the first time; all that happens between two lookups is one   *)
(* step.  Then it decides which device sent the event and sets the state   *)
(* of its sensor.  Entries are set up and unloaded in the meantime (Home   *)
(* Assistant, external).  Posts share no state but the sensors, because    *)
(* self.device is assigned and used in one step; so one post at a time is  *)
(* followed here.                                                          *)
(***************************************************************************)
EXTENDS Naturals, FiniteSets

CONSTANTS
    N,        \* the entries, in the order of hass.config_entries; each has a device
    Hosts,    \* the hosts that may be configured
    Addresses \* the addresses that devices may have

Entries == 1..N

ASSUME EntriesAssumption == N \in Nat \ {0}

VARIABLES
    host,     \* per entry: the host its device is configured with
    names,    \* the hosts that are names; the others are literal addresses
    address,  \* per host: its address, the source of the posts of its device
    state,    \* per entry: entry.state; "setup_in_progress" once it has runtime_data
    sensor,   \* per entry: the state of the sensor of its device
    pc,       \* "idle", or "lookup" while the post awaits a name lookup
    alert,    \* the event the post brings, and integration_entries
    todo,     \* the entries the post has not come to yet
    lookup,   \* the hosts it looks up: one, or none
    asked,    \* the names that are in resolved_hosts
    resolved, \* those whose lookup gave an address
    hit,      \* history: the entry that was taken for the sender of the last post, or 0
    gone      \* history: an entry of the list was unloaded before the post ended

network == <<host, names, address>>
searchVars == <<todo, lookup, asked>>
postVars == <<pc, alert, searchVars, resolved, hit>>
vars == <<network, state, sensor, postVars, gone>>

States == {"not_loaded", "setup_in_progress", "loaded", "unload_in_progress"}

\* from: the device that sent it; mac: it gives the MAC address of that device.
Alert == [from : Entries, mac : BOOLEAN, entries : SUBSET Entries]

TypeOK ==
    /\ host \in [Entries -> Hosts] /\ names \subseteq Hosts
    /\ address \in [Hosts -> Addresses]
    /\ state \in [Entries -> States]
    /\ sensor \in [Entries -> {"off", "on", "unavailable"}]
    /\ pc \in {"idle", "lookup"}
    /\ alert \in Alert
    /\ todo \subseteq Entries
    /\ lookup \subseteq names
    /\ asked \subseteq names /\ resolved \subseteq names
    /\ hit \in 0..N
    /\ gone \in BOOLEAN

NoAlert == [from |-> 1, mac |-> FALSE, entries |-> {}]

\* A literal address is written in one way only.
Init ==
    /\ host \in [Entries -> Hosts]
    /\ names \in SUBSET Hosts
    /\ address \in [Hosts -> Addresses]
    /\ \A h, k \in Hosts \ names : address[h] = address[k] => h = k
    /\ state = [e \in Entries |-> "not_loaded"]
    /\ sensor = [e \in Entries |-> "unavailable"]
    /\ pc = "idle"
    /\ alert = NoAlert
    /\ todo = {} /\ lookup = {} /\ asked = {} /\ resolved = {}
    /\ hit = 0
    /\ gone = FALSE
--------------------------------------------------------------------------------
\* Entries.

\* async_setup_entry assigns runtime_data.
StartSetup(e) ==
    /\ state[e] = "not_loaded"
    /\ state' = [state EXCEPT ![e] = "setup_in_progress"]
    /\ UNCHANGED <<network, sensor, postVars, gone>>

\* It ends well, with new sensors that are off, perhaps after retries.
EndSetup(e) ==
    /\ state[e] = "setup_in_progress"
    /\ state' = [state EXCEPT ![e] = "loaded"]
    /\ sensor' = [sensor EXCEPT ![e] = "off"]
    /\ UNCHANGED <<network, postVars, gone>>

\* async_unload_entry has unloaded the platforms; it may go on to reset the host.
UnloadPlatforms(e) ==
    /\ state[e] = "loaded"
    /\ state' = [state EXCEPT ![e] = "unload_in_progress"]
    /\ sensor' = [sensor EXCEPT ![e] = "unavailable"]
    /\ gone' = (gone \/ (pc = "lookup" /\ e \in alert.entries))
    /\ UNCHANGED <<network, postVars>>

EndUnload(e) ==
    /\ state[e] = "unload_in_progress"
    /\ state' = [state EXCEPT ![e] = "not_loaded"]
    /\ UNCHANGED <<network, sensor, postVars, gone>>

\* Home Assistant deletes runtime_data after an unload: reading it then raises.
HasRuntimeData(e) == state[e] # "not_loaded"
--------------------------------------------------------------------------------
\* Posts.

AddressOf(e) == address[host[e]]

\* Faulty: names never match.
Matches_LiteralOnly(a, known) ==
    {e \in a.entries : AddressOf(e) = AddressOf(a.from) /\ host[e] \notin names}

\* source_matches; known are the names that were resolved.
Matches(a, known) ==
    {e \in a.entries :
        AddressOf(e) = AddressOf(a.from) /\ (host[e] \in names => host[e] \in known)}

\* Faulty: without a MAC address the first of the matches is taken.
Chosen_First(a, matches) ==
    IF a.mac /\ Cardinality(matches) > 1 THEN matches \intersect {a.from}
    ELSE {e \in matches : \A f \in matches : e <= f}

\* The entry that is taken for the sender: the only match, or the only one among
\* them that has the MAC address of the alert.
Chosen(a, matches) ==
    IF Cardinality(matches) = 1 THEN matches
    ELSE IF a.mac THEN matches \intersect {a.from}
    ELSE {}

\* The post ends; h is the entry it was attributed to, or 0.
End(h) ==
    /\ pc' = "idle" /\ hit' = h
    /\ todo' = {} /\ lookup' = {} /\ asked' = {}

\* The post is answered without effect: forbidden, or an error that is only logged.
Drop == End(0) /\ UNCHANGED sensor

\* trigger_sensor: the device has an enabled sensor for the event, or not.
Trigger(e) ==
    /\ End(e)
    /\ sensor' \in {sensor, [sensor EXCEPT ![e] = "on"]}

\* All entries were gone through.  The runtime_data of the matches is read if there
\* is just one, or if their MAC addresses are compared.
Decide(a, matches) ==
    LET readable == \A e \in matches : HasRuntimeData(e)
        reads == Cardinality(matches) = 1 \/ a.mac
    IN  \/ reads /\ ~readable /\ Drop
        \/ (reads => readable) /\ Chosen(a, matches) = {} /\ Drop
        \/ (reads => readable) /\ \E e \in Chosen(a, matches) : Trigger(e)

\* Faulty: literal addresses are looked up like names.
NeedsLookup_Always(h, tried) == h \notin tried

NeedsLookup(h, tried) == h \in names \ tried

\* Goes through the entries in left, in their order, as far as to the first one whose
\* host must be looked up, or through all of them.
Search(a, left, tried, known) ==
    LET stops == {e \in left : NeedsLookup(host[e], tried)}
        seen == {e \in left : \A s \in stops : e <= s}
    IN  /\ resolved' = known
        /\ \/ /\ \E e \in seen : ~HasRuntimeData(e)
              /\ Drop
           \/ /\ \A e \in seen : HasRuntimeData(e)
              /\ stops = {}
              /\ Decide(a, Matches(a, known))
           \/ /\ \A e \in seen : HasRuntimeData(e)
              /\ \E e \in seen \intersect stops : lookup' = {host[e]}
              /\ pc' = "lookup" /\ hit' = 0
              /\ todo' = left \ seen /\ asked' = tried
              /\ UNCHANGED sensor

\* post: the request was read and parsed, and the search begins.
Post ==
    /\ pc = "idle"
    /\ \E a \in Alert :
          /\ a.entries = {e \in Entries : state[e] = "loaded"}
          /\ alert' = a
          /\ Search(a, a.entries, {}, {})
    /\ gone' = FALSE
    /\ UNCHANGED <<network, state>>

\* A lookup ends with an address, or with an error, which leaves no address.
Resume ==
    /\ pc = "lookup"
    /\ \E known \in {resolved, resolved \union lookup} :
          Search(alert, todo, asked \union lookup, known)
    /\ UNCHANGED <<network, state, alert, gone>>

Next ==
    \/ \E e \in Entries : StartSetup(e)
    \/ \E e \in Entries : EndSetup(e)
    \/ \E e \in Entries : UnloadPlatforms(e)
    \/ \E e \in Entries : EndUnload(e)
    \/ Post
    \/ Resume

Spec == Init /\ [][Next]_vars
--------------------------------------------------------------------------------
\* The post found a match for the device that sent it.
Reached ==
    /\ alert.from \in alert.entries
    /\ host[alert.from] \in names => host[alert.from] \in resolved

SharesAddress(d, e) == d # e /\ AddressOf(d) = AddressOf(e)

\* notifications.py:74, "Get integration instance for device sending alert": an event
\* is taken for one of another device only if that one has the same address, and the
\* sender's own entry was not loaded when the event came in, or not resolved.
RightSensor ==
    hit \notin {0, alert.from} => SharesAddress(alert.from, hit) /\ ~Reached

\* README.md:13: the event of a device whose entry is loaded is taken for its own, if
\* its host could be resolved, if it can be told apart by its address or the alert's
\* MAC address, and if no loaded entry was unloaded in the meantime, since an entry
\* without runtime_data ends the search for every device.
EventsArrive ==
    /\ pc = "idle" /\ Reached
    /\ ~gone
    /\ alert.mac \/ \A e \in alert.entries : ~SharesAddress(alert.from, e)
    => hit = alert.from
================================================================================
