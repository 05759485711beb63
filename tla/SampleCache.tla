------------------------------ MODULE SampleCache ------------------------------
(***************************************************************************)
(* What a polling coordinator promises to the entities that read from it.  *)
(*                                                                         *)
(* README.md:25-26 states the promise in words: a poll that fails as a     *)
(* whole withdraws every value but keeps the last good sample; a poll that *)
(* succeeds in part withdraws exactly the values whose requests failed.    *)
(* Here a poll is ONE step.  PollCycle has a step per device answer and is *)
(* shown to implement this specification.                                  *)
(***************************************************************************)
CONSTANTS
    Keys,      \* what is polled: one key per switch, output, storage, ...
    Values,    \* what the device can report for a key
    NoSample   \* a key for which no poll has ever produced a value

VARIABLES
    cache,     \* the last good sample of every key (coordinator.data)
    current,   \* the keys an entity may show as available
    serving    \* TRUE once the entities exist

vars == <<cache, current, serving>>

Samples == [Keys -> Values \union {NoSample}]
Nothing == [k \in Keys |-> NoSample]

TypeOK ==
    /\ cache \in Samples
    /\ current \in SUBSET Keys
    /\ serving \in BOOLEAN

Init ==
    /\ cache = Nothing
    /\ current = {}
    /\ serving = FALSE

\* A poll with at least one good answer replaces the samples of the answered
\* keys, and only those; the others stay readable but are not current.
Publish ==
    \E answered \in (SUBSET Keys) \ {{}} :
        /\ current' = answered
        /\ cache' \in Samples
        /\ \A k \in answered : cache'[k] \in Values
        /\ \A k \in Keys \ answered : cache'[k] = cache[k]
        /\ UNCHANGED serving

\* A poll without a good answer makes every entity unavailable, loses nothing.
Withdraw ==
    /\ current' = {}
    /\ UNCHANGED <<cache, serving>>

\* A setup that is retried starts over; an entry that serves entities does not.
Forget ==
    /\ ~serving
    /\ cache' = Nothing
    /\ current' = {}
    /\ UNCHANGED serving

Serve ==
    /\ serving' = TRUE
    /\ UNCHANGED <<cache, current>>

Next == Publish \/ Withdraw \/ Forget \/ Serve

Spec == Init /\ [][Next]_vars
--------------------------------------------------------------------------------
\* A value shown as available was reported by the device.
CurrentHasSample == \A k \in current : cache[k] \in Values
================================================================================
