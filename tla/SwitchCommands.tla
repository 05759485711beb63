----------------------------- MODULE SwitchCommands -----------------------------
(***************************************************************************)
(* Turning switches on and off: switch.py, and set_event_enabled_state,    *)
(* set_output_port_state and set_holiday_enabled_state of ISAPIClient.     *)
(*                                                                         *)
(* A command is up to three requests, awaited one after the other: may     *)
(* this detection be enabled, what is the present state, write the new     *)
(* one.  Commands interleave with each other, with polls, and with         *)
(* somebody at the device.  When a command ends, the coordinator of the    *)
(* switch is asked for a refresh; Home Assistant (external) drops that     *)
(* request while a poll of the coordinator is running.                     *)
(***************************************************************************)
EXTENDS Naturals

CONSTANTS
    Commands,   \* the commands that may run at the same time
    Switches,
    Fits,       \* the sets of switches that a device may have
    Kind,       \* "event" (a camera's, whose kind has the mutex flag), "output" or "holiday"
    Exclusive   \* the sets of two events the device calls mutually exclusive

SwitchKinds == {"event", "output", "holiday"}

ASSUME FitsAssumption == Fits \subseteq SUBSET Switches
ASSUME KindAssumption == Kind \in [Switches -> SwitchKinds]
ASSUME SwitchesAssumption == Switches # {}
ASSUME ExclusiveAssumption ==
    \A pair \in Exclusive :
        \E x, y \in Switches :
            Kind[x] = "event" /\ Kind[y] = "event" /\ x # y /\ pair = {x, y}

Coordinators == {"events", "secondary"}

\* The coordinator that polls a switch.
CoordinatorOf(s) == IF Kind[s] = "holiday" THEN "secondary" ELSE "events"

VARIABLES
    fitted,   \* device: the switches it has
    enabled,  \* device: the state of each switch
    checks,   \* capabilities.support_event_mutex_checking
    pc,       \* per command: "idle", or the request it awaits
    switch,   \* per command: its switch
    target,   \* per command: the state it is to bring about
    ok,       \* per command: it ended without raising an error
    polling,  \* per coordinator: a poll is running
    asked,    \* per coordinator: a refresh is due
    took,     \* history, per command: the device was in the target state since it began
    unseen,   \* history, per switch: written by a command, and not polled since
    dropped,  \* history, per coordinator: a request was dropped during the last poll
    raced     \* history: exclusive events were being turned on at the same time

commandVars == <<pc, switch, target, ok>>
vars == <<fitted, enabled, checks, commandVars, polling, asked, took, unseen, dropped, raced>>

\* What a command awaits depends on its switch: an output is never read.
RequestsOf(s) ==
    CASE Kind[s] = "event"   -> {"mutex", "read", "write"}
      [] Kind[s] = "output"  -> {"write"}
      [] Kind[s] = "holiday" -> {"read", "write"}

TypeOK ==
    /\ fitted \in Fits
    /\ enabled \in [Switches -> BOOLEAN]
    /\ checks \in BOOLEAN
    /\ switch \in [Commands -> Switches]
    /\ pc \in [Commands -> {"idle", "mutex", "read", "write"}]
    /\ \A c \in Commands : pc[c] \in {"idle"} \union RequestsOf(switch[c])
    /\ target \in [Commands -> BOOLEAN]
    /\ ok \in [Commands -> BOOLEAN]
    /\ polling \in [Coordinators -> BOOLEAN]
    /\ asked \in [Coordinators -> BOOLEAN]
    /\ took \in [Commands -> BOOLEAN]
    /\ unseen \in SUBSET Switches
    /\ dropped \in [Coordinators -> BOOLEAN]
    /\ raced \in BOOLEAN

\* The switch of a command that does not run.
SomeSwitch == CHOOSE s \in Switches : TRUE

\* No two mutually exclusive events are enabled.
IsExclusive(e) == \A pair \in Exclusive : \E s \in pair : ~e[s]

Init ==
    /\ fitted \in Fits
    /\ enabled \in {e \in [Switches -> BOOLEAN] :
          IsExclusive(e) /\ \A s \in Switches \ fitted : ~e[s]}
    /\ checks \in BOOLEAN
    /\ pc = [c \in Commands |-> "idle"]
    /\ switch = [c \in Commands |-> SomeSwitch]
    /\ target = [c \in Commands |-> FALSE]
    /\ ok = [c \in Commands |-> FALSE]
    /\ polling = [k \in Coordinators |-> FALSE]
    /\ asked = [k \in Coordinators |-> FALSE]
    /\ took = [c \in Commands |-> FALSE]
    /\ unseen = {}
    /\ dropped = [k \in Coordinators |-> FALSE]
    /\ raced = FALSE
--------------------------------------------------------------------------------
\* The commands whose target the device was in, once it is in state e.
Reached(e) ==
    [c \in Commands |-> took[c] \/ (pc[c] # "idle" /\ e[switch[c]] = target[c])]

\* Somebody switches s off at the device.  (Switching on there races with a command
\* just like another command does.)
SwitchOffAtDevice(s) ==
    /\ enabled[s]
    /\ enabled' = [enabled EXCEPT ![s] = FALSE]
    /\ took' = Reached(enabled')
    /\ UNCHANGED <<fitted, checks, commandVars, polling, asked, unseen, dropped, raced>>

\* Polls: a timer or a due refresh starts one.
StartPoll(k) ==
    /\ ~polling[k]
    /\ polling' = [polling EXCEPT ![k] = TRUE]
    /\ asked' = [asked EXCEPT ![k] = FALSE]
    /\ dropped' = [dropped EXCEPT ![k] = FALSE]
    /\ unseen' = {s \in unseen : CoordinatorOf(s) # k}
    /\ UNCHANGED <<fitted, enabled, checks, commandVars, took, raced>>

EndPoll(k) ==
    /\ polling[k]
    /\ polling' = [polling EXCEPT ![k] = FALSE]
    /\ UNCHANGED <<fitted, enabled, checks, commandVars, asked, took, unseen, dropped, raced>>
--------------------------------------------------------------------------------
\* Faulty: exclusive events are checked for when one is turned off.
NeedsMutexCheck_WhenOff(s, t) == Kind[s] = "event" /\ ~t /\ checks

NeedsMutexCheck(s, t) == Kind[s] = "event" /\ t /\ checks

\* Faulty: every write is preceded by a read.
FirstRequest_ReadsAll(s, t) == IF NeedsMutexCheck(s, t) THEN "mutex" ELSE "read"

\* The first request: an output is written without being read.
FirstRequest(s, t) ==
    IF NeedsMutexCheck(s, t) THEN "mutex"
    ELSE IF Kind[s] = "output" THEN "write"
    ELSE "read"

\* async_turn_on, async_turn_off.
Turn(c, s, t) ==
    /\ pc[c] = "idle"
    /\ pc' = [pc EXCEPT ![c] = FirstRequest(s, t)]
    /\ switch' = [switch EXCEPT ![c] = s]
    /\ target' = [target EXCEPT ![c] = t]
    /\ ok' = [ok EXCEPT ![c] = FALSE]
    /\ took' = [took EXCEPT ![c] = enabled[s] = t]
    /\ raced' = (raced \/ \E d \in Commands :
          pc[d] # "idle" /\ t /\ target[d] /\ {switch[d], s} \in Exclusive)
    /\ UNCHANGED <<fitted, enabled, checks, polling, asked, unseen, dropped>>

\* Faulty: a refresh follows success only.
Refreshes_OnSuccess(s, r) == r = "done"

\* Event and output switches refresh in a `finally`, the holiday switch after success.
Refreshes(s, r) == Kind[s] = "holiday" => r = "done"

\* The command ends: its switch's coordinator is asked for a refresh.  What is local
\* to the command is gone then.
End(c, r) ==
    LET k == CoordinatorOf(switch[c])
    IN  /\ pc' = [pc EXCEPT ![c] = "idle"]
        /\ ok' = [ok EXCEPT ![c] = r = "done"]
        /\ asked' = [asked EXCEPT ![k] = @ \/ (Refreshes(switch[c], r) /\ ~polling[k])]
        /\ dropped' = [dropped EXCEPT ![k] = @ \/ (Refreshes(switch[c], r) /\ polling[k])]
        /\ switch' = [switch EXCEPT ![c] = SomeSwitch]
        /\ target' = [target EXCEPT ![c] = FALSE]
        /\ took' = [Reached(enabled') EXCEPT ![c] = FALSE]

Await(c, request) ==
    /\ pc' = [pc EXCEPT ![c] = request]
    /\ UNCHANGED <<switch, target, ok, asked, took, dropped>>

\* The enabled events the device names as exclusive with s.
MutexIssues(s) == {x \in Switches \ {s} : {x, s} \in Exclusive /\ enabled[x]}

\* get_event_switch_mutex.
CheckMutex(c) ==
    /\ pc[c] = "mutex"
    /\ UNCHANGED <<fitted, enabled, checks, polling, unseen, raced>>
    /\ IF MutexIssues(switch[c]) = {} THEN Await(c, "read") ELSE End(c, "refused")

\* Faulty: compares the wrong way round.
IsThere_Inverted(c) == enabled[switch[c]] # target[c]

IsThere(c) == enabled[switch[c]] = target[c]

\* The state is read, and written only if it is not the target yet.
Read(c) ==
    /\ pc[c] = "read"
    /\ UNCHANGED <<fitted, enabled, checks, polling, unseen, raced>>
    /\ IF IsThere(c) THEN End(c, "done") ELSE Await(c, "write")

\* The device takes the write; its answer may still get lost.
Write(c) ==
    /\ pc[c] = "write"
    /\ enabled' = [enabled EXCEPT ![switch[c]] = target[c]]
    /\ unseen' = unseen \union {switch[c]}
    /\ \E r \in {"done", "failed"} : End(c, r)
    /\ UNCHANGED <<fitted, checks, polling, raced>>

\* A request fails without effect.
Fail(c) ==
    /\ pc[c] # "idle"
    /\ UNCHANGED <<fitted, enabled, checks, polling, unseen, raced>>
    /\ End(c, "failed")

Next ==
    \/ \E s \in fitted : SwitchOffAtDevice(s)
    \/ \E k \in Coordinators : StartPoll(k) \/ EndPoll(k)
    \/ \E c \in Commands, s \in fitted, t \in BOOLEAN : Turn(c, s, t)
    \/ \E c \in Commands : CheckMutex(c) \/ Read(c) \/ Write(c) \/ Fail(c)

Spec == Init /\ [][Next]_vars
--------------------------------------------------------------------------------
\* isapi.py:599, "Validate that this event switch is not mutually exclusive with
\* another enabled one": on a device that supports the check, commands never enable two
\* mutually exclusive events, unless both were being turned on at the same time: the
\* check and the write are separate requests.
ExclusiveEventsStayExclusive == checks /\ ~raced => IsExclusive(enabled)

\* A command that ended well took effect: the device was in the state it asked for at
\* some time while it ran, whatever other commands and the device did meanwhile.
SuccessMeansEffect ==
    [][\A c \in Commands :
          pc[c] # "idle" /\ pc'[c] = "idle" /\ ok'[c] => Reached(enabled')[c]]_vars

\* A change made by a command reaches the entities without waiting for the timer, even
\* if its answer got lost: a refresh is due, unless the request for it was dropped
\* because a poll was running (`finally` in EventSwitch and NVROutputSwitch).
ChangesArePolled ==
    \A s \in unseen :
        Kind[s] # "holiday" => \/ asked[CoordinatorOf(s)]
                               \/ dropped[CoordinatorOf(s)]
================================================================================
