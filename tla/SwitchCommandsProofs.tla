-------------------------- MODULE SwitchCommandsProofs --------------------------
(***************************************************************************)
(* Theorems about SwitchCommands for any number of commands and switches:   *)
(* exclusive events, the effect of commands, and the polls that follow.    *)
(***************************************************************************)
EXTENDS SwitchCommands, TLAPS

Turning(c) == pc[c] # "idle" /\ target[c]

\* Unless they raced, no two commands turn exclusive events on at the same time.
NoneRace ==
    ~raced => \A c, d \in Commands :
        c # d /\ Turning(c) /\ Turning(d) => {switch[c], switch[d]} \notin Exclusive

\* A command that has passed the check finds it still holds.
CheckHolds ==
    checks /\ ~raced => \A c \in Commands :
        pc[c] \in {"read", "write"} /\ target[c] =>
            \A x \in Switches \ {switch[c]} : {x, switch[c]} \in Exclusive => ~enabled[x]

\* What the commands do to exclusive events.
ExclusionInv == NoneRace /\ CheckHolds /\ ExclusiveEventsStayExclusive

IInv == TypeOK /\ ExclusionInv /\ ChangesArePolled
--------------------------------------------------------------------------------
\* The requests of a command, in their order.
LEMMA Requests ==
    ASSUME NEW s \in Switches
    PROVE  /\ RequestsOf(s) \subseteq {"mutex", "read", "write"}
           /\ "write" \in RequestsOf(s)
           /\ "mutex" \in RequestsOf(s) => "read" \in RequestsOf(s)
           /\ \A t \in BOOLEAN : FirstRequest(s, t) \in RequestsOf(s)
<1>1. Kind[s] \in {"event", "output", "holiday"}
  BY KindAssumption DEF SwitchKinds
<1>2. CASE Kind[s] = "event"
  BY <1>2 DEF RequestsOf, FirstRequest, NeedsMutexCheck
<1>3. CASE Kind[s] = "output"
  BY <1>3 DEF RequestsOf, FirstRequest, NeedsMutexCheck
<1>4. CASE Kind[s] = "holiday"
  BY <1>4 DEF RequestsOf, FirstRequest, NeedsMutexCheck
<1> QED
  BY <1>1, <1>2, <1>3, <1>4

LEMMA SomeSwitchIsSwitch == SomeSwitch \in Switches
BY SwitchesAssumption DEF SomeSwitch

LEMMA CoordinatorIsOne == \A s \in Switches : CoordinatorOf(s) \in Coordinators
BY DEF CoordinatorOf, Coordinators

LEMMA ReachedType == \A e : Reached(e) \in [Commands -> BOOLEAN]
BY DEF Reached

\* Exclusive sets are pairs of switches.
LEMMA ExclusivePair ==
    ASSUME NEW s, NEW x, {x, s} \in Exclusive
    PROVE  x # s /\ x \in Switches /\ s \in Switches /\ Kind[x] = "event" /\ Kind[s] = "event"
BY ExclusiveAssumption

LEMMA InitIInv == Init => IInv
<1> SUFFICES ASSUME Init PROVE IInv
  OBVIOUS
<1>1. TypeOK
  BY SomeSwitchIsSwitch DEF Init, TypeOK
<1>2. \A c \in Commands : pc[c] = "idle"
  BY DEF Init
<1>3. ExclusionInv
  BY <1>2 DEF Init, ExclusionInv, NoneRace, CheckHolds, ExclusiveEventsStayExclusive, Turning
<1>4. ChangesArePolled
  BY DEF Init, ChangesArePolled
<1> QED
  BY <1>1, <1>3, <1>4 DEF IInv
--------------------------------------------------------------------------------
\* Types of what the end of a command changes.
LEMMA EndType ==
    ASSUME TypeOK, NEW c \in Commands, NEW r, End(c, r)
    PROVE  /\ pc' \in [Commands -> {"idle", "mutex", "read", "write"}]
           /\ switch' \in [Commands -> Switches]
           /\ \A d \in Commands : pc'[d] \in {"idle"} \union RequestsOf(switch'[d])
           /\ target' \in [Commands -> BOOLEAN]
           /\ ok' \in [Commands -> BOOLEAN]
           /\ asked' \in [Coordinators -> BOOLEAN]
           /\ dropped' \in [Coordinators -> BOOLEAN]
           /\ took' \in [Commands -> BOOLEAN]
<1>1. switch' \in [Commands -> Switches] /\ target' \in [Commands -> BOOLEAN]
  BY SomeSwitchIsSwitch DEF TypeOK, End
<1>2. ok' \in [Commands -> BOOLEAN]
  <2>1. (r = "done") \in BOOLEAN
    OBVIOUS
  <2> QED
    BY <2>1 DEF TypeOK, End
<1>3. asked' \in [Coordinators -> BOOLEAN] /\ dropped' \in [Coordinators -> BOOLEAN]
  BY CoordinatorIsOne DEF TypeOK, End
<1>4. took' \in [Commands -> BOOLEAN]
  BY ReachedType DEF End
<1>5. /\ pc' \in [Commands -> {"idle", "mutex", "read", "write"}]
      /\ \A d \in Commands : pc'[d] \in {"idle"} \union RequestsOf(switch'[d])
  BY DEF TypeOK, End
<1> QED
  BY <1>1, <1>2, <1>3, <1>4, <1>5

\* A command that ends is not running, and the others are as before.
LEMMA EndStops ==
    ASSUME TypeOK, NEW c \in Commands, NEW r, End(c, r)
    PROVE  /\ pc'[c] = "idle"
           /\ \A d \in Commands \ {c} :
                pc'[d] = pc[d] /\ switch'[d] = switch[d] /\ target'[d] = target[d]
BY DEF TypeOK, End

\* Ends of commands keep the exclusion, if what is enabled keeps it.
LEMMA EndKeepsExclusion ==
    ASSUME IInv, NEW c \in Commands, NEW r, End(c, r), UNCHANGED <<checks, raced>>,
           ExclusiveEventsStayExclusive',
           \A d \in Commands \ {c} :
                checks /\ ~raced /\ pc[d] \in {"read", "write"} /\ target[d] =>
                    \A x \in Switches \ {switch[d]} :
                        {x, switch[d]} \in Exclusive => ~enabled'[x]
    PROVE  ExclusionInv'
<1>1. NoneRace'
  BY EndStops DEF IInv, ExclusionInv, NoneRace, Turning
<1>2. CheckHolds'
  BY EndStops DEF IInv, CheckHolds
<1> QED
  BY <1>1, <1>2 DEF ExclusionInv

\* The end of a command does not take back a request for a refresh.
LEMMA EndKeepsRequests ==
    ASSUME TypeOK, NEW c \in Commands, NEW r, End(c, r)
    PROVE  \A k \in Coordinators : (asked[k] => asked'[k]) /\ (dropped[k] => dropped'[k])
BY CoordinatorIsOne DEF TypeOK, End

\* A command ends without having written.
LEMMA EndKeepsIInv ==
    ASSUME IInv, NEW c \in Commands, NEW r, End(c, r),
           UNCHANGED <<fitted, enabled, checks, polling, unseen, raced>>
    PROVE  IInv'
<1>1. TypeOK'
  BY EndType DEF IInv, TypeOK
<1>2. ExclusiveEventsStayExclusive'
  BY DEF IInv, ExclusionInv, ExclusiveEventsStayExclusive
<1>3. ExclusionInv'
  BY <1>2, EndKeepsExclusion DEF IInv, ExclusionInv, CheckHolds
<1>4. ChangesArePolled'
  BY EndKeepsRequests, CoordinatorIsOne DEF IInv, TypeOK, ChangesArePolled
<1> QED
  BY <1>1, <1>3, <1>4 DEF IInv

\* A command goes on to its next request.
LEMMA AwaitKeepsIInv ==
    ASSUME IInv, NEW c \in Commands, pc[c] # "idle", NEW request \in {"read", "write"},
           request \in RequestsOf(switch[c]), Await(c, request),
           target[c] => pc[c] \in {"read", "write"} \/ MutexIssues(switch[c]) = {},
           UNCHANGED <<fitted, enabled, checks, polling, unseen, raced>>
    PROVE  IInv'
<1>1. /\ \A d \in Commands : pc'[d] # "idle" => pc[d] # "idle"
      /\ \A d \in Commands \ {c} : pc'[d] = pc[d]
      /\ UNCHANGED <<switch, target, ok, asked, took, dropped>>
  BY DEF Await, IInv, TypeOK
<1>2. TypeOK'
  BY <1>1 DEF Await, IInv, TypeOK
<1>3. NoneRace'
  BY <1>1 DEF IInv, ExclusionInv, NoneRace, Turning
<1>4. CheckHolds'
  <2> SUFFICES ASSUME checks, ~raced, NEW d \in Commands,
                      pc'[d] \in {"read", "write"}, target[d],
                      NEW x \in Switches \ {switch[d]}, {x, switch[d]} \in Exclusive
               PROVE  ~enabled[x]
    BY <1>1 DEF CheckHolds
  <2>1. CASE pc[d] \in {"read", "write"}
    BY <2>1 DEF IInv, ExclusionInv, CheckHolds
  <2>2. CASE d = c /\ MutexIssues(switch[c]) = {}
    BY <2>2 DEF MutexIssues
  <2> QED
    BY <1>1, <2>1, <2>2
<1>5. ExclusiveEventsStayExclusive' /\ ChangesArePolled'
  BY <1>1 DEF IInv, ExclusionInv, ExclusiveEventsStayExclusive, ChangesArePolled
<1> QED
  BY <1>2, <1>3, <1>4, <1>5 DEF IInv, ExclusionInv
--------------------------------------------------------------------------------
LEMMA TurnKeepsIInv ==
    ASSUME IInv, NEW c \in Commands, NEW s \in Switches, NEW t \in BOOLEAN, Turn(c, s, t)
    PROVE  IInv'
<1>1. /\ pc'[c] = FirstRequest(s, t) /\ switch'[c] = s /\ target'[c] = t
      /\ \A d \in Commands \ {c} :
            pc'[d] = pc[d] /\ switch'[d] = switch[d] /\ target'[d] = target[d]
  BY DEF Turn, IInv, TypeOK
<1>2. UNCHANGED <<fitted, enabled, checks, polling, asked, unseen, dropped>>
  BY DEF Turn
<1>3. raced' = (raced \/ \E d \in Commands :
          pc[d] # "idle" /\ t /\ target[d] /\ {switch[d], s} \in Exclusive)
  BY DEF Turn
<1>4. TypeOK'
  <2>1. switch' \in [Commands -> Switches] /\ target' \in [Commands -> BOOLEAN]
    BY DEF Turn, IInv, TypeOK
  <2>2. ok' \in [Commands -> BOOLEAN]
    BY DEF Turn, IInv, TypeOK
  <2>3. took' \in [Commands -> BOOLEAN]
    <3>1. (enabled[s] = t) \in BOOLEAN
      OBVIOUS
    <3> QED
      BY <3>1 DEF Turn, IInv, TypeOK
  <2>4. raced' \in BOOLEAN
    BY <1>3
  <2>5. \A d \in Commands : pc'[d] \in {"idle"} \union RequestsOf(switch'[d])
    BY <1>1, Requests DEF IInv, TypeOK
  <2>6. pc' \in [Commands -> {"idle", "mutex", "read", "write"}]
    <3>1. FirstRequest(s, t) \in {"mutex", "read", "write"}
      BY Requests
    <3> QED
      BY <3>1 DEF Turn, IInv, TypeOK
  <2> QED
    BY <1>2, <2>1, <2>2, <2>3, <2>4, <2>5, <2>6 DEF IInv, TypeOK
<1>5. NoneRace'
  <2> SUFFICES ASSUME ~raced', NEW a \in Commands, NEW b \in Commands, a # b,
                      Turning(a)', Turning(b)'
               PROVE  {switch'[a], switch'[b]} \notin Exclusive
    BY DEF NoneRace
  <2>1. ~raced
    BY <1>3
  <2>2. \A d \in Commands \ {c} : Turning(d)' => Turning(d)
    BY <1>1 DEF Turning
  <2>3. \A d \in Commands \ {c} : Turning(d) /\ t => {switch[d], s} \notin Exclusive
    BY <1>3 DEF Turning
  <2>4. CASE a # c /\ b # c
    BY <1>1, <2>1, <2>2, <2>4 DEF IInv, ExclusionInv, NoneRace
  <2>5. CASE a = c
    <3>1. {switch[b], s} \notin Exclusive
      BY <1>1, <2>2, <2>3, <2>5 DEF Turning
    <3>2. {switch[b], s} = {s, switch[b]}
      OBVIOUS
    <3> QED
      BY <1>1, <2>5, <3>1, <3>2
  <2>6. CASE b = c
    BY <1>1, <2>2, <2>3, <2>6 DEF Turning
  <2> QED
    BY <2>4, <2>5, <2>6
<1>6. CheckHolds'
  <2> SUFFICES ASSUME checks, ~raced', NEW d \in Commands,
                      pc'[d] \in {"read", "write"}, target'[d],
                      NEW x \in Switches \ {switch'[d]}, {x, switch'[d]} \in Exclusive
               PROVE  ~enabled[x]
    BY <1>2 DEF CheckHolds
  <2>1. CASE d # c
    BY <1>1, <1>3, <2>1 DEF IInv, ExclusionInv, CheckHolds
  <2>2. CASE d = c
    <3>1. Kind[s] = "event"
      BY <1>1, <2>2, ExclusivePair
    <3>2. FirstRequest(s, t) = "mutex"
      BY <1>1, <2>2, <3>1 DEF FirstRequest, NeedsMutexCheck
    <3> QED
      BY <1>1, <2>2, <3>2
  <2> QED
    BY <2>1, <2>2
<1>7. ExclusiveEventsStayExclusive'
  BY <1>2, <1>3 DEF IInv, ExclusionInv, ExclusiveEventsStayExclusive
<1>8. ChangesArePolled'
  BY <1>2 DEF IInv, ChangesArePolled
<1> QED
  BY <1>4, <1>5, <1>6, <1>7, <1>8 DEF IInv, ExclusionInv

LEMMA WriteKeepsIInv ==
    ASSUME IInv, NEW c \in Commands, Write(c)
    PROVE  IInv'
<1> DEFINE s == switch[c]
<1>1. PICK r \in {"done", "failed"} : End(c, r)
  BY DEF Write
<1>2. s \in Switches /\ pc[c] = "write"
  BY DEF Write, IInv, TypeOK
<1>3. enabled'[s] = target[c] /\ \A x \in Switches \ {s} : enabled'[x] = enabled[x]
  BY <1>2 DEF Write, IInv, TypeOK
<1>4. UNCHANGED <<fitted, checks, polling, raced>> /\ unseen' = unseen \union {s}
  BY DEF Write
<1>5. TypeOK'
  <2>1. enabled' \in [Switches -> BOOLEAN]
    BY <1>2 DEF Write, IInv, TypeOK
  <2> QED
    BY <1>1, <1>2, <1>4, <2>1, EndType DEF IInv, TypeOK
<1>6. ExclusiveEventsStayExclusive'
  <2> SUFFICES ASSUME checks, ~raced, NEW pair \in Exclusive
               PROVE  \E x \in pair : ~enabled'[x]
    BY <1>4 DEF ExclusiveEventsStayExclusive, IsExclusive
  <2>1. PICK x, y \in Switches : x # y /\ pair = {x, y}
    BY ExclusiveAssumption
  <2>2. PICK z \in pair : ~enabled[z]
    BY DEF IInv, ExclusionInv, ExclusiveEventsStayExclusive, IsExclusive
  <2>3. CASE z # s \/ ~target[c]
    BY <1>3, <2>1, <2>2, <2>3
  <2>4. CASE z = s /\ target[c]
    <3>1. PICK w \in Switches \ {s} : pair = {w, s}
      BY <2>1, <2>4
    <3>2. ~enabled[w]
      BY <1>2, <2>4, <3>1 DEF IInv, ExclusionInv, CheckHolds
    <3> QED
      BY <1>3, <3>1, <3>2
  <2> QED
    BY <2>3, <2>4
<1>7. ASSUME NEW d \in Commands \ {c}, checks, ~raced,
             pc[d] \in {"read", "write"}, target[d],
             NEW x \in Switches \ {switch[d]}, {x, switch[d]} \in Exclusive
      PROVE  ~enabled'[x]
  <2>1. ~enabled[x]
    BY <1>7 DEF IInv, ExclusionInv, CheckHolds
  <2>2. CASE x # s
    BY <1>3, <2>1, <2>2
  <2>3. CASE x = s
    <3>1. ~target[c]
      BY <1>2, <1>7, <2>3 DEF IInv, ExclusionInv, NoneRace, Turning
    <3> QED
      BY <1>3, <2>3, <3>1
  <2> QED
    BY <2>2, <2>3
<1>8. ExclusionInv'
  BY <1>1, <1>4, <1>6, <1>7, EndKeepsExclusion
<1>9. ChangesArePolled'
  <2> SUFFICES ASSUME NEW x \in unseen', Kind[x] # "holiday"
               PROVE  asked'[CoordinatorOf(x)] \/ dropped'[CoordinatorOf(x)]
    BY DEF ChangesArePolled
  <2>1. CASE x \in unseen
    <3>1. x \in Switches
      BY <2>1 DEF IInv, TypeOK
    <3>2. asked[CoordinatorOf(x)] \/ dropped[CoordinatorOf(x)]
      BY <2>1 DEF IInv, ChangesArePolled
    <3> QED
      BY <1>1, <3>1, <3>2, EndKeepsRequests, CoordinatorIsOne DEF IInv
  <2>2. CASE x = s
    <3>1. Refreshes(s, r)
      BY <2>2 DEF Refreshes
    <3>2. CoordinatorOf(s) \in Coordinators
      BY <1>2, CoordinatorIsOne
    <3>3. polling[CoordinatorOf(s)] \in BOOLEAN
      BY <3>2 DEF IInv, TypeOK
    <3>4. /\ asked'[CoordinatorOf(s)] = (asked[CoordinatorOf(s)] \/ (Refreshes(s, r) /\ ~polling[CoordinatorOf(s)]))
          /\ dropped'[CoordinatorOf(s)] = (dropped[CoordinatorOf(s)] \/ (Refreshes(s, r) /\ polling[CoordinatorOf(s)]))
      BY <1>1, <3>2 DEF End, IInv, TypeOK
    <3> QED
      BY <2>2, <3>1, <3>3, <3>4
  <2> QED
    BY <1>4, <2>1, <2>2
<1> QED
  BY <1>5, <1>8, <1>9 DEF IInv
--------------------------------------------------------------------------------
LEMMA PollsKeepIInv ==
    ASSUME IInv, NEW k \in Coordinators, StartPoll(k) \/ EndPoll(k)
    PROVE  IInv'
<1> USE DEF commandVars
<1>1. TypeOK'
  BY DEF StartPoll, EndPoll, IInv, TypeOK
<1>2. UNCHANGED <<enabled, checks, pc, switch, target, raced>>
  BY DEF StartPoll, EndPoll
<1>3. ExclusionInv'
  BY <1>2 DEF IInv, ExclusionInv, NoneRace, CheckHolds, ExclusiveEventsStayExclusive, Turning
<1>4. ChangesArePolled'
  <2>1. CASE StartPoll(k)
    <3>1. \A s \in unseen' : s \in unseen /\ CoordinatorOf(s) # k
      BY <2>1 DEF StartPoll
    <3>2. \A j \in Coordinators \ {k} : asked'[j] = asked[j] /\ dropped'[j] = dropped[j]
      BY <2>1 DEF StartPoll, IInv, TypeOK
    <3> QED
      BY <3>1, <3>2, CoordinatorIsOne DEF IInv, TypeOK, ChangesArePolled
  <2>2. CASE EndPoll(k)
    BY <2>2 DEF EndPoll, IInv, ChangesArePolled
  <2> QED
    BY <2>1, <2>2
<1> QED
  BY <1>1, <1>3, <1>4 DEF IInv

LEMMA SwitchOffKeepsIInv ==
    ASSUME IInv, NEW s \in Switches, SwitchOffAtDevice(s)
    PROVE  IInv'
<1> USE DEF commandVars
<1>1. \A x \in Switches : enabled'[x] => enabled[x]
  BY DEF SwitchOffAtDevice, IInv, TypeOK
<1>2. enabled' \in [Switches -> BOOLEAN]
  BY DEF SwitchOffAtDevice, IInv, TypeOK
<1>3. took' \in [Commands -> BOOLEAN]
  BY ReachedType DEF SwitchOffAtDevice
<1>4. TypeOK'
  BY <1>2, <1>3 DEF SwitchOffAtDevice, IInv, TypeOK
<1>5. UNCHANGED <<checks, pc, switch, target, raced, asked, dropped, unseen>>
  BY DEF SwitchOffAtDevice
<1>6. NoneRace' /\ ChangesArePolled'
  BY <1>5 DEF IInv, ExclusionInv, NoneRace, Turning, ChangesArePolled
<1>7. CheckHolds'
  BY <1>1, <1>5 DEF IInv, ExclusionInv, CheckHolds
<1>8. ExclusiveEventsStayExclusive'
  <2> SUFFICES ASSUME checks, ~raced, NEW pair \in Exclusive
               PROVE  \E x \in pair : ~enabled'[x]
    BY <1>5 DEF ExclusiveEventsStayExclusive, IsExclusive
  <2>1. PICK z \in pair : ~enabled[z]
    BY DEF IInv, ExclusionInv, ExclusiveEventsStayExclusive, IsExclusive
  <2>2. z \in Switches
    BY ExclusiveAssumption
  <2> QED
    BY <1>1, <2>1, <2>2
<1> QED
  BY <1>4, <1>6, <1>7, <1>8 DEF IInv, ExclusionInv

LEMMA NextKeepsIInv == IInv /\ [Next]_vars => IInv'
<1> SUFFICES ASSUME IInv, [Next]_vars PROVE IInv'
  OBVIOUS
<1>1. fitted \subseteq Switches
  BY FitsAssumption DEF IInv, TypeOK
<1>2. ASSUME NEW s \in fitted, SwitchOffAtDevice(s)
      PROVE  IInv'
  BY <1>1, <1>2, SwitchOffKeepsIInv
<1>3. ASSUME NEW k \in Coordinators, StartPoll(k) \/ EndPoll(k)
      PROVE  IInv'
  BY <1>3, PollsKeepIInv
<1>4. ASSUME NEW c \in Commands, NEW s \in fitted, NEW t \in BOOLEAN, Turn(c, s, t)
      PROVE  IInv'
  BY <1>1, <1>4, TurnKeepsIInv
<1>5. ASSUME NEW c \in Commands, CheckMutex(c)
      PROVE  IInv'
  <2>1. "read" \in RequestsOf(switch[c])
    BY <1>5, Requests DEF CheckMutex, IInv, TypeOK
  <2>2. CASE MutexIssues(switch[c]) = {}
    BY <1>5, <2>1, <2>2, AwaitKeepsIInv DEF CheckMutex
  <2>3. CASE MutexIssues(switch[c]) # {}
    BY <1>5, <2>3, EndKeepsIInv DEF CheckMutex
  <2> QED
    BY <2>2, <2>3
<1>6. ASSUME NEW c \in Commands, Read(c)
      PROVE  IInv'
  <2>1. "write" \in RequestsOf(switch[c])
    BY Requests DEF IInv, TypeOK
  <2>2. CASE IsThere(c)
    BY <1>6, <2>2, EndKeepsIInv DEF Read
  <2>3. CASE ~IsThere(c)
    BY <1>6, <2>1, <2>3, AwaitKeepsIInv DEF Read
  <2> QED
    BY <2>2, <2>3
<1>7. ASSUME NEW c \in Commands, Write(c)
      PROVE  IInv'
  BY <1>7, WriteKeepsIInv
<1>8. ASSUME NEW c \in Commands, Fail(c)
      PROVE  IInv'
  BY <1>8, EndKeepsIInv DEF Fail
<1>9. CASE UNCHANGED vars
  BY <1>9 DEF vars, commandVars, IInv, TypeOK, ExclusionInv, NoneRace, CheckHolds, Turning,
              ExclusiveEventsStayExclusive, ChangesArePolled
<1> QED
  BY <1>2, <1>3, <1>4, <1>5, <1>6, <1>7, <1>8, <1>9 DEF Next

LEMMA Invariance == Spec => []IInv
BY InitIInv, NextKeepsIInv, PTL DEF Spec
--------------------------------------------------------------------------------
\* Type correctness, for all commands and switches.
THEOREM TypeCorrect == Spec => []TypeOK
<1>1. IInv => TypeOK
  BY DEF IInv
<1> QED
  BY Invariance, <1>1, PTL

\* However many commands, polls and changes at the device interleave, mutually exclusive
\* events are enabled together only after commands that were under way together
\* (set_event_enabled_state and its mutex check).
THEOREM ExclusionHolds == Spec => []ExclusiveEventsStayExclusive
<1>1. IInv => ExclusiveEventsStayExclusive
  BY DEF IInv, ExclusionInv
<1> QED
  BY Invariance, <1>1, PTL

\* However many commands and polls interleave, what a command wrote is polled, or its
\* request for that was dropped for a poll that was running.
THEOREM WritesArePolled == Spec => []ChangesArePolled
<1>1. IInv => ChangesArePolled
  BY DEF IInv
<1> QED
  BY Invariance, <1>1, PTL

\* However commands interleave, one that ends without an error has had its effect.
THEOREM CommandsTakeEffect == Spec => SuccessMeansEffect
<1> DEFINE Effective == \A c \in Commands :
             pc[c] # "idle" /\ pc'[c] = "idle" /\ ok'[c] => Reached(enabled')[c]
<1>1. TypeOK /\ [Next]_vars => [Effective]_vars
  <2> SUFFICES ASSUME TypeOK, Next, NEW c \in Commands,
                      pc[c] # "idle", pc'[c] = "idle", ok'[c]
               PROVE  Reached(enabled')[c]
    OBVIOUS
  <2>1. ASSUME NEW d \in Commands, NEW r, End(d, r)
        PROVE  d = c /\ r = "done"
    BY <2>1 DEF End, TypeOK
  <2>2. ASSUME NEW d \in Commands, NEW request, Await(d, request), request # "idle"
        PROVE  FALSE
    BY <2>2 DEF Await, TypeOK
  <2>3. ASSUME NEW d \in Commands, CheckMutex(d)
        PROVE  FALSE
    BY <2>1, <2>2, <2>3 DEF CheckMutex
  <2>4. ASSUME NEW d \in Commands, Read(d)
        PROVE  Reached(enabled')[c]
    <3>1. IsThere(d) /\ End(d, "done")
      BY <2>2, <2>4 DEF Read
    <3>2. d = c /\ enabled'[switch[c]] = target[c]
      BY <2>1, <2>4, <3>1 DEF Read, IsThere
    <3> QED
      BY <3>2 DEF Reached
  <2>5. ASSUME NEW d \in Commands, Write(d)
        PROVE  Reached(enabled')[c]
    <3>1. d = c
      BY <2>1, <2>5 DEF Write
    <3>2. enabled'[switch[c]] = target[c]
      BY <2>5, <3>1 DEF Write, TypeOK
    <3> QED
      BY <3>2 DEF Reached
  <2>6. ASSUME NEW d \in Commands, Fail(d)
        PROVE  FALSE
    BY <2>1, <2>6 DEF Fail
  <2>7. ASSUME NEW d \in Commands, NEW s \in fitted, NEW t \in BOOLEAN, Turn(d, s, t)
        PROVE  FALSE
    <3>1. s \in Switches
      BY FitsAssumption DEF TypeOK
    <3>2. FirstRequest(s, t) # "idle"
      BY <3>1, Requests
    <3> QED
      BY <2>7, <3>2 DEF Turn, TypeOK
  <2>8. ~UNCHANGED pc
    OBVIOUS
  <2> QED
    BY <2>3, <2>4, <2>5, <2>6, <2>7, <2>8
       DEF Next, SwitchOffAtDevice, StartPoll, EndPoll, commandVars
<1> QED
  BY TypeCorrect, <1>1, PTL DEF Spec, SuccessMeansEffect
================================================================================
