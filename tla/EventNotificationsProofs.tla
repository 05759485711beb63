------------------------ MODULE EventNotificationsProofs ------------------------
(***************************************************************************)
(* Theorems about EventNotifications for any number of entries and any     *)
(* network: to which entry an event is attributed.                         *)
(***************************************************************************)
EXTENDS EventNotifications, FiniteSetTheorems, TLAPS

\* A post that awaits a lookup has not been attributed, and as long as no entry of its
\* list was unloaded, all of them are still loaded.
LookupInv ==
    pc = "lookup" =>
        /\ hit = 0
        /\ todo \subseteq alert.entries
        /\ ~gone => \A e \in alert.entries : state[e] = "loaded"

IInv == TypeOK /\ LookupInv /\ RightSensor /\ EventsArrive
--------------------------------------------------------------------------------
\* Entries that match have the address of the sender.
LEMMA MatchesAreEntries ==
    ASSUME NEW a \in Alert, NEW known
    PROVE  /\ Matches(a, known) \subseteq a.entries
           /\ \A e \in Matches(a, known) : AddressOf(e) = AddressOf(a.from)
BY DEF Matches

\* A set of entries has one member exactly if its cardinality says so.
LEMMA OneMember ==
    ASSUME NEW S \in SUBSET Entries
    PROVE  Cardinality(S) = 1 <=> \E e \in S : S = {e}
<1>1. IsFiniteSet(Entries)
  BY FS_Interval, EntriesAssumption DEF Entries
<1>2. IsFiniteSet(S)
  BY <1>1, FS_Subset
<1> QED
  BY <1>2, FS_Singleton

\* An event is taken for that of another device only if its own entry does not match.
LEMMA ChosenIsRight ==
    ASSUME NEW a \in Alert, NEW known, NEW e \in Chosen(a, Matches(a, known)),
           e # a.from
    PROVE  a.from \notin Matches(a, known)
<1>1. Matches(a, known) \in SUBSET Entries
  BY MatchesAreEntries DEF Alert
<1>2. Cardinality(Matches(a, known)) = 1 /\ e \in Matches(a, known)
  BY DEF Chosen
<1> QED
  BY <1>1, <1>2, OneMember

\* The entry of the sender is chosen if it matches and can be told apart.
LEMMA SenderIsChosen ==
    ASSUME NEW a \in Alert, NEW known,
           a.from \in Matches(a, known),
           a.mac \/ \A e \in a.entries : ~SharesAddress(a.from, e)
    PROVE  Chosen(a, Matches(a, known)) = {a.from}
<1> DEFINE M == Matches(a, known)
<1>1. M \in SUBSET Entries
  BY MatchesAreEntries DEF Alert
<1>2. CASE Cardinality(M) = 1
  BY <1>1, <1>2, OneMember DEF Chosen
<1>3. CASE Cardinality(M) # 1
  <2>1. M # {a.from}
    BY <1>1, <1>3, OneMember
  <2>2. PICK e \in M : e # a.from
    BY <2>1
  <2>3. e \in a.entries /\ SharesAddress(a.from, e)
    BY <2>2, MatchesAreEntries DEF SharesAddress
  <2>4. a.mac
    BY <2>3
  <2> QED
    BY <1>3, <2>4 DEF Chosen
<1> QED
  BY <1>2, <1>3
--------------------------------------------------------------------------------
\* A post that comes as far as a decision ends, with an entry of its list or none.
LEMMA DecideEnds ==
    ASSUME TypeOK, NEW a \in Alert, NEW known, Decide(a, Matches(a, known))
    PROVE  /\ pc' = "idle" /\ todo' = {} /\ lookup' = {} /\ asked' = {}
           /\ sensor' \in [Entries -> {"off", "on", "unavailable"}]
           /\ hit' = 0 \/ hit' \in Chosen(a, Matches(a, known))
<1> DEFINE M == Matches(a, known)
<1>1. CASE Drop
  BY <1>1 DEF Drop, End, TypeOK
<1>2. CASE \E e \in Chosen(a, M) : Trigger(e)
  <2>1. PICK e \in Chosen(a, M) : Trigger(e)
    BY <1>2
  <2> QED
    BY <2>1 DEF Trigger, End, TypeOK
<1> QED
  BY <1>1, <1>2 DEF Decide

\* Nobody is chosen but entries of the list.
LEMMA ChosenAreEntries ==
    ASSUME NEW a \in Alert, NEW known
    PROVE  Chosen(a, Matches(a, known)) \subseteq a.entries
BY MatchesAreEntries DEF Chosen

\* The cases of a search: an error, a decision, or another lookup.
LEMMA SearchCases ==
    ASSUME NEW a, NEW left, NEW tried, NEW known, Search(a, left, tried, known)
    PROVE  /\ resolved' = known
           /\ \/ Drop /\ \E e \in left : ~HasRuntimeData(e)
              \/ Decide(a, Matches(a, known))
              \/ /\ pc' = "lookup" /\ hit' = 0
                 /\ todo' \subseteq left /\ asked' = tried
                 /\ \E e \in left : NeedsLookup(host[e], tried) /\ lookup' = {host[e]}
                 /\ UNCHANGED sensor
BY DEF Search

\* A search leaves the types.
LEMMA SearchType ==
    ASSUME TypeOK, NEW a \in Alert, NEW left \in SUBSET Entries,
           NEW tried \in SUBSET names, NEW known \in SUBSET names,
           Search(a, left, tried, known), alert' = a, gone' \in BOOLEAN,
           UNCHANGED <<network, state>>
    PROVE  TypeOK'
<1>1. resolved' \subseteq names
  BY SearchCases
<1>2. UNCHANGED <<host, names, address, state>>
  BY DEF network
<1>3. CASE Drop
  <2>1. hit' \in 0..N
    BY <1>3, EntriesAssumption DEF Drop, End
  <2> QED
    BY <1>1, <1>2, <1>3, <2>1 DEF Drop, End, TypeOK
<1>4. CASE Decide(a, Matches(a, known))
  <2>1. hit' \in 0..N
    BY <1>4, DecideEnds, ChosenAreEntries, EntriesAssumption DEF Alert, Entries
  <2>2. /\ pc' = "idle" /\ todo' = {} /\ lookup' = {} /\ asked' = {}
        /\ sensor' \in [Entries -> {"off", "on", "unavailable"}]
    BY <1>4, DecideEnds
  <2> QED
    BY <1>1, <1>2, <2>1, <2>2 DEF TypeOK
<1>5. CASE /\ pc' = "lookup" /\ hit' = 0
           /\ todo' \subseteq left /\ asked' = tried
           /\ \E e \in left : NeedsLookup(host[e], tried) /\ lookup' = {host[e]}
           /\ UNCHANGED sensor
  <2>1. lookup' \subseteq names
    BY <1>5 DEF NeedsLookup
  <2>2. todo' \subseteq Entries /\ asked' \subseteq names /\ hit' \in 0..N
    BY <1>5, EntriesAssumption
  <2> QED
    BY <1>1, <1>2, <1>5, <2>1, <2>2 DEF TypeOK
<1> QED
  BY <1>3, <1>4, <1>5, SearchCases

\* A search attributes the event as it should, or goes on with what LookupInv says.
LEMMA SearchStep ==
    ASSUME TypeOK, NEW a \in Alert, NEW left \in SUBSET a.entries,
           NEW tried, NEW known,
           Search(a, left, tried, known), alert' = a,
           UNCHANGED <<network, state>>,
           ~gone' => \A e \in a.entries : state[e] = "loaded"
    PROVE  LookupInv' /\ RightSensor' /\ EventsArrive'
<1> DEFINE M == Matches(a, known)
<1>1. UNCHANGED <<host, names, address, state>> /\ resolved' = known
  BY SearchCases DEF network
<1>2. \A d, e \in Entries : SharesAddress(d, e)' = SharesAddress(d, e)
  BY <1>1 DEF SharesAddress, AddressOf
<1>3. Reached' <=> a.from \in M
  BY <1>1 DEF Reached, Matches, AddressOf
<1>4. ~gone' => \A e \in a.entries : HasRuntimeData(e)
  BY DEF HasRuntimeData
<1>5. CASE Drop /\ \E e \in left : ~HasRuntimeData(e)
  <2>1. pc' = "idle" /\ hit' = 0 /\ gone'
    BY <1>4, <1>5 DEF Drop, End
  <2> QED
    BY <2>1 DEF LookupInv, RightSensor, EventsArrive
<1>6. CASE Decide(a, M)
  <2>1. pc' = "idle" /\ (hit' = 0 \/ hit' \in Chosen(a, M))
    BY <1>6, DecideEnds
  <2>2. RightSensor'
    <3>1. CASE hit' \in {0, a.from}
      BY <3>1 DEF RightSensor
    <3>2. CASE hit' \notin {0, a.from}
      <4>1. PICK e \in Chosen(a, M) : e = hit' /\ e # a.from
        BY <2>1, <3>2
      <4>2. ~Reached'
        BY <1>3, <4>1, ChosenIsRight
      <4>3. e \in M
        BY <4>1 DEF Chosen
      <4>4. e \in Entries /\ SharesAddress(a.from, e)
        BY <4>1, <4>3, MatchesAreEntries DEF SharesAddress, Alert
      <4>5. SharesAddress(a.from, e)'
        BY <1>2, <4>4 DEF Alert
      <4> QED
        BY <4>1, <4>2, <4>5 DEF RightSensor, SharesAddress
    <3> QED
      BY <3>1, <3>2
  <2>3. EventsArrive'
    <3> SUFFICES ASSUME Reached', ~gone',
                        a.mac \/ \A e \in a.entries : ~SharesAddress(a.from, e)'
                 PROVE  hit' = a.from
      BY DEF EventsArrive
    <3>1. a.from \in M
      BY <1>3
    <3>2. a.mac \/ \A e \in a.entries : ~SharesAddress(a.from, e)
      BY <1>2 DEF Alert
    <3>3. Chosen(a, M) = {a.from}
      BY <3>1, <3>2, SenderIsChosen
    <3>4. \A e \in M : HasRuntimeData(e)
      BY <1>4, MatchesAreEntries
    <3>5. \E e \in Chosen(a, M) : Trigger(e)
      BY <1>6, <3>3, <3>4 DEF Decide
    <3> QED
      BY <3>3, <3>5 DEF Trigger, End
  <2> QED
    BY <2>1, <2>2, <2>3 DEF LookupInv
<1>7. CASE pc' = "lookup" /\ hit' = 0 /\ todo' \subseteq left
  BY <1>1, <1>7 DEF LookupInv, RightSensor, EventsArrive
<1> QED
  BY <1>5, <1>6, <1>7, SearchCases
--------------------------------------------------------------------------------
\* Nothing is attributed and no entry is loaded.
LEMMA InitIInv == Init => IInv
<1> SUFFICES ASSUME Init PROVE IInv
  OBVIOUS
<1>1. TypeOK
  <2>1. NoAlert \in Alert
    BY EntriesAssumption DEF NoAlert, Alert, Entries
  <2>2. 0 \in 0..N
    BY EntriesAssumption
  <2>3. state \in [Entries -> States]
    BY DEF Init, States
  <2> QED
    BY <2>1, <2>2, <2>3 DEF Init, TypeOK
<1> QED
  BY <1>1 DEF Init, IInv, LookupInv, RightSensor, EventsArrive, Reached, NoAlert

\* A step of an entry that unloads none of the list of a waiting post, or says so.
LEMMA EntryStep ==
    ASSUME IInv, UNCHANGED <<network, postVars>>,
           gone => gone',
           pc = "lookup" /\ ~gone' => \A e \in alert.entries : state'[e] = state[e]
    PROVE  LookupInv' /\ RightSensor' /\ EventsArrive'
<1>1. UNCHANGED <<host, names, address, pc, alert, todo, resolved, hit>>
  BY DEF network, postVars, searchVars
<1>2. LookupInv'
  BY <1>1 DEF IInv, LookupInv
<1>3. RightSensor'
  BY <1>1 DEF IInv, RightSensor, SharesAddress, AddressOf, Reached
<1>4. EventsArrive'
  BY <1>1 DEF IInv, EventsArrive, SharesAddress, AddressOf, Reached
<1> QED
  BY <1>2, <1>3, <1>4

\* Every step preserves the invariant.
LEMMA NextIInv == IInv /\ [Next]_vars => IInv'
<1> SUFFICES ASSUME IInv, [Next]_vars PROVE IInv'
  OBVIOUS
<1>0. TypeOK
  BY DEF IInv
<1>1. ASSUME NEW e \in Entries, StartSetup(e) PROVE IInv'
  <2>1. UNCHANGED <<network, sensor, postVars, gone>>
    BY <1>1 DEF StartSetup
  <2>2. state' \in [Entries -> States]
    BY <1>0, <1>1 DEF StartSetup, TypeOK, States
  <2>3. TypeOK'
    BY <1>0, <2>1, <2>2 DEF TypeOK, network, postVars, searchVars
  <2>4. pc = "lookup" /\ ~gone' => \A f \in alert.entries : state'[f] = state[f]
    BY <1>0, <1>1, <2>1 DEF StartSetup, TypeOK, Alert, IInv, LookupInv
  <2> QED
    BY <2>1, <2>3, <2>4, EntryStep DEF IInv
<1>2. ASSUME NEW e \in Entries, EndSetup(e) PROVE IInv'
  <2>1. UNCHANGED <<network, postVars, gone>>
    BY <1>2 DEF EndSetup
  <2>2. /\ state' \in [Entries -> States]
        /\ sensor' \in [Entries -> {"off", "on", "unavailable"}]
    BY <1>0, <1>2 DEF EndSetup, TypeOK, States
  <2>3. TypeOK'
    BY <1>0, <2>1, <2>2 DEF TypeOK, network, postVars, searchVars
  <2>4. pc = "lookup" /\ ~gone' => \A f \in alert.entries : state'[f] = state[f]
    BY <1>0, <1>2, <2>1 DEF EndSetup, TypeOK, Alert, IInv, LookupInv
  <2> QED
    BY <2>1, <2>3, <2>4, EntryStep DEF IInv
<1>3. ASSUME NEW e \in Entries, UnloadPlatforms(e) PROVE IInv'
  <2>1. UNCHANGED <<network, postVars>>
    BY <1>3 DEF UnloadPlatforms
  <2>2. /\ state' \in [Entries -> States]
        /\ sensor' \in [Entries -> {"off", "on", "unavailable"}]
    BY <1>0, <1>3 DEF UnloadPlatforms, TypeOK, States
  <2>3. gone' = (gone \/ (pc = "lookup" /\ e \in alert.entries)) /\ gone' \in BOOLEAN
    BY <1>0, <1>3 DEF UnloadPlatforms, TypeOK
  <2>4. TypeOK'
    BY <1>0, <2>1, <2>2, <2>3 DEF TypeOK, network, postVars, searchVars
  <2>5. pc = "lookup" /\ ~gone' => \A f \in alert.entries : state'[f] = state[f]
    BY <1>0, <1>3, <2>3 DEF UnloadPlatforms, TypeOK, Alert
  <2> QED
    BY <2>1, <2>3, <2>4, <2>5, EntryStep DEF IInv
<1>4. ASSUME NEW e \in Entries, EndUnload(e) PROVE IInv'
  <2>1. UNCHANGED <<network, sensor, postVars, gone>>
    BY <1>4 DEF EndUnload
  <2>2. state' \in [Entries -> States]
    BY <1>0, <1>4 DEF EndUnload, TypeOK, States
  <2>3. TypeOK'
    BY <1>0, <2>1, <2>2 DEF TypeOK, network, postVars, searchVars
  <2>4. pc = "lookup" /\ ~gone' => \A f \in alert.entries : state'[f] = state[f]
    BY <1>0, <1>4, <2>1 DEF EndUnload, TypeOK, Alert, IInv, LookupInv
  <2> QED
    BY <2>1, <2>3, <2>4, EntryStep DEF IInv
<1>5. CASE Post
  <2>1. PICK a \in Alert : /\ a.entries = {e \in Entries : state[e] = "loaded"}
                           /\ alert' = a
                           /\ Search(a, a.entries, {}, {})
    BY <1>5 DEF Post
  <2>2. gone' = FALSE /\ UNCHANGED <<network, state>>
    BY <1>5 DEF Post
  <2>3. a.entries \in SUBSET Entries /\ \A e \in a.entries : state[e] = "loaded"
    BY <2>1
  <2>4. TypeOK'
    <3>1. gone' \in BOOLEAN /\ {} \in SUBSET names
      BY <2>2
    <3> QED
      BY <1>0, <2>1, <2>2, <2>3, <3>1, SearchType
  <2>5. LookupInv' /\ RightSensor' /\ EventsArrive'
    BY <1>0, <2>1, <2>2, <2>3, SearchStep
  <2> QED
    BY <2>4, <2>5 DEF IInv
<1>6. CASE Resume
  <2>1. PICK known \in {resolved, resolved \union lookup} :
                Search(alert, todo, asked \union lookup, known)
    BY <1>6 DEF Resume
  <2>2. pc = "lookup" /\ UNCHANGED <<network, state, alert, gone>>
    BY <1>6 DEF Resume
  <2>3. /\ alert \in Alert /\ todo \in SUBSET Entries /\ gone' \in BOOLEAN
        /\ known \in SUBSET names /\ asked \union lookup \in SUBSET names
    BY <1>0, <2>2 DEF TypeOK
  <2>4. todo \in SUBSET alert.entries /\ (~gone' => \A e \in alert.entries : state[e] = "loaded")
    BY <2>2 DEF IInv, LookupInv
  <2>5. TypeOK'
    BY <1>0, <2>1, <2>2, <2>3, SearchType
  <2>6. LookupInv' /\ RightSensor' /\ EventsArrive'
    BY <1>0, <2>1, <2>2, <2>3, <2>4, SearchStep
  <2> QED
    BY <2>5, <2>6 DEF IInv
<1>7. CASE UNCHANGED vars
  <2>1. UNCHANGED <<network, state, sensor, postVars, gone>>
    BY <1>7 DEF vars
  <2>2. TypeOK'
    BY <1>0, <2>1 DEF TypeOK, network, postVars, searchVars
  <2> QED
    BY <2>1, <2>2, EntryStep DEF IInv
<1> QED
  BY <1>1, <1>2, <1>3, <1>4, <1>5, <1>6, <1>7 DEF Next

LEMMA Invariance == Spec => []IInv
  BY InitIInv, NextIInv, PTL DEF Spec

\* TypeOK, for all entries, hosts and addresses.
THEOREM TypeCorrect == Spec => []TypeOK
<1>1. IInv => TypeOK
  BY DEF IInv
<1> QED
  BY <1>1, Invariance, PTL

\* notifications.py:74: an event is taken for one of another device only if the sender's
\* own entry cannot be matched, however many devices share an address.
THEOREM EventsAreNotMisattributed == Spec => []RightSensor
<1>1. IInv => RightSensor
  BY DEF IInv
<1> QED
  BY <1>1, Invariance, PTL

\* README.md:13: the event of a device whose entry is loaded is taken for its own, with
\* the exceptions that EventsArrive names.
THEOREM EventsAreAttributed == Spec => []EventsArrive
<1>1. IInv => EventsArrive
  BY DEF IInv
<1> QED
  BY <1>1, Invariance, PTL
================================================================================
