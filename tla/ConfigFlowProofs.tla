---------------------------- MODULE ConfigFlowProofs ----------------------------
(***************************************************************************)
(* Theorems about ConfigFlow for any number of entries, flows and devices:  *)
(* a device has one entry, and the data of an entry leads to its device.   *)
(***************************************************************************)
EXTENDS ConfigFlow, TLAPS

\* A flow that was started by the user has no entry, and only that.
UserFlowsHaveNoEntry ==
    \A f \in Flows : flow[f] # NoFlow /\ flow[f].source = "user" => flow[f].entry = Nothing

IInv == TypeOK /\ UserFlowsHaveNoEntry /\ OneEntryPerDevice /\ EntryKeepsItsDevice
--------------------------------------------------------------------------------
LEMMA InitIInv == Init => IInv
<1> SUFFICES ASSUME Init PROVE IInv
  OBVIOUS
<1>1. TypeOK
  BY DEF Init, TypeOK
<1>2. UserFlowsHaveNoEntry
  BY DEF Init, UserFlowsHaveNoEntry
<1>3. OneEntryPerDevice /\ EntryKeepsItsDevice
  BY DEF Init, OneEntryPerDevice, EntryKeepsItsDevice
<1> QED
  BY <1>1, <1>2, <1>3 DEF IInv

\* Steps that change a flow only.
LEMMA FlowStepsKeepIInv ==
    ASSUME IInv, UNCHANGED <<frozen, entryVars, historyVars>>,
           flow' \in [Flows -> InProgress \union {NoFlow}], UserFlowsHaveNoEntry'
    PROVE  IInv'
<1>1. TypeOK'
  BY DEF IInv, TypeOK, entryVars, historyVars
<1>2. OneEntryPerDevice' /\ EntryKeepsItsDevice'
  BY DEF IInv, OneEntryPerDevice, EntryKeepsItsDevice, entryVars, historyVars
<1> QED
  BY <1>1, <1>2 DEF IInv

\* A flow starts.
LEMMA StartKeepsIInv ==
    ASSUME IInv, NEW f \in Flows, NEW source \in {"user", "reconfigure", "reauth"},
           NEW e \in Entries \union {Nothing}, NEW context \in Devices \union {Nothing},
           source = "user" => e = Nothing, Start(f, source, e, context)
    PROVE  IInv'
<1>1. flow' \in [Flows -> InProgress \union {NoFlow}]
  BY DEF Start, IInv, TypeOK, InProgress
<1>2. UserFlowsHaveNoEntry'
  BY DEF Start, IInv, TypeOK, UserFlowsHaveNoEntry
<1> QED
  BY <1>1, <1>2, FlowStepsKeepIInv DEF Start

\* A flow in progress goes to another step of its dialog.
LEMMA StepKeepsIInv ==
    ASSUME IInv, NEW f \in Flows, NEW step \in {"form", "asking"}, flow[f] # NoFlow,
           flow' = [flow EXCEPT ![f].step = step],
           UNCHANGED <<frozen, entryVars, historyVars>>
    PROVE  IInv'
<1>1. flow[f] \in InProgress
  BY DEF IInv, TypeOK
<1>2. flow' \in [Flows -> InProgress \union {NoFlow}]
  BY <1>1 DEF IInv, TypeOK, InProgress
<1>3. \A g \in Flows : flow'[g] # NoFlow =>
        flow[g] # NoFlow /\ flow'[g].source = flow[g].source /\ flow'[g].entry = flow[g].entry
  BY <1>1 DEF IInv, TypeOK, InProgress
<1>4. UserFlowsHaveNoEntry'
  BY <1>3 DEF IInv, UserFlowsHaveNoEntry
<1> QED
  BY <1>2, <1>4, FlowStepsKeepIInv

\* Flows that end leave the others as they are.
LEMMA EndingFlows ==
    ASSUME IInv, NEW ending \in SUBSET Flows,
           flow' = [g \in Flows |-> IF g \in ending THEN NoFlow ELSE flow[g]]
    PROVE  flow' \in [Flows -> InProgress \union {NoFlow}] /\ UserFlowsHaveNoEntry'
BY DEF IInv, TypeOK, UserFlowsHaveNoEntry

LEMMA EndingFlow ==
    ASSUME IInv, NEW f \in Flows, flow' = [flow EXCEPT ![f] = NoFlow]
    PROVE  flow' \in [Flows -> InProgress \union {NoFlow}] /\ UserFlowsHaveNoEntry'
<1>1. flow' = [g \in Flows |-> IF g \in {f} THEN NoFlow ELSE flow[g]]
  BY DEF IInv, TypeOK
<1> QED
  BY <1>1, EndingFlows
--------------------------------------------------------------------------------
LEMMA MigrateKeepsIInv ==
    ASSUME IInv, NEW e \in Entries, Migrate(e)
    PROVE  IInv'
<1>1. version' \in [Entries -> 1..3]
  BY DEF Migrate, IInv, TypeOK
<1>2. TypeOK'
  BY <1>1 DEF Migrate, Converted, IInv, TypeOK, historyVars
<1>3. UserFlowsHaveNoEntry' /\ OneEntryPerDevice' /\ EntryKeepsItsDevice'
  BY DEF Migrate, IInv, UserFlowsHaveNoEntry, OneEntryPerDevice, EntryKeepsItsDevice, historyVars
<1> QED
  BY <1>2, <1>3 DEF IInv

LEMMA SetDisabledKeepsIInv ==
    ASSUME IInv, NEW e \in Entries, SetDisabled(e)
    PROVE  IInv'
<1>1. TypeOK'
  BY DEF SetDisabled, IInv, TypeOK, historyVars
<1>2. UserFlowsHaveNoEntry' /\ OneEntryPerDevice' /\ EntryKeepsItsDevice'
  BY DEF SetDisabled, IInv, UserFlowsHaveNoEntry, OneEntryPerDevice, EntryKeepsItsDevice,
         historyVars
<1> QED
  BY <1>1, <1>2 DEF IInv

LEMMA RemoveKeepsIInv ==
    ASSUME IInv, NEW e \in Entries, Remove(e)
    PROVE  IInv'
<1> DEFINE ending == {f \in Flows : IsReauthOf(f, e)}
<1>1. flow' = [g \in Flows |-> IF g \in ending THEN NoFlow ELSE flow[g]]
  BY DEF Remove
<1>2. flow' \in [Flows -> InProgress \union {NoFlow}] /\ UserFlowsHaveNoEntry'
  BY <1>1, EndingFlows
<1>3. version' \in [Entries -> 1..3]
  BY DEF Remove, IInv, TypeOK
<1>4. /\ unique_id' \in [Entries -> Devices \union {Nothing}]
      /\ data' \in [Entries -> Devices \union {Nothing}]
  BY DEF Remove, IInv, TypeOK
<1>5. TypeOK'
  BY <1>2, <1>3, <1>4 DEF Remove, IInv, TypeOK
<1>6. \A d \in present' : /\ d \in present /\ d # e /\ d \in Entries
                          /\ unique_id'[d] = unique_id[d] /\ data'[d] = data[d]
  BY DEF Remove, IInv, TypeOK
<1>7. OneEntryPerDevice' /\ EntryKeepsItsDevice'
  BY <1>6 DEF Remove, IInv, OneEntryPerDevice, EntryKeepsItsDevice
<1> QED
  BY <1>2, <1>5, <1>7 DEF IInv

LEMMA UpdateKeepsIInv ==
    ASSUME IInv, NEW f \in Flows, NEW d \in Devices, Update(f, d)
    PROVE  IInv'
<1> DEFINE e == flow[f].entry
<1>1. e \in present /\ e \in Entries /\ flow[f] \in InProgress
  BY DEF Update, At, IInv, TypeOK
<1>2. flow' \in [Flows -> InProgress \union {NoFlow}] /\ UserFlowsHaveNoEntry'
  BY EndingFlow DEF Update
<1>3. UNCHANGED <<present, unique_id, twins>>
  BY DEF Update
<1>4. CASE ~Matches(f, d)
  BY <1>2, <1>4, FlowStepsKeepIInv DEF Update, entryVars, historyVars
<1>5. CASE Matches(f, d)
  <2>1. /\ data' = [data EXCEPT ![e] = d]
        /\ reauthed' = IF flow[f].source = "reauth" THEN reauthed \union {e}
                       ELSE reauthed \ {e}
    BY <1>5 DEF Update
  <2>2. TypeOK'
    BY <1>1, <1>2, <2>1 DEF Update, IInv, TypeOK
  <2>3. OneEntryPerDevice'
    BY <1>3 DEF IInv, OneEntryPerDevice
  <2>4. flow[f].source = "reconfigure" => unique_id[e] = d
    BY <1>5 DEF Matches, HasUniqueId
  <2>5. flow[f].source \in {"reconfigure", "reauth"}
    <3>1. flow[f].source \in {"user", "reconfigure", "reauth"}
      BY <1>1 DEF InProgress
    <3>2. flow[f] # NoFlow
      BY DEF Update, At
    <3>3. flow[f].source # "user"
      BY <1>1, <3>2, NothingAssumption DEF IInv, UserFlowsHaveNoEntry
    <3> QED
      BY <3>1, <3>3
  <2>6. ASSUME NEW x \in present'
        PROVE  data'[x] = unique_id'[x] \/ x \in reauthed'
    <3>1. x \in present /\ x \in Entries
      BY <1>3, <2>6 DEF IInv, TypeOK
    <3>2. CASE x # e
      <4>1. data'[x] = data[x] /\ (x \in reauthed => x \in reauthed')
        BY <2>1, <3>1, <3>2 DEF IInv, TypeOK
      <4> QED
        BY <1>3, <3>1, <4>1 DEF IInv, EntryKeepsItsDevice
    <3>3. CASE x = e
      <4>1. data'[x] = d
        BY <1>1, <2>1, <3>3 DEF IInv, TypeOK
      <4> QED
        BY <1>3, <2>1, <2>4, <2>5, <3>3, <4>1
    <3> QED
      BY <3>2, <3>3
  <2>7. EntryKeepsItsDevice'
    BY <2>6 DEF EntryKeepsItsDevice
  <2> QED
    BY <1>2, <2>2, <2>3, <2>7 DEF IInv
<1> QED
  BY <1>4, <1>5

LEMMA CreateEntryKeepsIInv ==
    ASSUME IInv, NEW f \in Flows, NEW d \in Devices, NEW e \in Entries, CreateEntry(f, d, e)
    PROVE  IInv'
<1>1. flow' \in [Flows -> InProgress \union {NoFlow}] /\ UserFlowsHaveNoEntry'
  BY EndingFlow DEF CreateEntry
<1>2. version' \in [Entries -> 1..3]
  BY DEF CreateEntry, IInv, TypeOK
<1>3. TypeOK'
  BY <1>1, <1>2 DEF CreateEntry, IInv, TypeOK
<1>4. /\ present' = present \union {e}
      /\ unique_id'[e] = d /\ data'[e] = d
      /\ \A x \in present \ {e} : unique_id'[x] = unique_id[x] /\ data'[x] = data[x]
  BY DEF CreateEntry, IInv, TypeOK
<1>5. twins \subseteq twins' /\ reauthed' = reauthed
  BY DEF CreateEntry
<1>6. ASSUME NEW x \in present, unique_id[x] = d
      PROVE  e \in twins'
  <2>1. x \in nested
    BY <1>6 DEF CreateEntry, IsConfigured, HasUniqueId
  <2> QED
    BY <1>6, <2>1 DEF CreateEntry
<1>7. OneEntryPerDevice'
  BY <1>4, <1>5, <1>6 DEF IInv, OneEntryPerDevice
<1>8. EntryKeepsItsDevice'
  BY <1>4, <1>5 DEF IInv, EntryKeepsItsDevice
<1> QED
  BY <1>1, <1>3, <1>7, <1>8 DEF IInv

LEMMA NextKeepsIInv == IInv /\ [Next]_vars => IInv'
<1> SUFFICES ASSUME IInv, [Next]_vars PROVE IInv'
  OBVIOUS
<1>1. ASSUME NEW e \in Entries, Migrate(e) \/ SetDisabled(e) \/ Remove(e)
      PROVE  IInv'
  BY <1>1, MigrateKeepsIInv, SetDisabledKeepsIInv, RemoveKeepsIInv
<1>2. ASSUME NEW f \in Flows, NEW e \in Entries, StartReconfigure(f, e) \/ StartReauth(f, e)
      PROVE  IInv'
  <2>1. unique_id[e] \in Devices \union {Nothing}
    BY DEF IInv, TypeOK
  <2>2. CASE StartReconfigure(f, e)
    BY <2>2, StartKeepsIInv DEF StartReconfigure
  <2>3. CASE StartReauth(f, e)
    BY <2>1, <2>3, StartKeepsIInv DEF StartReauth
  <2> QED
    BY <1>2, <2>2, <2>3
<1>3. ASSUME NEW f \in Flows, StartUser(f) \/ Submit(f) \/ Close(f) \/ ShowErrors(f)
      PROVE  IInv'
  <2>1. CASE StartUser(f)
    BY <2>1, StartKeepsIInv DEF StartUser
  <2>2. CASE Submit(f)
    BY <2>2, StepKeepsIInv DEF Submit, At
  <2>3. CASE Close(f)
    BY <2>3, EndingFlow, FlowStepsKeepIInv DEF Close
  <2>4. CASE ShowErrors(f)
    BY <2>4, StepKeepsIInv DEF ShowErrors, At
  <2> QED
    BY <1>3, <2>1, <2>2, <2>3, <2>4
<1>4. ASSUME NEW f \in Flows, NEW d \in Devices, Update(f, d) \/ Abort(f, d)
      PROVE  IInv'
  <2>1. CASE Abort(f, d)
    BY <2>1, EndingFlow, FlowStepsKeepIInv DEF Abort
  <2> QED
    BY <1>4, <2>1, UpdateKeepsIInv
<1>5. ASSUME NEW f \in Flows, NEW d \in Devices, NEW e \in Entries, CreateEntry(f, d, e)
      PROVE  IInv'
  BY <1>5, CreateEntryKeepsIInv
<1>6. CASE UNCHANGED vars
  BY <1>6, FlowStepsKeepIInv DEF vars, IInv, TypeOK, UserFlowsHaveNoEntry
<1> QED
  BY <1>1, <1>2, <1>3, <1>4, <1>5, <1>6 DEF Next

LEMMA Invariance == Spec => []IInv
BY InitIInv, NextKeepsIInv, PTL DEF Spec
--------------------------------------------------------------------------------
\* Type correctness, for all entries, flows and devices.
THEOREM TypeCorrect == Spec => []TypeOK
<1>1. IInv => TypeOK
  BY DEF IInv
<1> QED
  BY Invariance, <1>1, PTL

\* However many flows are open at once, whichever devices answer them, and whatever
\* entries earlier versions left, a device is given a second entry only if its first one
\* still had the nested id of version 1 (_abort_if_unique_id_configured).
THEOREM DevicesHaveOneEntry == Spec => []OneEntryPerDevice
<1>1. IInv => OneEntryPerDevice
  BY DEF IInv
<1> QED
  BY Invariance, <1>1, PTL

\* Only a reauthentication can make an entry's data lead to another device than the one
\* the entry was made for (_abort_if_unique_id_mismatch).
THEOREM EntriesKeepTheirDevices == Spec => []EntryKeepsItsDevice
<1>1. IInv => EntryKeepsItsDevice
  BY DEF IInv
<1> QED
  BY Invariance, <1>1, PTL
================================================================================
