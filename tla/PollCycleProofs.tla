---------------------------- MODULE PollCycleProofs ----------------------------
(***************************************************************************)
(* Proofs about PollCycle, for every set of keys and of values.            *)
(*                                                                         *)
(* The properties speak of finished polls; what makes them inductive is    *)
(* what a RUNNING poll has established so far (PollInv) and what is known  *)
(* of an answer that is on its way (ReplyInv).                             *)
(***************************************************************************)
EXTENDS PollCycle, TLAPS

\* A poll runs only while a coordinator exists.
PhaseInv ==
    /\ polling => phase \in {"first", "adding", "loaded"}
    /\ sampled \subseteq Attempted

\* What the running poll knows: every attempted key is open, succeeded or failed;
\* the draft differs from the published data in the succeeded keys only, and what
\* it holds for them was read since the poll began, or stands for an HTTP error.
PollInv ==
    polling =>
        /\ succeeded \subseteq Attempted
        /\ failures \subseteq Attempted
        /\ succeeded \intersect failures = {}
        /\ failures = erredNow \ suppressedNow
        /\ suppressedNow \subseteq succeeded
        /\ Remaining # {}
        /\ \A k \in StorageKeys : k \notin succeeded
        /\ \A k \in Keys \ succeeded : draft[k] = data[k]
        /\ \A k \in succeeded :
              /\ draft[k] \in Values
              /\ draft[k] \in window[k] \/ (k \in suppressedNow /\ draft[k] = Blank)

\* An answer on its way belongs to the next open key of a running poll.
ReplyInv ==
    reply # NoReply =>
        /\ polling
        /\ reply.key \in NextKeys
        /\ reply.status = "ok" => reply.value \in window[reply.key]
        /\ reply.status # "ok" => reply.value = Blank

\* The device's present state is within both windows.
WindowInv == \A k \in Keys : truth[k] \in window[k] /\ truth[k] \in held[k]

IInv ==
    /\ TypeOK
    /\ PhaseInv
    /\ PollInv
    /\ ReplyInv
    /\ WindowInv
    /\ CurrentIsRecent
    /\ AvailabilityFollowsLastPoll
    /\ StorageAgrees
    /\ AgeOfEverySample
--------------------------------------------------------------------------------
USE DEF Phases, KeyKinds, Samples, Nothing, Replies, MayPoll, FailedKeysAfter, SampledAfter,
        DataAfter

\* Every step keeps the types: each action in turn.
LEMMA TypeStep == TypeOK /\ [Next]_vars => TypeOK'
<1> SUFFICES ASSUME TypeOK, [Next]_vars
             PROVE  TypeOK'
  OBVIOUS
<1> USE KindAssumption, BlankAssumption DEF TypeOK
<1>1. ASSUME NEW k \in Keys, NEW v \in Values, DeviceChanges(k, v)
      PROVE  TypeOK'
  BY <1>1 DEF DeviceChanges, sampleVars, pollVars
<1>2. CASE Settle
  BY <1>2 DEF Settle, sampleVars, pollVars, lastPollVars, thisPollVars
<1>3. CASE Discover
  <2>1. storage' \in Values
    BY <1>3 DEF Discover, StorageKeys
  <2>2. QED
    BY <1>3, <2>1 DEF Discover, deviceVars, pollVars, thisPollVars
<1>4. CASE StartPoll
  BY <1>4 DEF StartPoll, deviceVars, sampleVars, lastPollVars
<1>5. ASSUME NEW k \in Keys, DeviceAnswers(k)
      PROVE  TypeOK'
  <2>1. reply' \in Replies
    BY <1>5 DEF DeviceAnswers
  <2>2. QED
    BY <1>5, <2>1 DEF DeviceAnswers, deviceVars, sampleVars, lastPollVars,
                      thisPollVars
<1>6. CASE Resume
  <2>1. reply \in Replies
    BY <1>6 DEF Resume
  <2>2. /\ draft' \in Samples
        /\ succeeded' \in SUBSET Keys
        /\ failures' \in SUBSET Keys
        /\ storage' \in Values
        /\ erredNow' \in SUBSET Keys
        /\ suppressedNow' \in SUBSET Keys
        /\ reply' = NoReply
        /\ UNCHANGED <<truth, calm, pollStorage, window>>
    BY <1>6, <2>1 DEF Resume, deviceVars
  <2>3. CASE CompletePoll(draft', succeeded', failures')
    BY <2>2, <2>3 DEF CompletePoll
  <2>4. CASE KeepPolling
    BY <2>2, <2>4 DEF KeepPolling, sampleVars, lastPollVars
  <2>5. QED
    BY <1>6, <2>3, <2>4 DEF Resume
<1>7. CASE AbandonSetup
  BY <1>7 DEF AbandonSetup, deviceVars, sampleVars, pollVars, lastPollVars, thisPollVars
<1>8. CASE AddEntities
  BY <1>8 DEF AddEntities, deviceVars, sampleVars, pollVars, lastPollVars, thisPollVars
<1>9. CASE FinishSetup
  BY <1>9 DEF FinishSetup, deviceVars, sampleVars, pollVars, lastPollVars, thisPollVars
<1>10. CASE UNCHANGED vars
  BY <1>10 DEF vars, deviceVars, sampleVars, pollVars, lastPollVars, thisPollVars
<1>11. QED
  BY <1>1, <1>2, <1>3, <1>4, <1>5, <1>6, <1>7, <1>8, <1>9, <1>10 DEF Next

\* The storage listing is the last answer of a poll: the step that stores it in
\* device.storage also publishes the poll.
LEMMA StorageIsLast ==
  ASSUME NEW k \in StorageKeys, k \in NextKeys
  PROVE  Remaining = {k}
<1>1. k \in Keys /\ Kind[k] = "storage"
  BY DEF StorageKeys
<1>2. \A j \in Keys : Kind[j] \in EventsKinds
  BY <1>1, CoordinatorAssumption DEF EventsKinds
<1>3. ASSUME NEW j \in Remaining
      PROVE  j = k
  <2>1. j \in Keys /\ Kind[j] \in EventsKinds
    BY <1>2 DEF Remaining, Attempted
  <2>2. Rank["storage"] <= Rank[Kind[j]]
    BY <1>1, <1>3 DEF NextKeys
  <2>3. Kind[j] = "storage"
    BY <2>1, <2>2 DEF Rank, EventsKinds
  <2>4. QED
    BY <1>1, <2>1, <2>3, StorageAssumption DEF StorageKeys
<1>4. QED
  BY <1>3 DEF NextKeys

\* A change of the device widens both windows and touches nothing else.
LEMMA ChangeStep ==
  ASSUME IInv, NEW c \in Keys, NEW v \in Values, DeviceChanges(c, v)
  PROVE  IInv'
<1>1. TypeOK'
  BY TypeStep DEF IInv, Next
<1>2. UNCHANGED <<phase, storage, pollStorage, data, lastUpdateSuccess, failedKeys, sampled,
                  polling, draft, succeeded, failures, reply, erred, suppressed, erredNow,
                  suppressedNow>>
  BY DEF DeviceChanges, sampleVars, pollVars
<1>3. \A k \in Keys : window[k] \subseteq window'[k] /\ held[k] \subseteq held'[k]
  BY DEF DeviceChanges, IInv, TypeOK
<1>4. WindowInv'
  BY DEF DeviceChanges, IInv, TypeOK, WindowInv
<1>5. PhaseInv' /\ AvailabilityFollowsLastPoll' /\ StorageAgrees' /\ AgeOfEverySample'
  BY <1>2 DEF IInv, PhaseInv, AvailabilityFollowsLastPoll, StorageAgrees, AgeOfEverySample,
              Attempted, data_is_current
<1>6. CurrentIsRecent'
  BY <1>2, <1>3 DEF IInv, CurrentIsRecent, data_is_current
<1>7. ReplyInv'
  <2>1. reply # NoReply => reply.key \in Keys
    BY DEF IInv, TypeOK
  <2>2. QED
    BY <1>2, <1>3, <2>1 DEF IInv, ReplyInv, NextKeys, Remaining, Attempted
<1>8. PollInv'
  <2>1. succeeded \subseteq Keys
    BY DEF IInv, TypeOK
  <2>2. QED
    BY <1>2, <1>3, <2>1 DEF IInv, PollInv, Remaining, Attempted
<1>9. QED
  BY <1>1, <1>4, <1>5, <1>6, <1>7, <1>8 DEF IInv

\* The steps of the setup, and Settle, leave samples and poll alone; those that
\* move the phase do so while no poll needs it.
LEMMA SetupStep ==
  ASSUME IInv, [Next]_vars,
         UNCHANGED <<truth, storage, pollStorage, sampleVars, pollVars, lastPollVars,
                     thisPollVars>>,
         \/ phase' = phase
         \/ phase' = "discovering" /\ phase = "platforms"
         \/ phase' = "adding" /\ phase = "platforms"
         \/ phase' = "loaded" /\ phase = "adding"
  PROVE  IInv'
<1>1. TypeOK'
  BY TypeStep DEF IInv
<1>2. UNCHANGED <<truth, storage, pollStorage, data, lastUpdateSuccess, failedKeys, sampled,
                  polling, draft, succeeded, failures, reply, held, window, erred, suppressed,
                  erredNow, suppressedNow>>
  BY DEF sampleVars, pollVars, lastPollVars, thisPollVars
<1>3. PhaseInv'
  BY <1>2 DEF IInv, PhaseInv, Attempted
<1>4. ReplyInv' /\ PollInv'
  BY <1>2 DEF IInv, ReplyInv, PollInv, NextKeys, Remaining, Attempted
<1>5. WindowInv' /\ CurrentIsRecent' /\ AgeOfEverySample'
  BY <1>2 DEF IInv, WindowInv, CurrentIsRecent, AgeOfEverySample, data_is_current
<1>6. AvailabilityFollowsLastPoll' /\ StorageAgrees'
  BY <1>2 DEF IInv, AvailabilityFollowsLastPoll, StorageAgrees, Attempted, data_is_current
<1>7. QED
  BY <1>1, <1>3, <1>4, <1>5, <1>6 DEF IInv

\* A fresh coordinator has no sample, so nothing is claimed of any.
LEMMA DiscoverStep ==
  ASSUME IInv, Discover
  PROVE  IInv'
<1>1. TypeOK'
  BY TypeStep DEF IInv, Next
<1>2. /\ phase = "discovering" /\ phase' = "first"
      /\ data' = Nothing /\ sampled' = {}
      /\ UNCHANGED <<truth, polling, reply, held, window>>
  BY DEF Discover, deviceVars, pollVars, thisPollVars
<1>3. ~polling /\ reply = NoReply
  BY <1>2 DEF IInv, PhaseInv, ReplyInv
<1>4. PhaseInv' /\ PollInv' /\ ReplyInv' /\ AvailabilityFollowsLastPoll'
  BY <1>2, <1>3 DEF PhaseInv, PollInv, ReplyInv, AvailabilityFollowsLastPoll
<1>5. WindowInv' /\ CurrentIsRecent'
  BY <1>2 DEF IInv, WindowInv, CurrentIsRecent, data_is_current
<1>6. StorageAgrees' /\ AgeOfEverySample'
  BY <1>2 DEF StorageAgrees, AgeOfEverySample, StorageKeys
<1>7. QED
  BY <1>1, <1>4, <1>5, <1>6 DEF IInv

\* A poll that starts knows nothing yet and has something to ask.
LEMMA StartStep ==
  ASSUME IInv, StartPoll
  PROVE  IInv'
<1>1. TypeOK'
  BY TypeStep DEF IInv, Next
<1>2. UNCHANGED <<truth, phase, storage, pollStorage, data, lastUpdateSuccess, failedKeys,
                  sampled, reply, held, erred, suppressed>>
  BY DEF StartPoll, deviceVars, sampleVars, lastPollVars
<1>3. reply = NoReply
  BY DEF StartPoll, IInv, ReplyInv
<1>4. PhaseInv' /\ ReplyInv'
  BY <1>2, <1>3 DEF StartPoll, IInv, PhaseInv, ReplyInv, Attempted
<1>5. PollInv'
  <2>1. Attempted # {}
    BY StorageAssumption, KindAssumption DEF Attempted, StorageKeys
  <2>2. Remaining' # {}
    BY <1>2, <2>1 DEF StartPoll, Remaining, Attempted
  <2>3. QED
    BY <1>2, <2>2 DEF StartPoll, PollInv
<1>6. WindowInv'
  BY <1>2 DEF StartPoll, IInv, WindowInv, TypeOK
<1>7. /\ CurrentIsRecent' /\ AvailabilityFollowsLastPoll'
      /\ StorageAgrees' /\ AgeOfEverySample'
  BY <1>2 DEF IInv, CurrentIsRecent, AvailabilityFollowsLastPoll, StorageAgrees,
              AgeOfEverySample, Attempted, data_is_current
<1>8. QED
  BY <1>1, <1>4, <1>5, <1>6, <1>7 DEF IInv

\* An answer carries what the device holds at that moment.
LEMMA AnswerStep ==
  ASSUME IInv, NEW c \in Keys, DeviceAnswers(c)
  PROVE  IInv'
<1>1. TypeOK'
  BY TypeStep DEF IInv, Next
<1>2. UNCHANGED <<truth, phase, storage, pollStorage, data, lastUpdateSuccess, failedKeys,
                  sampled, polling, draft, succeeded, failures, held, window, erred,
                  suppressed, erredNow, suppressedNow>>
  BY DEF DeviceAnswers, deviceVars, sampleVars, lastPollVars, thisPollVars
<1>3. ReplyInv'
  <2>1. c \in NextKeys' /\ polling'
    BY <1>2 DEF DeviceAnswers, NextKeys, Remaining, Attempted
  <2>2. truth[c] \in window'[c]
    BY <1>2 DEF IInv, WindowInv
  <2>3. QED
    BY <2>1, <2>2 DEF DeviceAnswers, ReplyInv
<1>4. PhaseInv' /\ PollInv'
  BY <1>2 DEF IInv, PhaseInv, PollInv, Remaining, Attempted
<1>5. /\ WindowInv' /\ CurrentIsRecent' /\ AvailabilityFollowsLastPoll'
      /\ StorageAgrees' /\ AgeOfEverySample'
  BY <1>2 DEF IInv, WindowInv, CurrentIsRecent, AvailabilityFollowsLastPoll, StorageAgrees,
              AgeOfEverySample, Attempted, data_is_current
<1>6. QED
  BY <1>1, <1>3, <1>4, <1>5 DEF IInv

\* What a poll knows after one more answer: PollInv of the new draft, against the
\* still unchanged published data.
LEMMA DraftAfterAnswer ==
  ASSUME IInv, Resume
  PROVE  /\ succeeded' \subseteq Attempted
         /\ failures' \subseteq Attempted
         /\ succeeded' \intersect failures' = {}
         /\ failures' = erredNow' \ suppressedNow'
         /\ suppressedNow' \subseteq succeeded'
         /\ \A j \in Keys \ succeeded' : draft'[j] = data[j]
         /\ \A j \in succeeded' :
               /\ draft'[j] \in Values
               /\ draft'[j] \in window[j] \/ (j \in suppressedNow' /\ draft'[j] = Blank)
         /\ \A j \in StorageKeys :
               /\ j \in succeeded' => Attempted \subseteq succeeded' \union failures'
               /\ j \in succeeded' => storage' = draft'[j]
               /\ j \notin succeeded' => storage' = storage
<1> DEFINE k == reply.key
<1>1. /\ polling /\ reply \in Replies /\ k \in Keys /\ k \in NextKeys
      /\ k \in Remaining /\ k \in Attempted /\ k \notin succeeded /\ k \notin failures
  BY DEF Resume, IInv, TypeOK, ReplyInv, NextKeys, Remaining
<1>2. PollInv /\ draft \in Samples /\ succeeded \subseteq Keys
  BY DEF IInv, TypeOK
<1>3. k \in StorageKeys => Attempted \subseteq succeeded \union failures \union {k}
  BY <1>1, StorageIsLast DEF Remaining
<1>4. \A j \in StorageKeys : j \notin succeeded
  BY <1>1, <1>2 DEF PollInv
<1>5. CASE Accepted(reply)
  <2>1. /\ draft' = [draft EXCEPT ![k] = reply.value]
        /\ succeeded' = succeeded \union {k}
        /\ failures' = failures
        /\ storage' = IF k \in StorageKeys THEN reply.value ELSE storage
    BY <1>5 DEF Resume
  <2>2. /\ reply.status = "ok" => erredNow' = erredNow /\ suppressedNow' = suppressedNow
        /\ reply.status # "ok" => /\ erredNow' = erredNow \union {k}
                                 /\ suppressedNow' = suppressedNow \union {k}
    BY <1>5 DEF Resume, Accepted, Suppressed
  <2>3. failures' = erredNow' \ suppressedNow' /\ suppressedNow' \subseteq succeeded'
    BY <1>1, <1>2, <2>1, <2>2 DEF PollInv
  <2>4. /\ draft'[k] = reply.value /\ reply.value \in Values
        /\ \A j \in Keys \ {k} : draft'[j] = draft[j]
    BY <1>1, <1>2, <2>1
  <2>5. draft'[k] \in window[k] \/ (k \in suppressedNow' /\ draft'[k] = Blank)
    BY <2>2, <2>4, <1>1 DEF Resume, IInv, ReplyInv
  <2>6. \A j \in succeeded' :
           /\ draft'[j] \in Values
           /\ draft'[j] \in window[j] \/ (j \in suppressedNow' /\ draft'[j] = Blank)
    BY <1>1, <1>2, <2>1, <2>2, <2>4, <2>5 DEF PollInv
  <2>7. \A j \in Keys \ succeeded' : draft'[j] = data[j]
    BY <1>1, <1>2, <2>1, <2>4 DEF PollInv
  <2>8. \A j \in StorageKeys :
           /\ j \in succeeded' => Attempted \subseteq succeeded' \union failures'
           /\ j \in succeeded' => storage' = draft'[j]
           /\ j \notin succeeded' => storage' = storage
    BY <1>3, <1>4, <2>1, <2>4, StorageAssumption
  <2>9. /\ succeeded' \subseteq Attempted /\ failures' \subseteq Attempted
        /\ succeeded' \intersect failures' = {}
    BY <1>1, <1>2, <2>1 DEF PollInv
  <2>10. QED
    BY <2>3, <2>6, <2>7, <2>8, <2>9
<1>6. CASE ~Accepted(reply)
  <2>1. /\ draft' = draft /\ succeeded' = succeeded /\ failures' = failures \union {k}
        /\ storage' = storage /\ erredNow' = erredNow \union {k}
        /\ suppressedNow' = suppressedNow
    BY <1>6 DEF Resume, Accepted
  <2>2. QED
    BY <1>1, <1>2, <1>4, <2>1 DEF PollInv
<1>7. QED
  BY <1>5, <1>6

\* An answer in the middle of a poll publishes nothing.
LEMMA KeepPollingStep ==
  ASSUME IInv, Resume, KeepPolling,
         ~(Attempted \subseteq succeeded' \union failures')
  PROVE  IInv'
<1>1. TypeOK'
  BY TypeStep DEF IInv, Next
<1>2. /\ UNCHANGED <<truth, phase, pollStorage, data, lastUpdateSuccess, failedKeys, sampled,
                     polling, held, window, erred, suppressed>>
      /\ reply' = NoReply /\ polling
  BY DEF Resume, KeepPolling, deviceVars, sampleVars, lastPollVars, IInv, ReplyInv
<1>3. PhaseInv' /\ ReplyInv'
  BY <1>2 DEF IInv, PhaseInv, ReplyInv, Attempted
<1>4. Attempted' = Attempted
  BY <1>2 DEF Attempted
<1>5. \A j \in StorageKeys : j \notin succeeded' /\ storage' = storage
  BY DraftAfterAnswer
<1>6. Remaining' # {}
  BY <1>4 DEF Remaining
<1>7. PollInv'
  BY <1>2, <1>4, <1>5, <1>6, DraftAfterAnswer DEF PollInv
<1>8. /\ WindowInv' /\ CurrentIsRecent' /\ AvailabilityFollowsLastPoll' /\ AgeOfEverySample'
  BY <1>2, <1>4 DEF IInv, WindowInv, CurrentIsRecent, AvailabilityFollowsLastPoll,
                    AgeOfEverySample, data_is_current
<1>9. StorageAgrees'
  BY <1>2, <1>5 DEF IInv, StorageAgrees
<1>10. QED
  BY <1>1, <1>3, <1>7, <1>8, <1>9 DEF IInv

\* The last answer publishes the draft, or nothing if no request succeeded.
LEMMA CompletePollStep ==
  ASSUME IInv, Resume, CompletePoll(draft', succeeded', failures'),
         Attempted \subseteq succeeded' \union failures'
  PROVE  IInv'
<1>1. TypeOK'
  BY TypeStep DEF IInv, Next
<1>2. /\ UNCHANGED <<truth, pollStorage, window>>
      /\ reply' = NoReply /\ ~polling'
  BY DEF Resume, CompletePoll, deviceVars
<1>3. polling /\ phase \in {"first", "adding", "loaded"} /\ sampled \subseteq Attempted
  BY DEF Resume, IInv, ReplyInv, PhaseInv
<1>4. Attempted' = Attempted /\ Attempted \subseteq Keys
  BY <1>2 DEF Attempted
<1>5. /\ succeeded' \subseteq Attempted /\ failures' \subseteq Attempted
      /\ succeeded' \intersect failures' = {}
      /\ failures' = erred' \ suppressed'
      /\ \A j \in Keys \ succeeded' : draft'[j] = data[j]
      /\ \A j \in succeeded' :
            /\ draft'[j] \in Values
            /\ draft'[j] \in held'[j] \/ (j \in suppressed' /\ draft'[j] = Blank)
  BY DraftAfterAnswer DEF CompletePoll
<1>6. PhaseInv' /\ PollInv' /\ ReplyInv'
  BY <1>2, <1>4, <1>3, <1>5 DEF CompletePoll, PhaseInv, PollInv, ReplyInv
<1>7. WindowInv'
  BY <1>2 DEF CompletePoll, IInv, WindowInv
<1>8. \A j \in Keys : data_is_current(j)' <=> j \in succeeded'
  BY <1>3, <1>5 DEF CompletePoll, data_is_current
<1>9. CurrentIsRecent'
  BY <1>5, <1>8 DEF CompletePoll, CurrentIsRecent
<1>10. AvailabilityFollowsLastPoll'
  BY <1>4, <1>5, <1>8 DEF AvailabilityFollowsLastPoll
<1>11. StorageAgrees'
  <2>1. \A j \in StorageKeys : data[j] # NoSample => storage = data[j]
    BY <1>3 DEF IInv, StorageAgrees
  <2>2. StorageKeys \subseteq Keys
    BY DEF StorageKeys
  <2>3. \A j \in StorageKeys :
           /\ j \in succeeded' => storage' = draft'[j]
           /\ j \notin succeeded' => storage' = storage
    BY DraftAfterAnswer
  <2>4. ASSUME NEW j \in StorageKeys
        PROVE  /\ j \in succeeded' => data'[j] = draft'[j]
               /\ j \notin succeeded' => data'[j] = data[j]
    BY <1>5, <2>2 DEF CompletePoll
  <2>5. ASSUME NEW j \in StorageKeys, data'[j] # NoSample
        PROVE  storage' = data'[j]
    <3>1. CASE j \in succeeded'
      BY <2>3, <2>4, <3>1
    <3>2. CASE j \notin succeeded'
      BY <2>1, <2>3, <2>4, <2>5, <3>2
    <3>3. QED
      BY <3>1, <3>2
  <2>6. QED
    BY <2>5 DEF StorageAgrees, StorageKeys
<1>12. AgeOfEverySample'
  BY <1>4, <1>5, BlankAssumption DEF CompletePoll, IInv, AgeOfEverySample
<1>13. QED
  BY <1>1, <1>6, <1>7, <1>9, <1>10, <1>11, <1>12 DEF IInv

LEMMA ResumeStep ==
  ASSUME IInv, Resume
  PROVE  IInv'
<1>1. \/ /\ Attempted \subseteq succeeded' \union failures'
         /\ CompletePoll(draft', succeeded', failures')
      \/ /\ ~(Attempted \subseteq succeeded' \union failures')
         /\ KeepPolling
  BY DEF Resume
<1>2. QED
  BY <1>1, CompletePollStep, KeepPollingStep

LEMMA InitIInv == Init => IInv
<1> SUFFICES ASSUME Init PROVE IInv
  OBVIOUS
<1>1. TypeOK
  BY BlankAssumption DEF Init, TypeOK
<1>2. PhaseInv /\ PollInv /\ ReplyInv /\ WindowInv
  BY DEF Init, PhaseInv, PollInv, ReplyInv, WindowInv
<1>3. /\ CurrentIsRecent /\ AvailabilityFollowsLastPoll
      /\ StorageAgrees /\ AgeOfEverySample
  BY DEF Init, CurrentIsRecent, AvailabilityFollowsLastPoll, StorageAgrees, AgeOfEverySample,
         data_is_current, StorageKeys
<1>4. QED
  BY <1>1, <1>2, <1>3 DEF IInv

LEMMA NextIInv == IInv /\ [Next]_vars => IInv'
<1> SUFFICES ASSUME IInv, [Next]_vars PROVE IInv'
  OBVIOUS
<1>1. ASSUME NEW k \in Keys, NEW v \in Values, DeviceChanges(k, v) PROVE IInv'
  BY <1>1, ChangeStep
<1>2. CASE Settle
  BY <1>2, SetupStep DEF Settle
<1>3. CASE Discover
  BY <1>3, DiscoverStep
<1>4. CASE StartPoll
  BY <1>4, StartStep
<1>5. ASSUME NEW k \in Keys, DeviceAnswers(k) PROVE IInv'
  BY <1>5, AnswerStep
<1>6. CASE Resume
  BY <1>6, ResumeStep
<1>7. CASE AbandonSetup
  BY <1>7, SetupStep DEF AbandonSetup, deviceVars
<1>8. CASE AddEntities
  BY <1>8, SetupStep DEF AddEntities, deviceVars
<1>9. CASE FinishSetup
  BY <1>9, SetupStep DEF FinishSetup, deviceVars
<1>10. CASE UNCHANGED vars
  BY <1>10, SetupStep DEF vars, deviceVars
<1>11. QED
  BY <1>1, <1>2, <1>3, <1>4, <1>5, <1>6, <1>7, <1>8, <1>9, <1>10 DEF Next

LEMMA Invariance == Spec => []IInv
BY InitIInv, NextIInv, PTL DEF Spec
--------------------------------------------------------------------------------
\* Every variable keeps its type in every poll of every coordinator.
THEOREM TypeCorrect == Spec => []TypeOK
BY Invariance, PTL DEF IInv

\* An available value was held by the device since the last completed poll began,
\* for any number of keys, polls, failures and changes of the device.
THEOREM CurrentValuesAreRecent == Spec => []CurrentIsRecent
BY Invariance, PTL DEF IInv

\* Availability is decided by the last completed poll alone: no sequence of
\* partial and total failures leaves a key wrongly available or unavailable.
THEOREM AvailabilityIsExact == Spec => []AvailabilityFollowsLastPoll
BY Invariance, PTL DEF IInv

\* device.storage and the published storage sample never differ between steps.
THEOREM StorageIsConsistent == Spec => []StorageAgrees
BY Invariance, PTL DEF IInv

\* A value has an age exactly if it exists.
THEOREM SamplesHaveAges == Spec => []AgeOfEverySample
BY Invariance, PTL DEF IInv
--------------------------------------------------------------------------------
\* Nothing was read out of an empty answer, and what failed is known to have failed.
FailuresAreKnown == suppressed = {} /\ suppressedNow = {} /\ erred \subseteq failedKeys

\* The getters of the secondary coordinator raise on an empty answer.
LEMMA SecondaryStep ==
  ASSUME \A k \in Keys : Kind[k] \notin EventsKinds,
         IInv, FailuresAreKnown, [Next]_vars
  PROVE  FailuresAreKnown'
<1>1. CASE Resume
  <2>1. reply.key \in Keys /\ ~Suppressed(reply)
    BY <1>1 DEF Resume, IInv, TypeOK, Suppressed
  <2>2. suppressedNow' = {}
    BY <1>1, <2>1 DEF Resume, FailuresAreKnown
  <2>3. failures' = erredNow' \ suppressedNow'
    BY <1>1, DraftAfterAnswer
  <2>4. CASE CompletePoll(draft', succeeded', failures')
    BY <2>2, <2>3, <2>4 DEF CompletePoll, FailuresAreKnown
  <2>5. CASE KeepPolling
    BY <2>2, <2>5 DEF KeepPolling, sampleVars, lastPollVars, FailuresAreKnown
  <2> QED
    BY <1>1, <2>4, <2>5 DEF Resume
<1>2. CASE Discover
  BY <1>2 DEF Discover, thisPollVars, FailuresAreKnown
<1>3. CASE StartPoll
  BY <1>3 DEF StartPoll, sampleVars, lastPollVars, FailuresAreKnown
<1>4. CASE UNCHANGED <<failedKeys, erred, suppressed, suppressedNow>>
  BY <1>4 DEF FailuresAreKnown
<1> QED
  BY <1>1, <1>2, <1>3, <1>4 DEF Next, vars, DeviceChanges, Settle, DeviceAnswers, AbandonSetup,
     AddEntities, FinishSetup, sampleVars, lastPollVars, thisPollVars

\* What README.md:25-26 says of partial responses holds for the secondary coordinator
\* at all times, during the setup as well: no value whose request failed is shown as
\* available (the getters for the holiday mode and the alarm server).
THEOREM SecondaryFailuresShow ==
  ASSUME \A k \in Keys : Kind[k] \notin EventsKinds
  PROVE  Spec => []FailedRequestIsUnavailable
<1>1. Init => FailuresAreKnown
  BY DEF Init, FailuresAreKnown
<1>2. IInv /\ FailuresAreKnown /\ [Next]_vars => FailuresAreKnown'
  BY SecondaryStep
<1>3. FailuresAreKnown => FailedRequestIsUnavailable
  BY DEF FailuresAreKnown, FailedRequestIsUnavailable, data_is_current
<1> QED
  BY <1>1, <1>2, <1>3, Invariance, PTL DEF Spec
--------------------------------------------------------------------------------
\* PollCycle implements SampleCache: the last answer of a poll publishes or
\* withdraws, every other step of a poll is invisible.

LEMMA InitImplements == Init => Cache!Init
BY DEF Init, Available, data_is_current, Cache!Init, Cache!Nothing

\* A step that touches no sample and does not create the entities is a stutter.
LEMMA InvisibleStep ==
  ASSUME UNCHANGED sampleVars,
         (phase \in {"adding", "loaded"}) = (phase' \in {"adding", "loaded"})
  PROVE  UNCHANGED Cache!vars
BY DEF sampleVars, Available, data_is_current, Cache!vars

LEMMA LastAnswerImplements ==
  ASSUME IInv, IInv', Resume, CompletePoll(draft', succeeded', failures'),
         Attempted \subseteq succeeded' \union failures'
  PROVE  Cache!Publish \/ Cache!Withdraw
<1>1. (phase' \in {"adding", "loaded"}) = (phase \in {"adding", "loaded"})
  BY DEF CompletePoll
<1>2. /\ succeeded' \subseteq Keys /\ succeeded' \intersect failures' = {}
      /\ \A j \in Keys \ succeeded' : draft'[j] = data[j]
      /\ \A j \in succeeded' : draft'[j] \in Values
  BY DraftAfterAnswer DEF Attempted
<1>3. sampled \subseteq Attempted
  BY DEF IInv, PhaseInv
<1>4. CASE succeeded' = {}
  <2>1. data' = data /\ Available' = {}
    BY <1>4 DEF CompletePoll, Available, data_is_current
  <2>2. QED
    BY <1>1, <2>1 DEF Cache!Withdraw
<1>5. CASE succeeded' # {}
  <2>1. data' = draft' /\ data' \in Samples
    BY <1>5 DEF CompletePoll, IInv, TypeOK
  <2>2. Available' = succeeded'
    BY <1>2, <1>3, <1>5 DEF CompletePoll, Available, data_is_current
  <2>3. QED
    BY <1>1, <1>2, <1>5, <2>1, <2>2 DEF Cache!Publish, Cache!Samples
<1>6. QED
  BY <1>4, <1>5

LEMMA StepImplements ==
  ASSUME IInv, IInv', [Next]_vars
  PROVE  [Cache!Next]_Cache!vars
<1> USE DEF Cache!Next
<1>1. ASSUME NEW k \in Keys, NEW v \in Values, DeviceChanges(k, v)
      PROVE  UNCHANGED Cache!vars
  BY <1>1, InvisibleStep DEF DeviceChanges
<1>2. CASE Settle
  BY <1>2, InvisibleStep DEF Settle
<1>3. CASE Discover
  <2>1. Available' = {} /\ data' = [k \in Keys |-> NoSample]
    BY <1>3 DEF Discover, Available, data_is_current
  <2>2. Cache!Forget
    BY <1>3, <2>1 DEF Discover, Cache!Forget, Cache!Nothing
  <2>3. QED
    BY <2>2
<1>4. CASE StartPoll
  BY <1>4, InvisibleStep DEF StartPoll
<1>5. ASSUME NEW k \in Keys, DeviceAnswers(k)
      PROVE  UNCHANGED Cache!vars
  BY <1>5, InvisibleStep DEF DeviceAnswers
<1>6. CASE Resume
  <2>1. CASE Attempted \subseteq succeeded' \union failures'
    BY <1>6, <2>1, LastAnswerImplements DEF Resume
  <2>2. CASE ~(Attempted \subseteq succeeded' \union failures')
    BY <1>6, <2>2, InvisibleStep DEF Resume, KeepPolling
  <2>3. QED
    BY <2>1, <2>2
<1>7. CASE AbandonSetup
  BY <1>7, InvisibleStep DEF AbandonSetup
<1>8. CASE AddEntities
  <2>1. Cache!Serve
    BY <1>8 DEF AddEntities, sampleVars, Available, data_is_current, Cache!Serve
  <2>2. QED
    BY <2>1
<1>9. CASE FinishSetup
  BY <1>9, InvisibleStep DEF FinishSetup
<1>10. CASE UNCHANGED vars
  BY <1>10, InvisibleStep DEF vars
<1>11. QED
  BY <1>1, <1>2, <1>3, <1>4, <1>5, <1>6, <1>7, <1>8, <1>9, <1>10 DEF Next

\* The refinement, for every set of keys and values: a coordinator with one step
\* per answer behaves as if every poll were one atomic publication.
THEOREM Implements == Spec => CacheSpec
BY InitImplements, StepImplements, Invariance, PTL DEF Spec, CacheSpec, Cache!Spec

\* A step that forgets no value.
ForgetsNothing ==
    phase \in {"adding", "loaded"} =>
        \A k \in Keys : data[k] # NoSample => data'[k] # NoSample

\* Through the refinement: as long as there are entities, no poll, whatever part of it
\* fails, takes a sample away (README.md:25-26, _complete_poll).
THEOREM SamplesAreKept == Spec => [][ForgetsNothing]_vars
<1>1. ASSUME IInv, IInv', [Next]_vars, phase \in {"adding", "loaded"},
             NEW k \in Keys, data[k] # NoSample
      PROVE  data'[k] # NoSample
  <2>1. [Cache!Next]_Cache!vars
    BY <1>1, StepImplements
  <2>2. ~Cache!Forget
    BY <1>1 DEF Cache!Forget
  <2>3. CASE Cache!Publish
    BY <1>1, <2>3, BlankAssumption DEF Cache!Publish
  <2>4. CASE data' = data
    BY <1>1, <2>4
  <2> QED
    BY <2>1, <2>2, <2>3, <2>4 DEF Cache!Next, Cache!Withdraw, Cache!Serve, Cache!vars
<1>2. IInv /\ IInv' /\ [Next]_vars => ForgetsNothing
  BY <1>1 DEF ForgetsNothing
<1> QED
  BY <1>2, Invariance, PTL DEF Spec
--------------------------------------------------------------------------------
\* The last answer of a poll, and the others.
LEMMA ResumeCases ==
  ASSUME Resume
  PROVE  \/ /\ Attempted \subseteq succeeded' \union failures'
            /\ CompletePoll(draft', succeeded', failures')
         \/ KeepPolling
BY DEF Resume

\* Nothing that the coordinator shows, and nothing that the running poll holds, was read
\* out of an empty answer.
NothingMadeUp == phase = "loaded" /\ suppressed = {} /\ suppressedNow = {}

LEMMA NothingMadeUpStep ==
  ASSUME IInv, [Next]_vars, phase = "loaded", suppressedNow = {}
  PROVE  /\ phase' = "loaded" /\ suppressedNow' = {}
         /\ suppressed' = suppressed \/ (suppressed' = {} /\ ~polling')
         /\ polling /\ ~polling' => suppressed' = {}
<1>1. CASE Resume
  <2>1. ~Suppressed(reply)
    BY DEF Suppressed, pending_initialization
  <2>2. suppressedNow' = {}
    BY <1>1, <2>1 DEF Resume
  <2>3. CASE CompletePoll(draft', succeeded', failures')
    BY <2>2, <2>3 DEF CompletePoll
  <2>4. CASE KeepPolling
    BY <2>2, <2>4 DEF KeepPolling, lastPollVars
  <2> QED
    BY <1>1, <2>3, <2>4, ResumeCases
<1>2. CASE StartPoll
  BY <1>2 DEF StartPoll, lastPollVars
<1>3. CASE UNCHANGED <<phase, polling, suppressed, suppressedNow>>
  BY <1>3
<1> QED
  BY <1>1, <1>2, <1>3 DEF Next, vars, DeviceChanges, Settle, Discover, DeviceAnswers, AbandonSetup,
     AddEntities, FinishSetup, pollVars, lastPollVars, thisPollVars

LEMMA FailuresShow == IInv /\ NothingMadeUp => FailedRequestIsUnavailable
BY DEF IInv, PhaseInv, TypeOK, NothingMadeUp, AvailabilityFollowsLastPoll,
       FailedRequestIsUnavailable, data_is_current

\* What README.md:25-26 says of partial responses holds for every coordinator from the end
\* of the first poll on that read nothing out of an empty answer and saw the entry loaded:
\* the values made up in the first refresh last no longer.
THEOREM MadeUpValuesEnd ==
  Spec => [](phase = "loaded" /\ polling /\ suppressedNow = {}
                => [](~polling => []FailedRequestIsUnavailable))
<1> DEFINE P == phase = "loaded" /\ polling /\ suppressedNow = {}
           Q == phase = "loaded" /\ suppressedNow = {} /\ (polling \/ NothingMadeUp)
<1>1. IInv /\ Q /\ [Next]_vars => Q'
  BY NothingMadeUpStep DEF NothingMadeUp
<1>2. IInv /\ NothingMadeUp /\ [Next]_vars => NothingMadeUp'
  BY NothingMadeUpStep DEF NothingMadeUp
<1>3. P => Q
  OBVIOUS
<1>4. Q /\ ~polling => NothingMadeUp
  OBVIOUS
<1>5. IInv /\ NothingMadeUp => FailedRequestIsUnavailable
  BY FailuresShow
<1> HIDE DEF P, Q
<1>6. Spec => [](P => [](~polling => []FailedRequestIsUnavailable))
  BY <1>1, <1>2, <1>3, <1>4, <1>5, Invariance, PTL DEF Spec
<1> QED
  BY <1>6 DEF P
--------------------------------------------------------------------------------
\* Without a storage listing at setup, storage is not polled and stays empty.
StorageInv == ~pollStorage => storage = Blank

LEMMA StorageInvariance == Spec => []StorageInv
<1>1. Init => StorageInv
  BY DEF Init, StorageInv
<1>2. IInv /\ StorageInv /\ [Next]_vars => StorageInv'
  <2> SUFFICES ASSUME IInv, StorageInv, [Next]_vars PROVE StorageInv'
    OBVIOUS
  <2>1. CASE Resume
    <3>1. reply.key \in StorageKeys => pollStorage
      BY <2>1 DEF Resume, IInv, ReplyInv, NextKeys, Remaining, Attempted, StorageKeys
    <3> QED
      BY <2>1, <3>1 DEF Resume, StorageInv
  <2>2. CASE Discover
    BY <2>2 DEF Discover, StorageInv
  <2>3. CASE UNCHANGED <<storage, pollStorage>>
    BY <2>3 DEF StorageInv
  <2> QED
    BY <2>1, <2>2, <2>3 DEF Next, vars, DeviceChanges, Settle, StartPoll, DeviceAnswers,
       AbandonSetup, AddEntities, FinishSetup
<1> QED
  BY <1>1, <1>2, Invariance, PTL DEF Spec

\* The running poll of a settled device has met no failure, and what it holds is the
\* device's state.
Untroubled ==
    /\ calm
    /\ phase = "loaded"
    /\ polling =>
          /\ failures = {}
          /\ \A k \in succeeded : draft[k] = truth[k]
          /\ reply # NoReply => reply.status = "ok" /\ reply.value = truth[reply.key]

\* What Recovery promises.
Recovered ==
    /\ phase = "loaded"
    /\ \A k \in Attempted : data_is_current(k) /\ data[k] = truth[k]
    /\ \A k \in StorageKeys : storage \in {Blank, truth[k]}

LEMMA UntroubledResume ==
  ASSUME IInv, StorageInv, Untroubled, Resume
  PROVE  /\ Untroubled'
         /\ ~polling' => Recovered'
         /\ Recovered => Recovered'
<1> DEFINE k == reply.key
<1>1. /\ polling /\ reply \in Replies /\ k \in Keys /\ k \in Attempted
      /\ reply.status = "ok" /\ reply.value = truth[k]
      /\ draft \in Samples /\ succeeded \subseteq Keys
  BY DEF Resume, IInv, TypeOK, ReplyInv, NextKeys, Remaining, Untroubled
<1>2. /\ draft' = [draft EXCEPT ![k] = truth[k]]
      /\ succeeded' = succeeded \union {k} /\ failures' = failures /\ failures = {}
      /\ storage' = (IF k \in StorageKeys THEN truth[k] ELSE storage)
      /\ reply' = NoReply
      /\ UNCHANGED <<truth, calm, pollStorage>>
  BY <1>1 DEF Resume, Accepted, deviceVars, Untroubled
<1>3. \A j \in succeeded' : draft'[j] = truth[j]
  BY <1>1, <1>2 DEF Untroubled
<1>4. /\ Attempted' = Attempted
      /\ \A j \in StorageKeys : storage \in {Blank, truth[j]} => storage' \in {Blank, truth[j]}
  BY <1>2, StorageAssumption DEF Attempted
<1>5. CASE KeepPolling
  <2>1. UNCHANGED <<phase, data, lastUpdateSuccess, failedKeys, sampled, polling>>
    BY <1>5 DEF KeepPolling, sampleVars
  <2>2. Untroubled'
    BY <1>2, <1>3, <2>1 DEF Untroubled
  <2>3. Recovered => Recovered'
    BY <1>2, <1>4, <2>1 DEF Recovered, data_is_current
  <2> QED
    BY <1>1, <2>1, <2>2, <2>3
<1>6. CASE /\ Attempted \subseteq succeeded' \union failures'
           /\ CompletePoll(draft', succeeded', failures')
  <2>1. /\ polling' = FALSE /\ phase' = "loaded"
        /\ failedKeys' = {} /\ lastUpdateSuccess' = TRUE
        /\ sampled' = sampled \union succeeded'
        /\ data' = draft'
    BY <1>2, <1>6 DEF CompletePoll, Untroubled
  <2>2. \A j \in Attempted : data_is_current(j)' /\ data'[j] = truth'[j]
    BY <1>2, <1>3, <1>6, <2>1 DEF data_is_current
  <2>3. ASSUME NEW j \in StorageKeys PROVE storage' \in {Blank, truth'[j]}
    <3>1. CASE j \in Attempted
      <4>1. j \in succeeded'
        BY <1>2, <1>6, <3>1
      <4>2. storage' = draft'[j]
        BY <4>1, DraftAfterAnswer
      <4> QED
        BY <1>2, <1>3, <4>1, <4>2
    <3>2. CASE j \notin Attempted
      <4>1. storage = Blank /\ k \notin StorageKeys
        BY <1>1, <3>2, StorageAssumption DEF StorageInv, Attempted, StorageKeys
      <4> QED
        BY <1>2, <4>1
    <3> QED
      BY <3>1, <3>2
  <2>4. Recovered'
    BY <1>4, <2>1, <2>2, <2>3 DEF Recovered
  <2> QED
    BY <1>2, <2>1, <2>4 DEF Untroubled
<1> QED
  BY <1>5, <1>6, ResumeCases

\* No step of a loaded entry with a settled device brings trouble, or undoes a recovery.
LEMMA UntroubledStep ==
  ASSUME IInv, StorageInv, Untroubled, [Next]_vars
  PROVE  /\ Untroubled'
         /\ Recovered => Recovered'
         /\ polling /\ ~polling' => Recovered'
<1>1. calm /\ phase = "loaded"
  BY DEF Untroubled
<1>2. CASE Resume
  BY <1>2, UntroubledResume
<1>3. CASE StartPoll
  <2>1. reply = NoReply
    BY <1>3 DEF StartPoll, IInv, ReplyInv
  <2>2. /\ UNCHANGED <<truth, calm, phase, storage, pollStorage, data, lastUpdateSuccess,
                       failedKeys, sampled, reply>>
        /\ polling' /\ succeeded' = {} /\ failures' = {}
    BY <1>3 DEF StartPoll, deviceVars, sampleVars
  <2> QED
    BY <2>1, <2>2 DEF Untroubled, Recovered, Attempted, data_is_current
<1>4. ASSUME NEW k \in Keys, DeviceAnswers(k)
      PROVE  /\ Untroubled' /\ polling'
             /\ Recovered => Recovered'
  <2>1. reply' = [key |-> k, status |-> "ok", value |-> truth[k]]
    BY <1>1, <1>4 DEF DeviceAnswers
  <2>2. /\ UNCHANGED <<truth, calm, phase, storage, pollStorage, data, lastUpdateSuccess,
                       failedKeys, sampled, polling, draft, succeeded, failures>>
        /\ polling
    BY <1>4 DEF DeviceAnswers, deviceVars, sampleVars
  <2> QED
    BY <2>1, <2>2 DEF Untroubled, Recovered, Attempted, data_is_current
<1>5. CASE UNCHANGED vars
  BY <1>5 DEF vars, deviceVars, sampleVars, pollVars, Untroubled, Recovered, Attempted,
              data_is_current
<1> QED
  BY <1>1, <1>2, <1>3, <1>4, <1>5 DEF Next, DeviceChanges, Settle, Discover, AbandonSetup,
     AddEntities, FinishSetup

\* Every poll that starts once the device settled is without trouble so far.
LEMMA StartsUntroubled ==
  ASSUME IInv, calm, phase = "loaded", StartPoll
  PROVE  Untroubled' /\ polling'
<1>1. reply = NoReply
  BY DEF StartPoll, IInv, ReplyInv
<1> QED
  BY <1>1 DEF StartPoll, deviceVars, Untroubled

\* The part of Recovery that needs no fairness: the first poll of a loaded entry that a
\* settled device answered without trouble leaves every polled value available and equal
\* to the device's state, for good (_async_update_data, _complete_poll).  By StartsUntroubled
\* every poll is of that kind that starts after the device settled.
THEOREM RecoveryTakesOnePoll ==
  Spec => [](Untroubled /\ polling => [](~polling => []Recovered))
<1> DEFINE Q == Untroubled /\ (polling \/ Recovered)
           R == Untroubled /\ Recovered
<1>1. IInv /\ StorageInv /\ Q /\ [Next]_vars => Q'
  BY UntroubledStep
<1>2. IInv /\ StorageInv /\ R /\ [Next]_vars => R'
  BY UntroubledStep
<1>3. Untroubled /\ polling => Q
  OBVIOUS
<1>4. Q /\ ~polling => R
  OBVIOUS
<1>5. R => Recovered
  OBVIOUS
<1> HIDE DEF Q, R
<1> QED
  BY <1>1, <1>2, <1>3, <1>4, <1>5, Invariance, StorageInvariance, PTL DEF Spec

--------------------------------------------------------------------------------
\* The running poll of a settled device has met no failure; unlike Untroubled, in any
\* phase, and whatever it read before.
Smooth ==
    /\ calm
    /\ polling => failures = {} /\ (reply # NoReply => reply.status = "ok")

In(p) == phase = p

\* Once polls are smooth, a setup goes from phase to phase, and its first refresh is good.
LEMMA SmoothStep ==
  ASSUME IInv, Smooth, [Next]_vars
  PROVE  /\ Smooth'
         /\ In("discovering") => In("discovering")' \/ In("first")'
         /\ In("first") => In("first")' \/ In("platforms")'
         /\ In("first") /\ polling /\ ~polling' => In("platforms")'
         /\ In("platforms") => In("platforms")' \/ In("adding")'
         /\ In("adding") => In("adding")' \/ In("loaded")'
         /\ In("loaded") => In("loaded")'
<1> USE DEF In
<1>1. CASE Resume
  <2>1. /\ polling /\ reply \in Replies /\ reply.key \in Attempted /\ reply.status = "ok"
        /\ failures = {}
    BY <1>1 DEF Resume, IInv, TypeOK, ReplyInv, NextKeys, Remaining, Smooth
  <2>2. /\ calm' = calm /\ reply' = NoReply /\ failures' = {}
        /\ succeeded' = succeeded \union {reply.key}
    BY <1>1, <2>1 DEF Resume, Accepted, deviceVars
  <2>3. succeeded' # {}
    BY <2>2
  <2>4. CASE KeepPolling
    BY <2>1, <2>2, <2>4 DEF KeepPolling, Smooth
  <2>5. CASE CompletePoll(draft', succeeded', failures')
    <3>1. phase' = (IF phase # "first" THEN phase ELSE "platforms") /\ ~polling'
      BY <2>3, <2>5 DEF CompletePoll
    <3> QED
      BY <2>2, <3>1 DEF Smooth
  <2> QED
    BY <1>1, <2>4, <2>5, ResumeCases
<1>2. CASE StartPoll
  <2>1. reply = NoReply
    BY <1>2 DEF StartPoll, IInv, ReplyInv
  <2> QED
    BY <1>2, <2>1 DEF StartPoll, Smooth, deviceVars
<1>3. ASSUME NEW k \in Keys, DeviceAnswers(k)
      PROVE  Smooth' /\ UNCHANGED <<phase, polling>>
  <2>1. reply' = [key |-> k, status |-> "ok", value |-> truth[k]]
    BY <1>3 DEF DeviceAnswers, Smooth
  <2> QED
    BY <1>3, <2>1 DEF DeviceAnswers, Smooth, deviceVars
<1>4. CASE Discover \/ AddEntities \/ FinishSetup
  <2>1. UNCHANGED <<calm, polling, failures, reply>>
    BY <1>4 DEF Discover, AddEntities, FinishSetup, deviceVars, pollVars
  <2>2. \/ phase = "discovering" /\ phase' = "first"
        \/ phase = "platforms" /\ phase' = "adding"
        \/ phase = "adding" /\ phase' = "loaded"
    BY <1>4 DEF Discover, AddEntities, FinishSetup
  <2>3. Smooth'
    BY <2>1 DEF Smooth
  <2> QED
    BY <2>1, <2>2, <2>3
<1>5. CASE UNCHANGED vars
  BY <1>5 DEF vars, deviceVars, pollVars, Smooth
<1> QED
  BY <1>1, <1>2, <1>3, <1>4, <1>5 DEF Next, DeviceChanges, Settle, AbandonSetup, Smooth

LEMMA CalmStays == calm /\ [Next]_vars => calm'
BY DEF Next, vars, deviceVars, DeviceChanges, Settle, Discover, StartPoll, DeviceAnswers, Resume,
       AbandonSetup, AddEntities, FinishSetup

\* What the steps that Home Assistant schedules lead to.
LEMMA ScheduledSteps ==
  ASSUME IInv, calm, [Next]_vars
  PROVE  /\ Discover => In("first")'
         /\ AddEntities => In("adding")'
         /\ FinishSetup => In("loaded")'
         /\ StartPoll => polling'
         /\ In("loaded") /\ ~polling /\ polling' => Untroubled'
<1>1. StartPoll /\ In("loaded") => Untroubled'
  BY StartsUntroubled DEF In
<1>2. ~polling /\ polling' => StartPoll
  <2>1. ~polling => reply = NoReply
    BY DEF IInv, ReplyInv
  <2> QED
    BY <2>1 DEF Next, vars, pollVars, DeviceChanges, Settle, Discover, DeviceAnswers, Resume,
                AbandonSetup, AddEntities, FinishSetup
<1> QED
  BY <1>1, <1>2 DEF In, Discover, AddEntities, FinishSetup, StartPoll

\* Recovery, if polls end.  The other hypotheses say what the weak fairness of the four
\* actions does: each is possible in the phase that is named, StartPoll if no poll runs.
\* (~[][~A]_vars is <><<A>>_vars.)
THEOREM RecoveryFromScheduling ==
  /\ Spec
  /\ []<>(~polling)
  /\ <>[](MayPoll /\ ~polling) => []~[][~StartPoll]_vars
  /\ <>[]In("discovering") => []~[][~Discover]_vars
  /\ <>[]In("platforms") => []~[][~AddEntities]_vars
  /\ <>[]In("adding") => []~[][~FinishSetup]_vars
  => Recovery
<1> DEFINE Discovering == In("discovering")
           First == In("first")
           Platforms == In("platforms")
           Adding == In("adding")
           Loaded == In("loaded")
           Polls == MayPoll
           Calm == calm
           Running == polling
<1>1. IInv /\ Smooth /\ [Next]_vars =>
        /\ Smooth'
        /\ Discovering => Discovering' \/ First'
        /\ First => First' \/ Platforms'
        /\ First /\ Running /\ ~Running' => Platforms'
        /\ Platforms => Platforms' \/ Adding'
        /\ Adding => Adding' \/ Loaded'
        /\ Loaded => Loaded'
  BY SmoothStep
<1>2. Calm /\ [Next]_vars => Calm'
  BY CalmStays
<1>3. /\ Calm /\ ~Running => Smooth
      /\ First => Polls
      /\ Loaded => Polls
  BY DEF Smooth, MayPoll, In
<1>4. /\ IInv => Discovering \/ First \/ Platforms \/ Adding \/ Loaded
      /\ Smooth => Calm
  BY DEF IInv, TypeOK, Phases, In, Smooth
<1>5. /\ IInv /\ Calm /\ [Next]_vars /\ ~[~Discover]_vars => First'
      /\ IInv /\ Calm /\ [Next]_vars /\ ~[~AddEntities]_vars => Adding'
      /\ IInv /\ Calm /\ [Next]_vars /\ ~[~FinishSetup]_vars => Loaded'
      /\ IInv /\ Calm /\ [Next]_vars /\ ~[~StartPoll]_vars =>
            Running'
      /\ IInv /\ Calm /\ [Next]_vars /\ Loaded /\ ~Running /\ Running' => Untroubled'
  BY ScheduledSteps
<1>6. Recovered => /\ phase = "loaded"
                   /\ \A k \in Attempted : data_is_current(k) /\ data[k] = truth[k]
                   /\ \A k \in StorageKeys : storage \in {Blank, truth[k]}
  BY DEF Recovered
<1>7. Untroubled => Loaded
  BY DEF Untroubled, In
<1>8. Spec => [](Untroubled /\ Running => [](~Running => []Recovered))
  BY RecoveryTakesOnePoll
<1>9. (<>[](MayPoll /\ ~polling) => []~[][~StartPoll]_vars)
        => (<>[](Polls /\ ~Running) => []~[][~StartPoll]_vars)
  BY PTL
<1>10. []<>(~polling) => []<>(~Running)
  BY PTL
<1>11. /\ (<>[]In("discovering") => []~[][~Discover]_vars)
           => (<>[]Discovering => []~[][~Discover]_vars)
       /\ (<>[]In("platforms") => []~[][~AddEntities]_vars)
           => (<>[]Platforms => []~[][~AddEntities]_vars)
       /\ (<>[]In("adding") => []~[][~FinishSetup]_vars)
           => (<>[]Adding => []~[][~FinishSetup]_vars)
  BY PTL
<1> HIDE DEF Discovering, First, Platforms, Adding, Loaded, Polls, Calm, Running
<1>12. Spec /\ []<>(~Running) => (Calm ~> Smooth)
  BY <1>2, <1>3, PTL DEF Spec
<1>13. /\ Spec
       /\ []<>(~Running)
       /\ <>[](Polls /\ ~Running) => []~[][~StartPoll]_vars
       /\ <>[]Discovering => []~[][~Discover]_vars
       /\ <>[]Platforms => []~[][~AddEntities]_vars
       /\ <>[]Adding => []~[][~FinishSetup]_vars
       => (Smooth ~> Smooth /\ Loaded)
  BY <1>1, <1>3, <1>4, <1>5, Invariance, PTL DEF Spec
<1>14. /\ Spec
       /\ []<>(~Running)
       /\ <>[](Polls /\ ~Running) => []~[][~StartPoll]_vars
       => (Smooth /\ Loaded ~> Untroubled /\ Running)
  BY <1>1, <1>3, <1>4, <1>5, Invariance, PTL DEF Spec
<1>15. /\ Spec
       /\ []<>(~Running)
       /\ <>[](Polls /\ ~Running) => []~[][~StartPoll]_vars
       /\ <>[]Discovering => []~[][~Discover]_vars
       /\ <>[]Platforms => []~[][~AddEntities]_vars
       /\ <>[]Adding => []~[][~FinishSetup]_vars
       => (Calm ~> []Recovered)
  BY <1>8, <1>12, <1>13, <1>14, PTL
<1> QED
  BY <1>6, <1>9, <1>10, <1>11, <1>15, PTL DEF Calm, Recovery
================================================================================
