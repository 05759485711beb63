--------------------------- MODULE AuthRecoveryProofs ---------------------------
(***************************************************************************)
(* Proofs about AuthRecovery, for every number of coordinators, requests   *)
(* and reboots.                                                            *)
(***************************************************************************)
EXTENDS AuthRecovery, TLAPS

\* A poll that awaits something has results outstanding, and only a request can be
\* answered with a 401.
PollInv ==
    \A p \in Pollers :
        /\ pc[p] # "idle" => left[p] # 0
        /\ pc[p] = "idle" => reply[p] = "none"
        /\ reply[p] = "unauthorized" => pc[p] = "requesting"

\* While the poll of a lone coordinator has seen no 401, nobody changes `expired`: the
\* request it awaits was sent under the same suspicion.
SuspicionInv ==
    IsAlone /\ pc[Events] = "requesting" /\ expired /\ ~saw401[Events] => sentExpired[Events]

IInv == TypeOK /\ PollInv
--------------------------------------------------------------------------------
USE EventsAssumption, RequestsAssumption, RebootsAssumption, NoneAssumption
USE DEF Auths, Answers

LEMMA InitIInv == Init => IInv
<1> SUFFICES ASSUME Init PROVE IInv
  OBVIOUS
<1>1. 0 \in Nat /\ 0 \in 0..Requests
  OBVIOUS
<1>2. TypeOK
  BY <1>1, Zenon DEF Init, TypeOK
<1>3. PollInv
  BY DEF Init, PollInv
<1>4. QED
  BY <1>2, <1>3 DEF IInv

\* The last result of a poll, or one before it, recorded by Finish.
LEMMA ResumeStep ==
  ASSUME IInv, NEW p \in Pollers, Resume(p)
  PROVE  IInv'
<1> USE DEF IInv, TypeOK
<1>1. left[p] \in 1..Requests /\ pc[p] # "idle"
  BY DEF Resume, PollInv
<1>2. /\ UNCHANGED <<up, boots, accepts, calm, challenge, rejected>>
      /\ reply' = [reply EXCEPT ![p] = "none"]
      /\ active' \subseteq Pollers
  BY DEF Resume, deviceVars
<1>3. /\ auth' \in Auths /\ expired' \in BOOLEAN /\ reauth' \in BOOLEAN
      /\ saw401' \in [Pollers -> BOOLEAN] /\ got' \in [Pollers -> BOOLEAN]
      /\ clean' \in [Pollers -> BOOLEAN]
      /\ left' = [left EXCEPT ![p] = @ - 1]
  BY DEF Resume, Finish, AuthAfter401
<1>4. CASE left[p] = 1
  <2>1. /\ pc' = [pc EXCEPT ![p] = "idle"]
        /\ used' = [used EXCEPT ![p] = None]
        /\ sentExpired' = [sentExpired EXCEPT ![p] = FALSE]
    BY <1>4 DEF Resume, Finish
  <2>2. TypeOK'
    <3>1. left' \in [Pollers -> 0..Requests]
      BY <1>1, <1>3
    <3>2. used' \in [Pollers -> Auths] /\ sentExpired' \in [Pollers -> BOOLEAN]
      BY <2>1
    <3>3. pc' \in [Pollers -> {"idle", "detecting", "requesting"}]
      BY <2>1
    <3>4. reply' \in [Pollers -> Answers]
      BY <1>2
    <3>5. QED
      BY <1>2, <1>3, <3>1, <3>2, <3>3, <3>4
  <2>3. PollInv'
    BY <1>1, <1>2, <1>3, <2>1 DEF PollInv
  <2>4. QED
    BY <2>2, <2>3
<1>5. CASE left[p] # 1
  <2>1. Send(p, auth', expired')
    BY <1>5 DEF Resume, Finish
  <2>2. /\ pc' \in [Pollers -> {"idle", "detecting", "requesting"}]
        /\ pc'[p] # "idle"
        /\ \A q \in Pollers \ {p} : pc'[q] = pc[q]
        /\ used' \in [Pollers -> Auths] /\ sentExpired' \in [Pollers -> BOOLEAN]
    BY <1>3, <2>1 DEF Send
  <2>3. TypeOK'
    <3>1. left' \in [Pollers -> 0..Requests]
      BY <1>1, <1>3
    <3>2. reply' \in [Pollers -> Answers]
      BY <1>2
    <3>3. QED
      BY <1>2, <1>3, <2>2, <3>1, <3>2
  <2>4. PollInv'
    BY <1>1, <1>2, <1>3, <1>5, <2>2 DEF PollInv
  <2>5. QED
    BY <2>3, <2>4
<1>6. QED
  BY <1>4, <1>5

LEMMA NextIInv == IInv /\ [Next]_vars => IInv'
<1> SUFFICES ASSUME IInv, [Next]_vars PROVE IInv'
  OBVIOUS
<1> USE DEF IInv, TypeOK, PollInv
<1>1. CASE Reboot
  <2>1. boots' \in Nat
    BY <1>1 DEF Reboot
  <2>2. QED
    BY <1>1, <2>1 DEF Reboot, clientVars, pollVars
<1>2. CASE BootDone
  BY <1>2 DEF BootDone, clientVars, pollVars
<1>3. CASE ChangePassword
  BY <1>3 DEF ChangePassword, clientVars, pollVars
<1>4. CASE Settle
  BY <1>4 DEF Settle, clientVars, pollVars
<1>5. ASSUME NEW p \in active, StartPoll(p) PROVE IInv'
  BY <1>5 DEF StartPoll, PollSize, Send, deviceVars, clientVars
<1>6. ASSUME NEW p \in active, DeviceAnswers(p) PROVE IInv'
  <2>1. PICK answer \in IF pc[p] = "detecting" THEN DetectionAnswers
                        ELSE RequestAnswers(used[p]) :
           /\ reply' = [reply EXCEPT ![p] = answer]
           /\ challenge' = [challenge EXCEPT ![p] = IF answer = "challenge" THEN boots ELSE @]
           /\ rejected' = (rejected \/ (answer = "unauthorized" /\ ~accepts))
    BY <1>6 DEF DeviceAnswers
  <2>2. /\ answer \in Answers
        /\ answer = "unauthorized" => pc[p] # "detecting"
    BY DEF DetectionAnswers, RequestAnswers
  <2>3. pc[p] \in {"detecting", "requesting"}
    BY <1>6 DEF DeviceAnswers
  <2>4. UNCHANGED <<active, up, boots, accepts, calm, auth, expired, reauth, pc, used, left, saw401,
                    got, clean, sentExpired>>
    BY <1>6 DEF DeviceAnswers, deviceVars, clientVars
  <2>5. QED
    BY <2>1, <2>2, <2>3, <2>4
<1>7. ASSUME NEW p \in active, Detected(p) PROVE IInv'
  BY <1>7 DEF Detected, deviceVars
<1>8. ASSUME NEW p \in active, Resume(p) PROVE IInv'
  BY <1>8, ResumeStep
<1>9. CASE UNCHANGED vars
  BY <1>9 DEF vars, deviceVars, clientVars, pollVars
<1>10. QED
  BY <1>1, <1>2, <1>3, <1>4, <1>5, <1>6, <1>7, <1>8, <1>9 DEF Next

\* Every variable keeps its type; in particular no poll waits for more or fewer
\* results than it has requests.
THEOREM TypeCorrect == Spec => []TypeOK
BY InitIInv, NextIInv, PTL DEF Spec, IInv
--------------------------------------------------------------------------------
\* With a single coordinator the suspicion can only change when its own poll ends
\* or sees its first 401.

LEMMA SuspicionInit == Init => SuspicionInv
BY DEF Init, SuspicionInv

LEMMA SuspicionStep ==
  ASSUME IInv, SuspicionInv, [Next]_vars
  PROVE  SuspicionInv'
<1> SUFFICES ASSUME IsAlone' PROVE SuspicionInv'
  BY DEF SuspicionInv
<1>0. IsAlone /\ active = {Events} /\ \A p \in active : p = Events
  <2>1. active' = active
    BY DEF Next, vars, Reboot, BootDone, ChangePassword, Settle, StartPoll, DeviceAnswers,
           Detected, Resume
  <2>2. QED
    BY <2>1 DEF IsAlone
<1> USE DEF IInv, TypeOK, SuspicionInv
<1>1. CASE Reboot \/ BootDone \/ ChangePassword \/ Settle
  BY <1>0, <1>1 DEF Reboot, BootDone, ChangePassword, Settle, clientVars, pollVars
<1>2. CASE StartPoll(Events)
  BY <1>0, <1>2 DEF StartPoll, Send, clientVars
<1>3. CASE DeviceAnswers(Events)
  BY <1>0, <1>3 DEF DeviceAnswers, clientVars
<1>4. CASE Detected(Events)
  BY <1>0, <1>4 DEF Detected
<1>5. CASE Resume(Events)
  <2>1. CASE left[Events] = 1
    <3>1. pc' = [pc EXCEPT ![Events] = "idle"]
      BY <1>5, <2>1 DEF Resume, Finish
    <3>2. QED
      BY <3>1
  <2>2. CASE left[Events] # 1
    <3>1. Send(Events, auth', expired')
      BY <1>5, <2>2 DEF Resume, Finish
    <3>2. pc'[Events] = "requesting" => sentExpired'[Events] = expired'
      BY <3>1 DEF Send
    <3>3. QED
      BY <3>2
  <2>3. QED
    BY <2>1, <2>2
<1>6. CASE UNCHANGED vars
  BY <1>0, <1>6 DEF vars, clientVars, pollVars
<1>7. QED
  BY <1>0, <1>1, <1>2, <1>3, <1>4, <1>5, <1>6 DEF Next

\* Only a poll that processes a 401 while the token is suspect starts a reauth.
LEMMA ReauthStep ==
  ASSUME IInv, SuspicionInv, [Next]_vars, IsAlone, reauth' # reauth
  PROVE  Resume(Events) /\ reply[Events] = "unauthorized" /\ sentExpired[Events]
<1>1. Resume(Events)
  <2>1. PICK p \in active : Resume(p)
    BY DEF Next, vars, Reboot, BootDone, ChangePassword, Settle, StartPoll, DeviceAnswers,
           Detected, clientVars
  <2>2. QED
    BY <2>1 DEF IsAlone
<1>2. Escalates(Events, reply[Events])
  <2>1. reauth' = (reauth \/ Escalates(Events, reply[Events]))
    BY <1>1 DEF Resume, Finish
  <2>2. reauth \in BOOLEAN
    BY DEF IInv, TypeOK
  <2>3. QED
    BY <2>1, <2>2
<1>3. reply[Events] = "unauthorized" /\ ~saw401[Events] /\ expired
  BY <1>2 DEF Escalates, Handles
<1>4. pc[Events] = "requesting"
  BY <1>3 DEF IInv, PollInv
<1>5. QED
  BY <1>1, <1>3, <1>4 DEF SuspicionInv

\* In an entry with one coordinator the user is asked only after a request that was
\* sent with the token already under suspicion was refused, whatever the device does.
THEOREM RetryPrecedesReauth == Spec => ReauthAfterRetry
<1>1. Init => IInv /\ SuspicionInv
  BY InitIInv, SuspicionInit
<1>2. IInv /\ SuspicionInv /\ [Next]_vars => IInv' /\ SuspicionInv'
  BY NextIInv, SuspicionStep
<1>3. IInv /\ SuspicionInv /\ [Next]_vars =>
        [IsAlone /\ reauth' # reauth =>
           /\ Resume(Events)
           /\ reply[Events] = "unauthorized"
           /\ sentExpired[Events]]_vars
  BY ReauthStep
<1>4. QED
  BY <1>1, <1>2, <1>3, PTL DEF Spec, ReauthAfterRetry
--------------------------------------------------------------------------------
\* A lone coordinator, one reboot at most, and credentials that were never refused: the
\* first token is dropped only after the reboot is over, so that from then on every
\* detection is challenged and every new token is good.
FreshInv ==
    IsAlone /\ ~rejected =>
        /\ ~reauth
        /\ boots \in 0..1
        /\ boots = 0 => up
        /\ auth \in {0, 1, None}
        /\ auth # 0 => boots = 1 /\ up
        /\ expired => auth # 0
        /\ pc[Events] = "detecting" =>
              /\ auth = None
              /\ reply[Events] # "nochallenge"
              /\ reply[Events] = "challenge" => challenge[Events] = 1
        /\ pc[Events] = "requesting" =>
              /\ auth # None
              /\ used[Events] = auth
              /\ reply[Events] \in {"none", "ok", "unauthorized", "failed"}
        /\ reply[Events] = "unauthorized" => used[Events] = 0 /\ boots = 1 /\ up

LEMMA FreshInit == Init => FreshInv
BY DEF Init, FreshInv

\* The result of a request of the lone coordinator.
LEMMA FreshResume ==
  ASSUME IInv, FreshInv, Resume(Events), IsAlone, ~rejected
  PROVE  FreshInv'
<1> USE DEF IInv, TypeOK, FreshInv
<1>1. UNCHANGED <<active, up, boots, rejected>> /\ reply' = [reply EXCEPT ![Events] = "none"]
  BY DEF Resume, deviceVars
<1>2. reply[Events] = "unauthorized" => auth = 0 /\ ~expired /\ boots = 1 /\ up
  <2>1. reply[Events] = "unauthorized" => pc[Events] = "requesting"
    BY DEF PollInv
  <2> QED
    BY <2>1
<1>3. ~Escalates(Events, reply[Events])
  BY <1>2 DEF Escalates, Handles
<1>4. ~reauth'
  BY <1>3 DEF Resume, Finish
<1>5. auth' \in {auth, None} /\ (auth' # auth => boots = 1 /\ up)
  BY <1>2 DEF Resume, Finish, AuthAfter401, Handles
<1>6. expired' => auth' # 0
  BY DEF Resume, Finish, AuthAfter401
<1>7. \/ pc'[Events] = "idle"
      \/ pc'[Events] = "detecting" /\ auth' = None
      \/ pc'[Events] = "requesting" /\ auth' # None /\ used'[Events] = auth'
  <2>1. CASE left[Events] = 1
    <3>1. pc' = [pc EXCEPT ![Events] = "idle"]
      BY <2>1 DEF Resume, Finish
    <3> QED
      BY <3>1
  <2>2. CASE left[Events] # 1
    <3>1. Send(Events, auth', expired')
      BY <2>2 DEF Resume, Finish
    <3> QED
      BY <3>1 DEF Send
  <2> QED
    BY <2>1, <2>2
<1>8. reply'[Events] = "none"
  BY <1>1
<1> QED
  BY <1>1, <1>4, <1>5, <1>6, <1>7, <1>8

LEMMA FreshStep ==
  ASSUME MaxReboots <= 1, IInv, FreshInv, [Next]_vars
  PROVE  FreshInv'
<1>0. active' = active /\ (rejected => rejected')
  <2>1. active' = active
    BY DEF Next, vars, Reboot, BootDone, ChangePassword, Settle, StartPoll, DeviceAnswers,
           Detected, Resume
  <2>2. ASSUME NEW p, DeviceAnswers(p), rejected PROVE rejected'
    BY <2>2 DEF DeviceAnswers, IInv, TypeOK
  <2>3. rejected' = rejected \/ \E p \in active : DeviceAnswers(p)
    BY DEF Next, vars, Reboot, BootDone, ChangePassword, Settle, StartPoll, Detected, Resume
  <2> QED
    BY <2>1, <2>2, <2>3
<1> SUFFICES ASSUME IsAlone, ~rejected, ~rejected' PROVE FreshInv'
  BY <1>0 DEF FreshInv, IsAlone
<1>a. active = {Events}
  BY DEF IsAlone
<1> USE DEF IInv, TypeOK, FreshInv
<1>1. CASE Reboot
  <2>1. boots = 0 /\ boots' = 1 /\ auth = 0 /\ up
    BY <1>1 DEF Reboot
  <2>2. UNCHANGED <<active, auth, expired, reauth, pc, used, reply, challenge, rejected>>
    BY <1>1 DEF Reboot, clientVars, pollVars
  <2>3. reply[Events] # "unauthorized"
    BY <2>1
  <2> QED
    BY <2>1, <2>2, <2>3
<1>2. CASE BootDone
  BY <1>2 DEF BootDone, clientVars, pollVars
<1>3. CASE ChangePassword \/ Settle
  BY <1>3 DEF ChangePassword, Settle, clientVars, pollVars
<1>4. CASE StartPoll(Events)
  <2>1. reply[Events] = "none"
    BY <1>4 DEF StartPoll, PollInv
  <2> QED
    BY <1>4, <2>1 DEF StartPoll, Send, deviceVars, clientVars
<1>5. CASE DeviceAnswers(Events)
  <2>1. PICK answer \in IF pc[Events] = "detecting" THEN DetectionAnswers
                        ELSE RequestAnswers(used[Events]) :
           /\ reply' = [reply EXCEPT ![Events] = answer]
           /\ challenge' = [challenge EXCEPT ![Events] = IF answer = "challenge" THEN boots ELSE @]
           /\ rejected' = (rejected \/ (answer = "unauthorized" /\ ~accepts))
    BY <1>5 DEF DeviceAnswers
  <2>2. UNCHANGED <<active, up, boots, auth, expired, reauth, pc, used>>
    BY <1>5 DEF DeviceAnswers, deviceVars, clientVars
  <2>3. reply'[Events] = answer /\ (answer = "challenge" => challenge'[Events] = boots)
    BY <2>1
  <2>4. pc[Events] = "detecting" => answer \in {"challenge", "failed"}
    BY DEF DetectionAnswers
  <2>5. pc[Events] = "requesting" =>
          /\ answer \in {"ok", "unauthorized", "failed"}
          /\ answer = "unauthorized" => used[Events] = 0 /\ boots = 1 /\ up
    BY <2>1 DEF RequestAnswers
  <2>6. pc[Events] \in {"detecting", "requesting"}
    BY <1>5 DEF DeviceAnswers
  <2> QED
    BY <2>2, <2>3, <2>4, <2>5, <2>6
<1>6. CASE Detected(Events)
  <2>1. reply[Events] = "challenge" /\ challenge[Events] = 1 /\ boots = 1 /\ up
    BY <1>6 DEF Detected
  <2> QED
    BY <1>6, <2>1 DEF Detected, deviceVars
<1>7. CASE Resume(Events)
  BY <1>7, FreshResume
<1>8. CASE UNCHANGED vars
  BY <1>8 DEF vars, deviceVars, clientVars, pollVars
<1> QED
  BY <1>a, <1>1, <1>2, <1>3, <1>4, <1>5, <1>6, <1>7, <1>8 DEF Next

\* In an entry with one coordinator, a single reboot never makes the integration ask for
\* credentials that the device has not refused, however many requests a poll has.
THEOREM OneRebootIsRecovered ==
  ASSUME MaxReboots <= 1
  PROVE  Spec => []AloneReauthOnlyIfRejected
<1>1. Init => IInv /\ FreshInv
  BY InitIInv, FreshInit
<1>2. IInv /\ FreshInv /\ [Next]_vars => IInv' /\ FreshInv'
  BY NextIInv, FreshStep
<1>3. FreshInv => AloneReauthOnlyIfRejected
  BY DEF FreshInv, AloneReauthOnlyIfRejected, ReauthOnlyIfRejected
<1> QED
  BY <1>1, <1>2, <1>3, PTL DEF Spec
--------------------------------------------------------------------------------
\* What a step leaves alone, and what the end of one request does.

LEMMA ActiveIsFixed == ASSUME [Next]_vars PROVE active' = active
BY DEF Next, vars, Reboot, BootDone, ChangePassword, Settle, StartPoll, DeviceAnswers,
       Detected, Resume

\* After a result the poll is over, or it goes on with the auth method there is by then.
LEMMA AfterResult ==
  ASSUME IInv, NEW p \in Pollers, Resume(p)
  PROVE  /\ reply' = [reply EXCEPT ![p] = "none"]
         /\ \A q \in Pollers \ {p} :
               /\ pc'[q] = pc[q] /\ used'[q] = used[q]
               /\ saw401'[q] = saw401[q] /\ got'[q] = got[q] /\ clean'[q] = clean[q]
         /\ \/ left[p] = 1 /\ pc'[p] = "idle"
            \/ left[p] # 1 /\ pc'[p] = "detecting" /\ auth' = None
            \/ left[p] # 1 /\ pc'[p] = "requesting" /\ auth' # None /\ used'[p] = auth'
<1> USE DEF IInv, TypeOK
<1>1. /\ reply' = [reply EXCEPT ![p] = "none"]
      /\ \A q \in Pollers \ {p} :
            saw401'[q] = saw401[q] /\ got'[q] = got[q] /\ clean'[q] = clean[q]
  BY DEF Resume, Finish
<1>2. CASE left[p] = 1
  <2>1. pc' = [pc EXCEPT ![p] = "idle"] /\ used' = [used EXCEPT ![p] = None]
    BY <1>2 DEF Resume, Finish
  <2> QED
    BY <1>1, <1>2, <2>1
<1>3. CASE left[p] # 1
  <2>1. Send(p, auth', expired')
    BY <1>3 DEF Resume, Finish
  <2> QED
    BY <1>1, <1>3, <2>1 DEF Send
<1> QED
  BY <1>2, <1>3

\* What an answer of the device changes.
LEMMA AfterAnswer ==
  ASSUME IInv, NEW p \in Pollers, DeviceAnswers(p)
  PROVE  /\ UNCHANGED <<active, up, boots, accepts, calm, auth, expired, reauth, pc, used, left,
                        saw401, got, clean, sentExpired>>
         /\ \A q \in Pollers \ {p} : reply'[q] = reply[q]
         /\ pc[p] = "detecting" => reply'[p] \in DetectionAnswers
         /\ pc[p] = "requesting" => reply'[p] \in RequestAnswers(used[p])
         /\ pc[p] \in {"detecting", "requesting"}
         /\ rejected' = (rejected \/ (reply'[p] = "unauthorized" /\ ~accepts))
<1>1. PICK answer \in IF pc[p] = "detecting" THEN DetectionAnswers
                      ELSE RequestAnswers(used[p]) :
         /\ reply' = [reply EXCEPT ![p] = answer]
         /\ rejected' = (rejected \/ (answer = "unauthorized" /\ ~accepts))
  BY DEF DeviceAnswers
<1>2. UNCHANGED <<active, up, boots, accepts, calm, auth, expired, reauth, pc, used, left,
                  saw401, got, clean, sentExpired>>
  BY DEF DeviceAnswers, deviceVars, clientVars
<1>3. pc[p] \in {"detecting", "requesting"}
  BY DEF DeviceAnswers, IInv, TypeOK
<1>4. reply'[p] = answer /\ \A q \in Pollers \ {p} : reply'[q] = reply[q]
  BY <1>1 DEF IInv, TypeOK
<1> QED
  BY <1>1, <1>2, <1>3, <1>4
--------------------------------------------------------------------------------
\* Before the first reboot and the first refusal the token of the setup is good: every
\* request carries it, and no answer is a 401.
PristineInv ==
    boots = 0 /\ ~rejected =>
        /\ auth = 0 /\ ~reauth
        /\ \A p \in Pollers :
              /\ pc[p] # "detecting"
              /\ pc[p] = "requesting" => used[p] = 0
              /\ reply[p] \in {"none", "ok", "failed"}

LEMMA PristineInit == Init => PristineInv
BY DEF Init, PristineInv

LEMMA PristineStep ==
  ASSUME IInv, PristineInv, [Next]_vars
  PROVE  PristineInv'
<1> SUFFICES ASSUME boots' = 0, ~rejected' PROVE PristineInv'
  BY DEF PristineInv
<1> USE DEF IInv, TypeOK, PristineInv
<1>a. active \subseteq Pollers
  OBVIOUS
<1>1. CASE Reboot
  BY <1>1 DEF Reboot
<1>2. CASE BootDone \/ ChangePassword \/ Settle
  BY <1>2 DEF BootDone, ChangePassword, Settle, clientVars, pollVars
<1>3. ASSUME NEW p \in Pollers, StartPoll(p) PROVE PristineInv'
  BY <1>3 DEF StartPoll, Send, deviceVars, clientVars
<1>4. ASSUME NEW p \in Pollers, DeviceAnswers(p) PROVE PristineInv'
  <2>1. boots = 0 /\ ~rejected
    BY <1>4, AfterAnswer
  <2>2. pc[p] = "requesting" /\ used[p] = 0
    BY <1>4, <2>1, AfterAnswer
  <2>3. reply'[p] \in RequestAnswers(0) /\ (reply'[p] = "unauthorized" => accepts)
    BY <1>4, <2>2, AfterAnswer
  <2>4. reply'[p] \in {"ok", "failed"}
    BY <2>1, <2>3 DEF RequestAnswers
  <2> QED
    BY <1>4, <2>1, <2>4, AfterAnswer
<1>5. ASSUME NEW p \in Pollers, Detected(p) PROVE PristineInv'
  BY <1>5 DEF Detected, deviceVars
<1>6. ASSUME NEW p \in Pollers, Resume(p) PROVE PristineInv'
  <2>1. boots = 0 /\ ~rejected
    BY <1>6 DEF Resume, deviceVars
  <2>2. ~Handles(p, reply[p])
    BY <2>1 DEF Handles
  <2>3. auth' = 0 /\ ~reauth'
    BY <1>6, <2>1, <2>2 DEF Resume, Finish, Escalates
  <2>4. \A q \in Pollers : /\ pc'[q] # "detecting"
                           /\ pc'[q] = "requesting" => used'[q] = 0
    BY <1>6, <2>1, <2>3, AfterResult
  <2>5. \A q \in Pollers : reply'[q] \in {"none", "ok", "failed"}
    BY <1>6, <2>1, AfterResult
  <2> QED
    BY <2>3, <2>4, <2>5
<1>7. CASE UNCHANGED vars
  BY <1>7 DEF vars, deviceVars, clientVars, pollVars
<1> QED
  BY <1>a, <1>1, <1>2, <1>3, <1>4, <1>5, <1>6, <1>7 DEF Next

\* With any number of coordinators, asking for credentials that the device has not
\* refused takes a reboot: without one, neither failed requests nor the interleaving of
\* polls make the integration suspect a good token twice.
THEOREM FalseReauthTakesReboot == Spec => [](reauth => rejected \/ boots # 0)
<1>1. Init => IInv /\ PristineInv
  BY InitIInv, PristineInit
<1>2. IInv /\ PristineInv /\ [Next]_vars => IInv' /\ PristineInv'
  BY NextIInv, PristineStep
<1>3. PristineInv => (reauth => rejected \/ boots # 0)
  BY DEF PristineInv
<1> QED
  BY <1>1, <1>2, <1>3, PTL DEF Spec
--------------------------------------------------------------------------------
\* The device is calm and accepts the credentials, the token is of its current boot,
\* nobody suspects it, and every request under way carries it.
Trusted ==
    /\ calm /\ accepts
    /\ auth = boots
    /\ ~expired
    /\ \A p \in active :
          /\ ~saw401[p]
          /\ pc[p] # "detecting"
          /\ pc[p] = "requesting" => used[p] = boots
          /\ reply[p] \in {"none", "ok"}

Recovered == ~expired /\ \A p \in active : clean[p]

LEMMA TrustedStays ==
  ASSUME IInv, Trusted, [Next]_vars
  PROVE  Trusted' /\ (Recovered => Recovered')
<1> USE DEF IInv, TypeOK, Trusted, Recovered
<1>a. active' = active /\ active \subseteq Pollers
  BY ActiveIsFixed
<1>1. CASE Reboot \/ ChangePassword \/ Settle
  BY <1>1 DEF Reboot, ChangePassword, Settle
<1>2. CASE BootDone
  BY <1>2 DEF BootDone, clientVars, pollVars
<1>3. ASSUME NEW p \in active, StartPoll(p) PROVE Trusted' /\ (Recovered => Recovered')
  BY <1>a, <1>3 DEF StartPoll, Send, deviceVars, clientVars
<1>4. ASSUME NEW p \in active, DeviceAnswers(p) PROVE Trusted' /\ (Recovered => Recovered')
  <2>1. pc[p] = "requesting" /\ reply'[p] \in RequestAnswers(boots)
    BY <1>a, <1>4, AfterAnswer
  <2>2. reply'[p] = "ok"
    BY <2>1 DEF RequestAnswers
  <2> QED
    BY <1>a, <1>4, <2>2, AfterAnswer
<1>5. ASSUME NEW p \in active, Detected(p) PROVE FALSE
  BY <1>5 DEF Detected
<1>6. ASSUME NEW p \in active, Resume(p) PROVE Trusted' /\ (Recovered => Recovered')
  <2>1. reply[p] = "ok" /\ ~Handles(p, reply[p])
    BY <1>6 DEF Resume, Handles
  <2>2. auth' = auth /\ ~expired' /\ UNCHANGED <<up, boots, accepts, calm>>
    BY <1>6, <2>1 DEF Resume, Finish, deviceVars
  <2>3. ~saw401'[p] /\ clean'[p] \in {TRUE, clean[p]}
    BY <1>a, <1>6, <2>1 DEF Resume, Finish
  <2>4. \A q \in active : /\ pc'[q] # "detecting"
                          /\ pc'[q] = "requesting" => used'[q] = boots
                          /\ reply'[q] \in {"none", "ok"}
    BY <1>a, <1>6, <2>2, AfterResult
  <2>5. \A q \in active \ {p} : saw401'[q] = saw401[q] /\ clean'[q] = clean[q]
    BY <1>a, <1>6, AfterResult
  <2> QED
    BY <1>a, <2>2, <2>3, <2>4, <2>5
<1>7. CASE UNCHANGED vars
  BY <1>7 DEF vars, deviceVars, clientVars, pollVars
<1> QED
  BY <1>1, <1>2, <1>3, <1>4, <1>5, <1>6, <1>7 DEF Next

\* Recovery lasts: once every request carries a fresh token and the last polls were
\* clean, no interleaving of the coordinators brings a 401 or a suspicion back.
THEOREM RecoveryLasts == Spec => [](Trusted /\ Recovered => []Recovered)
<1>1. IInv /\ Trusted /\ Recovered /\ [Next]_vars => Trusted' /\ Recovered'
  BY TrustedStays
<1> QED
  BY InitIInv, NextIInv, <1>1, PTL DEF Spec
--------------------------------------------------------------------------------
\* The device refuses the credentials for good, and no poll holds or awaits a good
\* answer of an earlier time.
Refused ==
    /\ calm /\ ~accepts
    /\ \A p \in active : reply[p] # "ok" /\ ~got[p]

\* A poll handles its first 401.
Handled401 == \E p \in active : Resume(p) /\ Handles(p, reply[p])

LEMMA RefusedStays ==
  ASSUME IInv, Refused, [Next]_vars
  PROVE  /\ Refused'
         /\ reauth => reauth'
         /\ expired => expired' \/ reauth'
         /\ Handled401 => (expired' /\ ~expired) \/ reauth'
<1> USE DEF IInv, TypeOK, Refused
<1>a. active' = active /\ active \subseteq Pollers
  BY ActiveIsFixed
<1>1. ASSUME NEW p \in active, Resume(p)
      PROVE  /\ Refused'
             /\ reauth => reauth'
             /\ expired => expired' \/ reauth'
             /\ Handles(p, reply[p]) => (expired' /\ ~expired) \/ reauth'
  <2>1. ~(got[p] \/ reply[p] = "ok")
    OBVIOUS
  <2>2. /\ reauth' = (reauth \/ (Handles(p, reply[p]) /\ expired))
        /\ expired' = \/ Handles(p, reply[p]) /\ ~expired
                      \/ expired /\ ~(Handles(p, reply[p]) /\ expired)
    BY <1>1, <2>1 DEF Resume, Finish, Escalates, GoodPoll
  <2>3. UNCHANGED <<accepts, calm>> /\ ~got'[p]
    BY <1>a, <1>1, <2>1 DEF Resume, Finish, deviceVars
  <2>4. \A q \in active : reply'[q] # "ok" /\ (q # p => got'[q] = got[q])
    BY <1>a, <1>1, AfterResult
  <2>5. Refused'
    BY <1>a, <2>3, <2>4
  <2> QED
    BY <2>2, <2>5
<1>2. CASE Handled401
  BY <1>1, <1>2 DEF Handled401
<1>3. CASE ~Handled401
  <2>1. CASE \E p \in active : Resume(p)
    BY <1>1, <1>3, <2>1
  <2>2. CASE Reboot \/ BootDone \/ ChangePassword \/ Settle
    BY <1>3, <2>2 DEF Reboot, BootDone, ChangePassword, Settle, clientVars, pollVars
  <2>3. ASSUME NEW p \in active, StartPoll(p)
        PROVE  Refused' /\ UNCHANGED <<expired, reauth>>
    BY <2>3 DEF StartPoll, deviceVars, clientVars
  <2>4. ASSUME NEW p \in active, DeviceAnswers(p)
        PROVE  Refused' /\ UNCHANGED <<expired, reauth>>
    <3>1. reply'[p] # "ok"
      BY <1>a, <2>4, AfterAnswer DEF DetectionAnswers, RequestAnswers
    <3> QED
      BY <1>a, <2>4, <3>1, AfterAnswer
  <2>5. ASSUME NEW p \in active, Detected(p)
        PROVE  Refused' /\ UNCHANGED <<expired, reauth>>
    BY <1>a, <2>5 DEF Detected, deviceVars
  <2>6. CASE UNCHANGED vars
    BY <1>3, <2>6 DEF vars, deviceVars, clientVars, pollVars
  <2> QED
    BY <1>3, <2>1, <2>2, <2>3, <2>4, <2>5, <2>6 DEF Next
<1> QED
  BY <1>2, <1>3

\* While the device refuses the credentials, a suspicion is dropped by asking the user
\* and in no other way, whichever polls end meanwhile.
THEOREM SuspicionEndsInReauth == Spec => [](Refused /\ expired => [](expired \/ reauth))
<1>1. /\ IInv /\ Refused /\ (expired \/ reauth) /\ [Next]_vars
      => Refused' /\ (expired' \/ reauth')
  BY RefusedStays
<1> QED
  BY InitIInv, NextIInv, <1>1, PTL DEF Spec

\* Wrong credentials reach the user if the polls started with good ones end and polls go
\* on handling 401s: the second one that is handled asks, whoever handles them.
\* (~[][~A]_vars is <><<A>>_vars.)
THEOREM RefusalFromScheduling ==
  /\ Spec
  /\ calm /\ ~accepts ~> Refused
  /\ <>[]Refused => []~[][~Handled401]_vars
  => RefusalReachesUser
<1>1. IInv /\ Refused /\ [Next]_vars => Refused' /\ (expired => expired' \/ reauth')
  BY RefusedStays
<1>2. IInv /\ Refused /\ reauth /\ [Next]_vars => reauth'
  BY RefusedStays
<1>3. IInv /\ Refused /\ [Next]_vars /\ ~[~Handled401]_vars => expired' \/ reauth'
  BY RefusedStays
<1>4. IInv /\ Refused /\ expired /\ [Next]_vars /\ ~[~Handled401]_vars => reauth'
  BY RefusedStays
<1> QED
  BY InitIInv, NextIInv, <1>1, <1>2, <1>3, <1>4, PTL DEF Spec, RefusalReachesUser
================================================================================
