------------------------------ MODULE AuthRecovery ------------------------------
(***************************************************************************)
(* How a loaded entry reacts to 401 answers: ISAPIClient.request and       *)
(* _detect_auth_method, HikvisionDevice.handle_exception, and the part of  *)
(* HikvisionCoordinator that calls it.                                     *)
(*                                                                         *)
(* All coordinators of an entry share one client, hence one _auth_method   *)
(* and one auth_token_expired.  A poll sends its requests one at a time;   *)
(* polls of different coordinators interleave at every await.  The first   *)
(* 401 is taken for a token that a reboot made stale: it is dropped, and   *)
(* the next request negotiates a new one.  A 401 of a later poll, with no  *)
(* good poll in between, asks the user for new credentials.                *)
(***************************************************************************)
EXTENDS Naturals

CONSTANTS
    Pollers,     \* the coordinators an entry may have
    Events,      \* the events coordinator, which every entry has
    Requests,    \* how many requests a poll sends
    MaxReboots,  \* bound: how often the device reboots
    None         \* no _auth_method

ASSUME EventsAssumption == Events \in Pollers
ASSUME RequestsAssumption == Requests \in Nat \ {0}
ASSUME RebootsAssumption == MaxReboots \in Nat
ASSUME NoneAssumption == None \notin Nat

VARIABLES
    active,      \* the coordinators the entry has: device.coordinators
    up,          \* device: it serves requests
    boots,       \* device: reboots so far; a token belongs to the boot that issued it
    accepts,     \* device: the credentials are valid
    calm,        \* device: no fault, reboot or password change from now on
    auth,        \* client._auth_method: the boot it was negotiated in, or None
    expired,     \* device.auth_token_expired
    reauth,      \* a reauthentication flow was started
    pc,          \* per poll: "idle", or what it awaits
    used,        \* per poll: the auth method its request was sent with
    reply,       \* per poll: the answer it has not processed yet
    challenge,   \* per poll: the boot that answered its detection request
    left,        \* per poll: requests whose result is still missing
    saw401,      \* per poll: its failures hold an ISAPIUnauthorizedError
    got,         \* per poll: its succeeded is not empty
    clean,       \* history: the coordinator's last poll succeeded without a 401
    sentExpired, \* history: its request was sent when the token was known to be stale
    rejected     \* history: the device refused the credentials themselves

deviceVars == <<up, boots, accepts, calm>>
clientVars == <<auth, expired, reauth>>
pollVars == <<pc, used, reply, challenge, left, saw401, got, clean, sentExpired>>
vars == <<active, deviceVars, clientVars, pollVars, rejected>>

Auths == Nat \union {None}
Answers == {"none", "challenge", "nochallenge", "ok", "unauthorized", "failed"}

TypeOK ==
    /\ active \subseteq Pollers
    /\ up \in BOOLEAN
    /\ boots \in Nat
    /\ accepts \in BOOLEAN
    /\ calm \in BOOLEAN
    /\ auth \in Auths
    /\ expired \in BOOLEAN
    /\ reauth \in BOOLEAN
    /\ pc \in [Pollers -> {"idle", "detecting", "requesting"}]
    /\ used \in [Pollers -> Auths]
    /\ reply \in [Pollers -> Answers]
    /\ challenge \in [Pollers -> Nat]
    /\ left \in [Pollers -> 0..Requests]
    /\ saw401 \in [Pollers -> BOOLEAN]
    /\ got \in [Pollers -> BOOLEAN]
    /\ clean \in [Pollers -> BOOLEAN]
    /\ sentExpired \in [Pollers -> BOOLEAN]
    /\ rejected \in BOOLEAN

\* The entry is set up: get_hardware_info negotiated a token, no poll runs.  There
\* is a secondary coordinator only if the device has something for it to poll.
Init ==
    /\ active \in {coordinators \in SUBSET Pollers : Events \in coordinators}
    /\ up = TRUE
    /\ boots = 0
    /\ accepts = TRUE
    /\ calm = FALSE
    /\ auth = 0
    /\ expired = FALSE
    /\ reauth = FALSE
    /\ pc = [p \in Pollers |-> "idle"]
    /\ used = [p \in Pollers |-> None]
    /\ reply = [p \in Pollers |-> "none"]
    /\ challenge = [p \in Pollers |-> 0]
    /\ left = [p \in Pollers |-> 0]
    /\ saw401 = [p \in Pollers |-> FALSE]
    /\ got = [p \in Pollers |-> FALSE]
    /\ clean = [p \in Pollers |-> TRUE]
    /\ sentExpired = [p \in Pollers |-> FALSE]
    /\ rejected = FALSE
--------------------------------------------------------------------------------
\* The device and its administrator.

Reboot ==
    /\ up /\ ~calm
    /\ boots < MaxReboots
    /\ up' = FALSE
    /\ boots' = boots + 1
    /\ UNCHANGED <<active, accepts, calm, clientVars, pollVars, rejected>>

BootDone ==
    /\ ~up
    /\ up' = TRUE
    /\ UNCHANGED <<active, boots, accepts, calm, clientVars, pollVars, rejected>>

ChangePassword ==
    /\ accepts /\ ~calm
    /\ accepts' = FALSE
    /\ UNCHANGED <<active, up, boots, calm, clientVars, pollVars, rejected>>

Settle ==
    /\ up /\ ~calm
    /\ calm' = TRUE
    /\ UNCHANGED <<active, up, boots, accepts, clientVars, pollVars, rejected>>

\* The answers to the unauthenticated detection request.  A booting device
\* answers without a challenge, if at all.
DetectionAnswers ==
    {answer \in {"challenge", "nochallenge", "failed"} :
        /\ answer = "challenge" => up
        /\ answer = "nochallenge" => ~up
        /\ answer = "failed" => ~calm}

\* The answers to a request that carries the auth method a.  A token of an
\* earlier boot may still be accepted.
RequestAnswers(a) ==
    {answer \in {"ok", "unauthorized", "failed"} :
        /\ answer = "ok" => up /\ accepts /\ a # None
        /\ answer = "unauthorized" => up /\ (accepts => a # boots)
        /\ answer = "failed" => ~calm}

DeviceAnswers(p) ==
    /\ pc[p] # "idle"
    /\ reply[p] = "none"
    /\ \E answer \in IF pc[p] = "detecting" THEN DetectionAnswers
                     ELSE RequestAnswers(used[p]) :
          /\ reply' = [reply EXCEPT ![p] = answer]
          /\ challenge' = [challenge EXCEPT ![p] = IF answer = "challenge" THEN boots ELSE @]
          /\ rejected' = (rejected \/ (answer = "unauthorized" /\ ~accepts))
    /\ UNCHANGED <<active, deviceVars, clientVars, pc, used, left, saw401, got, clean, sentExpired>>
--------------------------------------------------------------------------------
\* The client and the coordinators.

\* request: with the auth method a, or after detecting one; x: the token is suspect.
Send(p, a, x) ==
    IF a = None
    THEN /\ pc' = [pc EXCEPT ![p] = "detecting"]
         /\ UNCHANGED <<used, sentExpired>>
    ELSE /\ pc' = [pc EXCEPT ![p] = "requesting"]
         /\ used' = [used EXCEPT ![p] = a]
         /\ sentExpired' = [sentExpired EXCEPT ![p] = x]

\* Faulty: a poll expects one result more than it asks for.
PollSize_OffByOne == Requests + 1

PollSize == Requests

\* A timer or a requested refresh starts a poll.
StartPoll(p) ==
    /\ pc[p] = "idle"
    /\ left' = [left EXCEPT ![p] = PollSize]
    /\ Send(p, auth, expired)
    /\ UNCHANGED <<active, deviceVars, clientVars, reply, challenge, saw401, got, clean, rejected>>

\* _record_failure calls handle_exception for the first 401 of a poll only.
Handles(p, answer) == answer = "unauthorized" /\ ~saw401[p]

\* Faulty: a 401 asks the user at once.
Escalates_AtOnce(p, answer) == Handles(p, answer)

\* handle_exception: the token is already suspect, so a retry was refused.
Escalates(p, answer) == Handles(p, answer) /\ expired

\* Faulty: the end of any poll clears the suspicion.
GoodPoll_Any(g, s) == TRUE

\* _complete_poll: the poll had a good answer and no 401.
GoodPoll(g, s) == g /\ ~s

\* Faulty: the stale token is kept.
AuthAfter401_Kept == auth

AuthAfter401 == None

\* The poll records the result of one request (_record_failure and
\* handle_exception for a 401) and sends the next, or completes; what is local to
\* it is gone then.
Finish(p, answer) ==
    LET suspect  == Handles(p, answer) /\ ~expired
        escalate == Escalates(p, answer)
        s == saw401[p] \/ answer = "unauthorized"
        g == got[p] \/ answer = "ok"
        last == left[p] = 1
    IN  /\ auth' = IF suspect THEN AuthAfter401 ELSE auth
        /\ reauth' = (reauth \/ escalate)
        /\ expired' = (suspect \/ (expired /\ ~escalate /\ ~(last /\ GoodPoll(g, s))))
        /\ saw401' = [saw401 EXCEPT ![p] = s /\ ~last]
        /\ got' = [got EXCEPT ![p] = g /\ ~last]
        /\ left' = [left EXCEPT ![p] = @ - 1]
        /\ clean' = [clean EXCEPT ![p] = IF last THEN g /\ ~s ELSE @]
        /\ IF last
           THEN /\ pc' = [pc EXCEPT ![p] = "idle"]
                /\ used' = [used EXCEPT ![p] = None]
                /\ sentExpired' = [sentExpired EXCEPT ![p] = FALSE]
           ELSE Send(p, auth', expired')

\* _detect_auth_method continues: a challenge selects a new auth method, and the
\* request is sent with whatever _auth_method is by now.
Detected(p) ==
    /\ pc[p] = "detecting"
    /\ reply[p] \in {"challenge", "nochallenge"}
    /\ auth' = IF reply[p] = "challenge" THEN challenge[p] ELSE auth
    /\ pc' = [pc EXCEPT ![p] = "requesting"]
    /\ used' = [used EXCEPT ![p] = auth']
    /\ sentExpired' = [sentExpired EXCEPT ![p] = expired]
    /\ reply' = [reply EXCEPT ![p] = "none"]
    /\ challenge' = [challenge EXCEPT ![p] = 0]
    /\ UNCHANGED <<active, deviceVars, expired, reauth, left, saw401, got, clean, rejected>>

\* A request, or its detection, ends with a result.
Resume(p) ==
    /\ reply[p] \in {"ok", "unauthorized", "failed"}
    /\ Finish(p, reply[p])
    /\ reply' = [reply EXCEPT ![p] = "none"]
    /\ UNCHANGED <<active, deviceVars, challenge, rejected>>

Next ==
    \/ Reboot
    \/ BootDone
    \/ ChangePassword
    \/ Settle
    \/ \E p \in active : StartPoll(p)
    \/ \E p \in active : DeviceAnswers(p)
    \/ \E p \in active : Detected(p)
    \/ \E p \in active : Resume(p)

Spec == Init /\ [][Next]_vars

\* Coordinators keep polling, requests end (if only by a timeout), a reboot ends.
Fairness ==
    /\ WF_vars(BootDone)
    /\ \A p \in Pollers :
          /\ WF_vars(p \in active /\ StartPoll(p))
          /\ WF_vars(DeviceAnswers(p))
          /\ WF_vars(Detected(p))
          /\ WF_vars(Resume(p))

FairSpec == Spec /\ Fairness
--------------------------------------------------------------------------------
\* The user is asked for credentials only if the device refused them: a single
\* reboot is recovered from without the user (hikvision_device.py:182, "after
\* device reboot, authorization token may have expired").
ReauthOnlyIfRejected == reauth => rejected

\* The entry has one coordinator: nobody else touches the token.
IsAlone == active = {Events}

\* With one coordinator that is so (handle_exception, hikvision_device.py:181).
AloneReauthOnlyIfRejected == IsAlone => ReauthOnlyIfRejected

\* With one coordinator, reauthentication starts on the refusal of a request that was
\* itself sent after the token was dropped, i.e. after a retry (handle_exception,
\* _record_failure).
ReauthAfterRetry ==
    [][IsAlone /\ reauth' # reauth =>
          /\ Resume(Events)
          /\ reply[Events] = "unauthorized"
          /\ sentExpired[Events]]_vars

\* Wrong credentials are always brought to the user, whatever mixture of reboots,
\* stale tokens and failures came before.
RefusalReachesUser == calm /\ ~accepts ~> reauth

\* Valid credentials: the coordinators end up polling without a 401 and with no
\* suspicion left, and stay so.
RecoversAlone ==
    calm /\ accepts ~> [](~expired /\ \A p \in active : clean[p])
================================================================================
