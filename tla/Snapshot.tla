-------------------------------- MODULE Snapshot --------------------------------
(***************************************************************************)
(* Still images: HikvisionCamera.async_camera_image and                    *)
(* ISAPIClient.get_camera_image with its request_bytes.                    *)
(*                                                                         *)
(* A call asks the picture URL of its stream.  The device may answer with  *)
(* an XML error instead of a picture: status 6 makes the client use the    *)
(* alternate URL of the stream from then on, status 3 makes it try again.  *)
(* The choice of the URL is kept in the stream, which all calls share; a   *)
(* call that awaits its answer does not see others change it.              *)
(***************************************************************************)
EXTENDS Naturals

CONSTANTS
    Calls,    \* the calls that may be under way at the same time
    Streams   \* the streams of the device

ASSUME StreamsAssumption == Streams # {}

Urls == {"main", "alternate"}

\* A picture, an XML error with its status code (4 stands for every code that is
\* not looked at), or no bytes because request_bytes swallowed an HTTP error.
Bodies == {"picture", "status3", "status4", "status6", "empty"}

\* Bound: one more request than a call should ever send.
SentCap == 7

VARIABLES
    works,         \* device: the URL that serves pictures of a stream, or "none"
    useAlternate,  \* stream.use_alternate_picture_url
    pc,            \* per call: "idle", "waiting" or "done"
    stream,        \* per call: its stream argument
    url,           \* per call: the URL it is waiting for
    attempt,       \* per call: its attempt argument
    result,        \* per call: the bytes it returned
    sent,          \* history: how many requests the call has sent, up to SentCap
    overtaken      \* history, per call: another one switched its stream since it asked

vars == <<works, useAlternate, pc, stream, url, attempt, result, sent, overtaken>>

TypeOK ==
    /\ works \in [Streams -> Urls \union {"none"}]
    /\ useAlternate \in [Streams -> BOOLEAN]
    /\ pc \in [Calls -> {"idle", "waiting", "done"}]
    /\ stream \in [Calls -> Streams]
    /\ url \in [Calls -> Urls]
    /\ attempt \in [Calls -> 0..2]
    /\ result \in [Calls -> Bodies]
    /\ sent \in [Calls -> 0..SentCap]
    /\ overtaken \in [Calls -> BOOLEAN]

Init ==
    /\ works \in [Streams -> Urls \union {"none"}]
    /\ useAlternate = [s \in Streams |-> FALSE]
    /\ pc = [c \in Calls |-> "idle"]
    /\ stream = [c \in Calls |-> CHOOSE s \in Streams : TRUE]
    /\ url = [c \in Calls |-> "main"]
    /\ attempt = [c \in Calls |-> 0]
    /\ result = [c \in Calls |-> "empty"]
    /\ sent = [c \in Calls |-> 0]
    /\ overtaken = [c \in Calls |-> FALSE]
--------------------------------------------------------------------------------
PictureUrl(alternate) == IF alternate THEN "alternate" ELSE "main"

\* What the device may answer: a URL that does not serve the stream is refused
\* with status 6; any request may hit a busy device, another error, or be lost.
Answers(s, u) ==
    {"status3", "status4", "empty"} \union {IF works[s] = u THEN "picture" ELSE "status6"}

CountedTo(n) == IF n < SentCap THEN n ELSE SentCap

\* get_camera_image(stream, width, height, n), up to its request.
Ask(c, n, alternate) ==
    /\ pc' = [pc EXCEPT ![c] = "waiting"]
    /\ url' = [url EXCEPT ![c] = PictureUrl(alternate)]
    /\ attempt' = [attempt EXCEPT ![c] = n]

Start(c, s) ==
    /\ pc[c] = "idle"
    /\ stream' = [stream EXCEPT ![c] = s]
    /\ Ask(c, 0, useAlternate[s])
    /\ sent' = [sent EXCEPT ![c] = 1]
    /\ UNCHANGED <<works, useAlternate, result, overtaken>>

\* Faulty: the stream does not remember the alternate URL.
Remember_Nothing(s) == useAlternate

Remember(s) == [useAlternate EXCEPT ![s] = TRUE]

\* Status 6: switch the stream to its alternate URL and start again.
SwitchUrl(c) ==
    /\ pc[c] = "waiting"
    /\ "status6" \in Answers(stream[c], url[c])
    /\ ~useAlternate[stream[c]]
    /\ useAlternate' = Remember(stream[c])
    /\ Ask(c, 0, useAlternate'[stream[c]])
    /\ sent' = [sent EXCEPT ![c] = CountedTo(@ + 1)]
    /\ overtaken' = [d \in Calls |->
          overtaken[d] \/ (d # c /\ pc[d] = "waiting" /\ stream[d] = stream[c])]
    /\ UNCHANGED <<works, stream, result>>

\* Faulty: gives up one attempt early.
MayRetry_OnceOnly(n) == n < 1

\* Faulty: one attempt too many.
MayRetry_OnceMore(n) == n <= 2

MayRetry(n) == n < 2

\* Status 3: the device is busy, ask again, at the URL that is now the stream's.
Retry(c) ==
    /\ pc[c] = "waiting"
    /\ MayRetry(attempt[c])
    /\ Ask(c, attempt[c] + 1, useAlternate[stream[c]])
    /\ sent' = [sent EXCEPT ![c] = CountedTo(@ + 1)]
    /\ overtaken' = [overtaken EXCEPT ![c] = FALSE]
    /\ UNCHANGED <<works, useAlternate, stream, result>>

\* Faulty: does not look at the status code.
Returns_AnyBody(c, body) == TRUE

\* Everything else is returned as it is.
Returns(c, body) ==
    /\ body = "status6" => useAlternate[stream[c]]
    /\ body = "status3" => ~MayRetry(attempt[c])

Return(c) ==
    /\ pc[c] = "waiting"
    /\ \E body \in Answers(stream[c], url[c]) :
          /\ Returns(c, body)
          /\ result' = [result EXCEPT ![c] = body]
    /\ pc' = [pc EXCEPT ![c] = "done"]
    /\ UNCHANGED <<works, useAlternate, stream, url, attempt, sent, overtaken>>

\* Home Assistant takes the bytes; the next call may begin.
Deliver(c) ==
    /\ pc[c] = "done"
    /\ pc' = [pc EXCEPT ![c] = "idle"]
    /\ result' = [result EXCEPT ![c] = "empty"]
    /\ sent' = [sent EXCEPT ![c] = 0]
    /\ overtaken' = [overtaken EXCEPT ![c] = FALSE]
    /\ UNCHANGED <<works, useAlternate, stream, url, attempt>>

Next ==
    \E c \in Calls :
        \/ \E s \in Streams : Start(c, s)
        \/ SwitchUrl(c)
        \/ Retry(c)
        \/ Return(c)
        \/ Deliver(c)

Spec == Init /\ [][Next]_vars

\* Every request ends, with an answer or a timeout.
FairSpec ==
    Spec /\ \A c \in Calls : WF_vars(SwitchUrl(c) \/ Retry(c) \/ Return(c))
--------------------------------------------------------------------------------
\* A stream whose alternate URL serves pictures never yields the error that the
\* other URL answers with (isapi.py:807, "handle 'Invalid XML Content' for some
\* cameras, use alternate url for still image"), except to a call that another one
\* overtook: it finds the stream switched although it asked the old URL itself.
AlternateIsTried ==
    \A c \in Calls :
        pc[c] = "done" /\ result[c] = "status6" => works[stream[c]] = "none" \/ overtaken[c]

\* However calls share the stream, one call sends at most three requests per URL.
RequestsAreBounded == \A c \in Calls : sent[c] <= 6

\* A busy device is given three tries before its error is returned, also when
\* another call moves the stream to the other URL in between.
BusyDeviceIsRetried ==
    \A c \in Calls : pc[c] = "done" /\ result[c] = "status3" => sent[c] >= 3

\* The alternate URL is chosen only for streams whose picture URL was refused, so
\* the streams of one device do not disturb each other.
AlternateIsNeeded == \A s \in Streams : useAlternate[s] => works[s] # "main"

\* A call always ends, whatever the device answers.
CallsEnd == \A c \in Calls : pc[c] = "waiting" ~> pc[c] = "done"
================================================================================
