------------------------------ MODULE StreamProofs ------------------------------
(***************************************************************************)
(* Theorems about the streams of the cameras: about StreamDiscovery for    *)
(* any number of cameras and rejections, and about Snapshot for any number *)
(* of calls and streams.                                                   *)
(***************************************************************************)
EXTENDS Snapshot, StreamDiscovery, SequenceTheorems, TLAPS

(***************************************************************************)
(* Snapshot: how often the device is asked, and what is returned.          *)
(***************************************************************************)

\* What a call has sent, from its attempt: until its stream is switched one request per
\* attempt, and three more at the most.
SentInv ==
    \A c \in Calls :
        /\ pc[c] \in {"waiting", "done"} =>
              attempt[c] + 1 <= sent[c] /\ sent[c] <= attempt[c] + 4
        /\ pc[c] = "waiting" /\ ~useAlternate[stream[c]] => sent[c] = attempt[c] + 1
        /\ pc[c] = "idle" => sent[c] = 0

\* The URL that a call waits for is its stream's, or was until another call switched it.
UrlInv ==
    \A c \in Calls :
        pc[c] = "waiting" =>
            /\ ~useAlternate[stream[c]] => url[c] = "main"
            /\ ~overtaken[c] /\ useAlternate[stream[c]] => url[c] = "alternate"

IInv ==
    /\ TypeOK
    /\ SentInv
    /\ UrlInv
    /\ AlternateIsNeeded
    /\ AlternateIsTried
    /\ BusyDeviceIsRetried
--------------------------------------------------------------------------------
LEMMA UrlTypes == \A b : PictureUrl(b) \in Urls
BY DEF PictureUrl, Urls

\* The counter of requests does not reach its cap.
LEMMA CounterIsExact ==
    ASSUME NEW n \in 0..5
    PROVE  CountedTo(n + 1) = n + 1 /\ n + 1 \in 0..SentCap
BY DEF CountedTo, SentCap

\* A refusal means that the URL does not serve the stream.
LEMMA RefusedUrl ==
    ASSUME NEW s \in Streams, NEW u, "status6" \in Answers(s, u)
    PROVE  works[s] # u
BY DEF Answers

LEMMA InitIInv == Init => IInv
<1> SUFFICES ASSUME Init PROVE IInv
  OBVIOUS
<1>1. stream \in [Calls -> Streams]
  BY StreamsAssumption DEF Init
<1>2. TypeOK
  BY <1>1 DEF Init, TypeOK, Urls, Bodies, SentCap
<1>3. SentInv /\ UrlInv
  BY DEF Init, SentInv, UrlInv
<1>4. AlternateIsNeeded /\ AlternateIsTried /\ BusyDeviceIsRetried
  BY DEF Init, AlternateIsNeeded, AlternateIsTried, BusyDeviceIsRetried
<1> QED
  BY <1>2, <1>3, <1>4 DEF IInv
--------------------------------------------------------------------------------
LEMMA StartKeepsIInv ==
    ASSUME IInv, NEW c \in Calls, NEW s \in Streams, Start(c, s)
    PROVE  IInv'
<1>1. /\ pc'[c] = "waiting" /\ stream'[c] = s /\ attempt'[c] = 0 /\ sent'[c] = 1
      /\ url'[c] = PictureUrl(useAlternate[s])
      /\ \A d \in Calls \ {c} :
            /\ pc'[d] = pc[d] /\ stream'[d] = stream[d] /\ attempt'[d] = attempt[d]
            /\ sent'[d] = sent[d] /\ url'[d] = url[d]
      /\ UNCHANGED <<works, useAlternate, result, overtaken>>
  BY DEF Start, Ask, IInv, TypeOK
<1>2. TypeOK'
  <2>1. sent' \in [Calls -> 0..SentCap] /\ attempt' \in [Calls -> 0..2]
    BY DEF Start, Ask, IInv, TypeOK, SentCap
  <2>2. url' \in [Calls -> Urls]
    BY UrlTypes DEF Start, Ask, IInv, TypeOK
  <2> QED
    BY <1>1, <2>1, <2>2 DEF Start, Ask, IInv, TypeOK
<1>3. SentInv'
  BY <1>1 DEF IInv, SentInv
<1>4. UrlInv'
  BY <1>1 DEF IInv, UrlInv, PictureUrl
<1>5. AlternateIsNeeded' /\ AlternateIsTried' /\ BusyDeviceIsRetried'
  BY <1>1 DEF IInv, AlternateIsNeeded, AlternateIsTried, BusyDeviceIsRetried
<1> QED
  BY <1>2, <1>3, <1>4, <1>5 DEF IInv

LEMMA SwitchUrlKeepsIInv ==
    ASSUME IInv, NEW c \in Calls, SwitchUrl(c)
    PROVE  IInv'
<1> DEFINE s == stream[c]
<1>1. s \in Streams /\ pc[c] = "waiting" /\ ~useAlternate[s] /\ "status6" \in Answers(s, url[c])
  BY DEF SwitchUrl, IInv, TypeOK
<1>2. sent[c] = attempt[c] + 1 /\ attempt[c] \in 0..2
  BY <1>1 DEF IInv, TypeOK, SentInv
<1>3. sent[c] \in 0..5
  BY <1>2
<1>4. useAlternate' = [useAlternate EXCEPT ![s] = TRUE]
  BY DEF SwitchUrl, Remember
<1>5. useAlternate'[s] = TRUE /\ \A t \in Streams \ {s} : useAlternate'[t] = useAlternate[t]
  BY <1>1, <1>4 DEF IInv, TypeOK
<1>6. /\ pc'[c] = "waiting" /\ attempt'[c] = 0 /\ sent'[c] = sent[c] + 1
      /\ url'[c] = "alternate" /\ overtaken'[c] = overtaken[c]
      /\ UNCHANGED <<works, stream, result>>
  BY <1>3, <1>5, CounterIsExact DEF SwitchUrl, Ask, PictureUrl, IInv, TypeOK
<1>7. \A d \in Calls \ {c} :
        /\ pc'[d] = pc[d] /\ attempt'[d] = attempt[d]
        /\ sent'[d] = sent[d] /\ url'[d] = url[d]
        /\ overtaken[d] => overtaken'[d]
        /\ pc[d] = "waiting" /\ stream[d] = s => overtaken'[d]
  BY DEF SwitchUrl, Ask, IInv, TypeOK
<1>8. TypeOK'
  <2>1. attempt' \in [Calls -> 0..2]
    BY DEF SwitchUrl, Ask, IInv, TypeOK
  <2>2. sent' \in [Calls -> 0..SentCap]
    BY <1>3, CounterIsExact DEF SwitchUrl, IInv, TypeOK
  <2>3. url' \in [Calls -> Urls]
    BY UrlTypes DEF SwitchUrl, Ask, IInv, TypeOK
  <2>4. overtaken' \in [Calls -> BOOLEAN]
    BY DEF SwitchUrl, IInv, TypeOK
  <2>5. useAlternate' \in [Streams -> BOOLEAN] /\ pc' \in [Calls -> {"idle", "waiting", "done"}]
    BY <1>4 DEF SwitchUrl, Ask, IInv, TypeOK
  <2> QED
    BY <1>6, <2>1, <2>2, <2>3, <2>4, <2>5 DEF IInv, TypeOK
<1>9. SentInv'
  <2> SUFFICES ASSUME NEW d \in Calls
               PROVE  /\ pc'[d] \in {"waiting", "done"} =>
                            attempt'[d] + 1 <= sent'[d] /\ sent'[d] <= attempt'[d] + 4
                      /\ pc'[d] = "waiting" /\ ~useAlternate'[stream'[d]] =>
                            sent'[d] = attempt'[d] + 1
                      /\ pc'[d] = "idle" => sent'[d] = 0
    BY DEF SentInv
  <2>1. CASE d = c
    BY <1>2, <1>5, <1>6, <2>1
  <2>2. CASE d # c
    <3>1. ~useAlternate'[stream[d]] => ~useAlternate[stream[d]]
      BY <1>1, <1>5 DEF IInv, TypeOK
    <3> QED
      BY <1>6, <1>7, <2>2, <3>1 DEF IInv, SentInv
  <2> QED
    BY <2>1, <2>2
<1>10. UrlInv'
  <2> SUFFICES ASSUME NEW d \in Calls, pc'[d] = "waiting"
               PROVE  /\ ~useAlternate'[stream'[d]] => url'[d] = "main"
                      /\ ~overtaken'[d] /\ useAlternate'[stream'[d]] => url'[d] = "alternate"
    BY DEF UrlInv
  <2>1. CASE d = c
    BY <1>5, <1>6, <2>1
  <2>2. CASE d # c
    <3>1. stream[d] \in Streams /\ stream'[d] = stream[d]
      BY <1>6 DEF IInv, TypeOK
    <3>2. CASE stream[d] = s
      BY <1>5, <1>7, <2>2, <3>1, <3>2
    <3>3. CASE stream[d] # s
      BY <1>5, <1>7, <2>2, <3>1, <3>3 DEF IInv, UrlInv
    <3> QED
      BY <3>2, <3>3
  <2> QED
    BY <2>1, <2>2
<1>11. AlternateIsNeeded'
  <2>1. url[c] = "main"
    BY <1>1 DEF IInv, UrlInv
  <2>2. works[s] # "main"
    BY <1>1, <2>1, RefusedUrl
  <2> QED
    BY <1>5, <1>6, <2>2 DEF IInv, AlternateIsNeeded
<1>12. AlternateIsTried' /\ BusyDeviceIsRetried'
  BY <1>6, <1>7 DEF IInv, AlternateIsTried, BusyDeviceIsRetried
<1> QED
  BY <1>8, <1>9, <1>10, <1>11, <1>12 DEF IInv

LEMMA RetryKeepsIInv ==
    ASSUME IInv, NEW c \in Calls, Retry(c)
    PROVE  IInv'
<1>1. pc[c] = "waiting" /\ attempt[c] \in 0..1 /\ stream[c] \in Streams
  BY DEF Retry, MayRetry, IInv, TypeOK
<1>2. sent[c] \in 0..5 /\ attempt[c] + 1 <= sent[c] /\ sent[c] <= attempt[c] + 4
  <2>1. sent[c] \in 0..SentCap
    BY DEF IInv, TypeOK
  <2>2. attempt[c] + 1 <= sent[c] /\ sent[c] <= attempt[c] + 4
    BY <1>1 DEF IInv, SentInv
  <2> QED
    BY <1>1, <2>1, <2>2 DEF SentCap
<1>3. /\ pc'[c] = "waiting" /\ attempt'[c] = attempt[c] + 1 /\ sent'[c] = sent[c] + 1
      /\ url'[c] = PictureUrl(useAlternate[stream[c]]) /\ overtaken'[c] = FALSE
      /\ \A d \in Calls \ {c} :
            /\ pc'[d] = pc[d] /\ attempt'[d] = attempt[d] /\ sent'[d] = sent[d]
            /\ url'[d] = url[d] /\ overtaken'[d] = overtaken[d]
      /\ UNCHANGED <<works, useAlternate, stream, result>>
  BY <1>2, CounterIsExact DEF Retry, Ask, IInv, TypeOK
<1>4. TypeOK'
  <2>1. attempt' \in [Calls -> 0..2]
    BY <1>1 DEF Retry, Ask, IInv, TypeOK
  <2>2. sent' \in [Calls -> 0..SentCap]
    BY <1>2, CounterIsExact DEF Retry, IInv, TypeOK
  <2>3. url' \in [Calls -> Urls]
    BY UrlTypes DEF Retry, Ask, IInv, TypeOK
  <2> QED
    BY <1>3, <2>1, <2>2, <2>3 DEF Retry, Ask, IInv, TypeOK
<1>5. SentInv'
  BY <1>1, <1>2, <1>3 DEF IInv, SentInv
<1>6. UrlInv'
  BY <1>3 DEF IInv, UrlInv, PictureUrl
<1>7. AlternateIsNeeded' /\ AlternateIsTried' /\ BusyDeviceIsRetried'
  BY <1>3 DEF IInv, AlternateIsNeeded, AlternateIsTried, BusyDeviceIsRetried
<1> QED
  BY <1>4, <1>5, <1>6, <1>7 DEF IInv

LEMMA ReturnKeepsIInv ==
    ASSUME IInv, NEW c \in Calls, Return(c)
    PROVE  IInv'
<1>1. PICK body \in Answers(stream[c], url[c]) :
        Returns(c, body) /\ result' = [result EXCEPT ![c] = body]
  BY DEF Return
<1>2. /\ pc[c] = "waiting" /\ stream[c] \in Streams /\ url[c] \in Urls
      /\ attempt[c] \in 0..2 /\ works[stream[c]] \in Urls \union {"none"}
  BY DEF Return, IInv, TypeOK
<1>3. body \in Bodies
  BY DEF Answers, Bodies
<1>4. /\ pc'[c] = "done" /\ result'[c] = body
      /\ \A d \in Calls \ {c} : pc'[d] = pc[d] /\ result'[d] = result[d]
      /\ UNCHANGED <<works, useAlternate, stream, url, attempt, sent, overtaken>>
  BY <1>1 DEF Return, IInv, TypeOK
<1>5. TypeOK'
  BY <1>1, <1>3, <1>4 DEF Return, IInv, TypeOK
<1>6. SentInv' /\ UrlInv' /\ AlternateIsNeeded'
  BY <1>2, <1>4 DEF IInv, SentInv, UrlInv, AlternateIsNeeded
<1>7. AlternateIsTried'
  <2>1. ASSUME body = "status6", ~overtaken[c]
        PROVE  works[stream[c]] = "none"
    <3>1. useAlternate[stream[c]]
      BY <1>1, <2>1 DEF Returns
    <3>2. works[stream[c]] # "main"
      BY <1>2, <3>1 DEF IInv, AlternateIsNeeded
    <3>3. url[c] = "alternate"
      BY <1>2, <2>1, <3>1 DEF IInv, UrlInv
    <3>4. works[stream[c]] # url[c]
      BY <1>2, <2>1, RefusedUrl
    <3> QED
      BY <1>2, <3>2, <3>3, <3>4 DEF Urls
  <2> QED
    BY <1>4, <2>1 DEF IInv, AlternateIsTried
<1>8. BusyDeviceIsRetried'
  <2>1. ASSUME body = "status3"
        PROVE  sent[c] >= 3
    <3>1. attempt[c] = 2
      BY <1>1, <1>2, <2>1 DEF Returns, MayRetry
    <3>2. attempt[c] + 1 <= sent[c] /\ sent[c] \in 0..SentCap
      BY <1>2 DEF IInv, SentInv, TypeOK
    <3> QED
      BY <3>1, <3>2 DEF SentCap
  <2> QED
    BY <1>4, <2>1 DEF IInv, BusyDeviceIsRetried
<1> QED
  BY <1>5, <1>6, <1>7, <1>8 DEF IInv

LEMMA DeliverKeepsIInv ==
    ASSUME IInv, NEW c \in Calls, Deliver(c)
    PROVE  IInv'
<1>1. /\ pc'[c] = "idle" /\ sent'[c] = 0
      /\ \A d \in Calls \ {c} :
            /\ pc'[d] = pc[d] /\ result'[d] = result[d] /\ sent'[d] = sent[d]
            /\ overtaken'[d] = overtaken[d]
      /\ UNCHANGED <<works, useAlternate, stream, url, attempt>>
  BY DEF Deliver, IInv, TypeOK
<1>2. TypeOK'
  <2>1. sent' \in [Calls -> 0..SentCap]
    BY DEF Deliver, IInv, TypeOK, SentCap
  <2> QED
    BY <2>1 DEF Deliver, IInv, TypeOK, Bodies
<1>3. SentInv' /\ UrlInv' /\ AlternateIsNeeded'
  BY <1>1 DEF IInv, SentInv, UrlInv, AlternateIsNeeded
<1>4. AlternateIsTried' /\ BusyDeviceIsRetried'
  BY <1>1 DEF IInv, AlternateIsTried, BusyDeviceIsRetried
<1> QED
  BY <1>2, <1>3, <1>4 DEF IInv

LEMMA NextKeepsIInv == IInv /\ [Next]_vars => IInv'
<1> SUFFICES ASSUME IInv, [Next]_vars PROVE IInv'
  OBVIOUS
<1>1. ASSUME NEW c \in Calls, NEW s \in Streams, Start(c, s) PROVE IInv'
  BY <1>1, StartKeepsIInv
<1>2. ASSUME NEW c \in Calls, SwitchUrl(c) \/ Retry(c) \/ Return(c) \/ Deliver(c)
      PROVE  IInv'
  BY <1>2, SwitchUrlKeepsIInv, RetryKeepsIInv, ReturnKeepsIInv, DeliverKeepsIInv
<1>3. CASE UNCHANGED vars
  BY <1>3 DEF vars, IInv, TypeOK, SentInv, UrlInv, AlternateIsNeeded, AlternateIsTried,
              BusyDeviceIsRetried
<1> QED
  BY <1>1, <1>2, <1>3 DEF Next

LEMMA Invariance == Spec => []IInv
BY InitIInv, NextKeepsIInv, PTL DEF Spec
--------------------------------------------------------------------------------
\* Type correctness, for all calls and streams.
THEOREM TypeCorrect == Spec => []TypeOK
<1>1. IInv => TypeOK
  BY DEF IInv
<1> QED
  BY Invariance, <1>1, PTL

\* However many calls share the streams, none of them asks the device more than six
\* times (get_camera_image, which calls itself).
THEOREM CallsAreBounded == Spec => []RequestsAreBounded
<1>1. IInv => RequestsAreBounded
  <2> SUFFICES ASSUME IInv, NEW c \in Calls PROVE sent[c] <= 6
    BY DEF RequestsAreBounded
  <2>1. pc[c] \in {"idle", "waiting", "done"} /\ attempt[c] \in 0..2 /\ sent[c] \in 0..SentCap
    BY DEF IInv, TypeOK
  <2>2. pc[c] \in {"waiting", "done"} => sent[c] <= attempt[c] + 4
    BY DEF IInv, SentInv
  <2>3. pc[c] = "idle" => sent[c] = 0
    BY DEF IInv, SentInv
  <2> QED
    BY <2>1, <2>2, <2>3 DEF SentCap
<1> QED
  BY Invariance, <1>1, PTL

\* However many calls share the streams, a call that no other overtook returns the
\* refusal of a URL only if neither URL serves pictures.
THEOREM AlternatesAreTried == Spec => []AlternateIsTried
<1>1. IInv => AlternateIsTried
  BY DEF IInv
<1> QED
  BY Invariance, <1>1, PTL

\* However many calls share the streams, only refused streams use their alternate URL.
THEOREM AlternatesAreNeeded == Spec => []AlternateIsNeeded
<1>1. IInv => AlternateIsNeeded
  BY DEF IInv
<1> QED
  BY Invariance, <1>1, PTL

\* However many calls share the streams, a busy device is asked three times at least.
THEOREM BusyDevicesAreRetried == Spec => []BusyDeviceIsRetried
<1>1. IInv => BusyDeviceIsRetried
  BY DEF IInv
<1> QED
  BY Invariance, <1>1, PTL
--------------------------------------------------------------------------------
\* A waiting call gets on: it asks again, or it returns.
Answered(c) == SwitchUrl(c) \/ Retry(c) \/ Return(c)

\* Every request of the call ends: what WF_vars(Answered(c)) says, for Answered(c) is
\* possible while the call waits.  (~[][~A]_vars is <><<A>>_vars.)
RequestsEnd(c) == <>[](pc[c] = "waiting") => []~[][~Answered(c)]_vars

LEMMA OthersDoNotAnswer ==
    ASSUME IInv, [Next]_vars, NEW c \in Calls, pc[c] = "waiting"
    PROVE  \/ Answered(c)
           \/ pc'[c] = "waiting" /\ sent'[c] = sent[c]
<1>1. ASSUME NEW d \in Calls, NEW s \in Streams, Start(d, s)
      PROVE  pc'[c] = "waiting" /\ sent'[c] = sent[c]
  BY <1>1 DEF Start, Ask, IInv, TypeOK
<1>2. ASSUME NEW d \in Calls, SwitchUrl(d) \/ Retry(d) \/ Return(d), d # c
      PROVE  pc'[c] = "waiting" /\ sent'[c] = sent[c]
  BY <1>2 DEF SwitchUrl, Retry, Return, Ask, IInv, TypeOK
<1>3. ASSUME NEW d \in Calls, Deliver(d)
      PROVE  pc'[c] = "waiting" /\ sent'[c] = sent[c]
  BY <1>3 DEF Deliver, IInv, TypeOK
<1>4. CASE UNCHANGED vars
  BY <1>4 DEF vars
<1> QED
  BY <1>1, <1>2, <1>3, <1>4 DEF Next, Answered

LEMMA AnswersCount ==
    ASSUME IInv, NEW c \in Calls, Answered(c)
    PROVE  pc'[c] = "done" \/ (pc'[c] = "waiting" /\ sent'[c] = sent[c] + 1)
<1>1. pc[c] = "waiting"
  BY DEF Answered, SwitchUrl, Retry, Return
<1>2. CASE Return(c)
  BY <1>2 DEF Return, IInv, TypeOK
<1>3. CASE SwitchUrl(c) \/ Retry(c)
  <2>1. sent[c] \in 0..5
    <3>1. attempt[c] \in 0..2 /\ sent[c] \in 0..SentCap /\ sent[c] <= attempt[c] + 4
      BY <1>1 DEF IInv, TypeOK, SentInv
    <3>2. CASE Retry(c)
      BY <3>1, <3>2 DEF Retry, MayRetry, SentCap
    <3>3. CASE SwitchUrl(c)
      <4>1. stream[c] \in Streams /\ ~useAlternate[stream[c]]
        BY <3>3 DEF SwitchUrl, IInv, TypeOK
      <4>2. sent[c] = attempt[c] + 1
        BY <1>1, <4>1 DEF IInv, SentInv
      <4> QED
        BY <3>1, <4>2
    <3> QED
      BY <1>3, <3>2, <3>3
  <2>2. sent' = [sent EXCEPT ![c] = CountedTo(@ + 1)] /\ pc' = [pc EXCEPT ![c] = "waiting"]
    BY <1>3 DEF SwitchUrl, Retry, Ask
  <2>3. sent'[c] = CountedTo(sent[c] + 1) /\ pc'[c] = "waiting"
    BY <2>2 DEF IInv, TypeOK
  <2> QED
    BY <2>1, <2>3, CounterIsExact
<1> QED
  BY <1>2, <1>3 DEF Answered

\* Calls end because they are bounded: however calls share the streams and whatever
\* the device answers, each answer but the last makes a call send one request more, of
\* the six it may send (get_camera_image, which calls itself).
THEOREM BoundedCallsEnd == Spec /\ (\A c \in Calls : RequestsEnd(c)) => CallsEnd
<1>1. ASSUME NEW c \in Calls
      PROVE  Spec /\ RequestsEnd(c) => (pc[c] = "waiting" ~> pc[c] = "done")
  <2> DEFINE Wait == pc[c] = "waiting"
             Done == pc[c] = "done"
             Past(n) == sent[c] > n
             Goes == ~[~Answered(c)]_vars
  <2>1. ASSUME NEW n \in 0..5
        PROVE  /\ IInv /\ [Next]_vars /\ Wait /\ Past(n) => Done' \/ (Wait' /\ Past(n)')
               /\ IInv /\ [Next]_vars /\ Goes /\ Wait /\ Past(n) =>
                     Done' \/ (Wait' /\ Past(n + 1)')
    <3>1. IInv => sent[c] \in 0..SentCap
      BY DEF IInv, TypeOK
    <3> QED
      BY <3>1, OthersDoNotAnswer, AnswersCount DEF SentCap
  <2>2. IInv /\ Wait => Past(0) /\ ~Past(6)
    <3>1. IInv => sent[c] \in 0..SentCap
      BY DEF IInv, TypeOK
    <3>2. IInv /\ Wait => attempt[c] + 1 <= sent[c] /\ sent[c] <= attempt[c] + 4
                          /\ attempt[c] \in 0..2
      BY DEF IInv, SentInv, TypeOK
    <3> QED
      BY <3>1, <3>2 DEF SentCap
  <2> DEFINE P0 == Past(0)
             P1 == Past(1)
             P2 == Past(2)
             P3 == Past(3)
             P4 == Past(4)
             P5 == Past(5)
             P6 == Past(6)
  <2>3. /\ IInv /\ [Next]_vars /\ Wait /\ P0 => Done' \/ (Wait' /\ P0')
        /\ IInv /\ [Next]_vars /\ Wait /\ P1 => Done' \/ (Wait' /\ P1')
        /\ IInv /\ [Next]_vars /\ Wait /\ P2 => Done' \/ (Wait' /\ P2')
        /\ IInv /\ [Next]_vars /\ Wait /\ P3 => Done' \/ (Wait' /\ P3')
        /\ IInv /\ [Next]_vars /\ Wait /\ P4 => Done' \/ (Wait' /\ P4')
        /\ IInv /\ [Next]_vars /\ Wait /\ P5 => Done' \/ (Wait' /\ P5')
    BY <2>1, 0 \in 0..5, 1 \in 0..5, 2 \in 0..5, 3 \in 0..5, 4 \in 0..5, 5 \in 0..5
  <2>4. /\ IInv /\ [Next]_vars /\ Goes /\ Wait /\ P0 => Done' \/ (Wait' /\ P1')
        /\ IInv /\ [Next]_vars /\ Goes /\ Wait /\ P1 => Done' \/ (Wait' /\ P2')
        /\ IInv /\ [Next]_vars /\ Goes /\ Wait /\ P2 => Done' \/ (Wait' /\ P3')
        /\ IInv /\ [Next]_vars /\ Goes /\ Wait /\ P3 => Done' \/ (Wait' /\ P4')
        /\ IInv /\ [Next]_vars /\ Goes /\ Wait /\ P4 => Done' \/ (Wait' /\ P5')
        /\ IInv /\ [Next]_vars /\ Goes /\ Wait /\ P5 => Done' \/ (Wait' /\ P6')
    <3>1. 0 + 1 = 1 /\ 1 + 1 = 2 /\ 2 + 1 = 3 /\ 3 + 1 = 4 /\ 4 + 1 = 5 /\ 5 + 1 = 6
      OBVIOUS
    <3> HIDE DEF Past, Goes, Wait, Done
    <3> QED
      BY <2>1, <3>1, 0 \in 0..5, 1 \in 0..5, 2 \in 0..5, 3 \in 0..5, 4 \in 0..5, 5 \in 0..5
  <2>5. RequestsEnd(c) => (<>[]Wait => []~[][~Answered(c)]_vars)
    BY PTL DEF RequestsEnd
  <2>6. IInv /\ Wait => P0 /\ ~P6
    BY <2>2
  <2> HIDE DEF Wait, Done, P0, P1, P2, P3, P4, P5, P6, Past
  <2>7. Spec /\ (<>[]Wait => []~[][~Answered(c)]_vars) => (Wait ~> Done)
    BY Invariance, <2>3, <2>4, <2>6, PTL DEF Spec
  <2> QED
    BY <2>5, <2>7, PTL DEF Wait, Done
<1> QED
  BY <1>1 DEF CallsEnd
--------------------------------------------------------------------------------
(***************************************************************************)
(* StreamDiscovery: which streams are found.                               *)
(***************************************************************************)

\* Where the channel is asked for in Plan.
Position(channel) ==
    IF channel.type \in PRIMARY THEN 2 * (channel.camera - 1) + channel.type
    ELSE 2 * Cameras + 2 * (channel.camera - 1) + channel.type - 2

\* The first half of Plan asks for required streams.
IsRequired(n) == n <= 2 * Cameras

\* No optional stream was asked for yet.
CalmInv == IsRequired(next) => ~upset

\* Until an optional stream was asked for, every rejection of a channel that the device
\* has is one of those without a reason.
TriesInv ==
    Running /\ IsRequired(next) /\ Asked \in supported => tries <= rejections[Asked]

\* RequiredStreamsFound of the channels asked for so far.
FoundInv ==
    is_nvr \/ Transient < PRIMARY_STREAM_DISCOVERY_ATTEMPTS =>
        \A channel \in supported :
            channel.type \in PRIMARY /\ Position(channel) < next =>
                channel.type \in Types(channel.camera)

\* FallbackIsForRecorders of the channels asked for so far.
FallbackInv ==
    /\ is_nvr => \A channel \in Channel :
          channel.type \in PRIMARY /\ Position(channel) < next =>
              channel.type \in Types(channel.camera)
    /\ ~is_nvr => \A camera \in 1..Cameras : \A type \in Types(camera) :
          [camera |-> camera, type |-> type] \in supported

\* Nothing was found of channels not asked for yet.
OrderInv ==
    /\ StreamsAreInOrder
    /\ \A camera \in 1..Cameras : \A type \in Types(camera) :
          Position([camera |-> camera, type |-> type]) < next

StreamInv ==
    /\ StreamTypeOK
    /\ CalmInv
    /\ TriesInv
    /\ FoundInv
    /\ FallbackInv
    /\ OrderInv

--------------------------------------------------------------------------------
\* The plan: every position asks for one channel, and every channel has a position.
LEMMA PassIsSeq ==
    ASSUME NEW first \in {1, 3}
    PROVE  /\ Pass(first, 2) \in Seq(Channel)
           /\ Len(Pass(first, 2)) = 2 * Cameras
           /\ \A n \in 1..(2 * Cameras) :
                 /\ Pass(first, 2)[n].camera = (n - 1) \div 2 + 1
                 /\ Pass(first, 2)[n].type = first + ((n - 1) % 2)
                 /\ Pass(first, 2)[n] \in Channel
<1>1. Cameras \in Nat \ {0}
  BY CamerasAssumption
<1>2. ASSUME NEW n \in 1..(2 * Cameras)
      PROVE  /\ (n - 1) \div 2 + 1 \in 1..Cameras
             /\ (n - 1) % 2 \in {0, 1}
  BY <1>1, <1>2
<1>3. ASSUME NEW n \in 1..(2 * Cameras)
      PROVE  first + ((n - 1) % 2) \in STREAM_TYPE
  BY <1>2, <1>3 DEF STREAM_TYPE, PRIMARY, OPTIONAL
<1>4. \A n \in 1..(2 * Cameras) :
        [camera |-> (n - 1) \div 2 + 1, type |-> first + ((n - 1) % 2)] \in Channel
  BY <1>2, <1>3 DEF Channel
<1>5. Pass(first, 2) = [n \in 1..(2 * Cameras) |->
         [camera |-> (n - 1) \div 2 + 1, type |-> first + ((n - 1) % 2)]]
  BY DEF Pass
<1>6. 2 * Cameras \in Nat
  BY <1>1
<1>7. Pass(first, 2) \in [1..(2 * Cameras) -> Channel]
  BY <1>4, <1>5
<1>8. Pass(first, 2) \in Seq(Channel) /\ Len(Pass(first, 2)) = 2 * Cameras
  BY <1>6, <1>7
<1> QED
  BY <1>4, <1>5, <1>8

LEMMA PlanIsSeq ==
    /\ Plan \in Seq(Channel)
    /\ Len(Plan) = 4 * Cameras
    /\ \A n \in 1..(2 * Cameras) :
          /\ Plan[n].camera = (n - 1) \div 2 + 1
          /\ Plan[n].type = 1 + ((n - 1) % 2)
    /\ \A n \in (2 * Cameras + 1)..(4 * Cameras) :
          /\ Plan[n].camera = (n - 2 * Cameras - 1) \div 2 + 1
          /\ Plan[n].type = 3 + ((n - 2 * Cameras - 1) % 2)
<1>1. Cameras \in Nat \ {0}
  BY CamerasAssumption
<1> DEFINE a == Pass(1, 2)
           b == Pass(3, 2)
<1>2. /\ a \in Seq(Channel) /\ Len(a) = 2 * Cameras
      /\ b \in Seq(Channel) /\ Len(b) = 2 * Cameras
  BY PassIsSeq
<1>3. \A n \in 1..(2 * Cameras) :
         /\ a[n].camera = (n - 1) \div 2 + 1 /\ a[n].type = 1 + ((n - 1) % 2)
         /\ b[n].camera = (n - 1) \div 2 + 1 /\ b[n].type = 3 + ((n - 1) % 2)
  BY PassIsSeq
<1>4. Plan = a \o b
  BY DEF Plan
<1> HIDE DEF a, b
<1>5. Plan \in Seq(Channel) /\ Len(Plan) = 4 * Cameras
  <2>1. Plan \in Seq(Channel) /\ Len(Plan) = Len(a) + Len(b)
    BY <1>2, <1>4, ConcatProperties
  <2> QED
    BY <1>1, <1>2, <2>1
<1>6. \A n \in 1..(2 * Cameras) : Plan[n] = a[n]
  BY <1>1, <1>2, <1>4
<1>7. \A n \in (2 * Cameras + 1)..(4 * Cameras) :
         n - 2 * Cameras \in 1..(2 * Cameras) /\ Plan[n] = b[n - 2 * Cameras]
  BY <1>1, <1>2, <1>4
<1> QED
  BY <1>3, <1>5, <1>6, <1>7

LEMMA PlanIsComplete ==
    /\ \A n \in 1..Len(Plan) :
          /\ Plan[n] \in Channel
          /\ Position(Plan[n]) = n
          /\ Plan[n].type \in PRIMARY <=> IsRequired(n)
    /\ \A channel \in Channel : Position(channel) \in 1..Len(Plan)
<1>1. Cameras \in Nat \ {0}
  BY CamerasAssumption
<1>2. ASSUME NEW n \in 1..Len(Plan)
      PROVE  /\ Plan[n] \in Channel
             /\ Position(Plan[n]) = n
             /\ Plan[n].type \in PRIMARY <=> IsRequired(n)
  <2>1. Plan[n] \in Channel
    BY PlanIsSeq
  <2>2. CASE n \in 1..(2 * Cameras)
    <3>1. /\ Plan[n].camera = (n - 1) \div 2 + 1
          /\ Plan[n].type = 1 + ((n - 1) % 2)
      BY <2>2, PlanIsSeq
    <3>2. (n - 1) % 2 \in {0, 1} /\ n - 1 = 2 * ((n - 1) \div 2) + ((n - 1) % 2)
      BY <1>1, <2>2
    <3>3. Plan[n].type \in PRIMARY
      BY <3>1, <3>2 DEF PRIMARY
    <3>4. Position(Plan[n]) = n
      BY <3>1, <3>2, <3>3 DEF Position
    <3> QED
      BY <1>1, <2>1, <2>2, <3>3, <3>4 DEF IsRequired
  <2>3. CASE n \in (2 * Cameras + 1)..(4 * Cameras)
    <3> DEFINE m == n - 2 * Cameras - 1
    <3>1. /\ Plan[n].camera = m \div 2 + 1
          /\ Plan[n].type = 3 + (m % 2)
      BY <2>3, PlanIsSeq
    <3>2. m \in Nat /\ m % 2 \in {0, 1} /\ m = 2 * (m \div 2) + (m % 2)
      BY <1>1, <2>3
    <3>3. Plan[n].type \notin PRIMARY
      BY <3>1, <3>2 DEF PRIMARY
    <3>4. Position(Plan[n]) = n
      BY <1>1, <3>1, <3>2, <3>3 DEF Position
    <3> QED
      BY <1>1, <2>1, <2>3, <3>3, <3>4 DEF IsRequired
  <2> QED
    BY <1>1, <2>2, <2>3, PlanIsSeq
<1>3. ASSUME NEW channel \in Channel
      PROVE  Position(channel) \in 1..Len(Plan)
  <2>1. Len(Plan) = 4 * Cameras
    BY PlanIsSeq
  <2>2. channel.camera \in 1..Cameras /\ channel.type \in {1, 2, 3, 4}
    BY DEF Channel, STREAM_TYPE, PRIMARY, OPTIONAL
  <2> QED
    BY <1>1, <2>1, <2>2 DEF Position, PRIMARY
<1> QED
  BY <1>2, <1>3
--------------------------------------------------------------------------------
LEMMA RunningAsks ==
    ASSUME StreamTypeOK, Running
    PROVE  /\ next \in 1..Len(Plan) /\ next + 1 \in 1..(4 * Cameras + 1)
           /\ Asked \in Channel /\ Position(Asked) = next
           /\ Asked.type \in PRIMARY <=> IsRequired(next)
<1>1. Cameras \in Nat \ {0} /\ next \in 1..(4 * Cameras + 1) /\ Len(Plan) = 4 * Cameras
  BY CamerasAssumption, PlanIsSeq DEF StreamTypeOK
<1>2. next \in 1..Len(Plan) /\ next + 1 \in 1..(4 * Cameras + 1)
  BY <1>1 DEF Running
<1> QED
  BY <1>2, PlanIsComplete DEF Asked

\* Channels are asked for once.
LEMMA PositionsDiffer ==
    /\ \A channel \in Channel : Position(channel) \in Nat
    /\ \A x, y \in Channel : Position(x) = Position(y) => x = y
    /\ \A camera \in 1..Cameras, s, t \in STREAM_TYPE :
          LET x == [camera |-> camera, type |-> s]
              y == [camera |-> camera, type |-> t]
          IN  Position(x) < Position(y) <=> s < t
<1>1. Cameras \in Nat \ {0}
  BY CamerasAssumption
<1>2. ASSUME NEW x \in Channel
      PROVE  /\ x.camera \in 1..Cameras /\ x.type \in {1, 2, 3, 4}
             /\ x = [camera |-> x.camera, type |-> x.type]
             /\ Position(x) \in Nat
  <2>1. /\ x.camera \in 1..Cameras /\ x.type \in {1, 2, 3, 4}
        /\ x = [camera |-> x.camera, type |-> x.type]
    BY DEF Channel, STREAM_TYPE, PRIMARY, OPTIONAL
  <2> QED
    BY <1>1, <2>1 DEF Position, PRIMARY
<1>3. ASSUME NEW x \in Channel, NEW y \in Channel, Position(x) = Position(y)
      PROVE  x = y
  <2>1. x.camera = y.camera /\ x.type = y.type
    BY <1>1, <1>2, <1>3 DEF Position, PRIMARY
  <2> QED
    BY <1>2, <2>1
<1>4. ASSUME NEW camera \in 1..Cameras, NEW s \in STREAM_TYPE, NEW t \in STREAM_TYPE
      PROVE  Position([camera |-> camera, type |-> s]) < Position([camera |-> camera, type |-> t])
                <=> s < t
  BY <1>1, <1>4 DEF Position, STREAM_TYPE, PRIMARY, OPTIONAL
<1> QED
  BY <1>2, <1>3, <1>4

\* A stream that is added is the last of its camera; the other cameras keep theirs.
LEMMA AddTypes ==
    ASSUME StreamTypeOK, Running, streams' = Add
    PROVE  /\ streams' \in [1..Cameras -> Seq(STREAM_TYPE)]
           /\ \A camera \in 1..Cameras : camera # Asked.camera =>
                 streams'[camera] = streams[camera] /\ Types(camera)' = Types(camera)
           /\ \A camera \in 1..Cameras : camera = Asked.camera =>
                 /\ streams'[camera] = Append(streams[camera], Asked.type)
                 /\ Types(camera)' = Types(camera) \union {Asked.type}
<1>1. Asked \in Channel
  BY RunningAsks
<1>2. PICK c \in 1..Cameras, t \in STREAM_TYPE : Asked.camera = c /\ Asked.type = t
  BY <1>1 DEF Channel
<1>3. streams \in [1..Cameras -> Seq(STREAM_TYPE)]
  BY DEF StreamTypeOK
<1> DEFINE old == streams[c]
<1>4. old \in Seq(STREAM_TYPE)
  BY <1>3
<1>5. streams' = [streams EXCEPT ![c] = Append(@, t)]
  BY <1>2 DEF Add
<1>6. Append(old, t) \in Seq(STREAM_TYPE)
  BY <1>4
<1>7. /\ streams' \in [1..Cameras -> Seq(STREAM_TYPE)]
      /\ \A camera \in 1..Cameras : camera # c => streams'[camera] = streams[camera]
      /\ streams'[c] = Append(old, t)
  BY <1>3, <1>5, <1>6
<1>8. {Append(old, t)[i] : i \in DOMAIN Append(old, t)} = {old[i] : i \in DOMAIN old} \union {t}
  <2>1. DOMAIN old = 1..Len(old) /\ Len(old) \in Nat
    BY <1>4
  <2>2. /\ DOMAIN Append(old, t) = 1..(Len(old) + 1)
        /\ \A i \in 1..Len(old) : Append(old, t)[i] = old[i]
        /\ Append(old, t)[Len(old) + 1] = t
    BY <1>4, AppendProperties
  <2> HIDE DEF old
  <2>3. 1..(Len(old) + 1) = (1..Len(old)) \union {Len(old) + 1}
    BY <2>1
  <2> QED
    BY <2>1, <2>2, <2>3
<1>9. Types(c)' = Types(c) \union {t}
  BY <1>7, <1>8 DEF Types
<1>10. \A camera \in 1..Cameras : camera # c => Types(camera)' = Types(camera)
  BY <1>7 DEF Types
<1> QED
  BY <1>2, <1>7, <1>9, <1>10

\* What was said of the channels before stays true when a stream is added for the
\* channel asked for, and becomes true of that one.
LEMMA AddKeeps ==
    ASSUME StreamInv, Running, streams' = Add, next' = next + 1,
           UNCHANGED <<is_nvr, supported>>,
           is_nvr \/ Asked \in supported
    PROVE  FoundInv' /\ FallbackInv' /\ OrderInv'
<1> USE DEF StreamInv
<1>1. /\ next \in 1..Len(Plan) /\ Asked \in Channel /\ Position(Asked) = next
      /\ next \in Nat
  BY RunningAsks DEF StreamTypeOK
<1>2. PICK c \in 1..Cameras, t \in STREAM_TYPE : Asked = [camera |-> c, type |-> t]
  BY <1>1 DEF Channel
<1>3. supported \subseteq Channel /\ streams \in [1..Cameras -> Seq(STREAM_TYPE)]
  BY DEF StreamTypeOK
<1>4. /\ \A camera \in 1..Cameras : camera # c =>
            streams'[camera] = streams[camera] /\ Types(camera)' = Types(camera)
      /\ streams'[c] = Append(streams[c], t)
      /\ Types(c)' = Types(c) \union {t}
  BY <1>2, AddTypes
<1>5. \A camera \in 1..Cameras : Types(camera) \subseteq Types(camera)'
  BY <1>4
<1>6. \A channel \in Channel :
        /\ channel.camera \in 1..Cameras
        /\ Position(channel) < next' => Position(channel) < next \/ channel = Asked
  BY <1>1, PositionsDiffer DEF Channel
<1>7. FoundInv'
  <2> SUFFICES ASSUME is_nvr \/ Transient < PRIMARY_STREAM_DISCOVERY_ATTEMPTS,
                      NEW channel \in supported, channel.type \in PRIMARY,
                      Position(channel) < next'
               PROVE  channel.type \in Types(channel.camera)'
    BY DEF FoundInv, Position, IsRequired
  <2>1. channel \in Channel
    BY <1>3
  <2>2. CASE Position(channel) < next
    BY <1>5, <1>6, <2>1, <2>2 DEF FoundInv
  <2>3. CASE channel = Asked
    BY <1>2, <1>4, <2>3
  <2> QED
    BY <1>6, <2>1, <2>2, <2>3
<1>8. FallbackInv'
  <2>1. ASSUME is_nvr, NEW channel \in Channel, channel.type \in PRIMARY,
               Position(channel) < next'
        PROVE  channel.type \in Types(channel.camera)'
    <3>1. CASE Position(channel) < next
      BY <1>5, <1>6, <2>1, <3>1 DEF FallbackInv
    <3>2. CASE channel = Asked
      BY <1>2, <1>4, <3>2
    <3> QED
      BY <1>6, <2>1, <3>1, <3>2
  <2>2. ASSUME ~is_nvr, NEW camera \in 1..Cameras, NEW type \in Types(camera)'
        PROVE  [camera |-> camera, type |-> type] \in supported
    <3>1. CASE type \in Types(camera)
      BY <2>2, <3>1 DEF FallbackInv
    <3>2. CASE camera = c /\ type = t
      BY <1>2, <2>2, <3>2
    <3> QED
      BY <1>4, <2>2, <3>1, <3>2
  <2> QED
    BY <2>1, <2>2 DEF FallbackInv, Position
<1>9. \A camera \in 1..Cameras : \A type \in Types(camera) :
        /\ type \in STREAM_TYPE
        /\ Position([camera |-> camera, type |-> type]) < next
  <2>1. \A camera \in 1..Cameras : Types(camera) \subseteq STREAM_TYPE
    BY <1>3 DEF Types
  <2> QED
    BY <2>1 DEF OrderInv
<1>10. \A type \in Types(c) : type < t
  BY <1>1, <1>2, <1>9, PositionsDiffer
<1>11. StreamsAreInOrder'
  <2> SUFFICES ASSUME NEW camera \in 1..Cameras,
                      NEW i \in DOMAIN streams'[camera], NEW j \in DOMAIN streams'[camera],
                      i < j
               PROVE  streams'[camera][i] < streams'[camera][j]
    BY DEF StreamsAreInOrder
  <2>1. CASE camera # c
    BY <1>4, <2>1 DEF OrderInv, StreamsAreInOrder
  <2>2. CASE camera = c
    <3> DEFINE old == streams[c]
    <3>1. old \in Seq(STREAM_TYPE) /\ DOMAIN old = 1..Len(old) /\ Len(old) \in Nat
      BY <1>3
    <3>2. /\ DOMAIN streams'[camera] = 1..(Len(old) + 1)
          /\ \A n \in 1..Len(old) : streams'[camera][n] = old[n]
          /\ streams'[camera][Len(old) + 1] = t
      BY <1>4, <2>2, <3>1, AppendProperties
    <3>3. \A n \in 1..Len(old) : old[n] < t
      BY <1>10, <3>1 DEF Types
    <3>4. \A m, n \in 1..Len(old) : m < n => old[m] < old[n]
      BY <3>1 DEF OrderInv, StreamsAreInOrder
    <3> HIDE DEF old
    <3>5. i \in 1..Len(old)
      BY <3>1, <3>2
    <3>6. j \in 1..Len(old) \/ j = Len(old) + 1
      BY <3>1, <3>2
    <3> QED
      BY <3>2, <3>3, <3>4, <3>5, <3>6
  <2> QED
    BY <2>1, <2>2
<1>12. ASSUME NEW camera \in 1..Cameras, NEW type \in Types(camera)'
       PROVE  Position([camera |-> camera, type |-> type]) < next'
  <2>1. CASE type \in Types(camera)
    <3>1. [camera |-> camera, type |-> type] \in Channel
      BY <1>9, <2>1 DEF Channel
    <3> QED
      BY <1>1, <1>9, <2>1, <3>1, PositionsDiffer
  <2>2. CASE camera = c /\ type = t
    BY <1>1, <1>2, <2>2
  <2> QED
    BY <1>4, <2>1, <2>2
<1> QED
  BY <1>7, <1>8, <1>11, <1>12 DEF OrderInv, Position

\* The same when the channel asked for is given up.
LEMMA SkipKeeps ==
    ASSUME StreamInv, Running, streams' = streams, next' = next + 1,
           UNCHANGED <<is_nvr, supported>>,
           ~Fallback(Asked.type),
           Asked \in supported /\ Asked.type \in PRIMARY =>
               Transient >= PRIMARY_STREAM_DISCOVERY_ATTEMPTS
    PROVE  FoundInv' /\ FallbackInv' /\ OrderInv'
<1> USE DEF StreamInv
<1>1. Asked \in Channel /\ Position(Asked) = next /\ next \in Nat
  BY RunningAsks DEF StreamTypeOK
<1>2. supported \subseteq Channel /\ streams \in [1..Cameras -> Seq(STREAM_TYPE)]
  BY DEF StreamTypeOK
<1>3. \A channel \in Channel :
        Position(channel) < next' => Position(channel) < next \/ channel = Asked
  BY <1>1, PositionsDiffer
<1>4. \A camera \in 1..Cameras : Types(camera)' = Types(camera)
  BY DEF Types
<1>5. ~(is_nvr /\ Asked.type \in PRIMARY)
  BY DEF Fallback
<1>6. FoundInv'
  <2> SUFFICES ASSUME is_nvr \/ Transient < PRIMARY_STREAM_DISCOVERY_ATTEMPTS,
                      NEW channel \in supported, channel.type \in PRIMARY,
                      Position(channel) < next'
               PROVE  channel.type \in Types(channel.camera)'
    BY DEF FoundInv, Position
  <2>1. channel \in Channel /\ channel.camera \in 1..Cameras
    BY <1>2 DEF Channel
  <2>2. channel # Asked
    BY <1>5, TransientAssumption DEF PRIMARY_STREAM_DISCOVERY_ATTEMPTS
  <2> QED
    BY <1>3, <1>4, <2>1, <2>2 DEF FoundInv
<1>7. FallbackInv'
  <2>1. ASSUME is_nvr, NEW channel \in Channel, channel.type \in PRIMARY,
               Position(channel) < next'
        PROVE  channel.type \in Types(channel.camera)'
    BY <1>3, <1>4, <1>5, <2>1 DEF FallbackInv, Channel
  <2>2. ~is_nvr => \A camera \in 1..Cameras : \A type \in Types(camera)' :
          [camera |-> camera, type |-> type] \in supported
    BY <1>4 DEF FallbackInv
  <2> QED
    BY <2>1, <2>2 DEF FallbackInv, Position
<1>8. ASSUME NEW camera \in 1..Cameras, NEW type \in Types(camera)
      PROVE  Position([camera |-> camera, type |-> type]) < next'
  <2>1. [camera |-> camera, type |-> type] \in Channel
    BY <1>2, <1>8 DEF Channel, Types
  <2>2. Position([camera |-> camera, type |-> type]) < next
    BY <1>8 DEF OrderInv
  <2> QED
    BY <1>1, <2>1, <2>2, PositionsDiffer
<1>9. StreamsAreInOrder'
  BY DEF OrderInv, StreamsAreInOrder
<1> QED
  BY <1>4, <1>6, <1>7, <1>8, <1>9 DEF OrderInv, Position

\* The same when no channel was done with.
LEMMA StayKeeps ==
    ASSUME StreamInv, UNCHANGED <<is_nvr, supported, next, streams>>
    PROVE  FoundInv' /\ FallbackInv' /\ OrderInv'
<1>1. \A camera \in 1..Cameras : Types(camera)' = Types(camera)
  BY DEF Types
<1> QED
  BY <1>1 DEF StreamInv, FoundInv, FallbackInv, OrderInv, StreamsAreInOrder, Position, Types

--------------------------------------------------------------------------------
LEMMA StreamInitInv == DiscoverInit => StreamInv
<1> SUFFICES ASSUME DiscoverInit PROVE StreamInv
  OBVIOUS
<1>1. Cameras \in Nat \ {0} /\ Transient \in Nat
  BY CamerasAssumption, TransientAssumption
<1>2. StreamTypeOK
  <2>1. <<>> \in Seq(STREAM_TYPE) /\ 0 \in 0..Transient /\ 1 \in 1..(4 * Cameras + 1)
    BY <1>1
  <2>2. 0 \in 0..(PRIMARY_STREAM_DISCOVERY_ATTEMPTS - 1)
    BY DEF PRIMARY_STREAM_DISCOVERY_ATTEMPTS
  <2> QED
    BY <2>1, <2>2 DEF DiscoverInit, StreamTypeOK
<1>3. \A camera \in 1..Cameras : Types(camera) = {} /\ DOMAIN streams[camera] = {}
  BY DEF DiscoverInit, Types
<1>4. \A channel \in Channel : ~(Position(channel) < next)
  BY PlanIsComplete DEF DiscoverInit
<1>5. CalmInv
  BY DEF DiscoverInit, CalmInv
<1>6. TriesInv
  <2>1. supported \subseteq Channel
    BY <1>2 DEF StreamTypeOK
  <2> QED
    BY <2>1 DEF DiscoverInit, TriesInv
<1>7. FoundInv /\ FallbackInv /\ OrderInv
  BY <1>2, <1>3, <1>4 DEF FoundInv, FallbackInv, OrderInv, StreamsAreInOrder, StreamTypeOK
<1> QED
  BY <1>2, <1>5, <1>6, <1>7 DEF StreamInv

\* A channel that was not asked for yet has no failed attempts.
LEMMA FreshTries ==
    ASSUME StreamTypeOK', tries' = 0
    PROVE  TriesInv'
<1>1. /\ supported' \subseteq Channel /\ rejections' \in [Channel -> 0..Transient]
  BY DEF StreamTypeOK, Channel
<1>2. \A channel \in supported' : 0 <= rejections'[channel]
  BY <1>1, TransientAssumption
<1> QED
  BY <1>2 DEF TriesInv

LEMMA FoundKeepsStreamInv == StreamInv /\ Found => StreamInv'
<1> SUFFICES ASSUME StreamInv, Found PROVE StreamInv'
  OBVIOUS
<1> USE DEF StreamInv
<1>1. /\ Running /\ Asked \in supported /\ ~upset
      /\ streams' = Add /\ next' = next + 1 /\ tries' = 0
      /\ UNCHANGED <<is_nvr, supported, upset, rejections, failed>>
  BY DEF Found, Advance
<1>2. FoundInv' /\ FallbackInv' /\ OrderInv'
  BY <1>1, AddKeeps
<1>3. StreamTypeOK'
  BY <1>1, AddTypes, RunningAsks DEF StreamTypeOK, PRIMARY_STREAM_DISCOVERY_ATTEMPTS
<1>4. CalmInv'
  BY <1>1 DEF CalmInv
<1>5. TriesInv'
  BY <1>1, <1>3, FreshTries
<1> QED
  BY <1>2, <1>3, <1>4, <1>5

LEMMA RejectedKeepsStreamInv == StreamInv /\ Rejected => StreamInv'
<1> SUFFICES ASSUME StreamInv, Rejected PROVE StreamInv'
  OBVIOUS
<1> USE DEF StreamInv
<1>1. /\ Running
      /\ UNCHANGED <<is_nvr, supported, failed>>
  BY DEF Rejected
<1>2. /\ next \in 1..(4 * Cameras + 1) /\ next + 1 \in 1..(4 * Cameras + 1)
      /\ Cameras \in Nat /\ Transient \in Nat
      /\ Asked \in Channel
      /\ Asked.type \in PRIMARY <=> IsRequired(next)
      /\ tries \in 0..2
  BY <1>1, RunningAsks, CamerasAssumption, TransientAssumption
     DEF StreamTypeOK, PRIMARY_STREAM_DISCOVERY_ATTEMPTS
<1>3. rejections' \in [Channel -> 0..Transient] /\ upset' \in BOOLEAN
  <2>1. CASE upset /\ UNCHANGED <<upset, rejections>>
    BY <2>1 DEF StreamTypeOK
  <2>2. CASE upset' = (upset \/ Asked.type \in OPTIONAL) /\ UNCHANGED rejections
    BY <2>2 DEF StreamTypeOK
  <2>3. CASE /\ rejections[Asked] < Transient
             /\ rejections' = [rejections EXCEPT ![Asked] = @ + 1]
             /\ UNCHANGED upset
    <3>1. rejections[Asked] + 1 \in 0..Transient
      BY <1>2, <2>3 DEF StreamTypeOK
    <3> QED
      BY <2>3, <3>1 DEF StreamTypeOK
  <2> QED
    BY <2>1, <2>2, <2>3 DEF Rejected
\* A required channel that the device has is rejected for no reason only.
<1>4. IsRequired(next) /\ Asked \in supported =>
        /\ tries <= rejections[Asked]
        /\ rejections[Asked] \in 0..Transient
        /\ rejections[Asked] < Transient
        /\ rejections'[Asked] = rejections[Asked] + 1
  <2> SUFFICES ASSUME IsRequired(next), Asked \in supported
               PROVE  /\ tries <= rejections[Asked]
                      /\ rejections[Asked] \in 0..Transient
                      /\ rejections[Asked] < Transient
                      /\ rejections'[Asked] = rejections[Asked] + 1
    OBVIOUS
  <2>1. ~upset /\ tries <= rejections[Asked]
    BY <1>1 DEF CalmInv, TriesInv
  <2>2. /\ rejections[Asked] < Transient
        /\ rejections' = [rejections EXCEPT ![Asked] = @ + 1]
    BY <2>1 DEF Rejected
  <2> QED
    BY <1>2, <2>1, <2>2 DEF StreamTypeOK
<1>5. IsRequired(next) => ~upset'
  <2> SUFFICES ASSUME IsRequired(next) PROVE ~upset'
    OBVIOUS
  <2>1. ~upset /\ ~(Asked.type \in OPTIONAL)
    BY <1>2 DEF CalmInv, PRIMARY, OPTIONAL
  <2> QED
    BY <2>1, Zenon DEF Rejected
<1>6. CASE tries + 1 < Attempts(Asked.type)
  <2>1. tries' = tries + 1 /\ UNCHANGED <<next, streams>>
    BY <1>6 DEF Rejected
  <2>2. tries' \in 0..2
    BY <1>2, <1>6, <2>1 DEF Attempts, PRIMARY_STREAM_DISCOVERY_ATTEMPTS
  <2>3. StreamTypeOK'
    BY <1>1, <1>3, <2>1, <2>2 DEF StreamTypeOK, PRIMARY_STREAM_DISCOVERY_ATTEMPTS
  <2>4. CalmInv'
    BY <1>5, <2>1 DEF CalmInv, IsRequired
  <2>5. TriesInv'
    <3>1. Asked' = Asked
      BY <2>1 DEF Asked, Plan, Pass
    <3> QED
      BY <1>1, <1>2, <1>4, <2>1, <3>1 DEF TriesInv, IsRequired
  <2>6. FoundInv' /\ FallbackInv' /\ OrderInv'
    BY <1>1, <2>1, StayKeeps
  <2> QED
    BY <2>3, <2>4, <2>5, <2>6
<1>7. CASE ~(tries + 1 < Attempts(Asked.type))
  <2>1. /\ next' = next + 1 /\ tries' = 0
        /\ streams' = IF Fallback(Asked.type) THEN Add ELSE streams
    BY <1>7 DEF Rejected, Advance
  <2>2. CalmInv'
    BY <1>2, <1>5, <2>1 DEF CalmInv, IsRequired
  <2>3. streams' \in [1..Cameras -> Seq(STREAM_TYPE)]
    BY <1>1, <2>1, AddTypes DEF StreamTypeOK
  <2>4. StreamTypeOK'
    BY <1>1, <1>2, <1>3, <2>1, <2>3 DEF StreamTypeOK, PRIMARY_STREAM_DISCOVERY_ATTEMPTS
  <2>5. TriesInv'
    BY <2>1, <2>4, FreshTries
  <2>6. CASE Fallback(Asked.type)
    <3>1. FoundInv' /\ FallbackInv' /\ OrderInv'
      BY <1>1, <2>1, <2>6, AddKeeps DEF Fallback
    <3> QED
      BY <2>2, <2>4, <2>5, <3>1
  <2>7. CASE ~Fallback(Asked.type)
    <3>1. Asked \in supported /\ Asked.type \in PRIMARY => Transient >= 3
      BY <1>2, <1>4, <1>7 DEF Attempts, PRIMARY_STREAM_DISCOVERY_ATTEMPTS
    <3>2. FoundInv' /\ FallbackInv' /\ OrderInv'
      BY <1>1, <2>1, <2>7, <3>1, SkipKeeps DEF PRIMARY_STREAM_DISCOVERY_ATTEMPTS
    <3> QED
      BY <2>2, <2>4, <2>5, <3>2
  <2> QED
    BY <2>6, <2>7
<1> QED
  BY <1>6, <1>7

LEMMA DiscoverStepKeepsStreamInv == StreamInv /\ [DiscoverStep]_streamVars => StreamInv'
<1> SUFFICES ASSUME StreamInv, [DiscoverStep]_streamVars PROVE StreamInv'
  OBVIOUS
<1>1. ASSUME UNCHANGED <<is_nvr, supported, rejections, next, tries, streams>>,
             upset' \in BOOLEAN, failed' \in BOOLEAN, upset' => upset, failed => failed'
      PROVE  StreamInv'
  <2>1. StreamTypeOK'
    BY <1>1 DEF StreamInv, StreamTypeOK
  <2>2. Asked' = Asked
    BY <1>1 DEF Asked, Plan, Pass
  <2>3. CalmInv'
    BY <1>1 DEF StreamInv, CalmInv, IsRequired
  <2>4. TriesInv'
    BY <1>1, <2>2 DEF StreamInv, TriesInv, IsRequired, Running, Plan, Pass
  <2>5. FoundInv' /\ FallbackInv' /\ OrderInv'
    BY <1>1, StayKeeps
  <2> QED
    BY <2>1, <2>3, <2>4, <2>5 DEF StreamInv
<1>2. CASE Found
  BY <1>2, FoundKeepsStreamInv
<1>3. CASE Rejected
  BY <1>3, RejectedKeepsStreamInv
<1>4. CASE CalmDown
  BY <1>1, <1>4 DEF CalmDown, StreamInv, StreamTypeOK
<1>5. CASE Lost
  BY <1>1, <1>5 DEF Lost, StreamInv, StreamTypeOK
<1>6. CASE UNCHANGED streamVars
  BY <1>1, <1>6 DEF streamVars, StreamInv, StreamTypeOK
<1> QED
  BY <1>2, <1>3, <1>4, <1>5, <1>6 DEF DiscoverStep

LEMMA StreamInvariance == DiscoverSpec => []StreamInv
BY StreamInitInv, DiscoverStepKeepsStreamInv, PTL DEF DiscoverSpec

\* At the end every channel was asked for.
LEMMA AllWereAsked ==
    ASSUME StreamTypeOK, Discovered
    PROVE  \A channel \in Channel : Position(channel) < next
<1>1. next \in Nat /\ next > Len(Plan) /\ Len(Plan) \in Nat
  BY PlanIsSeq DEF StreamTypeOK, Discovered
<1> QED
  BY <1>1, PlanIsComplete

--------------------------------------------------------------------------------
\* Type correctness, for any number of cameras and rejections.
THEOREM StreamsTypeCorrect == DiscoverSpec => []StreamTypeOK
<1>1. StreamInv => StreamTypeOK
  BY DEF StreamInv
<1> QED
  BY StreamInvariance, <1>1, PTL

\* For any number of cameras, a device that rejects each channel less often than the
\* client asks hides no required stream, however many optional ones it rejects
\* (discover_camera_streams).
THEOREM RequiredStreamsAreFound ==
    ASSUME Transient < PRIMARY_STREAM_DISCOVERY_ATTEMPTS
    PROVE  DiscoverSpec => []RequiredStreamsFound
<1>1. StreamInv => RequiredStreamsFound
  BY AllWereAsked DEF StreamInv, StreamTypeOK, FoundInv, RequiredStreamsFound
<1> QED
  BY StreamInvariance, <1>1, PTL

\* A recorder hides none, however often it rejects a channel (fallback_missing of
\* get_camera_streams).
THEOREM RecordersKeepRequiredStreams ==
    DiscoverSpec => [](is_nvr => RequiredStreamsFound)
<1>1. StreamInv => (is_nvr => RequiredStreamsFound)
  BY AllWereAsked DEF StreamInv, StreamTypeOK, FoundInv, RequiredStreamsFound
<1> QED
  BY StreamInvariance, <1>1, PTL

\* For any number of cameras and rejections, the required streams of a recorder are
\* assumed, and those of a camera never are.
THEOREM FallbackIsExact == DiscoverSpec => []FallbackIsForRecorders
<1>1. StreamInv => FallbackIsForRecorders
  <2> SUFFICES ASSUME StreamInv, Discovered, NEW camera \in 1..Cameras
               PROVE  /\ is_nvr => PRIMARY \subseteq Types(camera)
                      /\ ~is_nvr => \A type \in Types(camera) :
                            [camera |-> camera, type |-> type] \in supported
    BY DEF FallbackIsForRecorders
  <2>1. ASSUME is_nvr, NEW type \in PRIMARY
        PROVE  type \in Types(camera)
    <3> DEFINE channel == [camera |-> camera, type |-> type]
    <3>1. channel \in Channel /\ channel.type \in PRIMARY
      BY <2>1 DEF Channel, STREAM_TYPE
    <3>2. Position(channel) < next
      BY <3>1, AllWereAsked DEF StreamInv
    <3> QED
      BY <2>1, <3>1, <3>2 DEF StreamInv, FallbackInv
  <2> QED
    BY <2>1 DEF StreamInv, FallbackInv
<1> QED
  BY StreamInvariance, <1>1, PTL

\* For any number of cameras and rejections, the streams of a camera are listed in the
\* order of their types and none twice, found or assumed (camera.streams).
THEOREM StreamsStayInOrder == DiscoverSpec => []StreamsAreInOrder
<1>1. StreamInv => StreamsAreInOrder
  BY DEF StreamInv, OrderInv
<1> QED
  BY StreamInvariance, <1>1, PTL
================================================================================
