--------------------------- MODULE WebClientProofs ---------------------------
(***************************************************************************)
(* Proofs about WebClient, for any number of calls, channels, users,       *)
(* clicks, requests and events in flight, whatever fails or is lost: its   *)
(* types, that the phone rings for live calls only, that the header's      *)
(* spinner stops, that a tab at rest shows its channels as they are, and   *)
(* that it shows the live call that it is in.                              *)
(***************************************************************************)
EXTENDS WebClientProperties, SequenceTheorems, TLAPS

-----------------------------------------------------------------------------
(* The types, and what is known of a request in flight.                    *)

\* Only the header's create has no call, which its answer brings; nothing that
\* nobody waits for is answered.
Known(r) ==
    /\ r.kind # "create" => r.call \in Call
    /\ r.ok => r.call \in Call
    /\ r.kind = "create" => r.part \in {"header", "beacon"}
    /\ r.part = "header" => r.kind \in {"create", "join"}
    /\ r.part \in {"postSwitch", "toastSwitch"} => r.kind # "create"
    /\ r.kind = "get" => r.part \in {"mount", "widget"}
    /\ r.stage = "answered" => ~Forgotten(r)

KnownRequest == {r \in Request : Known(r)}

\* What participantJoined publishes names the channel of its call.
Rescue == {e \in UserJoinedPayload :
              "webhook" \in Faults /\ e.channel_id = ChannelOf[e.call_id]}

ServerTyped ==
    /\ phase \in [Call -> {"silent", "live", "over"}]
    /\ shown \in [Call -> SUBSET User]
    /\ rescues \subseteq Rescue

WireTyped ==
    /\ inbox \in Seq(Event)
    /\ online \in BOOLEAN
    /\ stale \subseteq Call

TabTyped ==
    /\ slice \in CallsPluginState
    /\ ui \in LocalState
    /\ http \in Seq(KnownRequest)

WebInvariant ==
    /\ ServerTyped
    /\ WireTyped
    /\ TabTyped
    /\ budget \in [clicks : 0..MaxClicks, moves : 0..MaxMoves]

\* The header waits for an answer.
HeaderWaits == \E i \in DOMAIN http : http[i].part = "header"

-----------------------------------------------------------------------------
(* Sequences.                                                              *)

\* The other elements stay when one is removed.
LEMMA RemoveAtSound ==
    ASSUME NEW S, NEW s \in Seq(S), NEW i \in DOMAIN s
    PROVE  /\ RemoveAt(s, i) \in Seq(S)
           /\ \A k \in DOMAIN s \ {i} :
                 \E j \in DOMAIN RemoveAt(s, i) : RemoveAt(s, i)[j] = s[k]
<1> DEFINE a == SubSeq(s, 1, i - 1)
           b == SubSeq(s, i + 1, Len(s))
<1>1. Len(s) \in Nat /\ DOMAIN s = 1..Len(s) /\ i \in 1..Len(s)
  BY LenProperties
<1>2. \A k \in 1..Len(s) : s[k] \in S
  BY ElementOfSeq
<1>3. /\ a \in Seq(S) /\ Len(a) = i - 1
      /\ \A j \in 1..(i - 1) : a[j] = s[j]
  <2>1. \A j \in 1..(i - 1) : s[j] \in S
    BY <1>1, <1>2
  <2>2. /\ a \in Seq(S)
        /\ Len(a) = IF 1 <= i - 1 THEN (i - 1) - 1 + 1 ELSE 0
        /\ \A j \in 1..((i - 1) - 1 + 1) : a[j] = s[1 + j - 1]
    <3>1. 1 \in Int /\ i - 1 \in Int
      BY <1>1
    <3> QED
      BY <2>1, <3>1, SubSeqProperties
  <2> HIDE DEF a
  <2> QED
    BY <1>1, <2>2
<1>4. /\ b \in Seq(S) /\ Len(b) = Len(s) - i
      /\ \A j \in 1..(Len(s) - i) : b[j] = s[i + j]
  <2>1. \A j \in (i + 1)..Len(s) : s[j] \in S
    BY <1>1, <1>2
  <2>2. /\ b \in Seq(S)
        /\ Len(b) = IF i + 1 <= Len(s) THEN Len(s) - (i + 1) + 1 ELSE 0
        /\ \A j \in 1..(Len(s) - (i + 1) + 1) : b[j] = s[i + 1 + j - 1]
    <3>1. i + 1 \in Int /\ Len(s) \in Int
      BY <1>1
    <3> QED
      BY <2>1, <3>1, SubSeqProperties
  <2> HIDE DEF b
  <2>3. ASSUME NEW j \in 1..(Len(s) - i) PROVE b[j] = s[i + j]
    <3>1. j \in 1..(Len(s) - (i + 1) + 1) /\ i + 1 + j - 1 = i + j
      BY <1>1
    <3> QED
      BY <2>2, <3>1
  <2>4. Len(b) = Len(s) - i
    BY <1>1, <2>2
  <2> QED
    BY <2>2, <2>3, <2>4
<1>5. RemoveAt(s, i) = a \o b
  BY DEF RemoveAt
<1> HIDE DEF a, b
<1>6. /\ RemoveAt(s, i) \in Seq(S)
      /\ Len(RemoveAt(s, i)) = Len(a) + Len(b)
      /\ \A j \in 1..(Len(a) + Len(b)) :
            RemoveAt(s, i)[j] = IF j <= Len(a) THEN a[j] ELSE b[j - Len(a)]
  BY <1>3, <1>4, <1>5, ConcatProperties
<1>7. DOMAIN RemoveAt(s, i) = 1..(Len(a) + Len(b))
  BY <1>6, LenProperties
<1>8. ASSUME NEW k \in DOMAIN s \ {i}
      PROVE  \E j \in DOMAIN RemoveAt(s, i) : RemoveAt(s, i)[j] = s[k]
  <2>1. CASE k < i
    <3>1. k \in DOMAIN RemoveAt(s, i) /\ k <= Len(a) /\ k \in 1..(i - 1)
      BY <1>1, <1>3, <1>4, <1>7, <1>8, <2>1
    <3> QED
      BY <1>3, <1>6, <1>7, <3>1
  <2>2. CASE k > i
    <3>1. k - 1 \in DOMAIN RemoveAt(s, i) /\ ~(k - 1 <= Len(a))
      BY <1>1, <1>3, <1>4, <1>7, <1>8, <2>2
    <3>2. RemoveAt(s, i)[k - 1] = b[k - 1 - Len(a)]
      BY <1>6, <1>7, <3>1
    <3>3. k - i \in 1..(Len(s) - i) /\ k - 1 - Len(a) = k - i /\ i + (k - i) = k
      BY <1>1, <1>3, <1>8, <2>2
    <3> QED
      BY <1>4, <3>1, <3>2, <3>3
  <2> QED
    BY <1>1, <1>8, <2>1, <2>2
<1> QED
  BY <1>6, <1>8

\* ... and when sequences are appended.
LEMMA ConcatSound ==
    ASSUME NEW S, NEW s \in Seq(S), NEW t \in Seq(S)
    PROVE  /\ s \o t \in Seq(S)
           /\ DOMAIN s \subseteq DOMAIN (s \o t)
           /\ \A i \in DOMAIN s : (s \o t)[i] = s[i]
           /\ \A i \in DOMAIN t : Len(s) + i \in DOMAIN (s \o t) /\ (s \o t)[Len(s) + i] = t[i]
           /\ \A i \in DOMAIN (s \o t) :
                 i \in DOMAIN s \/ \E j \in DOMAIN t : i = Len(s) + j
<1>1. /\ Len(s) \in Nat /\ DOMAIN s = 1..Len(s)
      /\ Len(t) \in Nat /\ DOMAIN t = 1..Len(t)
  BY LenProperties
<1>2. /\ s \o t \in Seq(S)
      /\ Len(s \o t) = Len(s) + Len(t)
      /\ \A i \in 1..(Len(s) + Len(t)) :
            (s \o t)[i] = IF i <= Len(s) THEN s[i] ELSE t[i - Len(s)]
  BY ConcatProperties
<1>3. DOMAIN (s \o t) = 1..(Len(s) + Len(t))
  BY <1>2, LenProperties
<1>4. ASSUME NEW i \in DOMAIN (s \o t), i \notin DOMAIN s
      PROVE  \E j \in DOMAIN t : i = Len(s) + j
  <2>1. i - Len(s) \in DOMAIN t /\ i = Len(s) + (i - Len(s))
    BY <1>1, <1>3, <1>4
  <2> QED
    BY <2>1
<1>5. ASSUME NEW i \in DOMAIN t
      PROVE  Len(s) + i \in DOMAIN (s \o t) /\ (s \o t)[Len(s) + i] = t[i]
  <2>1. /\ Len(s) + i \in 1..(Len(s) + Len(t))
        /\ ~(Len(s) + i <= Len(s)) /\ Len(s) + i - Len(s) = i
    BY <1>1, <1>5
  <2> QED
    BY <1>2, <1>3, <2>1
<1> QED
  BY <1>1, <1>2, <1>3, <1>4, <1>5

-----------------------------------------------------------------------------
(* The slice.  No reducer or handler but call_started makes the phone ring,  *)
(* and only the header's own dispatches touch callLoading.                   *)

\* A call that is put into the slice ...
LEMMA UpsertSound ==
    ASSUME NEW s \in CallsPluginState, NEW ch \in Channel, NEW c \in Call,
           NEW list \in SUBSET User
    PROVE  /\ upsertCall(s, ch, c, list) \in CallsPluginState
           /\ upsertCall(s, ch, c, list).incomingCall = s.incomingCall
           /\ upsertCall(s, ch, c, list).callLoading = s.callLoading
BY DEF upsertCall, ActiveCall, CallsPluginState

\* ... or removed from it ...
LEMMA RemoveSound ==
    ASSUME NEW s \in CallsPluginState, NEW ch \in Channel
    PROVE  /\ removeCall(s, ch) \in CallsPluginState
           /\ removeCall(s, ch).incomingCall = s.incomingCall
           /\ removeCall(s, ch).callLoading = s.callLoading
BY DEF removeCall, CallsPluginState

\* ... and the call that becomes this user's leave the rest alone.
LEMMA MineSound ==
    ASSUME NEW s \in CallsPluginState, NEW ch \in Channel, NEW c \in Call
    PROVE  /\ setMyActiveCall(s, ch, c) \in CallsPluginState
           /\ setMyActiveCall(s, ch, c).incomingCall = s.incomingCall
           /\ setMyActiveCall(s, ch, c).callLoading = s.callLoading
<1>1. NextToken(s) \in {0, 1}
  BY DEF NextToken, MyActiveCall, CallsPluginState
<1> QED
  BY <1>1 DEF setMyActiveCall, MyActiveCall, CallsPluginState

\* The phone rings for the call that is set.
LEMMA RingSound ==
    ASSUME NEW s \in CallsPluginState, NEW ch \in Channel, NEW c \in Call
    PROVE  /\ setIncomingCall(s, ch, c) \in CallsPluginState
           /\ setIncomingCall(s, ch, c).incomingCall.callId = c
           /\ setIncomingCall(s, ch, c).callLoading = s.callLoading
BY DEF setIncomingCall, IncomingCall, CallsPluginState

\* Leaving a call, and the end of a ring.
LEMMA ClearSound ==
    ASSUME NEW s \in CallsPluginState
    PROVE  /\ clearMyActiveCall(s) \in CallsPluginState
           /\ clearMyActiveCall(s).incomingCall = s.incomingCall
           /\ clearMyActiveCall(s).callLoading = s.callLoading
           /\ clearIncomingCall(s) \in CallsPluginState
           /\ clearIncomingCall(s).incomingCall = None
           /\ clearIncomingCall(s).callLoading = s.callLoading
BY DEF clearMyActiveCall, clearIncomingCall, CallsPluginState

\* The flags of the header and the global modals.
LEMMA FlagSound ==
    ASSUME NEW s \in CallsPluginState, NEW b \in BOOLEAN, NEW c \in Call \cup {None}
    PROVE  /\ setCallLoading(s, b) \in CallsPluginState
           /\ setCallLoading(s, b).incomingCall = s.incomingCall
           /\ setCallLoading(s, b).callLoading = b
           /\ setCallError(s, b) \in CallsPluginState
           /\ setCallError(s, b).incomingCall = s.incomingCall
           /\ setCallError(s, b).callLoading = s.callLoading
           /\ setPendingSwitchCallId(s, c) \in CallsPluginState
           /\ setPendingSwitchCallId(s, c).incomingCall = s.incomingCall
           /\ setPendingSwitchCallId(s, c).callLoading = s.callLoading
<1>1. /\ setCallLoading(s, b) \in CallsPluginState
      /\ setCallLoading(s, b).incomingCall = s.incomingCall
      /\ setCallLoading(s, b).callLoading = b
  BY DEF setCallLoading, CallsPluginState
<1>2. /\ setCallError(s, b) \in CallsPluginState
      /\ setCallError(s, b).incomingCall = s.incomingCall
      /\ setCallError(s, b).callLoading = s.callLoading
  BY DEF setCallError, CallsPluginState
<1>3. /\ setPendingSwitchCallId(s, c) \in CallsPluginState
      /\ setPendingSwitchCallId(s, c).incomingCall = s.incomingCall
      /\ setPendingSwitchCallId(s, c).callLoading = s.callLoading
  BY DEF setPendingSwitchCallId, CallsPluginState
<1> QED
  BY <1>1, <1>2, <1>3

\* An event keeps the slice's type, and callLoading.  After it, the phone rings
\* for a call only if it rang before and the event does not end it, or if the
\* event starts it.
LEMMA HandlerSound ==
    ASSUME NEW s \in CallsPluginState, NEW e \in Event
    PROVE  /\ HandleEvent(s, e) \in CallsPluginState
           /\ HandleEvent(s, e).callLoading = s.callLoading
           /\ \A c \in Call :
                 IsIncomingCall(HandleEvent(s, e), c) =>
                    \/ IsIncomingCall(s, c)
                       /\ ~(e.type = "call_ended" /\ e.call_id = c)
                    \/ e.type = "call_started" /\ e.call_id = c
<1> DEFINE Sound(t) ==
      /\ t \in CallsPluginState
      /\ t.callLoading = s.callLoading
      /\ \A c \in Call :
            IsIncomingCall(t, c) =>
               \/ IsIncomingCall(s, c) /\ ~(e.type = "call_ended" /\ e.call_id = c)
               \/ e.type = "call_started" /\ e.call_id = c
<1>1. CASE e \in CallStartedPayload
  <2>0. /\ e.type = "call_started" /\ e.call_id \in Call /\ e.channel_id \in Channel
        /\ e.participants \in SUBSET User
    BY <1>1 DEF CallStartedPayload
  <2>1. HandleEvent(s, e) = handleCallStarted(s, e)
    BY <1>1, <2>0 DEF HandleEvent, UserJoinedPayload, UserLeftPayload, CallEndedPayload,
       NotifDismissedPayload
  <2>2. PICK t : t = upsertCall(s, e.channel_id, e.call_id, e.participants)
    OBVIOUS
  <2>3. t \in CallsPluginState /\ t.callLoading = s.callLoading
        /\ t.incomingCall = s.incomingCall
    BY <2>0, <2>2, UpsertSound
  <2>4. HandleEvent(s, e) \in {t, setIncomingCall(t, e.channel_id, e.call_id)}
    BY <2>1, <2>2 DEF handleCallStarted
  <2>5. Sound(t)
    BY <2>0, <2>3 DEF IsIncomingCall
  <2>6. Sound(setIncomingCall(t, e.channel_id, e.call_id))
    BY <2>0, <2>3, RingSound DEF IsIncomingCall
  <2> QED
    BY <2>4, <2>5, <2>6
<1>2. ASSUME e.call_id \in Call, e.channel_id \in Channel, e.participants \in SUBSET User,
             e.type \notin {"call_started", "call_ended"}
      PROVE  Sound(WithParticipants(s, e))
  <2>1. \/ WithParticipants(s, e) = s
        \/ \E c \in Call : WithParticipants(s, e) = upsertCall(s, e.channel_id, c, e.participants)
    BY <1>2 DEF WithParticipants, selectCallByChannel, CallsPluginState, ActiveCall
  <2> QED
    BY <1>2, <2>1, UpsertSound DEF IsIncomingCall
<1>3. CASE e \in UserJoinedPayload
  <2>0. /\ e.type = "user_joined" /\ e.call_id \in Call /\ e.channel_id \in Channel
        /\ e.participants \in SUBSET User
    BY <1>3 DEF UserJoinedPayload
  <2>1. HandleEvent(s, e) = handleUserJoined(s, e)
    BY <1>3, <2>0 DEF HandleEvent, CallStartedPayload, UserLeftPayload, CallEndedPayload,
       NotifDismissedPayload
  <2> QED
    BY <1>2, <2>0, <2>1 DEF handleUserJoined
<1>4. CASE e \in UserLeftPayload
  <2>0. /\ e.type = "user_left" /\ e.call_id \in Call /\ e.channel_id \in Channel
        /\ e.participants \in SUBSET User
    BY <1>4 DEF UserLeftPayload
  <2>1. HandleEvent(s, e) = handleUserLeft(s, e)
    BY <1>4, <2>0 DEF HandleEvent, CallStartedPayload, UserJoinedPayload, CallEndedPayload,
       NotifDismissedPayload
  <2>2. PICK t : t = WithParticipants(s, e)
    OBVIOUS
  <2>3. Sound(t)
    BY <1>2, <2>0, <2>2
  <2>4. HandleEvent(s, e) \in {t, clearMyActiveCall(t)}
    BY <2>1, <2>2 DEF handleUserLeft
  <2> QED
    BY <2>0, <2>3, <2>4, ClearSound DEF IsIncomingCall
<1>5. CASE e \in CallEndedPayload
  <2>0. e.type = "call_ended" /\ e.call_id \in Call /\ e.channel_id \in Channel
    BY <1>5 DEF CallEndedPayload
  <2>1. HandleEvent(s, e) = handleCallEnded(s, e)
    BY <1>5, <2>0 DEF HandleEvent, CallStartedPayload, UserJoinedPayload, UserLeftPayload,
       NotifDismissedPayload
  <2>2. PICK t : t \in {s, removeCall(s, e.channel_id)}
                 /\ t = IF selectCallByChannel(s, e.channel_id) = None
                           \/ selectCallByChannel(s, e.channel_id).id = e.call_id
                        THEN removeCall(s, e.channel_id) ELSE s
    OBVIOUS
  <2>3. PICK v : v \in {t, clearMyActiveCall(t)}
                 /\ v = IF IsMyActiveCall(t, e.call_id) THEN clearMyActiveCall(t) ELSE t
    OBVIOUS
  <2>4. HandleEvent(s, e) = IF IsIncomingCall(v, e.call_id) THEN clearIncomingCall(v) ELSE v
    BY <2>1, <2>2, <2>3 DEF handleCallEnded
  <2>5. t \in CallsPluginState /\ t.callLoading = s.callLoading
        /\ t.incomingCall = s.incomingCall
    BY <2>0, <2>2, RemoveSound
  <2>6. v \in CallsPluginState /\ v.callLoading = s.callLoading
        /\ v.incomingCall = s.incomingCall
    BY <2>3, <2>5, ClearSound
  <2> QED
    BY <2>0, <2>4, <2>6, ClearSound DEF IsIncomingCall
<1>6. CASE e \in NotifDismissedPayload
  <2>0. e.type = "notification_dismissed" /\ e.call_id \in Call
    BY <1>6 DEF NotifDismissedPayload
  <2>1. HandleEvent(s, e) = handleNotifDismissed(s, e)
    BY <1>6, <2>0 DEF HandleEvent, CallStartedPayload, UserJoinedPayload, UserLeftPayload,
       CallEndedPayload
  <2>2. HandleEvent(s, e) \in {s, clearIncomingCall(s)}
    BY <2>1 DEF handleNotifDismissed
  <2> QED
    BY <2>0, <2>2, ClearSound DEF IsIncomingCall
<1> QED
  BY <1>1, <1>3, <1>4, <1>5, <1>6 DEF Event

-----------------------------------------------------------------------------
(* The server's answers and events.                                        *)

\* An answer on its way: the request stays well formed, and a request of the
\* header stays in flight, because the header waits for every answer.
LEMMA ReplySound ==
    ASSUME http \in Seq(KnownRequest), NEW i \in DOMAIN http, NEW ok \in BOOLEAN,
           NEW c \in Call \cup {None}, NEW list \in SUBSET User,
           ok \/ http[i].kind # "create" => c \in Call,
           Reply(i, ok, c, list)
    PROVE  http' \in Seq(KnownRequest) /\ (HeaderWaits => HeaderWaits')
<1>1. /\ DOMAIN http = 1..Len(http) /\ i \in 1..Len(http) /\ Len(http) \in Nat
      /\ http[i] \in Request /\ Known(http[i])
  BY LenProperties, ElementOfSeq DEF KnownRequest
<1>2. CASE Forgotten(http[i])
  <2>1. http' = RemoveAt(http, i)
    BY <1>2 DEF Reply
  <2>2. http[i].part # "header"
    BY <1>1, <1>2 DEF Forgotten, Known
  <2>3. /\ http' \in Seq(KnownRequest)
        /\ \A k \in DOMAIN http \ {i} : \E j \in DOMAIN http' : http'[j] = http[k]
    BY <2>1, RemoveAtSound
  <2> QED
    BY <2>2, <2>3 DEF HeaderWaits
<1>3. CASE ~Forgotten(http[i])
  <2> DEFINE a == Answered(http[i], ok, c, list)
  <2>1. a \in Request /\ a.part = http[i].part /\ a.kind = http[i].kind
        /\ a.call = c /\ a.ok = ok
    BY <1>1 DEF Answered, Request
  <2>2. a \in KnownRequest
    BY <1>1, <1>3, <2>1 DEF KnownRequest, Known, Forgotten
  <2>3. http' = [http EXCEPT ![i] = a]
    BY <1>3 DEF Reply, ReplaceAt
  <2> HIDE DEF a
  <2>4. /\ http' \in Seq(KnownRequest)
        /\ Len(http') = Len(http)
        /\ \A j \in 1..Len(http) : http'[j] = IF j = i THEN a ELSE http[j]
    BY <1>1, <2>2, <2>3, ExceptSeq
  <2>5. DOMAIN http' = DOMAIN http
    BY <1>1, <2>3
  <2> QED
    BY <1>1, <2>1, <2>4, <2>5 DEF HeaderWaits
<1> QED
  BY <1>2, <1>3

\* Events are appended to those on their way, or lost.
LEMMA PublishSound ==
    ASSUME WireTyped, NEW events \in Seq(Event), Publish(events)
    PROVE  /\ WireTyped'
           /\ online => inbox' = inbox \o events /\ stale' = stale
           /\ ~online => inbox' = inbox
                         /\ stale' = stale \cup {events[i].call_id : i \in DOMAIN events}
<1>1. \A i \in DOMAIN events : events[i].call_id \in Call
  <2>1. \A e \in Event : e.call_id \in Call
    BY DEF Event, CallStartedPayload, UserJoinedPayload, UserLeftPayload,
           CallEndedPayload, NotifDismissedPayload
  <2> QED
    BY <2>1, LenProperties, ElementOfSeq
<1>2. CASE online
  <2>1. inbox' = inbox \o events /\ stale' = stale /\ online' = online
    BY <1>2 DEF Publish
  <2>2. inbox \o events \in Seq(Event)
    BY ConcatProperties DEF WireTyped
  <2> QED
    BY <1>2, <2>1, <2>2 DEF WireTyped
<1>3. CASE ~online
  <2>1. /\ inbox' = inbox /\ online' = online
        /\ stale' = stale \cup {events[i].call_id : i \in DOMAIN events}
    BY <1>3 DEF Publish
  <2> QED
    BY <1>1, <1>3, <2>1 DEF WireTyped
<1> QED
  BY <1>2, <1>3

\* The events that the server publishes are of the types the tab accepts.
LEMMA EventTyped ==
    ASSUME WebAssumption, NEW c \in Call, NEW u \in User, NEW list \in SUBSET User
    PROVE  /\ StartedEvent(c, u) \in Event
           /\ ListEvent("user_joined", c, u, list) \in Event
           /\ ListEvent("user_left", c, u, list) \in Event
           /\ EndedEvent(c) \in Event
           /\ [type |-> "notification_dismissed", call_id |-> c, user_id |-> u] \in Event
<1>1. ChannelOf[c] \in Channel
  BY DEF WebAssumption
<1>2. StartedEvent(c, u) \in CallStartedPayload
  BY <1>1 DEF StartedEvent, CallStartedPayload
<1>3. ListEvent("user_joined", c, u, list) \in UserJoinedPayload
  BY <1>1 DEF ListEvent, UserJoinedPayload
<1>4. ListEvent("user_left", c, u, list) \in UserLeftPayload
  BY <1>1 DEF ListEvent, UserLeftPayload
<1>5. EndedEvent(c) \in CallEndedPayload
  BY <1>1 DEF EndedEvent, CallEndedPayload
<1>6. [type |-> "notification_dismissed", call_id |-> c, user_id |-> u]
         \in NotifDismissedPayload
  BY DEF NotifDismissedPayload
<1> QED
  BY <1>2, <1>3, <1>4, <1>5, <1>6 DEF Event

\* The event tells of the call, in its channel.
Tidings(e, c) ==
    e.type # "notification_dismissed" /\ e.call_id = c /\ e.channel_id = ChannelOf[c]

\* The call goes on after these events, and the last one has its participants,
\* unless participantJoined was faster; a call that they start is the only one of
\* its channel.
GoesOn(c, events) ==
    /\ phase'[c] = "live"
    /\ "webhook" \in Faults \/ events[Len(events)].participants = shown'[c]
    /\ \A i \in DOMAIN events : events[i].type # "call_ended"
    /\ \/ phase[c] = "live"
       \/ /\ phase[c] = "silent" /\ LiveIn(ChannelOf[c]) = {}
          /\ events[Len(events)].type = "call_started"

\* What a move on the server does: the events of one call, the last of which says
\* how the call is now.
Move(c, events) ==
    /\ events \in Seq(Event)
    /\ Publish(events)
    /\ \A d \in Call \ {c} : phase'[d] = phase[d] /\ shown'[d] = shown[d]
    /\ rescues' = rescues
    /\ events # <<>> /\ \A i \in DOMAIN events : Tidings(events[i], c)
    /\ \/ GoesOn(c, events)
       \/ phase[c] = "live" /\ phase'[c] = "over" /\ events[Len(events)] = Ended(c)

\* Starting a call is such a move, ...
LEMMA StartSound ==
    ASSUME ServerTyped, NEW c \in Call, NEW u \in User, Start(c, u)
    PROVE  ServerTyped' /\ \E events : Move(c, events)
<1>1. /\ phase[c] = "silent" /\ phase' = [phase EXCEPT ![c] = "live"]
      /\ shown' \in [Call -> SUBSET User] /\ shown'[c] = {u}
      /\ \A d \in Call \ {c} : shown'[d] = shown[d]
      /\ LiveIn(ChannelOf[c]) = {} /\ rescues' = rescues
  BY DEF Start, Feed!CallStarted, ServerTyped
<1>2. PICK e : e = StartedEvent(c, u)
  OBVIOUS
<1>3. /\ e \in Event /\ Tidings(e, c)
      /\ e.type = "call_started" /\ e.participants = {u}
  <2>1. {} \in SUBSET User
    OBVIOUS
  <2>2. StartedEvent(c, u) \in Event
    BY <2>1, WebAssumption, EventTyped
  <2> QED
    BY <1>2, <2>2 DEF StartedEvent, Tidings
<1>4. Publish(<<e>>)
  BY <1>2 DEF Start
<1>5. GoesOn(c, <<e>>)
  BY <1>1, <1>3 DEF GoesOn, ServerTyped
<1>6. Move(c, <<e>>)
  BY <1>1, <1>3, <1>4, <1>5 DEF Move, ServerTyped
<1> QED
  BY <1>1, <1>6 DEF ServerTyped

\* ... publishing a list, alone or after that of a participantJoined, ...
LEMMA ListSound ==
    ASSUME ServerTyped, NEW c \in Call, Live(c), NEW u \in User, NEW list \in SUBSET User,
           NEW type \in {"user_joined", "user_left"},
           PublishList(ListEvent(type, c, u, list)), UNCHANGED <<phase, rescues>>
    PROVE  ServerTyped' /\ \E events : Move(c, events)
<1>1. PICK e : e = ListEvent(type, c, u, list)
  OBVIOUS
<1>2. /\ e \in Event /\ Tidings(e, c)
      /\ e.type = type /\ e.participants = list /\ e.call_id = c
  BY <1>1, WebAssumption, EventTyped DEF ListEvent, Tidings
<1>3. ASSUME NEW l \in SUBSET User, shown' = [shown EXCEPT ![c] = l]
      PROVE  /\ ServerTyped' /\ shown'[c] = l /\ phase[c] = "live" /\ phase'[c] = "live"
             /\ \A d \in Call \ {c} : phase'[d] = phase[d] /\ shown'[d] = shown[d]
             /\ rescues' = rescues
  BY <1>3 DEF ServerTyped, Live
<1>4. CASE shown' = [shown EXCEPT ![c] = list] /\ Publish(<<e>>)
  <2>1. PICK events : events = <<e>>
    OBVIOUS
  <2>2. /\ events \in Seq(Event) /\ DOMAIN events = {1} /\ Len(events) = 1 /\ events[1] = e
        /\ events # <<>> /\ Publish(events)
    BY <1>2, <1>4, <2>1
  <2>3. \A i \in DOMAIN events : Tidings(events[i], c) /\ events[i].type # "call_ended"
    BY <1>2, <2>2
  <2>4. GoesOn(c, events)
    BY <1>2, <1>3, <1>4, <2>2, <2>3 DEF GoesOn
  <2>5. Move(c, events)
    BY <1>3, <1>4, <2>2, <2>3, <2>4 DEF Move
  <2> QED
    BY <1>3, <1>4, <2>5
<1>5. ASSUME "webhook" \in Faults, NEW v \in User, NEW l \in SUBSET User,
             shown' = [shown EXCEPT ![c] = l],
             Publish(<<ListEvent("user_joined", c, v, l), e>>)
      PROVE  ServerTyped' /\ \E events : Move(c, events)
  <2>1. PICK f : f = ListEvent("user_joined", c, v, l)
    OBVIOUS
  <2>2. f \in Event /\ Tidings(f, c) /\ f.type = "user_joined"
    BY <2>1, WebAssumption, EventTyped DEF ListEvent, Tidings
  <2>3. PICK events : events = <<f, e>>
    OBVIOUS
  <2>4. /\ events \in Seq(Event) /\ DOMAIN events = {1, 2} /\ events[1] = f /\ events[2] = e
        /\ events # <<>> /\ Publish(events)
    BY <1>2, <1>5, <2>1, <2>2, <2>3
  <2>5. \A i \in DOMAIN events : Tidings(events[i], c) /\ events[i].type # "call_ended"
    BY <1>2, <2>2, <2>4
  <2>6. GoesOn(c, events)
    BY <1>3, <1>5, <2>5 DEF GoesOn
  <2>7. Move(c, events)
    BY <1>3, <1>5, <2>4, <2>5, <2>6 DEF Move
  <2> QED
    BY <1>3, <1>5, <2>7
<1>6. \/ shown' = [shown EXCEPT ![c] = list] /\ Publish(<<e>>)
      \/ /\ "webhook" \in Faults
         /\ \E v \in User \ list :
              /\ shown' = [shown EXCEPT ![c] = list \cup {v}]
              /\ Publish(<<ListEvent("user_joined", c, v, list \cup {v}), e>>)
  BY <1>1, <1>2 DEF PublishList
<1>7. \A v \in User : list \cup {v} \in SUBSET User
  OBVIOUS
<1> QED
  BY <1>4, <1>5, <1>6, <1>7

\* ... as joining does, ...
LEMMA JoinSound ==
    ASSUME ServerTyped, NEW c \in Call, NEW u \in User, Join(c, u)
    PROVE  /\ ServerTyped' /\ shown[c] \cup {u} \in SUBSET User
           /\ \E events : Move(c, events)
<1>1. PICK list \in SUBSET User : list = shown[c] \cup {u}
  BY DEF ServerTyped
<1>2. Live(c) /\ PublishList(ListEvent("user_joined", c, u, list)) /\ UNCHANGED <<phase, rescues>>
  BY <1>1 DEF Join
<1>3. PICK type \in {"user_joined", "user_left"} : type = "user_joined"
  OBVIOUS
<1>4. PublishList(ListEvent(type, c, u, list))
  BY <1>2, <1>3
<1>5. ServerTyped' /\ \E events : Move(c, events)
  BY <1>2, <1>4, ListSound
<1> QED
  BY <1>1, <1>5

\* ... leaving a call, ...
LEMMA LeaveSound ==
    ASSUME ServerTyped, NEW c \in Call, NEW u \in User, Leave(c, u)
    PROVE  ServerTyped' /\ \E events : Move(c, events)
<1>1. PICK list \in SUBSET User : list = shown[c] \ {u}
  BY DEF ServerTyped
<1>2. PICK left : left = ListEvent("user_left", c, u, list)
  OBVIOUS
<1>3. /\ phase[c] = "live" /\ rescues' = rescues
      /\ \/ /\ phase' = [phase EXCEPT ![c] = "over"] /\ shown' = [shown EXCEPT ![c] = list]
            /\ Publish(<<left, EndedEvent(c)>>)
         \/ phase' = phase /\ PublishList(left)
  BY <1>1, <1>2 DEF Leave, Live
<1>4. CASE /\ phase' = [phase EXCEPT ![c] = "over"] /\ shown' = [shown EXCEPT ![c] = list]
           /\ Publish(<<left, EndedEvent(c)>>)
  <2>1. PICK end : end = EndedEvent(c)
    OBVIOUS
  <2>2. /\ left \in Event /\ Tidings(left, c)
        /\ end \in Event /\ Tidings(end, c) /\ end = Ended(c)
    BY <1>1, <1>2, <2>1, WebAssumption, EventTyped DEF ListEvent, EndedEvent, Ended, Tidings
  <2>3. /\ \A d \in Call \ {c} : phase'[d] = phase[d] /\ shown'[d] = shown[d]
        /\ phase'[c] = "over" /\ ServerTyped'
    BY <1>3, <1>4 DEF ServerTyped
  <2>4. Move(c, <<left, end>>)
    BY <1>3, <1>4, <2>1, <2>2, <2>3 DEF Move
  <2> QED
    BY <2>3, <2>4
<1>5. CASE phase' = phase /\ PublishList(left)
  <2>1. PICK type \in {"user_joined", "user_left"} : type = "user_left"
    OBVIOUS
  <2>2. PublishList(ListEvent(type, c, u, list)) /\ UNCHANGED <<phase, rescues>> /\ Live(c)
    BY <1>2, <1>3, <1>5, <2>1 DEF Live
  <2> QED
    BY <2>2, ListSound
<1> QED
  BY <1>3, <1>4, <1>5

\* ... and ending one.
LEMMA EndSound ==
    ASSUME ServerTyped, NEW c \in Call, End(c)
    PROVE  ServerTyped' /\ \E events : Move(c, events)
<1>1. /\ phase[c] = "live" /\ phase' = [phase EXCEPT ![c] = "over"] /\ shown' = shown
      /\ Publish(<<EndedEvent(c)>>) /\ rescues' = rescues
  BY DEF End, Feed!CallEnded
<1>2. EndedEvent(c) \in Event /\ EndedEvent(c) = Ended(c) /\ Tidings(Ended(c), c)
  <2>1. EndedEvent(c) \in CallEndedPayload
    BY WebAssumption DEF EndedEvent, CallEndedPayload, WebAssumption
  <2> QED
    BY <2>1 DEF EndedEvent, Ended, Event, Tidings
<1>3. Move(c, <<EndedEvent(c)>>)
  BY <1>1, <1>2 DEF Move, ServerTyped
<1> QED
  BY <1>1, <1>3 DEF ServerTyped

\* participantJoined adds a user to a live call, ...
Added(c) ==
    /\ "webhook" \in Faults
    /\ \A d \in Call \ {c} : shown'[d] = shown[d]
    /\ rescues \subseteq rescues' /\ \E e \in rescues' : e.call_id = c
    /\ UNCHANGED <<phase, wire, stale>>

LEMMA AddSound ==
    ASSUME ServerTyped, NEW c \in Call, NEW u \in User, ParticipantJoined(c, u)
    PROVE  ServerTyped' /\ Added(c)
<1>1. PICK list \in SUBSET User : list = shown[c] \cup {u}
  BY DEF ServerTyped
<1>2. PICK e : e = ListEvent("user_joined", c, u, list)
  OBVIOUS
<1>3. /\ "webhook" \in Faults /\ shown' = [shown EXCEPT ![c] = list]
      /\ rescues' = rescues \cup {e} /\ UNCHANGED <<phase, wire, stale>>
  BY <1>1, <1>2 DEF ParticipantJoined, ServerTyped
<1>4. e \in Rescue /\ e.call_id = c
  <2>1. ChannelOf[c] \in Channel
    BY WebAssumption DEF WebAssumption
  <2> QED
    BY <1>2, <1>3, <2>1 DEF ListEvent, UserJoinedPayload, Rescue
<1> QED
  BY <1>3, <1>4 DEF ServerTyped, Added

\* ... and publishes, whatever has happened meanwhile.
Rescued(e) ==
    /\ e \in rescues /\ rescues' = rescues \ {e}
    /\ Publish(<<e>>)
    /\ UNCHANGED <<phase, shown>>

-----------------------------------------------------------------------------
(* The requests of the components.                                         *)

\* Every request that a component sends is well formed.
LEMMA AskSound ==
    ASSUME NEW part \in Part, NEW kind \in {"create", "join", "leave", "dismiss", "get"},
           NEW c \in Call \cup {None}, NEW ch \in Channel,
           kind = "create" => part = "header",
           kind # "create" => c \in Call,
           part = "header" => kind \in {"create", "join"},
           part \in {"postSwitch", "toastSwitch"} => kind # "create",
           kind = "get" => part \in {"mount", "widget"}
    PROVE  Ask(part, kind, c, ch) \in KnownRequest /\ Ask(part, kind, c, ch).part = part
<1>1. Ask(part, kind, c, ch) \in Request
  BY DEF Ask, Request
<1>2. Known(Ask(part, kind, c, ch))
  BY DEF Ask, Known
<1> QED
  BY <1>1, <1>2 DEF KnownRequest, Ask

\* The leave of the call that this tab is in, if it is in one.
LEMMA LeaveMineSound ==
    ASSUME slice \in CallsPluginState, NEW from \in Part \ {"header"}
    PROVE  LeaveMine(from) \in Seq(KnownRequest)
<1>1. CASE slice.myActiveCall = None
  BY <1>1, EmptySeq DEF LeaveMine
<1>2. CASE slice.myActiveCall # None
  <2>1. slice.myActiveCall.callId \in Call /\ slice.myActiveCall.channelId \in Channel
    BY <1>2 DEF CallsPluginState, MyActiveCall
  <2>2. PICK r : r = Ask(from, "leave", slice.myActiveCall.callId,
                         slice.myActiveCall.channelId)
    OBVIOUS
  <2>3. r \in KnownRequest
    BY <2>1, <2>2, AskSound
  <2>4. LeaveMine(from) = <<r>>
    BY <1>2, <2>2 DEF LeaveMine
  <2> QED
    BY <2>3, <2>4
<1> QED
  BY <1>1, <1>2

\* The join of a component, alone or after the leave of a switch.
LEMMA JoinAsked ==
    ASSUME slice \in CallsPluginState, NEW part \in Part, NEW c \in Call,
           NEW from \in Part \ {"header"}
    PROVE  /\ AskJoin(part, c) \in KnownRequest /\ AskJoin(part, c).part = part
           /\ LeaveMine(from) \o <<AskJoin(part, c)>> \in Seq(KnownRequest)
<1>1. AskJoin(part, c) \in KnownRequest /\ AskJoin(part, c).part = part
  <2>1. ChannelOf[c] \in Channel
    BY WebAssumption DEF WebAssumption
  <2> QED
    BY <2>1, AskSound DEF AskJoin
<1>2. LeaveMine(from) \in Seq(KnownRequest)
  BY LeaveMineSound
<1>3. PICK r : r = AskJoin(part, c)
  OBVIOUS
<1>4. <<r>> \in Seq(KnownRequest)
  BY <1>1, <1>3
<1>5. LeaveMine(from) \o <<r>> \in Seq(KnownRequest)
  BY <1>2, <1>4, ConcatSound
<1> QED
  BY <1>1, <1>3, <1>5

\* Requests that are sent join those in flight.
LEMMA SendSound ==
    ASSUME http \in Seq(KnownRequest), NEW requests \in Seq(KnownRequest), Send(requests)
    PROVE  /\ http' \in Seq(KnownRequest)
           /\ HeaderWaits => HeaderWaits'
           /\ \A i \in DOMAIN requests : \E j \in DOMAIN http' : http'[j] = requests[i]
<1>1. http' = http \o requests
  BY DEF Send
<1>2. /\ http' \in Seq(KnownRequest)
      /\ DOMAIN http \subseteq DOMAIN http'
      /\ \A i \in DOMAIN http : http'[i] = http[i]
      /\ \A i \in DOMAIN requests : Len(http) + i \in DOMAIN http'
                                    /\ http'[Len(http) + i] = requests[i]
  BY <1>1, ConcatSound
<1> QED
  BY <1>2 DEF HeaderWaits

-----------------------------------------------------------------------------
(* The steps.                                                              *)

\* The server serves a request: a move on the server, or none, and an answer; or
\* it tells the other devices of this user that a ring was dismissed.
DismissedEvent(c) == [type |-> "notification_dismissed", call_id |-> c, user_id |-> me]

Unmoved == UNCHANGED <<server, wire, stale>>

ServerStep ==
    /\ ServerTyped'
    /\ \/ \E c \in Call : \E events : Move(c, events)
       \/ Unmoved
       \/ \E c \in Call : Added(c)
       \/ \E e \in Rescue : Rescued(e)
       \/ UNCHANGED server /\ \E c \in Call : Publish(<<DismissedEvent(c)>>)

LEMMA DismissedSound ==
    ASSUME NEW c \in Call
    PROVE  DismissedEvent(c) \in Event /\ DismissedEvent(c).type = "notification_dismissed"
<1>1. DismissedEvent(c) \in NotifDismissedPayload
  BY WebAssumption DEF DismissedEvent, NotifDismissedPayload, WebAssumption
<1> QED
  BY <1>1 DEF Event, DismissedEvent

\* The moves of others, and the rest of a participantJoined.
LEMMA OthersSound ==
    ASSUME WebInvariant, OthersMove \/ PublishRescue
    PROVE  ServerStep /\ UNCHANGED <<slice, ui, http>>
<1>0. ServerTyped
  BY DEF WebInvariant
<1>1. CASE OthersMove
  <2>1. PICK c \in Call :
          \/ End(c)
          \/ \E u \in User : Start(c, u) \/ Leave(c, u) \/ Join(c, u) \/ ParticipantJoined(c, u)
    BY <1>1 DEF OthersMove
  <2> QED
    BY <1>0, <1>1, <2>1, StartSound, LeaveSound, JoinSound, EndSound, AddSound
       DEF ServerStep, OthersMove
<1>2. CASE PublishRescue
  <2>1. /\ \E e \in rescues : Rescued(e)
        /\ UNCHANGED <<phase, shown, slice, ui, http>> /\ rescues' \subseteq rescues
    BY <1>2 DEF PublishRescue, Rescued
  <2> QED
    BY <1>0, <2>1 DEF ServerStep, ServerTyped
<1> QED
  BY <1>1, <1>2

LEMMA ServeSound ==
    ASSUME WebInvariant, Serve
    PROVE  ServerStep /\ http' \in Seq(KnownRequest) /\ (HeaderWaits => HeaderWaits')
<1>0. PICK i \in DOMAIN http :
        /\ http[i].stage = "sent"
        /\ CASE http[i].kind = "create" -> ServeCreate(i)
             [] http[i].kind = "join" -> ServeJoin(i)
             [] http[i].kind = "leave" -> ServeLeave(i)
             [] http[i].kind = "get" -> ServeGet(i)
             [] http[i].kind = "dismiss" -> ServeDismiss(i)
  BY DEF Serve
<1>1. /\ http \in Seq(KnownRequest) /\ ServerTyped
      /\ http[i] \in Request /\ Known(http[i]) /\ me \in User
  BY WebAssumption, LenProperties, ElementOfSeq
     DEF WebInvariant, TabTyped, KnownRequest, WebAssumption
<1>2. \/ http[i].kind = "create" /\ ServeCreate(i)
      \/ http[i].kind = "join" /\ ServeJoin(i)
      \/ http[i].kind = "leave" /\ ServeLeave(i)
      \/ http[i].kind = "get" /\ ServeGet(i)
      \/ http[i].kind = "dismiss" /\ ServeDismiss(i)
  BY <1>0, <1>1 DEF Request
<1>3. Unmoved => ServerStep
  BY <1>1 DEF Unmoved, ServerStep, ServerTyped, server
<1>4. ASSUME NEW ok \in BOOLEAN, NEW c \in Call, NEW list \in SUBSET User,
             Reply(i, ok, c, list)
      PROVE  http' \in Seq(KnownRequest) /\ (HeaderWaits => HeaderWaits')
  BY <1>1, <1>4, ReplySound
<1>5. CASE http[i].kind = "create" /\ ServeCreate(i)
  <2>1. ASSUME NEW c \in Call, Start(c, me), Reply(i, TRUE, c, {me})
        PROVE  ServerStep /\ http' \in Seq(KnownRequest) /\ (HeaderWaits => HeaderWaits')
    <3>1. {me} \in SUBSET User
      BY <1>1
    <3> QED
      BY <1>1, <1>4, <2>1, <3>1, StartSound DEF ServerStep
  <2>2. ASSUME Reply(i, FALSE, None, {}), Unmoved
        PROVE  ServerStep /\ http' \in Seq(KnownRequest) /\ (HeaderWaits => HeaderWaits')
    <3>1. CASE http[i].kind = "create"
      <4>1. /\ FALSE \in BOOLEAN /\ None \in Call \cup {None} /\ {} \in SUBSET User
            /\ (FALSE \/ http[i].kind # "create" => None \in Call)
        BY <3>1
      <4> QED
        BY <1>1, <1>3, <2>2, <4>1, ReplySound
    <3> QED
      BY <1>5, <3>1
  <2> QED
    BY <1>5, <2>1, <2>2 DEF ServeCreate, Unmoved
<1>6. PICK c : c = http[i].call
  OBVIOUS
<1>7. CASE http[i].kind = "join" /\ ServeJoin(i)
  <2>1. c \in Call
    BY <1>1, <1>6, <1>7 DEF Known
  <2>2. \/ Join(c, me) /\ Reply(i, TRUE, c, shown[c] \cup {me})
        \/ Reply(i, FALSE, c, {}) /\ Unmoved
    BY <1>6, <1>7 DEF ServeJoin, Unmoved
  <2>3. CASE Join(c, me) /\ Reply(i, TRUE, c, shown[c] \cup {me})
    <3>1. ServerStep /\ shown[c] \cup {me} \in SUBSET User
      BY <1>1, <2>1, <2>3, JoinSound DEF ServerStep
    <3>2. http' \in Seq(KnownRequest) /\ (HeaderWaits => HeaderWaits')
      BY <1>4, <2>1, <2>3, <3>1
    <3> QED
      BY <3>1, <3>2
  <2>4. CASE Reply(i, FALSE, c, {}) /\ Unmoved
    <3>1. {} \in SUBSET User /\ FALSE \in BOOLEAN
      OBVIOUS
    <3>2. http' \in Seq(KnownRequest) /\ (HeaderWaits => HeaderWaits')
      BY <1>4, <2>1, <2>4, <3>1
    <3> QED
      BY <1>3, <2>4, <3>2
  <2> QED
    BY <2>2, <2>3, <2>4
<1>8. CASE http[i].kind = "leave" /\ ServeLeave(i)
  <2>1. c \in Call
    BY <1>1, <1>6, <1>8 DEF Known
  <2>2. (Leave(c, me) \/ Unmoved) /\ Reply(i, FALSE, c, {})
    BY <1>6, <1>8 DEF ServeLeave, Unmoved
  <2>3. Leave(c, me) => ServerStep
    BY <1>1, <2>1, LeaveSound DEF ServerStep
  <2>4. {} \in SUBSET User /\ FALSE \in BOOLEAN
    OBVIOUS
  <2>5. http' \in Seq(KnownRequest) /\ (HeaderWaits => HeaderWaits')
    BY <1>4, <2>1, <2>2, <2>4
  <2> QED
    BY <1>3, <2>2, <2>3, <2>5
<1>9. CASE http[i].kind = "get" /\ ServeGet(i)
  <2>1. c \in Call
    BY <1>1, <1>6, <1>9 DEF Known
  <2>2. Reply(i, TRUE, c, shown[c]) /\ Unmoved
    BY <1>6, <1>9 DEF ServeGet, Unmoved
  <2>3. shown[c] \in SUBSET User
    BY <1>1, <2>1 DEF ServerTyped
  <2> QED
    BY <1>3, <1>4, <2>1, <2>2, <2>3
<1>10. CASE http[i].kind = "dismiss" /\ ServeDismiss(i)
  <2>1. c \in Call
    BY <1>1, <1>6, <1>10 DEF Known
  <2>2. Publish(<<DismissedEvent(c)>>) /\ Reply(i, TRUE, c, {}) /\ UNCHANGED server
    BY <1>6, <1>10 DEF ServeDismiss, DismissedEvent
  <2>3. ServerStep
    BY <1>1, <2>1, <2>2 DEF ServerStep, ServerTyped, server
  <2>4. {} \in SUBSET User /\ TRUE \in BOOLEAN
    OBVIOUS
  <2>5. http' \in Seq(KnownRequest) /\ (HeaderWaits => HeaderWaits')
    BY <1>4, <2>1, <2>2, <2>4
  <2> QED
    BY <2>3, <2>5
<1> QED
  BY <1>2, <1>5, <1>7, <1>8, <1>9, <1>10

\* An answer reaches the component that waits for it.
LEMMA AnswerSound ==
    ASSUME WebInvariant, DeliverAnswer
    PROVE  /\ TabTyped' /\ stale' \subseteq Call /\ \A c \in stale \ stale' : Live(c)
           /\ slice'.incomingCall \in {slice.incomingCall, None}
           /\ SpinnerStops => SpinnerStops'
<1>0. PICK i \in DOMAIN http :
        /\ http[i].stage = "answered" /\ http[i].part # "widget"
        /\ slice' = AnswerTo(slice, http[i])
        /\ ui' = UiAfter(http[i])
        /\ stale' = StaleAfter(http[i])
        /\ http' = RemoveAt(http, i)
  BY DEF DeliverAnswer
<1>1. PICK r : r = http[i]
  OBVIOUS
<1>2. /\ http \in Seq(KnownRequest) /\ slice \in CallsPluginState /\ ui \in LocalState
      /\ stale \subseteq Call
      /\ r \in Request /\ Known(r) /\ http[i] = r
  BY <1>1, LenProperties, ElementOfSeq DEF WebInvariant, TabTyped, WireTyped, KnownRequest
<1>3. /\ r.part \in Part \ {"widget", "beacon"} /\ r.participants \in SUBSET User
      /\ r.ok \in BOOLEAN /\ r.channel \in Channel
      /\ r.ok => r.call \in Call /\ ChannelOf[r.call] \in Channel
  BY <1>0, <1>2, WebAssumption DEF Known, Forgotten, Request, WebAssumption
<1> DEFINE Sound(t) == /\ t \in CallsPluginState
                       /\ t.incomingCall \in {slice.incomingCall, None}
                       /\ t.callLoading = slice.callLoading
<1>4. Sound(slice)
  BY <1>2
<1>5. ASSUME r.ok, NEW s \in CallsPluginState
      PROVE  LET m == setMyActiveCall(s, ChannelOf[r.call], r.call)
                 e == Enter(s, r)
                 u == upsertCall(s, ChannelOf[r.call], r.call, r.participants)
             IN  /\ m \in CallsPluginState /\ m.incomingCall = s.incomingCall
                 /\ m.callLoading = s.callLoading
                 /\ e \in CallsPluginState /\ e.incomingCall = s.incomingCall
                 /\ e.callLoading = s.callLoading
                 /\ u \in CallsPluginState /\ u.incomingCall = s.incomingCall
                 /\ u.callLoading = s.callLoading
  <2>1. PICK u : u = upsertCall(s, ChannelOf[r.call], r.call, r.participants)
    OBVIOUS
  <2>2. u \in CallsPluginState /\ u.incomingCall = s.incomingCall /\ u.callLoading = s.callLoading
    BY <1>3, <1>5, <2>1, UpsertSound
  <2>3. Enter(s, r) = setMyActiveCall(u, ChannelOf[r.call], r.call)
    BY <2>1 DEF Enter
  <2> QED
    BY <1>3, <1>5, <2>1, <2>2, <2>3, MineSound
<1>6. ASSUME r.part = "header"
      PROVE  /\ AnswerTo(slice, r) \in CallsPluginState
             /\ AnswerTo(slice, r).incomingCall = slice.incomingCall
             /\ ~AnswerTo(slice, r).callLoading
  <2>1. PICK t : t = setCallLoading(slice, FALSE)
    OBVIOUS
  <2>2. t \in CallsPluginState /\ t.incomingCall = slice.incomingCall /\ t.callLoading = FALSE
    <3>1. FALSE \in BOOLEAN /\ None \in Call \cup {None}
      OBVIOUS
    <3> QED
      BY <1>2, <2>1, <3>1, FlagSound
  <2>3. AnswerTo(slice, r) = IF r.ok THEN Enter(t, r) ELSE setCallError(t, TRUE)
    BY <1>6, <2>1 DEF AnswerTo, HeaderAnswer
  <2>4. /\ setCallError(t, TRUE) \in CallsPluginState
        /\ setCallError(t, TRUE).incomingCall = t.incomingCall
        /\ setCallError(t, TRUE).callLoading = t.callLoading
    <3>1. TRUE \in BOOLEAN /\ None \in Call \cup {None}
      OBVIOUS
    <3> QED
      BY <2>2, <3>1, FlagSound
  <2>5. /\ AnswerTo(slice, r) \in CallsPluginState
        /\ AnswerTo(slice, r).incomingCall = slice.incomingCall
        /\ ~AnswerTo(slice, r).callLoading
    BY <1>5, <2>2, <2>3, <2>4
  <2> QED
    BY <2>5
<1>7. ASSUME r.part # "header" PROVE Sound(AnswerTo(slice, r))
  <2>1. CASE r.part = "switch"
    <3>1. Sound(setCallError(slice, TRUE))
      <4>1. TRUE \in BOOLEAN /\ None \in Call \cup {None}
        OBVIOUS
      <4> QED
        BY <1>2, <4>1, FlagSound
    <3>2. AnswerTo(slice, r) = IF r.ok THEN Enter(slice, r) ELSE setCallError(slice, TRUE)
      BY <2>1 DEF AnswerTo, SwitchAnswer
    <3>3. r.ok => Sound(Enter(slice, r))
      BY <1>2, <1>5
    <3> QED
      BY <3>1, <3>2, <3>3
  <2>2. CASE r.part \in {"post", "postSwitch"}
    <3>1. AnswerTo(slice, r) = IF r.ok THEN Enter(slice, r) ELSE slice
      BY <2>2 DEF AnswerTo, PostAnswer
    <3> QED
      BY <1>2, <1>4, <1>5, <3>1
  <2>3. CASE r.part = "mount"
    <3>1. AnswerTo(slice, r) =
            IF r.ok THEN upsertCall(slice, ChannelOf[r.call], r.call, r.participants) ELSE slice
      BY <2>3 DEF AnswerTo, MountAnswer
    <3> QED
      BY <1>2, <1>4, <1>5, <3>1
  <2>4. CASE r.part \in {"toast", "toastSwitch"}
    <3>1. AnswerTo(slice, r) =
            IF r.ok THEN setMyActiveCall(slice, ChannelOf[r.call], r.call) ELSE slice
      BY <2>4 DEF AnswerTo, ToastAnswer
    <3> QED
      BY <1>2, <1>4, <1>5, <3>1
  <2>5. CASE r.part = "incoming"
    <3>1. PICK t : t = setMyActiveCall(slice, ChannelOf[r.call], r.call)
      OBVIOUS
    <3>2. AnswerTo(slice, r) = IF r.ok THEN clearIncomingCall(t) ELSE slice
      BY <2>5, <3>1 DEF AnswerTo, IncomingAnswer
    <3>3. r.ok => t \in CallsPluginState /\ t.callLoading = slice.callLoading
      BY <1>2, <1>5, <3>1
    <3>4. CASE r.ok
      <4>1. AnswerTo(slice, r) = clearIncomingCall(t)
        BY <3>2, <3>4
      <4>2. Sound(clearIncomingCall(t))
        BY <3>3, <3>4, ClearSound
      <4> QED
        BY <4>1, <4>2
    <3>5. CASE ~r.ok
      BY <1>4, <3>2, <3>5
    <3> QED
      BY <3>4, <3>5
  <2> QED
    BY <1>3, <1>7, <2>1, <2>2, <2>3, <2>4, <2>5 DEF Part
<1>8. UiAfter(r) \in LocalState
  <2>1. PICK error : error = (ui.postError \/ (r.part \in {"post", "postSwitch"} /\ ~r.ok))
    OBVIOUS
  <2>2. PICK posts : posts = IF r.part = "postSwitch"
                             THEN [ui.posts EXCEPT ![r.call].pending = None] ELSE ui.posts
    OBVIOUS
  <2>3. PICK toast : toast = [ui.toast EXCEPT !.pending = IF r.part = "toastSwitch" THEN None ELSE @]
    OBVIOUS
  <2>4. UiAfter(r) = [ui EXCEPT !.postError = error, !.posts = posts, !.toast = toast]
    BY <2>1, <2>2, <2>3 DEF UiAfter
  <2>5. error \in BOOLEAN
    BY <1>2, <2>1 DEF LocalState
  <2>6. posts \in [Call -> Modal]
    BY <1>2, <1>3, <2>2 DEF LocalState, Modal, Known
  <2>7. toast \in Modal
    BY <1>2, <2>3 DEF LocalState, Modal
  <2> QED
    BY <1>2, <2>4, <2>5, <2>6, <2>7 DEF LocalState
<1>9. stale' \subseteq Call /\ \A c \in stale \ stale' : Live(c)
  <2>1. \/ stale' \in {stale, stale \cup {r.call}} /\ (stale' # stale => r.ok)
        \/ stale' = stale \ {r.call} /\ Live(r.call)
    BY <1>0, <1>1 DEF StaleAfter, Overtaken
  <2> QED
    BY <1>2, <1>3, <2>1
<1>10. /\ http' \in Seq(KnownRequest)
       /\ \A k \in DOMAIN http \ {i} : \E j \in DOMAIN http' : http'[j] = http[k]
  BY <1>0, <1>2, RemoveAtSound
<1>11. /\ slice' \in CallsPluginState
       /\ slice'.incomingCall \in {slice.incomingCall, None}
       /\ slice'.callLoading => slice.callLoading /\ r.part # "header"
  BY <1>0, <1>1, <1>6, <1>7
<1>12. SpinnerStops => SpinnerStops'
  BY <1>1, <1>10, <1>11 DEF SpinnerStops
<1> QED
  BY <1>0, <1>1, <1>8, <1>9, <1>10, <1>11, <1>12 DEF TabTyped

\* What the user does in this tab.
UserStep ==
    /\ TabTyped'
    /\ slice'.incomingCall = slice.incomingCall
    /\ SpinnerStops => SpinnerStops'

\* A step that keeps what the spinner depends on, or starts a request of the header.
LEMMA SpinnerKept ==
    ASSUME slice'.callLoading = slice.callLoading, HeaderWaits => HeaderWaits'
    PROVE  SpinnerStops => SpinnerStops'
BY DEF SpinnerStops, HeaderWaits

\* A step that leaves the requests and the slice alone.
LEMMA UiOnly ==
    ASSUME TabTyped, ui' \in LocalState, UNCHANGED <<slice, http>>
    PROVE  UserStep
BY DEF UserStep, TabTyped, SpinnerStops

\* A step that sends requests and leaves the slice alone, but for the flags.
LEMMA SendOnly ==
    ASSUME TabTyped, ui' \in LocalState, NEW requests \in Seq(KnownRequest), Send(requests),
           slice' \in CallsPluginState, slice'.incomingCall = slice.incomingCall,
           slice'.callLoading = slice.callLoading
    PROVE  UserStep
<1>1. http' \in Seq(KnownRequest) /\ (HeaderWaits => HeaderWaits')
  BY SendSound DEF TabTyped
<1> QED
  BY <1>1, SpinnerKept DEF UserStep, TabTyped

\* The header.
LEMMA HeaderSound ==
    ASSUME WebInvariant, NEW ch \in Channel,
           HeaderStart(ch) \/ HeaderJoin(ch)
    PROVE  UserStep
<1>0. /\ TabTyped /\ slice \in CallsPluginState /\ ui \in LocalState
      /\ http \in Seq(KnownRequest)
  BY DEF WebInvariant, TabTyped
<1>1. ASSUME NEW r \in KnownRequest, r.part = "header", Send(<<r>>), UNCHANGED ui,
             slice' = setCallLoading(slice, TRUE)
      PROVE  UserStep
  <2>1. <<r>> \in Seq(KnownRequest) /\ 1 \in DOMAIN <<r>> /\ <<r>>[1] = r
    BY <1>1
  <2>2. /\ http' \in Seq(KnownRequest)
        /\ \E j \in DOMAIN http' : http'[j] = r
    BY <1>0, <1>1, <2>1, SendSound
  <2>3. slice' \in CallsPluginState /\ slice'.incomingCall = slice.incomingCall
    <3>1. TRUE \in BOOLEAN /\ None \in Call \cup {None}
      OBVIOUS
    <3> QED
      BY <1>0, <1>1, <3>1, FlagSound
  <2> QED
    BY <1>0, <1>1, <2>2, <2>3 DEF UserStep, TabTyped, SpinnerStops
<1>2. CASE HeaderStart(ch)
  <2>1. PICK r : r = Ask("header", "create", None, ch)
    OBVIOUS
  <2>2. r \in KnownRequest /\ r.part = "header"
    <3>1. "header" \in Part /\ "create" \in {"create", "join", "leave", "dismiss", "get"}
          /\ None \in Call \cup {None}
      BY DEF Part
    <3> QED
      BY <2>1, <3>1, AskSound
  <2> QED
    BY <1>1, <1>2, <2>1, <2>2 DEF HeaderStart
<1>3. CASE HeaderJoin(ch)
  <2>1. PICK call : call = selectCallByChannel(slice, ch)
    OBVIOUS
  <2>2. /\ call # None /\ UNCHANGED ui
        /\ \/ slice' = setPendingSwitchCallId(slice, call.id) /\ UNCHANGED http
           \/ slice' = setCallLoading(slice, TRUE) /\ Send(<<AskJoin("header", call.id)>>)
    BY <1>3, <2>1 DEF HeaderJoin
  <2>3. call.id \in Call
    BY <1>0, <2>1, <2>2 DEF selectCallByChannel, CallsPluginState, ActiveCall
  <2>4. CASE slice' = setPendingSwitchCallId(slice, call.id) /\ UNCHANGED http
    <3>1. TRUE \in BOOLEAN /\ call.id \in Call \cup {None}
      BY <2>3
    <3>2. /\ slice' \in CallsPluginState /\ slice'.incomingCall = slice.incomingCall
          /\ slice'.callLoading = slice.callLoading
      BY <1>0, <2>4, <3>1, FlagSound
    <3> QED
      BY <1>0, <2>2, <2>4, <3>2 DEF UserStep, TabTyped, SpinnerStops
  <2>5. CASE slice' = setCallLoading(slice, TRUE) /\ Send(<<AskJoin("header", call.id)>>)
    <3>1. PICK r : r = AskJoin("header", call.id)
      OBVIOUS
    <3>2. r \in KnownRequest /\ r.part = "header"
      <4>1. "header" \in Part /\ "switch" \in Part \ {"header"}
        BY DEF Part
      <4> QED
        BY <1>0, <2>3, <3>1, <4>1, JoinAsked
    <3> QED
      BY <1>1, <2>2, <2>5, <3>1, <3>2
  <2> QED
    BY <2>2, <2>4, <2>5
<1> QED
  BY <1>2, <1>3

\* The modals of CallActionsRoot.
LEMMA GlobalModalSound ==
    ASSUME WebInvariant, SwitchConfirm \/ CloseGlobalModal
    PROVE  UserStep
<1>0. /\ TabTyped /\ slice \in CallsPluginState /\ ui \in LocalState
      /\ http \in Seq(KnownRequest)
  BY DEF WebInvariant, TabTyped
<1>1. /\ setPendingSwitchCallId(slice, None) \in CallsPluginState
      /\ setPendingSwitchCallId(slice, None).incomingCall = slice.incomingCall
      /\ setPendingSwitchCallId(slice, None).callLoading = slice.callLoading
      /\ setCallError(slice, FALSE) \in CallsPluginState
      /\ setCallError(slice, FALSE).incomingCall = slice.incomingCall
      /\ setCallError(slice, FALSE).callLoading = slice.callLoading
  <2>1. FALSE \in BOOLEAN /\ None \in Call \cup {None}
    OBVIOUS
  <2> QED
    BY <1>0, <2>1, FlagSound
<1>2. CASE SwitchConfirm
  <2>1. PICK c : c = slice.pendingSwitchCallId
    OBVIOUS
  <2>2. c \in Call /\ UNCHANGED ui /\ slice' = setPendingSwitchCallId(slice, None)
        /\ Send(LeaveMine("switch") \o <<AskJoin("switch", c)>>)
    BY <1>0, <1>2, <2>1 DEF SwitchConfirm, CallsPluginState
  <2>3. LeaveMine("switch") \o <<AskJoin("switch", c)>> \in Seq(KnownRequest)
    <3>1. "switch" \in Part /\ "switch" \in Part \ {"header"}
      BY DEF Part
    <3> QED
      BY <1>0, <2>2, <3>1, JoinAsked
  <2> QED
    BY <1>0, <1>1, <2>2, <2>3, SendOnly
<1>3. CASE CloseGlobalModal
  <2>1. slice' \in {setPendingSwitchCallId(slice, None), setCallError(slice, FALSE)}
        /\ UNCHANGED <<ui, http>>
    BY <1>3 DEF CloseGlobalModal
  <2> QED
    BY <1>0, <1>1, <2>1 DEF UserStep, TabTyped, SpinnerStops
<1> QED
  BY <1>2, <1>3

\* The switch modal of a post.
LEMMA ModalTyped ==
    ASSUME ui \in LocalState, NEW c \in Call, NEW m \in Modal
    PROVE  /\ [ui EXCEPT !.posts[c] = m] \in LocalState
           /\ [ui EXCEPT !.posts[c] = m, !.postError = FALSE] \in LocalState
           /\ [ui EXCEPT !.posts[c].visible = FALSE] \in LocalState
<1>1. ui.posts \in [Call -> Modal]
  BY DEF LocalState
<1>2. ASSUME NEW n \in Modal
      PROVE  /\ [ui EXCEPT !.posts[c] = n] \in LocalState
             /\ [ui EXCEPT !.posts[c] = n, !.postError = FALSE] \in LocalState
  <2>1. PICK p : p = [ui.posts EXCEPT ![c] = n]
    OBVIOUS
  <2>2. p \in [Call -> Modal]
    BY <1>1, <2>1
  <2>3. /\ [ui EXCEPT !.posts[c] = n] = [ui EXCEPT !.posts = p]
        /\ [ui EXCEPT !.posts[c] = n, !.postError = FALSE]
              = [ui EXCEPT !.posts = p, !.postError = FALSE]
    BY <2>1
  <2>4. /\ [ui EXCEPT !.posts = p] \in LocalState
        /\ [ui EXCEPT !.posts = p, !.postError = FALSE] \in LocalState
    BY <2>2 DEF LocalState
  <2> QED
    BY <2>3, <2>4
<1>3. [ui EXCEPT !.posts[c].visible = FALSE] \in LocalState
  <2>1. PICK n : n = [ui.posts[c] EXCEPT !.visible = FALSE]
    OBVIOUS
  <2>2. n \in Modal
    BY <1>1, <2>1 DEF Modal
  <2>3. [ui EXCEPT !.posts[c].visible = FALSE] = [ui EXCEPT !.posts[c] = n]
    BY <2>1
  <2> QED
    BY <1>2, <2>2, <2>3
<1> QED
  BY <1>2, <1>3

\* The post of a call.
LEMMA PostSound ==
    ASSUME WebInvariant, NEW c \in Call,
           PostMount(c) \/ PostJoin(c) \/ PostConfirm(c) \/ PostClose(c)
    PROVE  UserStep
<1>0. /\ TabTyped /\ slice \in CallsPluginState /\ ui \in LocalState
      /\ http \in Seq(KnownRequest) /\ ChannelOf[c] \in Channel
  BY WebAssumption DEF WebInvariant, TabTyped, WebAssumption
<1>1. /\ {"mount", "post", "postSwitch"} \subseteq Part
      /\ "post" \in Part \ {"header"}
  BY DEF Part
<1>2. CASE PostMount(c)
  <2>1. PICK r : r = Ask("mount", "get", c, ChannelOf[c])
    OBVIOUS
  <2>2. r \in KnownRequest
    BY <1>0, <1>1, <2>1, AskSound
  <2>3. Send(<<r>>) /\ UNCHANGED slice
        /\ ui' = [ui EXCEPT !.posts[c] = Closed, !.postError = FALSE]
    BY <1>2, <2>1 DEF PostMount
  <2>4. ui' \in LocalState
    <3>1. Closed \in Modal
      BY DEF Closed, Modal
    <3> QED
      BY <1>0, <2>3, <3>1, ModalTyped
  <2>5. <<r>> \in Seq(KnownRequest) /\ slice' = slice
    BY <2>2, <2>3
  <2> QED
    BY <1>0, <2>3, <2>4, <2>5, SendOnly
<1>3. CASE PostJoin(c)
  <2>1. CASE ui' = [ui EXCEPT !.posts[c] = [visible |-> TRUE, pending |-> c]]
             /\ UNCHANGED <<slice, http>>
    <3>1. ui' \in LocalState
      <4>1. [visible |-> TRUE, pending |-> c] \in Modal
        BY DEF Modal
      <4> QED
        BY <1>0, <2>1, <4>1, ModalTyped
    <3> QED
      BY <1>0, <2>1, <3>1, UiOnly
  <2>2. CASE Send(<<AskJoin("post", c)>>) /\ UNCHANGED <<slice, ui>>
    <3>1. PICK r : r = AskJoin("post", c)
      OBVIOUS
    <3>2. r \in KnownRequest
      BY <1>0, <1>1, <3>1, JoinAsked
    <3>3. <<r>> \in Seq(KnownRequest) /\ slice' = slice /\ ui' = ui /\ Send(<<r>>)
      BY <2>2, <3>1, <3>2
    <3> QED
      BY <1>0, <3>3, SendOnly
  <2> QED
    BY <1>3, <2>1, <2>2 DEF PostJoin
<1>4. CASE PostConfirm(c)
  <2>1. ui' \in LocalState /\ UNCHANGED slice
    <3>1. Closed \in Modal
      BY DEF Closed, Modal
    <3> QED
      BY <1>0, <1>4, <3>1, ModalTyped DEF PostConfirm
  <2>2. CASE UNCHANGED http
    BY <1>0, <2>1, <2>2, UiOnly
  <2>3. CASE Send(LeaveMine("post") \o <<AskJoin("postSwitch", c)>>)
    <3>1. LeaveMine("post") \o <<AskJoin("postSwitch", c)>> \in Seq(KnownRequest)
      BY <1>0, <1>1, JoinAsked
    <3> QED
      BY <1>0, <2>1, <2>3, <3>1, SendOnly
  <2> QED
    BY <1>4, <2>2, <2>3 DEF PostConfirm
<1>5. CASE PostClose(c)
  <2>1. ui' \in {[ui EXCEPT !.posts[c] = Closed], [ui EXCEPT !.postError = FALSE]}
        /\ UNCHANGED <<slice, http>>
    BY <1>5 DEF PostClose
  <2>2. ui' \in LocalState
    <3>1. Closed \in Modal
      BY DEF Closed, Modal
    <3>2. [ui EXCEPT !.posts[c] = Closed] \in LocalState
      BY <1>0, <3>1, ModalTyped
    <3>3. [ui EXCEPT !.postError = FALSE] \in LocalState
      BY <1>0 DEF LocalState
    <3> QED
      BY <2>1, <3>2, <3>3
  <2> QED
    BY <1>0, <2>1, <2>2, UiOnly
<1> QED
  BY <1>2, <1>3, <1>4, <1>5

\* The toast.
LEMMA ToastSound ==
    ASSUME WebInvariant, NEW ch \in Channel,
           ToastJoin(ch) \/ ToastConfirm(ch) \/ ToastClose(ch)
    PROVE  UserStep
<1>0. /\ TabTyped /\ slice \in CallsPluginState /\ ui \in LocalState
      /\ http \in Seq(KnownRequest)
  BY DEF WebInvariant, TabTyped
<1>1. /\ {"toast", "toastSwitch"} \subseteq Part /\ "toast" \in Part \ {"header"}
  BY DEF Part
<1>2. CASE ToastJoin(ch)
  <2>1. PICK c : c = selectCallByChannel(slice, ch).id
    OBVIOUS
  <2>2. /\ c \in Call /\ slice' = slice
        /\ \/ ui' = [ui EXCEPT !.toast = [visible |-> TRUE, pending |-> c]] /\ http' = http
           \/ Send(<<AskJoin("toast", c)>>) /\ ui' = ui
    BY <1>0, <1>2, <2>1
       DEF ToastJoin, ToastVisible, selectCallByChannel, CallsPluginState, ActiveCall
  <2>3. CASE ui' = [ui EXCEPT !.toast = [visible |-> TRUE, pending |-> c]] /\ http' = http
    <3>1. ui' \in LocalState
      BY <1>0, <2>2, <2>3 DEF LocalState, Modal
    <3> QED
      BY <1>0, <2>2, <2>3, <3>1, UiOnly
  <2>4. CASE Send(<<AskJoin("toast", c)>>) /\ ui' = ui
    <3>1. PICK r : r = AskJoin("toast", c)
      OBVIOUS
    <3>2. r \in KnownRequest
      BY <1>0, <1>1, <2>2, <3>1, JoinAsked
    <3>3. <<r>> \in Seq(KnownRequest) /\ Send(<<r>>)
      BY <2>4, <3>1, <3>2
    <3> QED
      BY <1>0, <2>2, <2>4, <3>3, SendOnly
  <2> QED
    BY <2>2, <2>3, <2>4
<1>3. CASE ToastConfirm(ch)
  <2>1. PICK c : c = ui.toast.pending
    OBVIOUS
  <2>2. /\ c \in Call \cup {None} /\ slice' = slice
        /\ ui' = [ui EXCEPT !.toast.visible = FALSE]
        /\ \/ http' = http
           \/ c # None /\ Send(LeaveMine("toast") \o <<AskJoin("toastSwitch", c)>>)
    BY <1>0, <1>3, <2>1 DEF ToastConfirm, LocalState, Modal
  <2>3. ui' \in LocalState
    BY <1>0, <2>2 DEF LocalState, Modal
  <2>4. CASE http' = http
    BY <1>0, <2>2, <2>3, <2>4, UiOnly
  <2>5. CASE c # None /\ Send(LeaveMine("toast") \o <<AskJoin("toastSwitch", c)>>)
    <3>1. LeaveMine("toast") \o <<AskJoin("toastSwitch", c)>> \in Seq(KnownRequest)
      BY <1>0, <1>1, <2>2, <2>5, JoinAsked
    <3> QED
      BY <1>0, <2>2, <2>3, <2>5, <3>1, SendOnly
  <2> QED
    BY <2>2, <2>4, <2>5
<1>4. CASE ToastClose(ch)
  <2>1. ui' \in {[ui EXCEPT !.toast = Closed], [ui EXCEPT !.dismissed = TRUE]}
        /\ UNCHANGED <<slice, http>>
    BY <1>4 DEF ToastClose
  <2>2. ui' \in LocalState
    <3>1. Closed \in Modal
      BY DEF Closed, Modal
    <3>2. [ui EXCEPT !.toast = Closed] \in LocalState
      BY <1>0, <3>1 DEF LocalState
    <3>3. [ui EXCEPT !.dismissed = TRUE] \in LocalState
      BY <1>0 DEF LocalState
    <3> QED
      BY <2>1, <3>2, <3>3
  <2> QED
    BY <1>0, <2>1, <2>2, UiOnly
<1> QED
  BY <1>2, <1>3, <1>4

\* The notification.
LEMMA IncomingSound ==
    ASSUME WebInvariant,
           IncomingIgnore \/ IncomingJoin \/ IncomingConfirm \/ IncomingCancel
    PROVE  UserStep
<1>0. /\ TabTyped /\ slice \in CallsPluginState /\ ui \in LocalState
      /\ http \in Seq(KnownRequest)
  BY DEF WebInvariant, TabTyped
<1>1. "incoming" \in Part /\ "incoming" \in Part \ {"header"}
  BY DEF Part
<1>2. PICK c, ch : c = slice.incomingCall.callId /\ ch = slice.incomingCall.channelId
  OBVIOUS
<1>3. Ringing => c \in Call /\ ch \in Channel
  BY <1>0, <1>2 DEF Ringing, CallsPluginState, IncomingCall
<1>4. CASE IncomingIgnore
  <2>1. PICK r : r = Ask("incoming", "dismiss", c, ch)
    OBVIOUS
  <2>2. Ringing /\ Send(<<r>>) /\ slice' = slice /\ ui' = ui
    BY <1>2, <1>4, <2>1 DEF IncomingIgnore
  <2>3. r \in KnownRequest
    BY <1>1, <1>3, <2>1, <2>2, AskSound
  <2>4. <<r>> \in Seq(KnownRequest)
    BY <2>3
  <2> QED
    BY <1>0, <2>2, <2>4, SendOnly
<1>5. CASE IncomingJoin
  <2>1. /\ Ringing /\ slice' = slice
        /\ \/ ui' = [ui EXCEPT !.incoming = TRUE] /\ http' = http
           \/ Send(<<AskJoin("incoming", c)>>) /\ ui' = ui
    BY <1>2, <1>5 DEF IncomingJoin
  <2>2. CASE ui' = [ui EXCEPT !.incoming = TRUE] /\ http' = http
    <3>1. ui' \in LocalState
      BY <1>0, <2>2 DEF LocalState
    <3> QED
      BY <1>0, <2>1, <2>2, <3>1, UiOnly
  <2>3. CASE Send(<<AskJoin("incoming", c)>>) /\ ui' = ui
    <3>1. PICK r : r = AskJoin("incoming", c)
      OBVIOUS
    <3>2. r \in KnownRequest
      BY <1>0, <1>1, <1>3, <2>1, <3>1, JoinAsked
    <3>3. <<r>> \in Seq(KnownRequest) /\ Send(<<r>>)
      BY <2>3, <3>1, <3>2
    <3> QED
      BY <1>0, <2>1, <2>3, <3>3, SendOnly
  <2> QED
    BY <2>1, <2>2, <2>3
<1>6. CASE IncomingConfirm
  <2>1. /\ Ringing /\ slice' = slice /\ ui' = [ui EXCEPT !.incoming = FALSE]
        /\ Send(LeaveMine("incoming") \o <<AskJoin("incoming", c)>>)
    BY <1>2, <1>6 DEF IncomingConfirm
  <2>2. ui' \in LocalState
    BY <1>0, <2>1 DEF LocalState
  <2>3. LeaveMine("incoming") \o <<AskJoin("incoming", c)>> \in Seq(KnownRequest)
    BY <1>0, <1>1, <1>3, <2>1, JoinAsked
  <2> QED
    BY <1>0, <2>1, <2>2, <2>3, SendOnly
<1>7. CASE IncomingCancel
  <2>1. ui' = [ui EXCEPT !.incoming = FALSE] /\ UNCHANGED <<slice, http>>
    BY <1>7 DEF IncomingCancel
  <2>2. ui' \in LocalState
    BY <1>0, <2>1 DEF LocalState
  <2> QED
    BY <1>0, <2>1, <2>2, UiOnly
<1> QED
  BY <1>4, <1>5, <1>6, <1>7

\* All clicks of the user.
LEMMA UserSound ==
    ASSUME WebInvariant, UserClicks
    PROVE  UserStep /\ UNCHANGED <<server, wire, stale>>
           /\ budget' \in [clicks : 0..MaxClicks, moves : 0..MaxMoves]
<1>1. UserStep
  BY HeaderSound, GlobalModalSound, PostSound, ToastSound, IncomingSound DEF UserClicks
<1>2. Click
  BY DEF UserClicks, HeaderStart, HeaderJoin, SwitchConfirm, CloseGlobalModal, PostMount,
     PostJoin, PostConfirm, PostClose, ToastJoin, ToastConfirm, ToastClose,
     IncomingIgnore, IncomingJoin, IncomingConfirm, IncomingCancel
<1>3. budget' \in [clicks : 0..MaxClicks, moves : 0..MaxMoves]
  BY <1>2, WebAssumption DEF Click, WebInvariant, WebAssumption
<1> QED
  BY <1>1, <1>2, <1>3 DEF Click

-----------------------------------------------------------------------------
(* Why the phone rings.                                                    *)

Starts(e, c) == e.type = "call_started" /\ e.call_id = c

\* call_started is on its way to the tab only while the call goes on, or before
\* its call_ended.
Tells(c) ==
    \A i \in DOMAIN inbox :
        Starts(inbox[i], c) =>
            Live(c) \/ \E j \in DOMAIN inbox : i <= j /\ inbox[j] = Ended(c)

RingTells(c) ==
    c \notin stale /\ IsIncomingCall(slice, c) =>
        Live(c) \/ \E i \in DOMAIN inbox : inbox[i] = Ended(c)

RingInvariant ==
    /\ WebInvariant
    /\ ~online => inbox = <<>>
    /\ \A c \in Call : Tells(c) /\ RingTells(c)

\* The part of RingInvariant that is about events.
Told ==
    /\ ~online => inbox = <<>>
    /\ \A c \in Call : Tells(c) /\ RingTells(c)

\* A move on the server publishes what makes up for it, or the tab misses it.
LEMMA MoveTells ==
    ASSUME RingInvariant, NEW c \in Call, NEW events, Move(c, events),
           slice'.incomingCall = slice.incomingCall
    PROVE  Told'
<1>0. /\ WireTyped /\ events \in Seq(Event) /\ Publish(events)
      /\ inbox \in Seq(Event)
  BY DEF RingInvariant, WebInvariant, Move, WireTyped
<1>1. /\ Len(inbox) \in Nat /\ DOMAIN inbox = 1..Len(inbox)
      /\ Len(events) \in Nat \ {0} /\ DOMAIN events = 1..Len(events)
      /\ online' = online
  BY <1>0, LenProperties, EmptySeq DEF Move, Publish
<1>2. CASE ~online
  <2>1. /\ inbox = <<>> /\ inbox' = <<>>
        /\ stale' = stale \cup {events[i].call_id : i \in DOMAIN events}
    BY <1>0, <1>2, PublishSound DEF RingInvariant
  <2>2. c \in stale'
    <3>1. 1 \in DOMAIN events /\ events[1].call_id = c
      BY <1>1 DEF Move, Tidings
    <3>2. c \in {events[i].call_id : i \in DOMAIN events}
      BY <3>1
    <3> QED
      BY <2>1, <3>2
  <2>3. DOMAIN inbox = {} /\ DOMAIN inbox' = {}
    BY <2>1
  <2>4. ASSUME NEW d \in Call PROVE Tells(d)' /\ RingTells(d)'
    <3>1. Tells(d)'
      BY <2>3 DEF Tells
    <3>2. CASE d = c
      BY <2>2, <3>1, <3>2 DEF RingTells
    <3>3. CASE d # c
      BY <1>2, <2>1, <2>3, <2>4, <3>1, <3>3
         DEF RingTells, RingInvariant, Move, Live, IsIncomingCall
    <3> QED
      BY <3>2, <3>3
  <2> QED
    BY <2>1, <2>4 DEF Told
<1>3. CASE online
  <2>1. /\ inbox' = inbox \o events /\ stale' = stale
        /\ DOMAIN inbox \subseteq DOMAIN inbox'
        /\ \A i \in DOMAIN inbox : inbox'[i] = inbox[i]
        /\ \A i \in DOMAIN events :
              Len(inbox) + i \in DOMAIN inbox' /\ inbox'[Len(inbox) + i] = events[i]
        /\ \A i \in DOMAIN inbox' :
              i \in DOMAIN inbox \/ \E j \in DOMAIN events : i = Len(inbox) + j
    <3>1. inbox' = inbox \o events /\ stale' = stale
      BY <1>0, <1>3, PublishSound
    <3>2. /\ DOMAIN inbox \subseteq DOMAIN (inbox \o events)
          /\ \A i \in DOMAIN inbox : (inbox \o events)[i] = inbox[i]
          /\ \A i \in DOMAIN events :
                Len(inbox) + i \in DOMAIN (inbox \o events)
                /\ (inbox \o events)[Len(inbox) + i] = events[i]
          /\ \A i \in DOMAIN (inbox \o events) :
                i \in DOMAIN inbox \/ \E j \in DOMAIN events : i = Len(inbox) + j
      BY <1>0, ConcatSound
    <3> QED
      BY <3>1, <3>2
  <2>2. CASE phase'[c] = "live"
    <3>1. Live(c)'
      BY <2>2 DEF Live
    <3> QED
      <4>1. ASSUME NEW d \in Call PROVE Tells(d)' /\ RingTells(d)'
        <5>1. CASE d = c
          BY <3>1, <5>1 DEF Tells, RingTells
        <5>2. CASE d # c
          <6>1. Live(d)' = Live(d) /\ Tells(d) /\ RingTells(d)
                /\ \A i \in DOMAIN events : events[i].call_id # d
            BY <5>2 DEF Move, Tidings, Live, RingInvariant
          <6>2. Tells(d)'
            BY <2>1, <6>1 DEF Tells, Starts, Ended
          <6>3. RingTells(d)'
            BY <2>1, <6>1 DEF RingTells, IsIncomingCall
          <6> QED
            BY <6>2, <6>3
        <5> QED
          BY <5>1, <5>2
      <4> QED
        BY <1>1, <1>3, <4>1 DEF Told
  <2>3. CASE events[Len(events)] = Ended(c)
    <3>1. PICK n \in DOMAIN inbox' : n = Len(inbox) + Len(events) /\ inbox'[n] = Ended(c)
      BY <1>1, <2>1, <2>3
    <3>2. \A i \in DOMAIN inbox' : i <= n
      BY <1>1, <2>1, <3>1
    <3> QED
      <4>1. ASSUME NEW d \in Call PROVE Tells(d)' /\ RingTells(d)'
        <5>1. CASE d = c
          BY <3>1, <3>2, <5>1 DEF Tells, RingTells, Ended
        <5>2. CASE d # c
          <6>1. Live(d)' = Live(d) /\ Tells(d) /\ RingTells(d)
                /\ \A i \in DOMAIN events : events[i].call_id # d
            BY <5>2 DEF Move, Tidings, Live, RingInvariant
          <6>2. Tells(d)'
            BY <2>1, <6>1 DEF Tells, Starts, Ended
          <6>3. RingTells(d)'
            BY <2>1, <6>1 DEF RingTells, IsIncomingCall, Ended
          <6> QED
            BY <6>2, <6>3
        <5> QED
          BY <5>1, <5>2
      <4> QED
        BY <1>1, <1>3, <4>1 DEF Told
  <2> QED
    BY <2>2, <2>3 DEF Move, GoesOn
<1> QED
  BY <1>0, <1>2, <1>3 DEF WireTyped

\* A single event that is published joins what is on its way, or the tab misses it.
LEMMA OneAppended ==
    ASSUME WireTyped, NEW e \in Event, Publish(<<e>>)
    PROVE  /\ WireTyped' /\ online' = online /\ (~online => inbox' = inbox)
           /\ stale \subseteq stale'
           /\ \A i \in DOMAIN inbox : i \in DOMAIN inbox' /\ inbox'[i] = inbox[i]
           /\ \A i \in DOMAIN inbox' : i \in DOMAIN inbox \/ inbox'[i] = e
           /\ e.call_id \in stale' \/ \E i \in DOMAIN inbox' : inbox'[i] = e
<1>1. PICK one : one = <<e>>
  OBVIOUS
<1>2. one \in Seq(Event) /\ Publish(one) /\ DOMAIN one = {1} /\ one[1] = e
  BY <1>1
<1>3. /\ WireTyped' /\ online' = online
      /\ online => inbox' = inbox \o one /\ stale' = stale
      /\ ~online => inbox' = inbox
                    /\ stale' = stale \cup {one[i].call_id : i \in DOMAIN one}
  BY <1>2, PublishSound DEF Publish
<1>4. CASE online
  <2>1. /\ DOMAIN inbox \subseteq DOMAIN (inbox \o one)
        /\ \A i \in DOMAIN inbox : (inbox \o one)[i] = inbox[i]
        /\ \A i \in DOMAIN one : Len(inbox) + i \in DOMAIN (inbox \o one)
                                  /\ (inbox \o one)[Len(inbox) + i] = one[i]
        /\ \A i \in DOMAIN (inbox \o one) :
              i \in DOMAIN inbox \/ \E j \in DOMAIN one : i = Len(inbox) + j
    BY <1>2, ConcatSound DEF WireTyped
  <2>2. inbox' = inbox \o one /\ stale' = stale
    BY <1>3, <1>4
  <2> QED
    BY <1>2, <1>3, <1>4, <2>1, <2>2
<1>5. CASE ~online
  BY <1>2, <1>3, <1>5
<1> QED
  BY <1>4, <1>5 DEF WireTyped

\* The dismissal of a ring, and what participantJoined publishes, start no call and
\* end none.
LEMMA OneTells ==
    ASSUME RingInvariant, NEW e \in Event, Publish(<<e>>),
           e.type \in {"notification_dismissed", "user_joined"}, UNCHANGED phase,
           slice'.incomingCall = slice.incomingCall
    PROVE  WireTyped' /\ Told'
<1>0. WireTyped
  BY DEF RingInvariant, WebInvariant
<1>1. /\ WireTyped' /\ online' = online /\ (~online => inbox' = inbox)
      /\ stale \subseteq stale'
      /\ \A i \in DOMAIN inbox : i \in DOMAIN inbox' /\ inbox'[i] = inbox[i]
      /\ \A i \in DOMAIN inbox' : i \in DOMAIN inbox \/ inbox'[i] = e
  BY <1>0, OneAppended
<1>2. ASSUME NEW d \in Call PROVE Tells(d)' /\ RingTells(d)'
  <2>1. Live(d)' = Live(d) /\ Tells(d) /\ RingTells(d)
    BY DEF Live, RingInvariant
  <2>2. Tells(d)'
    BY <1>1, <2>1 DEF Tells, Starts, Ended
  <2>3. RingTells(d)'
    BY <1>1, <2>1 DEF RingTells, IsIncomingCall, Ended
  <2> QED
    BY <2>2, <2>3
<1> QED
  BY <1>1, <1>2 DEF Told, RingInvariant

\* A step that leaves what is on its way alone, makes nothing ring, and forgets a
\* missed event only of a call that goes on.
LEMMA QuietTells ==
    ASSUME RingInvariant, UNCHANGED <<phase, inbox>>, \A c \in stale \ stale' : Live(c),
           slice'.incomingCall \in {slice.incomingCall, None},
           ~online' => inbox' = <<>>
    PROVE  Told'
<1>1. ASSUME NEW c \in Call PROVE Tells(c)' /\ RingTells(c)'
  <2>1. Live(c)' = Live(c) /\ Tells(c) /\ RingTells(c)
    BY DEF Live, RingInvariant
  <2>2. Tells(c)'
    BY <2>1 DEF Tells, Starts
  <2>3. IsIncomingCall(slice', c) => IsIncomingCall(slice, c)
    BY DEF IsIncomingCall
  <2>4. RingTells(c)'
    BY <2>1, <2>3 DEF RingTells
  <2> QED
    BY <2>2, <2>4
<1> QED
  BY <1>1 DEF Told

\* An event leaves a call stale that its channel shows, and the tab is sure again
\* of a call that has ended, or that it shows as it is.
LEMMA StaleSound ==
    ASSUME slice' \in CallsPluginState, NEW e \in Event, stale' = StaleAfterEvent(e)
    PROVE  /\ stale \subseteq Call => stale' \subseteq Call
           /\ \A c \in stale \ stale' :
                 /\ c = e.call_id /\ e.type # "notification_dismissed"
                 /\ e.type # "call_ended" =>
                       /\ Live(c) /\ e.participants = shown[c]
                       /\ selectCallByChannel(slice', e.channel_id) # None
                       /\ selectCallByChannel(slice', e.channel_id).id = c
<1>1. PICK entry : entry = selectCallByChannel(slice', e.channel_id)
  OBVIOUS
<1>2. e.type \in {"call_started", "user_joined", "user_left", "call_ended",
                  "notification_dismissed"}
  BY DEF Event, CallStartedPayload, UserJoinedPayload, UserLeftPayload, CallEndedPayload,
     NotifDismissedPayload
<1>3. e.type \in {"call_started", "user_joined", "user_left"} => e.channel_id \in Channel
  BY DEF Event, CallStartedPayload, UserJoinedPayload, UserLeftPayload, CallEndedPayload,
     NotifDismissedPayload
<1>4. CASE e.type \in {"call_started", "user_joined", "user_left"}
  <2>1. \/ stale' = stale
        \/ Says(e) /\ entry # None /\ entry.id = e.call_id /\ stale' = stale \ {entry.id}
        \/ entry # None /\ stale' = stale \cup {entry.id}
    BY <1>1, <1>4 DEF StaleAfterEvent
  <2>2. entry # None => entry.id \in Call
    BY <1>1, <1>3, <1>4 DEF selectCallByChannel, CallsPluginState, ActiveCall
  <2>3. Says(e) => Live(e.call_id) /\ e.participants = shown[e.call_id]
    BY <1>4 DEF Says
  <2> QED
    BY <1>1, <1>4, <2>1, <2>2, <2>3
<1>5. CASE e.type = "call_ended"
  BY <1>5 DEF StaleAfterEvent
<1>6. CASE e.type = "notification_dismissed"
  BY <1>6 DEF StaleAfterEvent
<1> QED
  BY <1>2, <1>4, <1>5, <1>6

\* An event that is handled may stop the ring, or start one for a call that goes
\* on; and the tab is only sure again of a call that goes on, or has stopped
\* ringing.
LEMMA EventSound ==
    ASSUME RingInvariant, DeliverEvent
    PROVE  TabTyped' /\ WireTyped' /\ Told' /\ slice'.callLoading = slice.callLoading
<1>0. /\ inbox \in Seq(Event) /\ inbox # <<>> /\ slice \in CallsPluginState
      /\ WireTyped /\ TabTyped /\ stale \subseteq Call
  BY DEF RingInvariant, WebInvariant, WireTyped, TabTyped, DeliverEvent
<1>1. PICK e : e = Head(inbox)
  OBVIOUS
<1>2. /\ inbox' = Tail(inbox) /\ slice' = HandleEvent(slice, e)
      /\ stale' = StaleAfterEvent(e)
      /\ UNCHANGED <<server, online, ui, http>>
  BY <1>1 DEF DeliverEvent
<1>3. /\ Len(inbox) \in Nat \ {0} /\ DOMAIN inbox = 1..Len(inbox)
      /\ e = inbox[1] /\ e \in Event
      /\ inbox' \in Seq(Event) /\ DOMAIN inbox' = 1..(Len(inbox) - 1)
      /\ \A i \in 1..(Len(inbox) - 1) : inbox'[i] = inbox[i + 1]
  BY <1>0, <1>1, <1>2, EmptySeq, LenProperties, HeadTailProperties
<1>4. /\ slice' \in CallsPluginState /\ slice'.callLoading = slice.callLoading
      /\ \A c \in Call :
            IsIncomingCall(slice', c) =>
               \/ IsIncomingCall(slice, c) /\ ~(e.type = "call_ended" /\ e.call_id = c)
               \/ Starts(e, c)
  BY <1>0, <1>2, <1>3, HandlerSound DEF Starts
<1>10. /\ stale' \subseteq Call
       /\ \A c \in stale \ stale' : c = e.call_id /\ (e.type # "call_ended" => Live(c))
  BY <1>0, <1>2, <1>3, <1>4, StaleSound
<1>5. TabTyped' /\ WireTyped'
  BY <1>0, <1>2, <1>3, <1>4, <1>10 DEF TabTyped, WireTyped
<1>6. online
  BY <1>0 DEF RingInvariant
\* What was to be told after the first event is still to be told.
<1>7. ASSUME NEW c \in Call, NEW i \in DOMAIN inbox, i # 1, inbox[i] = Ended(c)
      PROVE  i - 1 \in DOMAIN inbox' /\ inbox'[i - 1] = Ended(c)
  <2>1. i - 1 \in 1..(Len(inbox) - 1) /\ (i - 1) + 1 = i
    BY <1>3, <1>7
  <2> QED
    BY <1>3, <1>7, <2>1
<1>8. ASSUME NEW c \in Call PROVE Tells(c)'
  <2> SUFFICES ASSUME NEW i \in DOMAIN inbox', Starts(inbox'[i], c)
               PROVE  Live(c)' \/ \E j \in DOMAIN inbox' : i <= j /\ inbox'[j] = Ended(c)'
    BY DEF Tells, Starts
  <2>1. i + 1 \in DOMAIN inbox /\ inbox'[i] = inbox[i + 1] /\ i \in Nat /\ i >= 1
    BY <1>3
  <2>2. Live(c) \/ \E j \in DOMAIN inbox : i + 1 <= j /\ inbox[j] = Ended(c)
    BY <2>1 DEF RingInvariant, Tells
  <2>3. CASE Live(c)
    BY <1>2, <2>3 DEF Live, server
  <2>4. ASSUME NEW j \in DOMAIN inbox, i + 1 <= j, inbox[j] = Ended(c)
        PROVE  \E k \in DOMAIN inbox' : i <= k /\ inbox'[k] = Ended(c)'
    <3>1. j # 1 /\ i <= j - 1
      BY <1>3, <2>1, <2>4
    <3>2. j - 1 \in DOMAIN inbox' /\ inbox'[j - 1] = Ended(c)
      BY <1>7, <2>4, <3>1
    <3> QED
      BY <3>1, <3>2 DEF Ended
  <2> QED
    BY <2>2, <2>3, <2>4
<1>9. ASSUME NEW c \in Call PROVE RingTells(c)'
  <2> SUFFICES ASSUME c \notin stale', IsIncomingCall(slice', c)
               PROVE  Live(c) \/ \E i \in DOMAIN inbox' : inbox'[i] = Ended(c)
    BY <1>2 DEF RingTells, Live, server, Ended
  <2>1. ~(e.type = "call_ended" /\ e.call_id = c)
    BY <1>4 DEF Starts
  <2>2. Live(c) \/ \E i \in DOMAIN inbox : inbox[i] = Ended(c)
    <3>1. CASE Starts(e, c)
      BY <1>3, <3>1 DEF RingInvariant, Tells
    <3>2. CASE ~Starts(e, c)
      <4>1. IsIncomingCall(slice, c)
        BY <1>4, <3>2
      <4>2. CASE c \in stale
        BY <1>10, <2>1, <4>2
      <4> QED
        BY <4>1, <4>2 DEF RingInvariant, RingTells
    <3> QED
      BY <3>1, <3>2
  <2>3. ASSUME NEW i \in DOMAIN inbox, inbox[i] = Ended(c)
        PROVE  \E j \in DOMAIN inbox' : inbox'[j] = Ended(c)
    <3>1. i # 1
      BY <1>3, <2>1, <2>3 DEF Ended
    <3> QED
      BY <1>7, <2>3, <3>1
  <2> QED
    BY <2>2, <2>3
<1> QED
  BY <1>2, <1>4, <1>5, <1>6, <1>8, <1>9 DEF Told

\* All steps.
LEMMA WebStep ==
    ASSUME RingInvariant, [WebNext]_webVars
    PROVE  RingInvariant' /\ (SpinnerStops => SpinnerStops')
<1>0. /\ WebInvariant /\ ServerTyped /\ WireTyped /\ TabTyped
      /\ http \in Seq(KnownRequest)
      /\ budget \in [clicks : 0..MaxClicks, moves : 0..MaxMoves]
  BY DEF RingInvariant, WebInvariant, TabTyped
<1>1. ASSUME ServerTyped', WireTyped', TabTyped', Told',
             budget' \in [clicks : 0..MaxClicks, moves : 0..MaxMoves]
      PROVE  RingInvariant'
  BY <1>1 DEF RingInvariant, WebInvariant, Told
\* A step of the server.
<1>2. ASSUME ServerStep, slice' = slice
      PROVE  ServerTyped' /\ WireTyped' /\ Told'
  <2>1. ASSUME NEW c \in Call, NEW events, Move(c, events)
        PROVE  WireTyped' /\ Told'
    <3>1. WireTyped'
      BY <1>0, <2>1, PublishSound DEF Move
    <3>2. Told'
      BY <1>2, <2>1, MoveTells
    <3> QED
      BY <3>1, <3>2
  <2>2. ASSUME Unmoved PROVE WireTyped' /\ Told'
    <3>1. UNCHANGED <<server, inbox, online, stale>>
      BY <2>2 DEF Unmoved, wire
    <3>2. Told'
      BY <1>2, <3>1, QuietTells DEF RingInvariant, server
    <3> QED
      BY <1>0, <3>1, <3>2 DEF WireTyped
  <2>3. ASSUME NEW c \in Call, UNCHANGED server, Publish(<<DismissedEvent(c)>>)
        PROVE  WireTyped' /\ Told'
    <3>1. PICK e \in Event : e = DismissedEvent(c) /\ e.type = "notification_dismissed"
      BY DismissedSound
    <3> QED
      BY <1>2, <2>3, <3>1, OneTells DEF server
  <2>4. ASSUME NEW c \in Call, Added(c) PROVE WireTyped' /\ Told'
    <3>1. UNCHANGED <<phase, inbox, online, stale>>
      BY <2>4 DEF Added, wire
    <3>2. Told'
      BY <1>2, <3>1, QuietTells DEF RingInvariant
    <3> QED
      BY <1>0, <3>1, <3>2 DEF WireTyped
  <2>5. ASSUME NEW e \in Rescue, Rescued(e) PROVE WireTyped' /\ Told'
    <3>1. e \in Event /\ e.type = "user_joined"
      BY DEF Rescue, UserJoinedPayload, Event
    <3> QED
      BY <1>2, <2>5, <3>1, OneTells DEF Rescued
  <2> QED
    BY <1>2, <2>1, <2>2, <2>3, <2>4, <2>5 DEF ServerStep
<1>3. CASE OthersMove \/ PublishRescue
  <2>1. budget' \in [clicks : 0..MaxClicks, moves : 0..MaxMoves]
    BY <1>0, <1>3, WebAssumption DEF OthersMove, PublishRescue, WebAssumption
  <2>2. ServerStep /\ UNCHANGED <<slice, ui, http>>
    BY <1>0, <1>3, OthersSound
  <2> QED
    BY <1>0, <1>1, <1>2, <2>1, <2>2 DEF TabTyped, SpinnerStops
<1>4. CASE Serve
  <2>1. UNCHANGED <<slice, ui, budget>>
    BY <1>4 DEF Serve
  <2>2. ServerStep /\ http' \in Seq(KnownRequest) /\ (HeaderWaits => HeaderWaits')
    BY <1>0, <1>4, ServeSound
  <2> QED
    BY <1>0, <1>1, <1>2, <2>1, <2>2, SpinnerKept DEF TabTyped
<1>5. CASE FetchFails
  <2>1. UNCHANGED <<server, wire, slice, ui, stale, budget>>
    BY <1>5 DEF FetchFails
  <2>2. PICK i \in DOMAIN http : Reply(i, FALSE, http[i].call, {})
    BY <1>5 DEF FetchFails
  <2>3. PICK c : c = http[i].call
    OBVIOUS
  <2>4. /\ FALSE \in BOOLEAN /\ {} \in SUBSET User /\ c \in Call \cup {None}
        /\ (FALSE \/ http[i].kind # "create" => c \in Call)
    <3>1. http[i] \in Request /\ Known(http[i])
      BY <1>0, LenProperties, ElementOfSeq DEF KnownRequest
    <3> QED
      BY <2>3, <3>1 DEF Known, Request
  <2>5. http' \in Seq(KnownRequest) /\ (HeaderWaits => HeaderWaits')
    BY <1>0, <2>2, <2>3, <2>4, ReplySound
  <2>6. ServerStep
    BY <1>0, <2>1 DEF ServerStep, Unmoved, ServerTyped, server
  <2> QED
    BY <1>0, <1>1, <1>2, <2>1, <2>5, <2>6, SpinnerKept DEF TabTyped
<1>6. CASE DeliverAnswer
  <2>1. /\ TabTyped' /\ stale' \subseteq Call /\ \A c \in stale \ stale' : Live(c)
        /\ slice'.incomingCall \in {slice.incomingCall, None}
        /\ SpinnerStops => SpinnerStops'
    BY <1>0, <1>6, AnswerSound
  <2>2. UNCHANGED <<server, wire, budget>>
    BY <1>6 DEF DeliverAnswer
  <2>3. Told'
    BY <2>1, <2>2, QuietTells DEF RingInvariant, wire, server
  <2> QED
    BY <1>0, <1>1, <2>1, <2>2, <2>3 DEF server, wire, ServerTyped, WireTyped
<1>7. CASE DeliverEvent
  <2>1. TabTyped' /\ WireTyped' /\ Told' /\ slice'.callLoading = slice.callLoading
    BY <1>7, EventSound
  <2>2. UNCHANGED <<server, http, budget>>
    BY <1>7 DEF DeliverEvent
  <2> QED
    BY <1>0, <1>1, <2>1, <2>2 DEF server, ServerTyped, SpinnerStops
<1>8. CASE Disconnect
  <2>1. /\ ~online' /\ online' \in BOOLEAN /\ inbox' = <<>>
        /\ stale' = stale \cup {inbox[i].call_id : i \in DOMAIN inbox}
        /\ UNCHANGED <<server, slice, ui, http, budget>>
    BY <1>8 DEF Disconnect
  <2>2. /\ \A i \in DOMAIN inbox : inbox[i].call_id \in Call
        /\ inbox' \in Seq(Event) /\ DOMAIN inbox' = {}
    <3>1. \A f \in Event : f.call_id \in Call
      BY DEF Event, CallStartedPayload, UserJoinedPayload, UserLeftPayload,
             CallEndedPayload, NotifDismissedPayload
    <3> QED
      BY <1>0, <2>1, <3>1, LenProperties, ElementOfSeq DEF WireTyped
  <2>3. WireTyped'
    BY <1>0, <2>1, <2>2 DEF WireTyped
  <2>4. ASSUME NEW c \in Call PROVE Tells(c)' /\ RingTells(c)'
    <3>1. Tells(c)'
      BY <2>2 DEF Tells
    <3>2. RingTells(c)'
      <4> SUFFICES ASSUME c \notin stale', IsIncomingCall(slice, c) PROVE Live(c)
        BY <2>1 DEF RingTells, Live, server
      <4>1. c \notin stale
        BY <2>1
      <4>2. \A i \in DOMAIN inbox : inbox[i].call_id # c
        BY <2>1
      <4> QED
        BY <4>1, <4>2 DEF RingInvariant, RingTells, Ended
    <3> QED
      BY <3>1, <3>2
  <2> QED
    BY <1>0, <1>1, <2>1, <2>3, <2>4 DEF Told, TabTyped, ServerTyped, server, SpinnerStops
<1>9. CASE Reconnect
  <2>1. online' = TRUE /\ UNCHANGED <<server, inbox, slice, ui, http, stale, budget>>
    BY <1>9 DEF Reconnect
  <2>2. Told'
    BY <2>1, QuietTells DEF server
  <2> QED
    BY <1>0, <1>1, <2>1, <2>2 DEF TabTyped, ServerTyped, WireTyped, server, SpinnerStops
<1>10. CASE RingTimeout
  <2>1. /\ slice' = clearIncomingCall(slice)
        /\ UNCHANGED <<server, wire, ui, http, stale, budget>>
    BY <1>10 DEF RingTimeout
  <2>2. /\ slice' \in CallsPluginState /\ slice'.incomingCall = None
        /\ slice'.callLoading = slice.callLoading
    BY <1>0, <2>1, ClearSound DEF TabTyped
  <2>3. Told'
    BY <2>1, <2>2, QuietTells DEF RingInvariant, wire, server
  <2> QED
    BY <1>0, <1>1, <2>1, <2>2, <2>3 DEF TabTyped, ServerTyped, WireTyped, server, wire, SpinnerStops
<1>11. CASE UserClicks
  <2>1. UserStep /\ UNCHANGED <<server, wire, stale>>
        /\ budget' \in [clicks : 0..MaxClicks, moves : 0..MaxMoves]
    BY <1>0, <1>11, UserSound
  <2>2. Told'
    BY <2>1, QuietTells DEF UserStep, RingInvariant, wire, server
  <2> QED
    BY <1>0, <1>1, <2>1, <2>2 DEF UserStep, ServerTyped, WireTyped, server, wire
<1>12. CASE UNCHANGED webVars
  <2>1. UNCHANGED <<server, wire, slice, ui, http, stale, budget>>
    BY <1>12 DEF webVars
  <2>2. Told'
    BY <2>1, QuietTells DEF RingInvariant, wire, server
  <2> QED
    BY <1>0, <1>1, <2>1, <2>2 DEF TabTyped, ServerTyped, WireTyped, server, wire, SpinnerStops
<1> QED
  BY <1>3, <1>4, <1>5, <1>6, <1>7, <1>8, <1>9, <1>10, <1>11, <1>12 DEF WebNext

\* A freshly loaded page.
LEMMA WebInitial == WebInit => RingInvariant /\ SpinnerStops
<1> SUFFICES ASSUME WebInit PROVE RingInvariant /\ SpinnerStops
  OBVIOUS
<1>1. slice \in CallsPluginState /\ ~slice.callLoading /\ slice.incomingCall = None
  BY DEF WebInit, setPluginEnabled, initialState, CallsPluginState
<1>2. ui \in LocalState
  BY DEF WebInit, FreshUi, LocalState, Closed, Modal
<1>3. inbox = <<>> /\ http = <<>> /\ inbox \in Seq(Event) /\ http \in Seq(KnownRequest)
      /\ DOMAIN inbox = {}
  BY EmptySeq DEF WebInit
<1>4. WebInvariant
  <2>1. budget \in [clicks : 0..MaxClicks, moves : 0..MaxMoves]
    BY WebAssumption DEF WebInit, WebAssumption
  <2>2. ServerTyped
    BY DEF WebInit, Feed!Init, ServerTyped
  <2> QED
    BY <1>1, <1>2, <1>3, <2>1, <2>2 DEF WebInit, WebInvariant, WireTyped, TabTyped
<1> QED
  BY <1>1, <1>3, <1>4
     DEF RingInvariant, Tells, RingTells, IsIncomingCall, SpinnerStops

\* The inductive invariant of the tab.
THEOREM WebInvariance == WebSpec => [](RingInvariant /\ SpinnerStops)
<1>1. (RingInvariant /\ SpinnerStops) /\ [WebNext]_webVars => (RingInvariant /\ SpinnerStops)'
  BY WebStep
<1> QED
  BY <1>1, WebInitial, PTL DEF WebSpec

\* Every variable of the tab keeps its type, whatever order answers and events
\* come in: no answer reaches a component without the call it is about.
THEOREM WebTypeOKAlways == WebSpec => []WebTypeOK
<1>1. RingInvariant => WebTypeOK
  <2> SUFFICES ASSUME RingInvariant PROVE WebTypeOK
    OBVIOUS
  <2>1. /\ \A i \in DOMAIN inbox : inbox[i] \in Event
        /\ \A i \in DOMAIN http : http[i] \in Request
    BY LenProperties, ElementOfSeq
       DEF RingInvariant, WebInvariant, WireTyped, TabTyped, KnownRequest
  <2> QED
    BY <2>1 DEF RingInvariant, WebInvariant, ServerTyped, Rescue, WireTyped, TabTyped, WebTypeOK
<1> QED
  BY <1>1, WebInvariance, PTL

\* The phone rings for a call that goes on or whose call_ended is on its way,
\* unless the tab missed an event of the call: no order of answers and events
\* leaves it ringing for a call that is over.
THEOREM RingIsLiveAlways == WebSpec => []RingIsLive
<1>1. RingInvariant => RingIsLive
  BY DEF RingInvariant, RingTells, RingIsLive
<1> QED
  BY <1>1, WebInvariance, PTL

\* The header's button spins only while one of its requests is in flight: no
\* error, lost answer or double click leaves it spinning.
THEOREM SpinnerStopsAlways == WebSpec => []SpinnerStops
BY WebInvariance, PTL

-----------------------------------------------------------------------------
(* What a step does to the calls that the channels show.                   *)

\* The other channels keep their call.
LEMMA UpsertEntry ==
    ASSUME NEW s \in CallsPluginState, NEW ch \in Channel, NEW c \in Call,
           NEW list \in SUBSET User
    PROVE  LET t == upsertCall(s, ch, c, list)
           IN  /\ t \in CallsPluginState /\ t.myActiveCall = s.myActiveCall
               /\ t.callsByChannel[ch] = [id |-> c, participants |-> list]
               /\ \A k \in Channel \ {ch} : t.callsByChannel[k] = s.callsByChannel[k]
<1>1. PICK t : t = upsertCall(s, ch, c, list)
  OBVIOUS
<1>2. t \in CallsPluginState
  BY <1>1, UpsertSound
<1>3. DOMAIN s.callsByChannel = Channel
  BY DEF CallsPluginState
<1>4. /\ t.myActiveCall = s.myActiveCall
      /\ t.callsByChannel = [s.callsByChannel EXCEPT ![ch] = [id |-> c, participants |-> list]]
  BY <1>1 DEF upsertCall, CallsPluginState
<1>5. /\ t.callsByChannel[ch] = [id |-> c, participants |-> list]
      /\ \A k \in Channel \ {ch} : t.callsByChannel[k] = s.callsByChannel[k]
  BY <1>3, <1>4
<1> QED
  BY <1>1, <1>2, <1>4, <1>5

LEMMA RemoveEntry ==
    ASSUME NEW s \in CallsPluginState, NEW ch \in Channel
    PROVE  LET t == removeCall(s, ch)
           IN  /\ t \in CallsPluginState /\ t.myActiveCall = s.myActiveCall
               /\ t.callsByChannel[ch] = None
               /\ \A k \in Channel \ {ch} : t.callsByChannel[k] = s.callsByChannel[k]
BY RemoveSound DEF removeCall, CallsPluginState

\* Everything else leaves the calls alone.
LEMMA MineEntry ==
    ASSUME NEW s \in CallsPluginState, NEW ch \in Channel, NEW c \in Call
    PROVE  LET t == setMyActiveCall(s, ch, c)
           IN  t \in CallsPluginState /\ t.callsByChannel = s.callsByChannel
               /\ t.myActiveCall = [callId |-> c, channelId |-> ch, token |-> NextToken(s)]
BY MineSound DEF setMyActiveCall, CallsPluginState

LEMMA RingEntry ==
    ASSUME NEW s \in CallsPluginState, NEW ch \in Channel, NEW c \in Call
    PROVE  LET t == setIncomingCall(s, ch, c)
           IN  t.callsByChannel = s.callsByChannel /\ t.myActiveCall = s.myActiveCall
BY DEF setIncomingCall, CallsPluginState

LEMMA ClearEntry ==
    ASSUME NEW s \in CallsPluginState
    PROVE  /\ clearMyActiveCall(s).callsByChannel = s.callsByChannel
           /\ clearMyActiveCall(s).myActiveCall = None
           /\ clearIncomingCall(s).callsByChannel = s.callsByChannel
           /\ clearIncomingCall(s).myActiveCall = s.myActiveCall
BY DEF clearMyActiveCall, clearIncomingCall, CallsPluginState

LEMMA FlagEntry ==
    ASSUME NEW s \in CallsPluginState, NEW b \in BOOLEAN, NEW p \in Call \cup {None}
    PROVE  /\ setCallLoading(s, b).callsByChannel = s.callsByChannel
           /\ setCallLoading(s, b).myActiveCall = s.myActiveCall
           /\ setCallError(s, b).callsByChannel = s.callsByChannel
           /\ setCallError(s, b).myActiveCall = s.myActiveCall
           /\ setPendingSwitchCallId(s, p).callsByChannel = s.callsByChannel
           /\ setPendingSwitchCallId(s, p).myActiveCall = s.myActiveCall
BY DEF setCallLoading, setCallError, setPendingSwitchCallId, CallsPluginState

\* The entry of the event's channel after the event.
EntryAfter(entry, e) ==
    CASE e.type = "call_started" -> [id |-> e.call_id, participants |-> e.participants]
      [] e.type \in {"user_joined", "user_left"} ->
            IF entry = None THEN None ELSE [id |-> entry.id, participants |-> e.participants]
      [] e.type = "call_ended" ->
            IF entry = None \/ entry.id = e.call_id THEN None ELSE entry

\* An event changes the entry of its own channel only, and takes nobody into a
\* call; the dismissal of a ring changes no entry.
LEMMA HandlerEntry ==
    ASSUME NEW s \in CallsPluginState, NEW e \in Event
    PROVE  LET t == HandleEvent(s, e)
           IN  /\ t.myActiveCall \in {s.myActiveCall, None}
               /\ e.type = "call_ended" => ~IsMyActiveCall(t, e.call_id)
               /\ e.type = "notification_dismissed" => t.callsByChannel = s.callsByChannel
               /\ e.type # "notification_dismissed" =>
                     /\ e.channel_id \in Channel /\ e.call_id \in Call
                     /\ t.callsByChannel[e.channel_id]
                           = EntryAfter(s.callsByChannel[e.channel_id], e)
                     /\ \A ch \in Channel \ {e.channel_id} :
                           t.callsByChannel[ch] = s.callsByChannel[ch]
<1>0. /\ s.callsByChannel \in [Channel -> ActiveCall \cup {None}]
      /\ TRUE \in BOOLEAN /\ None \in Call \cup {None}
  BY DEF CallsPluginState
<1>1. CASE e \in CallStartedPayload
  <2>0. /\ e.type = "call_started" /\ e.call_id \in Call /\ e.channel_id \in Channel
        /\ e.participants \in SUBSET User
    BY <1>1 DEF CallStartedPayload
  <2>1. HandleEvent(s, e) = handleCallStarted(s, e)
    BY <1>1, <2>0 DEF HandleEvent, UserJoinedPayload, UserLeftPayload, CallEndedPayload,
       NotifDismissedPayload
  <2>2. PICK t : t = upsertCall(s, e.channel_id, e.call_id, e.participants)
    OBVIOUS
  <2>3. HandleEvent(s, e) \in {t, setIncomingCall(t, e.channel_id, e.call_id)}
    BY <2>1, <2>2 DEF handleCallStarted
  <2>4. t \in CallsPluginState
    BY <2>0, <2>2, UpsertEntry
  <2>5. PICK v : v = HandleEvent(s, e)
    OBVIOUS
  <2>6. v.callsByChannel = t.callsByChannel /\ v.myActiveCall = t.myActiveCall
    BY <1>0, <2>0, <2>3, <2>4, <2>5, RingEntry
  <2>7. /\ t.myActiveCall = s.myActiveCall
        /\ t.callsByChannel[e.channel_id] = [id |-> e.call_id, participants |-> e.participants]
        /\ \A ch \in Channel \ {e.channel_id} : t.callsByChannel[ch] = s.callsByChannel[ch]
    BY <2>0, <2>2, UpsertEntry
  <2> QED
    BY <2>0, <2>5, <2>6, <2>7 DEF EntryAfter
<1>2. ASSUME e.call_id \in Call, e.channel_id \in Channel, e.participants \in SUBSET User,
             e.type \in {"user_joined", "user_left"}
      PROVE  LET t == WithParticipants(s, e)
             IN  /\ t \in CallsPluginState
                 /\ t.myActiveCall = s.myActiveCall
                 /\ t.callsByChannel[e.channel_id]
                       = EntryAfter(s.callsByChannel[e.channel_id], e)
                 /\ \A ch \in Channel \ {e.channel_id} :
                       t.callsByChannel[ch] = s.callsByChannel[ch]
  <2>1. PICK x : x = s.callsByChannel[e.channel_id]
    OBVIOUS
  <2>2. CASE x = None
    BY <1>2, <2>1, <2>2 DEF WithParticipants, selectCallByChannel, EntryAfter
  <2>3. CASE x # None
    <3>1. x.id \in Call
      BY <1>0, <1>2, <2>1, <2>3 DEF ActiveCall
    <3>2. WithParticipants(s, e) = upsertCall(s, e.channel_id, x.id, e.participants)
      BY <2>1, <2>3 DEF WithParticipants, selectCallByChannel
    <3>3. EntryAfter(s.callsByChannel[e.channel_id], e)
            = [id |-> x.id, participants |-> e.participants]
      BY <1>2, <2>1, <2>3 DEF EntryAfter
    <3> QED
      BY <1>2, <3>1, <3>2, <3>3, UpsertEntry
  <2> QED
    BY <2>2, <2>3
<1>3. CASE e \in UserJoinedPayload
  <2>0. /\ e.type = "user_joined" /\ e.call_id \in Call /\ e.channel_id \in Channel
        /\ e.participants \in SUBSET User
    BY <1>3 DEF UserJoinedPayload
  <2>1. HandleEvent(s, e) = WithParticipants(s, e)
    BY <1>3, <2>0 DEF HandleEvent, handleUserJoined, CallStartedPayload, UserLeftPayload,
       CallEndedPayload, NotifDismissedPayload
  <2> QED
    BY <1>2, <2>0, <2>1
<1>4. CASE e \in UserLeftPayload
  <2>0. /\ e.type = "user_left" /\ e.call_id \in Call /\ e.channel_id \in Channel
        /\ e.participants \in SUBSET User
    BY <1>4 DEF UserLeftPayload
  <2>1. HandleEvent(s, e) = handleUserLeft(s, e)
    BY <1>4, <2>0 DEF HandleEvent, CallStartedPayload, UserJoinedPayload, CallEndedPayload,
       NotifDismissedPayload
  <2>2. PICK t : t = WithParticipants(s, e)
    OBVIOUS
  <2>3. PICK v : v = HandleEvent(s, e)
    OBVIOUS
  <2>4. v \in {t, clearMyActiveCall(t)} /\ t \in CallsPluginState
    BY <1>2, <2>0, <2>1, <2>2, <2>3 DEF handleUserLeft
  <2>5. v.callsByChannel = t.callsByChannel /\ v.myActiveCall \in {t.myActiveCall, None}
    BY <1>0, <2>0, <2>4, ClearEntry
  <2> QED
    BY <1>2, <2>0, <2>2, <2>3, <2>5
<1>5. CASE e \in CallEndedPayload
  <2>0. e.type = "call_ended" /\ e.call_id \in Call /\ e.channel_id \in Channel
    BY <1>5 DEF CallEndedPayload
  <2>1. HandleEvent(s, e) = handleCallEnded(s, e)
    BY <1>5, <2>0 DEF HandleEvent, CallStartedPayload, UserJoinedPayload, UserLeftPayload,
       NotifDismissedPayload
  <2>2. PICK x : x = s.callsByChannel[e.channel_id]
    OBVIOUS
  <2>3. PICK t : t = IF x = None \/ x.id = e.call_id THEN removeCall(s, e.channel_id) ELSE s
    OBVIOUS
  <2>4. PICK v : v = IF IsMyActiveCall(t, e.call_id) THEN clearMyActiveCall(t) ELSE t
    OBVIOUS
  <2>5. PICK w : w = HandleEvent(s, e)
    OBVIOUS
  <2>6. w = IF IsIncomingCall(v, e.call_id) THEN clearIncomingCall(v) ELSE v
    BY <2>1, <2>2, <2>3, <2>4, <2>5 DEF handleCallEnded, selectCallByChannel
  <2>7. /\ t \in CallsPluginState /\ t.myActiveCall = s.myActiveCall
        /\ t.callsByChannel[e.channel_id] = EntryAfter(x, e)
        /\ \A ch \in Channel \ {e.channel_id} : t.callsByChannel[ch] = s.callsByChannel[ch]
    <3>1. {} \in SUBSET User
      OBVIOUS
    <3>2. CASE x = None \/ x.id = e.call_id
      BY <2>0, <2>3, <3>1, <3>2, RemoveEntry DEF EntryAfter
    <3>3. CASE ~(x = None \/ x.id = e.call_id)
      BY <2>0, <2>2, <2>3, <3>3 DEF EntryAfter
    <3> QED
      BY <3>2, <3>3
  <2>8. /\ v \in CallsPluginState /\ v.callsByChannel = t.callsByChannel
        /\ v.myActiveCall \in {t.myActiveCall, None} /\ ~IsMyActiveCall(v, e.call_id)
    BY <1>0, <2>0, <2>4, <2>7, ClearEntry, ClearSound DEF IsMyActiveCall
  <2>9. w.callsByChannel = v.callsByChannel /\ w.myActiveCall = v.myActiveCall
    BY <1>0, <2>0, <2>6, <2>8, ClearEntry
  <2>10. ~IsMyActiveCall(w, e.call_id)
    BY <2>8, <2>9 DEF IsMyActiveCall
  <2> QED
    BY <2>0, <2>2, <2>5, <2>7, <2>8, <2>9, <2>10
<1>6. CASE e \in NotifDismissedPayload
  <2>0. e.type = "notification_dismissed" /\ e.call_id \in Call
    BY <1>6 DEF NotifDismissedPayload
  <2>1. HandleEvent(s, e) = handleNotifDismissed(s, e)
    BY <1>6, <2>0 DEF HandleEvent, CallStartedPayload, UserJoinedPayload, UserLeftPayload,
       CallEndedPayload
  <2>2. HandleEvent(s, e) \in {s, clearIncomingCall(s)}
    BY <2>1 DEF handleNotifDismissed
  <2>3. /\ clearIncomingCall(s).callsByChannel = s.callsByChannel
        /\ clearIncomingCall(s).myActiveCall = s.myActiveCall
    BY DEF clearIncomingCall, CallsPluginState
  <2> QED
    BY <2>0, <2>2, <2>3
<1> QED
  BY <1>1, <1>3, <1>4, <1>5, <1>6 DEF Event

-----------------------------------------------------------------------------
(* Why the tab shows the server's picture.                                 *)

IsTidings(e) == e.type # "notification_dismissed"

News(e, ch) == IsTidings(e) /\ e.channel_id = ch

\* Something about the call will still come to the tab.
Expected(c) ==
    \/ \E i \in DOMAIN inbox : About(inbox[i], c)
    \/ \E e \in rescues : e.call_id = c

\* One call at a time goes on in a channel.
OneLive == \A c, d \in Call : Live(c) /\ Live(d) /\ ChannelOf[c] = ChannelOf[d] => c = d

\* What arrives names the channel of its call.
FormedAt(i) == IsTidings(inbox[i]) => inbox[i].channel_id = ChannelOf[inbox[i].call_id]

\* Events of an older call of the channel come before call_started of the live one,
\* but for the lists of participantJoined.
StartSaidAt(c, i) ==
    /\ Live(c) /\ News(inbox[i], ChannelOf[c]) /\ inbox[i].call_id # c
    /\ inbox[i].type # "user_joined" \/ "webhook" \notin Faults
    => \E j \in DOMAIN inbox : i < j /\ Starts(inbox[j], c)

\* What a channel shows of its live call is right, or something about the call will
\* still come; an ended call that it shows, call_ended will remove.
RightOn(c) ==
    c \notin stale /\ ShowsCall(c) =>
        IF Live(c)
        THEN Expected(c) \/ selectCallByChannel(slice, ChannelOf[c]).participants = shown[c]
        ELSE \E i \in DOMAIN inbox : inbox[i] = Ended(c)

WireInvariant ==
    /\ OneLive
    /\ \A i \in DOMAIN inbox : FormedAt(i)
    /\ \A c \in Call : \A i \in DOMAIN inbox : StartSaidAt(c, i)

ViewInvariant ==
    /\ RingInvariant
    /\ WireInvariant
    /\ \A c \in Call : RightOn(c)

\* The events on their way after a publication.
LEMMA Appended ==
    ASSUME WireTyped, NEW events \in Seq(Event), Publish(events), online
    PROVE  /\ stale' = stale
           /\ \A i \in DOMAIN inbox : i \in DOMAIN inbox' /\ inbox'[i] = inbox[i]
           /\ \A i \in DOMAIN events :
                 Len(inbox) + i \in DOMAIN inbox' /\ inbox'[Len(inbox) + i] = events[i]
           /\ \A i \in DOMAIN inbox' :
                 i \in DOMAIN inbox
                 \/ \E j \in DOMAIN events : i = Len(inbox) + j /\ inbox'[i] = events[j]
<1>1. inbox' = inbox \o events /\ stale' = stale
  BY PublishSound
<1>2. inbox \in Seq(Event)
  BY DEF WireTyped
<1> QED
  BY <1>1, <1>2, ConcatSound

\* ... and after one of them is handled.
LEMMA Consumed ==
    ASSUME WireTyped, inbox # <<>>, inbox' = Tail(inbox)
    PROVE  /\ 1 \in DOMAIN inbox /\ Head(inbox) = inbox[1] /\ inbox[1] \in Event
           /\ \A i \in DOMAIN inbox' :
                 i \in Nat /\ i + 1 \in DOMAIN inbox /\ inbox'[i] = inbox[i + 1]
           /\ \A i \in DOMAIN inbox \ {1} :
                 /\ i \in Nat /\ 1 < i
                 /\ i - 1 \in DOMAIN inbox' /\ inbox'[i - 1] = inbox[i]
<1>1. inbox \in Seq(Event)
  BY DEF WireTyped
<1>2. /\ Len(inbox) \in Nat \ {0} /\ DOMAIN inbox = 1..Len(inbox)
      /\ Head(inbox) = inbox[1] /\ inbox[1] \in Event
      /\ inbox' \in Seq(Event) /\ DOMAIN inbox' = 1..(Len(inbox) - 1)
      /\ \A i \in 1..(Len(inbox) - 1) : inbox'[i] = inbox[i + 1]
  BY <1>1, EmptySeq, LenProperties, HeadTailProperties
<1>3. ASSUME NEW i \in DOMAIN inbox'
      PROVE  i \in Nat /\ i + 1 \in DOMAIN inbox /\ inbox'[i] = inbox[i + 1]
  BY <1>2, <1>3
<1>4. ASSUME NEW i \in DOMAIN inbox \ {1}
      PROVE  /\ i \in Nat /\ 1 < i
             /\ i - 1 \in DOMAIN inbox' /\ inbox'[i - 1] = inbox[i]
  <2>1. i \in Nat /\ 1 < i /\ i - 1 \in 1..(Len(inbox) - 1) /\ (i - 1) + 1 = i
    BY <1>2, <1>4
  <2> QED
    BY <1>2, <2>1
<1> QED
  BY <1>2, <1>3, <1>4

\* An event comes before the call_ended of its call.
LEMMA EndFollows ==
    ASSUME RingInvariant, NEW i \in DOMAIN inbox, NEW c \in Call, Starts(inbox[i], c), ~Live(c)
    PROVE  \E j \in DOMAIN inbox : inbox[j] = Ended(c)
BY DEF RingInvariant, Tells

\* A move on the server publishes the events of its call in order.
LEMMA MoveWire ==
    ASSUME ViewInvariant, NEW c \in Call, NEW events, Move(c, events)
    PROVE  WireInvariant'
<1>0. /\ WireTyped /\ events \in Seq(Event) /\ Publish(events) /\ events # <<>>
      /\ \A i \in DOMAIN events : Tidings(events[i], c)
      /\ \A d \in Call \ {c} : phase'[d] = phase[d] /\ shown'[d] = shown[d]
      /\ OneLive
  BY DEF ViewInvariant, RingInvariant, WireInvariant, WebInvariant, Move
<1>1. GoesOn(c, events) \/ (phase[c] = "live" /\ phase'[c] = "over"
                            /\ events[Len(events)] = Ended(c))
  BY DEF Move
<1>2. PICK m \in Nat, n \in Nat : m = Len(inbox) /\ n = Len(events) /\ n >= 1
                                  /\ DOMAIN inbox = 1..m /\ DOMAIN events = 1..n
  <2>1. inbox \in Seq(Event)
    BY <1>0 DEF WireTyped
  <2> QED
    BY <1>0, <2>1, LenProperties, EmptySeq
<1>3. PICK last : last = events[n]
  OBVIOUS
<1>4. /\ \/ /\ phase'[c] = "live"
            /\ \/ phase[c] = "live"
               \/ phase[c] = "silent" /\ LiveIn(ChannelOf[c]) = {} /\ last.type = "call_started"
         \/ phase[c] = "live" /\ phase'[c] = "over"
      /\ Tidings(last, c)
  <2>1. n \in DOMAIN events
    BY <1>2
  <2> QED
    BY <1>0, <1>1, <1>2, <1>3, <2>1 DEF GoesOn
<1>5. OneLive'
  <2> SUFFICES ASSUME NEW d \in Call, NEW e \in Call, Live(d)', Live(e)',
                      ChannelOf[d] = ChannelOf[e]
               PROVE  d = e
    BY DEF OneLive
  <2>1. (d # c => Live(d)) /\ (e # c => Live(e))
    BY <1>0 DEF Live
  <2>2. CASE phase[c] = "live"
    BY <1>0, <2>1, <2>2 DEF OneLive, Live
  <2>3. CASE LiveIn(ChannelOf[c]) = {}
    BY <1>0, <2>1, <2>3 DEF OneLive, LiveIn, Live
  <2> QED
    BY <1>4, <2>2, <2>3
<1>6. CASE ~online
  <2>1. inbox = <<>>
    BY <1>6 DEF ViewInvariant, RingInvariant
  <2>2. inbox' = inbox
    BY <1>0, <1>6, PublishSound
  <2>3. DOMAIN inbox' = {}
    BY <2>1, <2>2
  <2> QED
    BY <1>5, <2>3 DEF WireInvariant
<1>7. CASE online
  <2>1. /\ \A i \in DOMAIN inbox : i \in DOMAIN inbox' /\ inbox'[i] = inbox[i]
        /\ \A i \in DOMAIN events : m + i \in DOMAIN inbox' /\ inbox'[m + i] = events[i]
        /\ \A i \in DOMAIN inbox' :
              i \in DOMAIN inbox \/ \E j \in DOMAIN events : i = m + j /\ inbox'[i] = events[j]
    <3>1. m = Len(inbox)
      BY <1>2
    <3> QED
      BY <1>0, <1>7, <3>1, Appended
  <2>2. /\ m + n \in DOMAIN inbox' /\ inbox'[m + n] = last
        /\ \A i \in DOMAIN inbox : i < m + n
    <3>1. n \in DOMAIN events
      BY <1>2
    <3>2. m + n \in DOMAIN inbox' /\ inbox'[m + n] = last
      BY <1>3, <2>1, <3>1
    <3>3. \A i \in DOMAIN inbox : i < m + n
      BY <1>2
    <3> QED
      BY <3>2, <3>3
  <2>4. ASSUME NEW i \in DOMAIN inbox' PROVE FormedAt(i)'
    <3>1. CASE i \in DOMAIN inbox
      <4>1. FormedAt(i) /\ inbox'[i] = inbox[i]
        BY <2>1, <3>1 DEF ViewInvariant, WireInvariant
      <4> QED
        BY <4>1 DEF FormedAt
    <3>2. ASSUME NEW j \in DOMAIN events, inbox'[i] = events[j] PROVE FormedAt(i)'
      <4>1. Tidings(events[j], c)
        BY <1>0
      <4> QED
        BY <3>2, <4>1 DEF FormedAt, Tidings
    <3> QED
      BY <2>1, <3>1, <3>2
  <2>5. ASSUME NEW d \in Call, NEW i \in DOMAIN inbox' PROVE StartSaidAt(d, i)'
    <3> SUFFICES ASSUME Live(d)', News(inbox'[i], ChannelOf[d]), inbox'[i].call_id # d,
                        inbox'[i].type # "user_joined" \/ "webhook" \notin Faults
                 PROVE  \E j \in DOMAIN inbox' : i < j /\ Starts(inbox'[j], d)
      BY DEF StartSaidAt
    <3>1. CASE i \in DOMAIN inbox /\ Live(d)
      <4>1. PICK j \in DOMAIN inbox : i < j /\ Starts(inbox[j], d)
        BY <2>1, <3>1 DEF ViewInvariant, WireInvariant, StartSaidAt
      <4> QED
        BY <2>1, <4>1
    <3>2. CASE i \in DOMAIN inbox /\ ~Live(d)
      <4>1. d = c /\ last.type = "call_started" /\ last.call_id = c
        BY <1>0, <1>4, <3>2 DEF Live, Tidings
      <4> QED
        BY <2>2, <3>2, <4>1 DEF Starts
    <3>3. ASSUME NEW j \in DOMAIN events, i = m + j, inbox'[i] = events[j]
          PROVE  FALSE
      <4>1. d # c /\ Live(d) /\ ChannelOf[d] = ChannelOf[c]
        BY <1>0, <3>3 DEF Tidings, News, Live
      <4> QED
        BY <1>0, <1>4, <4>1 DEF OneLive, Live, LiveIn
    <3> QED
      BY <2>1, <3>1, <3>2, <3>3
  <2> QED
    BY <1>5, <2>4, <2>5 DEF WireInvariant
<1> QED
  BY <1>0, <1>6, <1>7 DEF WireTyped

\* ... and what the tab shows is right, or will be after the events.
LEMMA MoveRight ==
    ASSUME ViewInvariant, NEW c \in Call, NEW events, Move(c, events), slice' = slice,
           NEW d \in Call
    PROVE  RightOn(d)'
<1>0. /\ WireTyped /\ events \in Seq(Event) /\ Publish(events) /\ events # <<>>
      /\ \A i \in DOMAIN events : Tidings(events[i], c)
      /\ \A x \in Call \ {c} : phase'[x] = phase[x] /\ shown'[x] = shown[x]
      /\ GoesOn(c, events) \/ (phase'[c] = "over" /\ events[Len(events)] = Ended(c))
      /\ RightOn(d) /\ rescues' = rescues
  BY DEF ViewInvariant, RingInvariant, WebInvariant, Move
<1>1. Len(events) \in DOMAIN events /\ 1 \in DOMAIN events
  BY <1>0, LenProperties, EmptySeq
<1> SUFFICES ASSUME d \notin stale', ShowsCall(d)
             PROVE  IF Live(d)'
                    THEN Expected(d)'
                         \/ selectCallByChannel(slice, ChannelOf[d]).participants = shown'[d]
                    ELSE \E i \in DOMAIN inbox' : inbox'[i] = Ended(d)
  BY DEF RightOn, ShowsCall, Ended
<1>2. CASE online
  <2>1. /\ stale' = stale
        /\ \A i \in DOMAIN inbox : i \in DOMAIN inbox' /\ inbox'[i] = inbox[i]
        /\ \A i \in DOMAIN events :
              Len(inbox) + i \in DOMAIN inbox' /\ inbox'[Len(inbox) + i] = events[i]
    BY <1>0, <1>2, Appended
  <2>2. Expected(d) => Expected(d)'
    BY <1>0, <2>1 DEF Expected, About
  <2>3. Expected(c)'
    <3>1. PICK k \in DOMAIN inbox' : inbox'[k] = events[1]
      BY <1>1, <2>1
    <3>2. Tidings(events[1], c)
      BY <1>0, <1>1
    <3> QED
      BY <3>1, <3>2 DEF Expected, About, Tidings
  <2>4. CASE d = c
    <3>1. CASE GoesOn(c, events)
      BY <2>3, <2>4, <3>1 DEF GoesOn, Live
    <3>2. CASE phase'[c] = "over" /\ events[Len(events)] = Ended(c)
      BY <1>1, <2>1, <2>4, <3>2 DEF Live
    <3> QED
      BY <1>0, <3>1, <3>2
  <2>5. CASE d # c
    <3>1. Live(d)' = Live(d) /\ shown'[d] = shown[d]
      BY <1>0, <2>5 DEF Live
    <3> QED
      BY <1>0, <2>1, <2>2, <3>1 DEF RightOn
  <2> QED
    BY <2>4, <2>5
<1>3. CASE ~online
  <2>1. /\ inbox' = inbox
        /\ stale' = stale \cup {events[i].call_id : i \in DOMAIN events}
    BY <1>0, <1>3, PublishSound
  <2>2. d # c /\ d \notin stale
    <3>1. events[1].call_id = c
      BY <1>0, <1>1 DEF Tidings
    <3> QED
      BY <1>1, <2>1, <3>1
  <2>3. Live(d)' = Live(d) /\ shown'[d] = shown[d]
    BY <1>0, <2>2 DEF Live
  <2>4. Expected(d) => Expected(d)'
    BY <1>0, <2>1 DEF Expected
  <2> QED
    BY <1>0, <2>1, <2>2, <2>3, <2>4 DEF RightOn
<1> QED
  BY <1>0, <1>2, <1>3 DEF WireTyped

\* The dismissal of a ring says nothing about a channel; nor does what participantJoined
\* publishes, of which it was known that it would come.
LEMMA OneView ==
    ASSUME ViewInvariant, NEW e \in Event, Publish(<<e>>),
           e.type = "notification_dismissed" \/ e \in Rescue,
           UNCHANGED <<phase, shown>>, slice' = slice, rescues \ {e} \subseteq rescues'
    PROVE  WireInvariant' /\ \A d \in Call : RightOn(d)'
<1>1. WireTyped /\ WireInvariant /\ OneLive /\ phase' = phase /\ shown' = shown
  BY DEF ViewInvariant, RingInvariant, WebInvariant, WireInvariant
<1>2. /\ stale \subseteq stale'
      /\ \A i \in DOMAIN inbox : i \in DOMAIN inbox' /\ inbox'[i] = inbox[i]
      /\ \A i \in DOMAIN inbox' : i \in DOMAIN inbox \/ inbox'[i] = e
      /\ e.call_id \in stale' \/ \E i \in DOMAIN inbox' : inbox'[i] = e
  BY <1>1, OneAppended
<1>3. OneLive'
  BY <1>1 DEF OneLive, Live
<1>4. ASSUME NEW i \in DOMAIN inbox' PROVE FormedAt(i)'
  <2>1. CASE inbox'[i] = e
    BY <2>1 DEF FormedAt, IsTidings, Rescue
  <2>2. CASE i \in DOMAIN inbox
    <3>1. FormedAt(i) /\ inbox'[i] = inbox[i]
      BY <1>1, <1>2, <2>2 DEF WireInvariant
    <3> QED
      BY <3>1 DEF FormedAt, IsTidings
  <2> QED
    BY <1>2, <2>1, <2>2
<1>5. ASSUME NEW d \in Call, NEW i \in DOMAIN inbox' PROVE StartSaidAt(d, i)'
  <2>1. CASE inbox'[i] = e
    BY <2>1 DEF StartSaidAt, News, IsTidings, Rescue, UserJoinedPayload
  <2>2. CASE i \in DOMAIN inbox
    <3>1. StartSaidAt(d, i) /\ inbox'[i] = inbox[i]
      BY <1>1, <1>2, <2>2 DEF WireInvariant
    <3> QED
      BY <1>1, <1>2, <3>1 DEF StartSaidAt, Starts, News, IsTidings, Live
  <2> QED
    BY <1>2, <2>1, <2>2
<1>6. ASSUME NEW d \in Call PROVE RightOn(d)'
  <2>1. RightOn(d)
    BY DEF ViewInvariant
  <2>2. Expected(d) => Expected(d)' \/ d \in stale'
    <3>1. ASSUME NEW i \in DOMAIN inbox, About(inbox[i], d) PROVE Expected(d)'
      BY <1>2, <3>1 DEF Expected, About
    <3>2. ASSUME NEW f \in rescues, f.call_id = d PROVE Expected(d)' \/ d \in stale'
      <4>1. CASE f \in rescues'
        BY <3>2, <4>1 DEF Expected
      <4>2. CASE f = e
        <5>1. e.type # "notification_dismissed"
          BY <4>2 DEF ViewInvariant, RingInvariant, WebInvariant, ServerTyped, Rescue,
             UserJoinedPayload
        <5> QED
          BY <1>2, <3>2, <4>2, <5>1 DEF Expected, About
      <4> QED
        BY <4>1, <4>2
    <3> QED
      BY <3>1, <3>2 DEF Expected
  <2> QED
    BY <1>1, <1>2, <2>1, <2>2 DEF RightOn, ShowsCall, Live, Ended
<1> QED
  BY <1>3, <1>4, <1>5, <1>6 DEF WireInvariant

\* A step that leaves what is on its way alone, ...
LEMMA QuietWire ==
    ASSUME ViewInvariant, UNCHANGED <<phase, inbox>>
    PROVE  WireInvariant'
<1>1. WireInvariant
  BY DEF ViewInvariant
<1>2. OneLive'
  BY <1>1 DEF WireInvariant, OneLive, Live
<1>3. ASSUME NEW i \in DOMAIN inbox' PROVE FormedAt(i)'
  <2>1. FormedAt(i)
    BY <1>1 DEF WireInvariant
  <2> QED
    BY <2>1 DEF FormedAt, IsTidings
<1>4. ASSUME NEW c \in Call, NEW i \in DOMAIN inbox' PROVE StartSaidAt(c, i)'
  <2>1. StartSaidAt(c, i)
    BY <1>1 DEF WireInvariant
  <2> QED
    BY <2>1 DEF StartSaidAt, Starts, News, IsTidings, Live
<1> QED
  BY <1>2, <1>3, <1>4 DEF WireInvariant

\* ... and whatever the channels show.
LEMMA QuietView ==
    ASSUME ViewInvariant, UNCHANGED <<server, inbox>>
    PROVE  /\ WireInvariant'
           /\ slice'.callsByChannel = slice.callsByChannel /\ stale \subseteq stale' =>
                 \A c \in Call : RightOn(c)'
<1>1. phase' = phase /\ shown' = shown /\ rescues' = rescues /\ inbox' = inbox
  BY DEF server
<1>2. WireInvariant'
  BY <1>1, QuietWire
<1>3. ASSUME slice'.callsByChannel = slice.callsByChannel, stale \subseteq stale', NEW c \in Call
      PROVE  RightOn(c)'
  <2>1. RightOn(c)
    BY DEF ViewInvariant
  <2> QED
    BY <1>1, <1>3, <2>1 DEF RightOn, ShowsCall, selectCallByChannel, Live, Expected, Ended
<1> QED
  BY <1>2, <1>3

\* A participantJoined that has changed the table will publish.
LEMMA AddedView ==
    ASSUME ViewInvariant, NEW c \in Call, Added(c), slice' = slice
    PROVE  WireInvariant' /\ \A d \in Call : RightOn(d)'
<1>1. /\ phase' = phase /\ inbox' = inbox /\ stale' = stale
      /\ \A d \in Call \ {c} : shown'[d] = shown[d]
      /\ rescues \subseteq rescues' /\ Expected(c)'
  BY DEF Added, wire, Expected
<1>2. ASSUME NEW d \in Call PROVE RightOn(d)'
  <2>1. RightOn(d)
    BY DEF ViewInvariant
  <2>2. Expected(d) => Expected(d)'
    BY <1>1 DEF Expected
  <2> QED
    BY <1>1, <2>1, <2>2 DEF RightOn, ShowsCall, Live, Ended
<1> QED
  BY <1>1, <1>2, QuietWire

\* The answer's call is put into the slice.
Put(t, r) ==
    /\ t.callsByChannel[ChannelOf[r.call]] = [id |-> r.call, participants |-> r.participants]
    /\ \A ch \in Channel \ {ChannelOf[r.call]} : t.callsByChannel[ch] = slice.callsByChannel[ch]

\* These parts rely on the call being there.
Relies(part) == part \in {"toast", "toastSwitch", "incoming"}

\* The tab's call after an answer that takes the tab into it.
Entered(r) ==
    [callId |-> r.call, channelId |-> ChannelOf[r.call], token |-> NextToken(slice)]

\* An answer puts its call into the slice, or leaves the calls alone; it takes the
\* tab into its call only.
LEMMA AnswerEntry ==
    ASSUME slice \in CallsPluginState, NEW r \in KnownRequest,
           r.stage = "answered", r.part # "widget", NEW t, t = AnswerTo(slice, r)
    PROVE  /\ t.callsByChannel = slice.callsByChannel \/ (r.ok /\ Put(t, r))
           /\ \/ t.myActiveCall = slice.myActiveCall
              \/ /\ r.ok /\ r.part # "mount" /\ t.myActiveCall = Entered(r)
                 /\ Put(t, r) \/ Relies(r.part)
<1>1. /\ r.part \in Part \ {"widget", "beacon"} /\ r.participants \in SUBSET User
      /\ r.ok => r.call \in Call /\ ChannelOf[r.call] \in Channel
      /\ TRUE \in BOOLEAN /\ FALSE \in BOOLEAN /\ None \in Call \cup {None}
  BY WebAssumption DEF KnownRequest, Known, Forgotten, Request, WebAssumption
<1> DEFINE Same(s) == s \in CallsPluginState /\ s.callsByChannel = slice.callsByChannel
                      /\ s.myActiveCall = slice.myActiveCall
<1>2. Same(slice)
  OBVIOUS
<1>3. ASSUME NEW s, Same(s), r.ok
      PROVE  /\ Put(upsertCall(s, ChannelOf[r.call], r.call, r.participants), r)
             /\ Put(Enter(s, r), r)
             /\ setMyActiveCall(s, ChannelOf[r.call], r.call) \in CallsPluginState
             /\ setMyActiveCall(s, ChannelOf[r.call], r.call).callsByChannel
                   = slice.callsByChannel
             /\ upsertCall(s, ChannelOf[r.call], r.call, r.participants).myActiveCall
                   = slice.myActiveCall
             /\ Enter(s, r).myActiveCall = Entered(r)
             /\ setMyActiveCall(s, ChannelOf[r.call], r.call).myActiveCall = Entered(r)
  <2>1. PICK u : u = upsertCall(s, ChannelOf[r.call], r.call, r.participants)
    OBVIOUS
  <2>2. /\ u \in CallsPluginState /\ u.myActiveCall = slice.myActiveCall /\ Put(u, r)
    BY <1>1, <1>3, <2>1, UpsertEntry DEF Put
  <2>3. PICK e : e = Enter(s, r)
    OBVIOUS
  <2>4. e = setMyActiveCall(u, ChannelOf[r.call], r.call)
    BY <2>1, <2>3 DEF Enter
  <2>5. Put(e, r) /\ e.myActiveCall = Entered(r)
    BY <1>1, <1>3, <2>2, <2>4, MineEntry DEF Put, Entered, NextToken
  <2>6. PICK m : m = setMyActiveCall(s, ChannelOf[r.call], r.call)
    OBVIOUS
  <2>7. /\ m \in CallsPluginState /\ m.callsByChannel = slice.callsByChannel
        /\ m.myActiveCall = Entered(r)
    BY <1>1, <1>3, <2>6, MineEntry DEF Entered, NextToken
  <2> QED
    BY <2>1, <2>2, <2>3, <2>5, <2>6, <2>7
<1>4. CASE r.part = "header"
  <2>1. PICK s : s = setCallLoading(slice, FALSE)
    OBVIOUS
  <2>2. Same(s)
    BY <1>1, <2>1, FlagSound, FlagEntry
  <2>3. t = IF r.ok THEN Enter(s, r) ELSE setCallError(s, TRUE)
    BY <1>4, <2>1 DEF AnswerTo, HeaderAnswer
  <2>4. ~r.ok => t.callsByChannel = slice.callsByChannel /\ t.myActiveCall = slice.myActiveCall
    BY <1>1, <2>2, <2>3, FlagEntry
  <2>5. r.ok => Put(t, r) /\ t.myActiveCall = Entered(r)
    BY <1>3, <2>2, <2>3
  <2> QED
    BY <1>4, <2>4, <2>5
<1>5. CASE r.part = "switch"
  <2>1. t = IF r.ok THEN Enter(slice, r) ELSE setCallError(slice, TRUE)
    BY <1>5 DEF AnswerTo, SwitchAnswer
  <2>2. ~r.ok => t.callsByChannel = slice.callsByChannel /\ t.myActiveCall = slice.myActiveCall
    BY <1>1, <2>1, FlagEntry
  <2>3. r.ok => Put(t, r) /\ t.myActiveCall = Entered(r)
    BY <1>2, <1>3, <2>1
  <2> QED
    BY <1>5, <2>2, <2>3
<1>6. CASE r.part \in {"post", "postSwitch"}
  <2>1. t = IF r.ok THEN Enter(slice, r) ELSE slice
    BY <1>6 DEF AnswerTo, PostAnswer
  <2>2. r.ok => Put(t, r) /\ t.myActiveCall = Entered(r)
    BY <1>2, <1>3, <2>1
  <2> QED
    BY <1>6, <2>1, <2>2
<1>7. CASE r.part = "mount"
  <2>1. t = IF r.ok THEN upsertCall(slice, ChannelOf[r.call], r.call, r.participants)
            ELSE slice
    BY <1>7 DEF AnswerTo, MountAnswer
  <2>2. r.ok => Put(t, r) /\ t.myActiveCall = slice.myActiveCall
    BY <1>2, <1>3, <2>1
  <2> QED
    BY <2>1, <2>2
<1>8. CASE r.part \in {"toast", "toastSwitch"}
  <2>1. t = IF r.ok THEN setMyActiveCall(slice, ChannelOf[r.call], r.call) ELSE slice
    BY <1>8 DEF AnswerTo, ToastAnswer
  <2>2. r.ok => /\ t.callsByChannel = slice.callsByChannel
                /\ t.myActiveCall = Entered(r)
    BY <1>2, <1>3, <2>1
  <2> QED
    BY <1>8, <2>1, <2>2 DEF Relies
<1>9. CASE r.part = "incoming"
  <2>1. PICK m : m = setMyActiveCall(slice, ChannelOf[r.call], r.call)
    OBVIOUS
  <2>2. t = IF r.ok THEN clearIncomingCall(m) ELSE slice
    BY <1>9, <2>1 DEF AnswerTo, IncomingAnswer
  <2>3. r.ok => /\ m \in CallsPluginState /\ m.callsByChannel = slice.callsByChannel
                /\ m.myActiveCall = Entered(r)
    BY <1>2, <1>3, <2>1
  <2>4. r.ok => t.callsByChannel = m.callsByChannel /\ t.myActiveCall = m.myActiveCall
    BY <2>2, <2>3, ClearEntry
  <2> QED
    BY <1>9, <2>2, <2>3, <2>4 DEF Relies
<1> QED
  BY <1>1, <1>4, <1>5, <1>6, <1>7, <1>8, <1>9 DEF Part

\* An answer that shows a call as it is not leaves it stale.
LEMMA AnswerView ==
    ASSUME ViewInvariant, DeliverAnswer
    PROVE  WireInvariant' /\ \A c \in Call : RightOn(c)'
<1>1. PICK i \in DOMAIN http :
        /\ http[i].stage = "answered" /\ http[i].part # "widget"
        /\ slice' = AnswerTo(slice, http[i])
        /\ stale' = StaleAfter(http[i])
  BY DEF DeliverAnswer
<1>2. /\ UNCHANGED <<server, inbox>> /\ phase' = phase /\ shown' = shown
      /\ rescues' = rescues /\ inbox' = inbox
  BY DEF DeliverAnswer, server, wire
<1>3. PICK r \in KnownRequest : r = http[i]
  BY LenProperties, ElementOfSeq DEF ViewInvariant, RingInvariant, WebInvariant, TabTyped
<1>4. slice \in CallsPluginState
  BY DEF ViewInvariant, RingInvariant, WebInvariant, TabTyped
<1>5. slice'.callsByChannel = slice.callsByChannel \/ (r.ok /\ Put(slice', r))
  BY <1>1, <1>3, <1>4, AnswerEntry
<1>6. ASSUME NEW c \in Call PROVE RightOn(c)'
  <2>1. PICK ch \in Channel : ch = ChannelOf[c]
    BY WebAssumption DEF WebAssumption
  <2>2. PICK entry : entry = slice'.callsByChannel[ch]
    OBVIOUS
  <2> SUFFICES ASSUME c \notin stale', entry # None, entry.id = c
               PROVE  IF Live(c)
                      THEN Expected(c) \/ entry.participants = shown[c]
                      ELSE \E k \in DOMAIN inbox : inbox[k] = Ended(c)
    BY <1>2, <2>1, <2>2 DEF RightOn, ShowsCall, selectCallByChannel, Live, Expected, Ended
  <2>3. CASE c = r.call
    <3>1. /\ entry = selectCallByChannel(slice', ChannelOf[r.call])
          /\ Live(r.call)' = Live(r.call) /\ shown'[r.call] = shown[r.call]
      BY <1>2, <2>1, <2>2, <2>3 DEF selectCallByChannel, Live
    <3>2. ~Overtaken(r)
      BY <1>1, <1>3, <2>3, <3>1 DEF StaleAfter
    <3>3. CASE r.ok /\ Put(slice', r)
      <4>1. entry.participants = r.participants
        BY <2>1, <2>2, <2>3, <3>3 DEF Put
      <4> QED
        BY <2>3, <3>2, <3>3, <4>1 DEF Overtaken
    <3>4. CASE slice'.callsByChannel = slice.callsByChannel
      <4>1. CASE c \notin stale
        BY <2>1, <2>2, <3>4, <4>1
           DEF ViewInvariant, RightOn, ShowsCall, selectCallByChannel
      <4>2. CASE c \in stale
        <5>1. Live(r.call) /\ entry = [id |-> r.call, participants |-> shown[r.call]]
          BY <1>1, <1>3, <2>3, <3>1, <4>2 DEF StaleAfter
        <5> QED
          BY <2>3, <5>1
      <4> QED
        BY <4>1, <4>2
    <3> QED
      BY <1>5, <3>3, <3>4
  <2>4. CASE c # r.call
    <3>1. c \notin stale
      BY <1>1, <1>3, <2>4 DEF StaleAfter
    <3>2. entry = slice.callsByChannel[ch]
      BY <1>5, <2>1, <2>2, <2>4 DEF Put
    <3> QED
      BY <2>1, <3>1, <3>2 DEF ViewInvariant, RightOn, ShowsCall, selectCallByChannel
  <2> QED
    BY <2>3, <2>4
<1> QED
  BY <1>2, <1>6, QuietView

\* An event leaves the later ones as they were.
LEMMA EventWire ==
    ASSUME ViewInvariant, DeliverEvent
    PROVE  WireInvariant'
<1>1. /\ WireTyped /\ WireInvariant /\ inbox # <<>> /\ inbox' = Tail(inbox)
      /\ phase' = phase /\ shown' = shown
  BY DEF ViewInvariant, RingInvariant, WebInvariant, DeliverEvent, server
<1>2. /\ \A i \in DOMAIN inbox' :
            i \in Nat /\ i + 1 \in DOMAIN inbox /\ inbox'[i] = inbox[i + 1]
      /\ \A i \in DOMAIN inbox \ {1} :
            i \in Nat /\ i - 1 \in DOMAIN inbox' /\ inbox'[i - 1] = inbox[i]
  BY <1>1, Consumed
<1>3. OneLive'
  BY <1>1 DEF WireInvariant, OneLive, Live
<1>4. ASSUME NEW i \in DOMAIN inbox', NEW j \in DOMAIN inbox, i + 1 < j
      PROVE  j - 1 \in DOMAIN inbox' /\ i < j - 1 /\ inbox'[j - 1] = inbox[j]
  <2>1. i \in Nat /\ i + 1 \in DOMAIN inbox
    BY <1>2
  <2>2. j # 1
    <3>1. inbox \in Seq(Event) /\ DOMAIN inbox = 1..Len(inbox) /\ Len(inbox) \in Nat
      BY <1>1, LenProperties DEF WireTyped
    <3> QED
      BY <1>4, <2>1, <3>1
  <2> QED
    BY <1>2, <1>4, <2>1, <2>2
<1>5. ASSUME NEW i \in DOMAIN inbox' PROVE FormedAt(i)'
  <2>1. PICK k \in DOMAIN inbox : k = i + 1 /\ inbox'[i] = inbox[k]
    BY <1>2
  <2>2. FormedAt(k)
    BY <1>1 DEF WireInvariant
  <2> QED
    BY <2>1, <2>2 DEF FormedAt, IsTidings
<1>6. ASSUME NEW c \in Call, NEW i \in DOMAIN inbox' PROVE StartSaidAt(c, i)'
  <2>1. PICK k \in DOMAIN inbox : k = i + 1 /\ inbox'[i] = inbox[k]
    BY <1>2
  <2> SUFFICES ASSUME Live(c), News(inbox[k], ChannelOf[c]), inbox[k].call_id # c,
                      inbox[k].type # "user_joined" \/ "webhook" \notin Faults
               PROVE  \E j \in DOMAIN inbox' : i < j /\ Starts(inbox'[j], c)
    BY <1>1, <2>1 DEF StartSaidAt, News, IsTidings, Live, Starts
  <2>2. PICK j \in DOMAIN inbox : k < j /\ Starts(inbox[j], c)
    BY <1>1 DEF WireInvariant, StartSaidAt
  <2>3. j - 1 \in DOMAIN inbox' /\ i < j - 1 /\ inbox'[j - 1] = inbox[j]
    BY <1>4, <2>1, <2>2
  <2> QED
    BY <2>2, <2>3
<1> QED
  BY <1>3, <1>5, <1>6 DEF WireInvariant

\* An event that is handled makes the picture of its channel right, or something
\* will still come about the call that the channel shows, or that call is stale.
LEMMA EventView ==
    ASSUME ViewInvariant, DeliverEvent, NEW c \in Call
    PROVE  RightOn(c)'
<1>1. /\ RingInvariant /\ WireTyped /\ WireInvariant /\ OneLive
      /\ slice \in CallsPluginState /\ inbox # <<>>
      /\ phase' = phase /\ shown' = shown /\ rescues' = rescues
      /\ RightOn(c) /\ slice' \in CallsPluginState
  BY EventSound DEF ViewInvariant, RingInvariant, WebInvariant, TabTyped, WireInvariant,
     DeliverEvent, server
<1>2. PICK e \in Event : e = inbox[1] /\ e = Head(inbox) /\ 1 \in DOMAIN inbox
  BY <1>1, Consumed DEF DeliverEvent
<1>3. /\ inbox' = Tail(inbox) /\ slice' = HandleEvent(slice, e)
      /\ stale' = StaleAfterEvent(e)
  BY <1>2 DEF DeliverEvent
<1>4. \A i \in DOMAIN inbox \ {1} : i - 1 \in DOMAIN inbox' /\ inbox'[i - 1] = inbox[i]
  BY <1>1, <1>3, Consumed
<1>5. PICK ch \in Channel : ch = ChannelOf[c]
  BY WebAssumption DEF WebAssumption
<1>6. PICK old, new : old = slice.callsByChannel[ch] /\ new = slice'.callsByChannel[ch]
  OBVIOUS
\* What is to come after the first event.
<1>7. Expected(c) => About(e, c) \/ Expected(c)'
  BY <1>1, <1>2, <1>4 DEF Expected, About
<1>8. ASSUME NEW i \in DOMAIN inbox, inbox[i] = Ended(c), e # Ended(c)
      PROVE  \E j \in DOMAIN inbox' : inbox'[j] = Ended(c)
  BY <1>2, <1>4, <1>8
\* The tab is sure again of a call that it shows as it is.
<1>11. \A x \in stale \ stale' :
          /\ x = e.call_id /\ e.type # "notification_dismissed"
          /\ e.type # "call_ended" => Live(x) /\ e.participants = shown[x]
  BY <1>1, <1>3, StaleSound
<1> DEFINE Right == IF Live(c) THEN Expected(c)' \/ new.participants = shown[c]
                    ELSE \E j \in DOMAIN inbox' : inbox'[j] = Ended(c)
<1> SUFFICES ASSUME c \notin stale', new # None, new.id = c
             PROVE  Right
  BY <1>1, <1>5, <1>6 DEF RightOn, ShowsCall, selectCallByChannel, Live, Ended
<1>12. FormedAt(1)
  BY <1>1, <1>2 DEF WireInvariant
\* The event leaves the entry alone, and does not end the call.
<1>9. ASSUME new = old, c \notin stale, ~About(e, c) PROVE Right
  <2>1. e # Ended(c)
    BY <1>9 DEF Ended, About
  <2> QED
    BY <1>1, <1>5, <1>6, <1>7, <1>8, <1>9, <2>1 DEF RightOn, ShowsCall, selectCallByChannel
\* The event is of another channel, or of none.
<1>10. CASE ~News(e, ch)
  <2>1. new = old
    BY <1>1, <1>2, <1>3, <1>5, <1>6, <1>10, HandlerEntry DEF News, IsTidings
  <2>2. ~About(e, c)
    BY <1>2, <1>5, <1>10, <1>12 DEF FormedAt, News, About, IsTidings
  <2>3. c \notin stale
    BY <1>11, <2>2 DEF About
  <2> QED
    BY <1>9, <2>1, <2>2, <2>3
\* It is of this channel.
<1>13. CASE News(e, ch)
  <2>1. /\ e.channel_id = ch /\ e.call_id \in Call /\ IsTidings(e)
        /\ new = EntryAfter(old, e) /\ ChannelOf[e.call_id] = ch
    BY <1>1, <1>2, <1>3, <1>6, <1>12, <1>13, HandlerEntry DEF News, IsTidings, FormedAt
  <2>2. e.type \in {"call_started", "user_joined", "user_left", "call_ended"}
    BY <2>1 DEF IsTidings, Event, CallStartedPayload, UserJoinedPayload, UserLeftPayload,
       CallEndedPayload, NotifDismissedPayload
  <2>3. CASE e.type = "call_ended"
    <3>1. new = old /\ e.call_id # c
      BY <2>1, <2>3 DEF EntryAfter
    <3>2. ~About(e, c) /\ c \notin stale
      BY <1>11, <3>1 DEF About
    <3> QED
      BY <1>9, <3>1, <3>2
  <2>4. CASE e.type # "call_ended"
    <3>1. new.participants = e.participants
      BY <2>1, <2>2, <2>4 DEF EntryAfter
    <3>2. CASE Live(c)
      <4>1. CASE Says(e)
        <5>1. e.call_id = c /\ e.participants = shown[c]
          BY <1>1, <1>5, <2>1, <2>4, <3>2, <4>1 DEF Says, OneLive
        <5> QED
          BY <3>1, <3>2, <5>1
      <4>2. CASE ~Says(e)
        <5>1. selectCallByChannel(slice', e.channel_id) = new
          BY <1>6, <2>1 DEF selectCallByChannel
        <5>2. Awaited(c)
          BY <1>3, <2>2, <2>4, <4>2, <5>1 DEF StaleAfterEvent
        <5>3. Expected(c)'
          BY <1>1, <5>2 DEF Awaited, Expected
        <5> QED
          BY <3>2, <5>3
      <4> QED
        BY <4>1, <4>2
    <3>3. CASE ~Live(c)
      <4>1. e # Ended(c) /\ c \notin stale
        BY <1>11, <2>4, <3>3 DEF Ended
      <4>2. \E j \in DOMAIN inbox : inbox[j] = Ended(c)
        <5>1. CASE Starts(e, c)
          BY <1>1, <1>2, <3>3, <5>1, EndFollows
        <5>2. CASE ~Starts(e, c)
          <6>1. old # None /\ old.id = c
            BY <2>1, <2>2, <2>4, <5>2 DEF EntryAfter, Starts
          <6> QED
            BY <1>1, <1>5, <1>6, <3>3, <4>1, <6>1 DEF RightOn, ShowsCall, selectCallByChannel
        <5> QED
          BY <5>1, <5>2
      <4> QED
        BY <1>8, <3>3, <4>1, <4>2
    <3> QED
      BY <3>2, <3>3
  <2> QED
    BY <2>3, <2>4
<1> QED
  BY <1>10, <1>13

\* A dropped connection leaves every call stale of which an event is lost.
LEMMA DisconnectView ==
    ASSUME ViewInvariant, Disconnect
    PROVE  WireInvariant' /\ \A c \in Call : RightOn(c)'
<1>1. /\ inbox' = <<>> /\ DOMAIN inbox' = {}
      /\ stale' = stale \cup {inbox[i].call_id : i \in DOMAIN inbox}
      /\ phase' = phase /\ shown' = shown /\ rescues' = rescues /\ slice' = slice
  BY DEF Disconnect, server
<1>2. WireInvariant'
  <2>1. OneLive'
    BY <1>1 DEF ViewInvariant, WireInvariant, OneLive, Live
  <2> QED
    BY <1>1, <2>1 DEF WireInvariant
<1>3. ASSUME NEW c \in Call PROVE RightOn(c)'
  <2> SUFFICES ASSUME c \notin stale', ShowsCall(c)
               PROVE  /\ Live(c)
                      /\ \/ \E e \in rescues : e.call_id = c
                         \/ selectCallByChannel(slice, ChannelOf[c]).participants = shown[c]
    BY <1>1 DEF RightOn, ShowsCall, selectCallByChannel, Live, Expected
  <2>1. c \notin stale /\ \A i \in DOMAIN inbox : inbox[i].call_id # c
    BY <1>1
  <2>2. Live(c)
    BY <2>1 DEF ViewInvariant, RightOn, Ended
  <2> QED
    BY <2>1, <2>2 DEF ViewInvariant, RightOn, Expected, About
<1> QED
  BY <1>2, <1>3

\* A click changes no entry: what the user joins, the answer puts into the slice.
LEMMA ClickEntry ==
    ASSUME WebInvariant, UserClicks
    PROVE  slice'.callsByChannel = slice.callsByChannel
           /\ slice'.myActiveCall = slice.myActiveCall
<1>1. slice \in CallsPluginState
  BY DEF WebInvariant, TabTyped
<1> DEFINE Kept(s) == s.callsByChannel = slice.callsByChannel
                      /\ s.myActiveCall = slice.myActiveCall
<1>2. \A b \in BOOLEAN, p \in Call \cup {None} :
         /\ Kept(setCallLoading(slice, b)) /\ Kept(setCallError(slice, b))
         /\ Kept(setPendingSwitchCallId(slice, p))
  BY <1>1, FlagEntry
<1>3. ASSUME NEW ch \in Channel, HeaderStart(ch) \/ HeaderJoin(ch) PROVE Kept(slice')
  <2>1. PICK call : call = selectCallByChannel(slice, ch)
    OBVIOUS
  <2>2. call # None => call.id \in Call
    BY <1>1, <2>1 DEF selectCallByChannel, CallsPluginState, ActiveCall
  <2>3. \/ slice' = setCallLoading(slice, TRUE)
        \/ call # None /\ slice' = setPendingSwitchCallId(slice, call.id)
    BY <1>3, <2>1 DEF HeaderStart, HeaderJoin
  <2> QED
    BY <1>2, <2>2, <2>3
<1>4. SwitchConfirm \/ CloseGlobalModal => Kept(slice')
  BY <1>2 DEF SwitchConfirm, CloseGlobalModal
<1>5. (\E ch \in Channel : ToastJoin(ch) \/ ToastConfirm(ch) \/ ToastClose(ch))
      \/ (\E c \in Call : PostMount(c) \/ PostJoin(c) \/ PostConfirm(c) \/ PostClose(c))
      \/ IncomingIgnore \/ IncomingJoin \/ IncomingConfirm \/ IncomingCancel
      => slice' = slice
  BY DEF ToastJoin, ToastConfirm, ToastClose, PostMount, PostJoin, PostConfirm, PostClose,
     IncomingIgnore, IncomingJoin, IncomingConfirm, IncomingCancel
<1> QED
  BY <1>3, <1>4, <1>5 DEF UserClicks

\* All steps.
LEMMA ViewStep ==
    ASSUME ViewInvariant, [WebNext]_webVars
    PROVE  ViewInvariant'
<1>1. RingInvariant /\ WebInvariant /\ http \in Seq(KnownRequest) /\ slice \in CallsPluginState
      /\ ServerTyped
  BY DEF ViewInvariant, RingInvariant, WebInvariant, TabTyped
<1>2. RingInvariant'
  BY <1>1, WebStep
<1> SUFFICES WireInvariant' /\ \A c \in Call : RightOn(c)'
  BY <1>2 DEF ViewInvariant
<1>3. ASSUME ServerStep, slice' = slice
      PROVE  WireInvariant' /\ \A c \in Call : RightOn(c)'
  <2>1. ASSUME NEW c \in Call, NEW events, Move(c, events)
        PROVE  WireInvariant' /\ \A d \in Call : RightOn(d)'
    BY <1>3, <2>1, MoveWire, MoveRight
  <2>2. Unmoved => WireInvariant' /\ \A d \in Call : RightOn(d)'
    BY <1>3, QuietView DEF Unmoved, wire
  <2>3. ASSUME NEW c \in Call, UNCHANGED server, Publish(<<DismissedEvent(c)>>)
        PROVE  WireInvariant' /\ \A d \in Call : RightOn(d)'
    <3>1. PICK e \in Event : e = DismissedEvent(c) /\ e.type = "notification_dismissed"
      BY DismissedSound
    <3>2. UNCHANGED <<phase, shown>> /\ rescues \ {e} \subseteq rescues' /\ Publish(<<e>>)
      BY <2>3, <3>1 DEF server
    <3> QED
      BY <1>3, <3>1, <3>2, OneView
  <2>4. ASSUME NEW c \in Call, Added(c) PROVE WireInvariant' /\ \A d \in Call : RightOn(d)'
    BY <1>3, <2>4, AddedView
  <2>5. ASSUME NEW e \in Rescue, Rescued(e)
        PROVE  WireInvariant' /\ \A d \in Call : RightOn(d)'
    <3>1. e \in Event
      BY DEF Rescue, Event
    <3>2. UNCHANGED <<phase, shown>> /\ rescues \ {e} \subseteq rescues' /\ Publish(<<e>>)
      BY <2>5 DEF Rescued
    <3> QED
      BY <1>3, <3>1, <3>2, OneView
  <2> QED
    BY <1>3, <2>1, <2>2, <2>3, <2>4, <2>5 DEF ServerStep
<1>4. CASE OthersMove \/ PublishRescue
  <2>1. ServerStep /\ slice' = slice
    BY <1>1, <1>4, OthersSound
  <2> QED
    BY <1>3, <2>1
<1>5. CASE Serve
  <2>1. slice' = slice
    BY <1>5 DEF Serve
  <2> QED
    BY <1>1, <1>3, <1>5, <2>1, ServeSound
<1>6. CASE DeliverAnswer
  BY <1>6, AnswerView
<1>7. CASE DeliverEvent
  BY <1>7, EventWire, EventView
<1>8. CASE Disconnect
  BY <1>8, DisconnectView
<1>9. CASE FetchFails \/ Reconnect \/ RingTimeout \/ UserClicks \/ UNCHANGED webVars
  <2>1. UNCHANGED <<server, inbox>> /\ stale' = stale
    <3>1. UserClicks => UNCHANGED <<server, wire, stale>>
      BY <1>1, UserSound
    <3> QED
      BY <1>9, <3>1 DEF FetchFails, Reconnect, RingTimeout, webVars, wire
  <2>2. slice'.callsByChannel = slice.callsByChannel
    <3>1. RingTimeout => slice'.callsByChannel = slice.callsByChannel
      BY <1>1, ClearEntry DEF RingTimeout
    <3>2. UserClicks => slice'.callsByChannel = slice.callsByChannel
      BY <1>1, ClickEntry
    <3> QED
      BY <1>9, <3>1, <3>2 DEF FetchFails, Reconnect, webVars
  <2> QED
    BY <2>1, <2>2, QuietView
<1> QED
  BY <1>4, <1>5, <1>6, <1>7, <1>8, <1>9 DEF WebNext

\* A freshly loaded page shows no call.
LEMMA ViewInitial == WebInit => ViewInvariant
<1> SUFFICES ASSUME WebInit PROVE ViewInvariant
  OBVIOUS
<1>1. DOMAIN inbox = {} /\ OneLive
  BY DEF WebInit, OneLive, Live
<1>2. ASSUME NEW c \in Call PROVE ~ShowsCall(c)
  <2>1. ChannelOf[c] \in Channel
    BY WebAssumption DEF WebAssumption
  <2>2. slice.callsByChannel = [ch \in Channel |-> None]
    BY DEF WebInit, setPluginEnabled, initialState
  <2> QED
    BY <2>1, <2>2 DEF ShowsCall, selectCallByChannel
<1> QED
  BY <1>1, <1>2, WebInitial DEF ViewInvariant, WireInvariant, RightOn

THEOREM ViewInvariance == WebSpec => []ViewInvariant
<1>1. ViewInvariant /\ [WebNext]_webVars => ViewInvariant'
  BY ViewStep
<1> QED
  BY <1>1, ViewInitial, PTL DEF WebSpec

\* When nothing is on its way, the call that a channel shows is the live one with
\* the server's participants, and the header and the toast offer to join exactly
\* the calls this user is not in: whatever order answers and events came in, also
\* those that participantJoined publishes outside callMu; except for a stale call,
\* so one whose last news was lost, overtaken, or a list published late.
THEOREM ViewIsCurrentAlways == WebSpec => []ViewIsCurrent
<1>1. ViewInvariant /\ SpinnerStops => ViewIsCurrent
  <2> SUFFICES ASSUME ViewInvariant, SpinnerStops, inbox = <<>>, http = <<>>, rescues = {},
                      NEW c \in Call \ stale, ShowsCall(c)
               PROVE  /\ Live(c)
                      /\ selectCallByChannel(slice, ChannelOf[c]).participants = shown[c]
                      /\ (me \in shown[c]) = (HeaderLabel(ChannelOf[c]) = "in call")
                      /\ (me \in shown[c]) => ~ToastVisible(ChannelOf[c])
    BY DEF ViewIsCurrent, AtRest
  <2>1. DOMAIN inbox = {} /\ DOMAIN http = {}
    OBVIOUS
  <2>2. Live(c) /\ selectCallByChannel(slice, ChannelOf[c]).participants = shown[c]
    BY <2>1 DEF ViewInvariant, RightOn, Expected
  <2>3. ~slice.callLoading /\ slice.callLoading \in BOOLEAN
    BY <2>1 DEF SpinnerStops, ViewInvariant, RingInvariant, WebInvariant, TabTyped,
       CallsPluginState
  <2>4. selectIsCurrentUserParticipant(slice, ChannelOf[c], me) = (me \in shown[c])
    BY <2>2 DEF selectIsCurrentUserParticipant, selectCallByChannel, ShowsCall
  <2>5. (me \in shown[c]) = (HeaderLabel(ChannelOf[c]) = "in call")
    <3>1. PICK label : label = HeaderLabel(ChannelOf[c])
      OBVIOUS
    <3>2. selectCallByChannel(slice, ChannelOf[c]) # None
      BY DEF ShowsCall
    <3>3. CASE me \in shown[c]
      <4>1. selectIsCurrentUserParticipant(slice, ChannelOf[c], me)
        BY <2>4, <3>3
      <4>2. label = "in call"
        BY <2>3, <3>1, <4>1 DEF HeaderLabel
      <4> QED
        BY <3>1, <3>3, <4>2
    <3>4. CASE me \notin shown[c]
      <4>1. ~selectIsCurrentUserParticipant(slice, ChannelOf[c], me)
        BY <2>4, <3>4
      <4>2. label = "join"
        BY <2>3, <3>1, <3>2, <4>1 DEF HeaderLabel
      <4> QED
        BY <3>1, <3>4, <4>2
    <3> QED
      BY <3>3, <3>4
  <2> QED
    BY <2>2, <2>4, <2>5 DEF ToastVisible
<1> QED
  BY <1>1, ViewInvariance, WebInvariance, PTL

-----------------------------------------------------------------------------
(* Why the tab shows the call that it is in.                               *)

\* A component waits for an answer that takes the tab into the call, and relies
\* on its being in the slice.
Relying(r, c) == Relies(r.part) /\ r.kind \notin {"leave", "dismiss"} /\ r.call = c

Relied(c) == \E i \in DOMAIN http : Relying(http[i], c)

\* The tab is in the call, it rings, or a component may take the tab into it
\* without putting it into the slice.
Held(c) ==
    \/ IsMyActiveCall(slice, c) \/ IsIncomingCall(slice, c)
    \/ c # None /\ ui.toast.pending = c
    \/ Relied(c)

\* A call that the tab holds on to is shown while it goes on, or will be: its
\* call_started is on its way, unless the tab has missed something of the channel.
HeldShown(c) ==
    Held(c) /\ Live(c) =>
        \/ ShowsCall(c)
        \/ \E i \in DOMAIN inbox : Starts(inbox[i], c)
        \/ \E d \in stale : ChannelOf[d] = ChannelOf[c]

\* call_ended is sent for a call that is over.
EndSaidAt(i) == inbox[i].type = "call_ended" => Over(inbox[i].call_id)

\* A channel shows a call of its own.
AtHome(ch) ==
    slice.callsByChannel[ch] # None => ChannelOf[slice.callsByChannel[ch].id] = ch

MineInvariant ==
    /\ ViewInvariant
    /\ \A i \in DOMAIN inbox : EndSaidAt(i)
    /\ \A ch \in Channel : AtHome(ch)
    /\ \A c \in Call : HeldShown(c)

\* What is left when one is removed was there before.
LEMMA RemoveAtFrom ==
    ASSUME NEW S, NEW s \in Seq(S), NEW i \in DOMAIN s
    PROVE  \A j \in DOMAIN RemoveAt(s, i) : \E k \in DOMAIN s : RemoveAt(s, i)[j] = s[k]
<1>1. PICK T : T = {s[k] : k \in DOMAIN s}
  OBVIOUS
<1>2. Len(s) \in Nat /\ DOMAIN s = 1..Len(s) /\ s = [k \in 1..Len(s) |-> s[k]]
  BY LenProperties
<1>3. s \in Seq(T)
  BY <1>1, <1>2, IsASeq
<1>4. RemoveAt(s, i) \in Seq(T)
  BY <1>3, RemoveAtSound
<1> QED
  BY <1>1, <1>4, LenProperties, ElementOfSeq

\* The answers that the server sends are those that were waited for.
LEMMA ReplyHolds ==
    ASSUME http \in Seq(KnownRequest), NEW i \in DOMAIN http, NEW ok, NEW c, NEW list,
           Reply(i, ok, c, list), c = http[i].call \/ ~Relies(http[i].part),
           NEW d \in Call, Relied(d)'
    PROVE  Relied(d)
<1>1. PICK j \in DOMAIN http' : Relying(http'[j], d)
  BY DEF Relied, Relying, Relies
<1>2. CASE Forgotten(http[i])
  <2>1. http' = RemoveAt(http, i)
    BY <1>2 DEF Reply
  <2>2. PICK k \in DOMAIN http : http'[j] = http[k]
    BY <2>1, RemoveAtFrom
  <2> QED
    BY <1>1, <2>2 DEF Relied
<1>3. CASE ~Forgotten(http[i])
  <2>1. PICK a : a = Answered(http[i], ok, c, list)
    OBVIOUS
  <2>2. http[i] \in Request
    BY LenProperties, ElementOfSeq DEF KnownRequest
  <2>3. a.part = http[i].part /\ a.kind = http[i].kind /\ a.call = c
    BY <2>1, <2>2 DEF Answered, Request
  <2>4. http' = [http EXCEPT ![i] = a]
    BY <1>3, <2>1 DEF Reply, ReplaceAt
  <2>5. j \in DOMAIN http /\ http'[j] = IF j = i THEN a ELSE http[j]
    BY <2>4
  <2>6. CASE j = i
    <3>1. Relying(http[i], d)
      BY <1>1, <2>3, <2>5, <2>6 DEF Relying
    <3> QED
      BY <3>1 DEF Relied
  <2>7. CASE j # i
    BY <1>1, <2>5, <2>7 DEF Relied
  <2> QED
    BY <2>6, <2>7
<1> QED
  BY <1>2, <1>3

LEMMA ServeHolds ==
    ASSUME WebInvariant, Serve \/ FetchFails, NEW d \in Call, Relied(d)'
    PROVE  Relied(d)
<1>1. http \in Seq(KnownRequest)
  BY DEF WebInvariant, TabTyped
<1>2. CASE FetchFails
  BY <1>1, <1>2, ReplyHolds DEF FetchFails
<1>3. CASE Serve
  <2>1. PICK i \in DOMAIN http :
          CASE http[i].kind = "create" -> ServeCreate(i)
            [] http[i].kind = "join" -> ServeJoin(i)
            [] http[i].kind = "leave" -> ServeLeave(i)
            [] http[i].kind = "get" -> ServeGet(i)
            [] http[i].kind = "dismiss" -> ServeDismiss(i)
    BY <1>3 DEF Serve
  <2>2. http[i] \in Request /\ Known(http[i])
    BY <1>1, LenProperties, ElementOfSeq DEF KnownRequest
  <2>3. \/ http[i].kind = "create" /\ ServeCreate(i)
        \/ http[i].kind # "create"
           /\ (ServeJoin(i) \/ ServeLeave(i) \/ ServeGet(i) \/ ServeDismiss(i))
    BY <2>1, <2>2 DEF Request
  <2>4. ASSUME NEW ok, NEW c, NEW list, Reply(i, ok, c, list),
               http[i].kind = "create" \/ c = http[i].call
        PROVE  Relied(d)
    <3>1. http[i].kind = "create" => ~Relies(http[i].part)
      BY <2>2 DEF Known, Relies
    <3> QED
      BY <1>1, <2>4, <3>1, ReplyHolds
  <2> QED
    BY <2>3, <2>4 DEF ServeCreate, ServeJoin, ServeLeave, ServeGet, ServeDismiss
<1> QED
  BY <1>2, <1>3

\* Requests that are sent join those in flight.
LEMMA SendHolds ==
    ASSUME http \in Seq(KnownRequest), NEW requests \in Seq(KnownRequest), Send(requests),
           NEW d \in Call, Relied(d)'
    PROVE  Relied(d) \/ \E i \in DOMAIN requests : Relying(requests[i], d)
<1>1. PICK j \in DOMAIN http' : Relying(http'[j], d)
  BY DEF Relied, Relying, Relies
<1>2. http' = http \o requests
  BY DEF Send
<1>3. \/ j \in DOMAIN http /\ http'[j] = http[j]
      \/ \E k \in DOMAIN requests : http'[j] = requests[k]
  BY <1>2, ConcatSound
<1> QED
  BY <1>1, <1>3 DEF Relied

\* The leave of a switch takes the tab into no call.
LEMMA SwitchHolds ==
    ASSUME slice \in CallsPluginState, NEW part \in Part, NEW c \in Call,
           NEW from \in Part \ {"header"}, NEW requests,
           requests = LeaveMine(from) \o <<AskJoin(part, c)>>,
           NEW d \in Call, NEW i \in DOMAIN requests, Relying(requests[i], d)
    PROVE  Relies(part) /\ d = c
<1>1. PICK r : r = AskJoin(part, c)
  OBVIOUS
<1>2. r \in KnownRequest /\ r.part = part /\ r.call = c
  BY <1>1, JoinAsked DEF AskJoin, Ask
<1>3. LeaveMine(from) \in Seq(KnownRequest) /\ <<r>> \in Seq(KnownRequest)
      /\ DOMAIN <<r>> = {1} /\ <<r>>[1] = r
  BY <1>2, LeaveMineSound
<1>4. \/ i \in DOMAIN LeaveMine(from) /\ requests[i] = LeaveMine(from)[i]
      \/ requests[i] = r
  <2>1. PICK one : one = <<r>>
    OBVIOUS
  <2>2. requests = LeaveMine(from) \o one
    BY <1>1, <2>1
  <2> QED
    BY <1>3, <2>1, <2>2, ConcatSound
<1>5. \A k \in DOMAIN LeaveMine(from) : LeaveMine(from)[k].kind = "leave"
  BY DEF LeaveMine, Ask
<1> QED
  BY <1>2, <1>4, <1>5 DEF Relying

\* No click on the header, a modal of it or a post makes the tab rely on a call
\* that is not in the slice, ...
LEMMA PlainClickHolds ==
    ASSUME WebInvariant,
           \/ \E ch \in Channel : HeaderStart(ch) \/ HeaderJoin(ch)
           \/ SwitchConfirm \/ CloseGlobalModal
           \/ \E c \in Call : PostMount(c) \/ PostJoin(c) \/ PostConfirm(c) \/ PostClose(c),
           NEW d \in Call
    PROVE  ui'.toast = ui.toast /\ (Relied(d)' => Relied(d))
<1>0. /\ slice \in CallsPluginState /\ ui \in LocalState /\ http \in Seq(KnownRequest)
      /\ \A c \in Call : ChannelOf[c] \in Channel
      /\ {"header", "switch", "mount", "post", "postSwitch"} \subseteq Part
      /\ {"switch", "post"} \subseteq Part \ {"header"}
  BY WebAssumption DEF WebInvariant, TabTyped, WebAssumption, Part
<1>1. ASSUME NEW r \in KnownRequest, ~Relies(r.part), Send(<<r>>), Relied(d)'
      PROVE  Relied(d)
  <2>1. <<r>> \in Seq(KnownRequest) /\ \A i \in DOMAIN <<r>> : <<r>>[i] = r
    BY <1>1
  <2> QED
    BY <1>0, <1>1, <2>1, SendHolds DEF Relying
<1>2. ASSUME UNCHANGED http, Relied(d)' PROVE Relied(d)
  BY <1>2 DEF Relied, Relying, Relies
<1>3. ASSUME NEW part \in {"header", "switch", "post", "postSwitch"}, NEW c \in Call,
             NEW from \in {"switch", "post"}
      PROVE  /\ AskJoin(part, c) \in KnownRequest /\ ~Relies(AskJoin(part, c).part)
             /\ Send(LeaveMine(from) \o <<AskJoin(part, c)>>) /\ Relied(d)' => Relied(d)
  <2>1. part \in Part /\ from \in Part \ {"header"} /\ ~Relies(part)
    BY <1>0 DEF Relies
  <2>2. PICK requests : requests = LeaveMine(from) \o <<AskJoin(part, c)>>
    OBVIOUS
  <2>3. /\ AskJoin(part, c) \in KnownRequest /\ AskJoin(part, c).part = part
        /\ requests \in Seq(KnownRequest)
    BY <1>0, <2>1, <2>2, JoinAsked
  <2>4. \A i \in DOMAIN requests : ~Relying(requests[i], d)
    BY <1>0, <2>1, <2>2, SwitchHolds
  <2>5. Send(requests) /\ Relied(d)' => Relied(d)
    BY <1>0, <2>3, <2>4, SendHolds
  <2> QED
    BY <2>1, <2>2, <2>3, <2>5
<1>4. ASSUME NEW ch \in Channel, HeaderStart(ch)
      PROVE  ui'.toast = ui.toast /\ (Relied(d)' => Relied(d))
  <2>1. PICK r : r = Ask("header", "create", None, ch)
    OBVIOUS
  <2>2. r \in KnownRequest /\ ~Relies(r.part)
    <3>1. "create" \in {"create", "join", "leave", "dismiss", "get"} /\ None \in Call \cup {None}
          /\ "header" \in Part
      BY <1>0
    <3>2. r \in KnownRequest /\ r.part = "header"
      BY <2>1, <3>1, AskSound
    <3> QED
      BY <3>2 DEF Relies
  <2>3. Send(<<r>>) /\ ui' = ui
    BY <1>4, <2>1 DEF HeaderStart
  <2> QED
    BY <1>1, <2>2, <2>3
<1>5. ASSUME NEW ch \in Channel, HeaderJoin(ch)
      PROVE  ui'.toast = ui.toast /\ (Relied(d)' => Relied(d))
  <2>1. PICK call : call = selectCallByChannel(slice, ch)
    OBVIOUS
  <2>2. call.id \in Call
    BY <1>0, <1>5, <2>1 DEF HeaderJoin, selectCallByChannel, CallsPluginState, ActiveCall
  <2>3. (UNCHANGED http \/ Send(<<AskJoin("header", call.id)>>)) /\ ui' = ui
    BY <1>5, <2>1 DEF HeaderJoin
  <2> QED
    BY <1>1, <1>2, <1>3, <2>2, <2>3
<1>6. CASE SwitchConfirm
  <2>1. PICK c \in Call : Send(LeaveMine("switch") \o <<AskJoin("switch", c)>>) /\ ui' = ui
    BY <1>0, <1>6 DEF SwitchConfirm, CallsPluginState
  <2> QED
    BY <1>3, <2>1
<1>7. CASE CloseGlobalModal
  BY <1>2, <1>7 DEF CloseGlobalModal
<1>8. ASSUME NEW c \in Call, PostMount(c) \/ PostJoin(c) \/ PostConfirm(c) \/ PostClose(c)
      PROVE  ui'.toast = ui.toast /\ (Relied(d)' => Relied(d))
  <2>1. ui'.toast = ui.toast
    BY <1>0, <1>8 DEF PostMount, PostJoin, PostConfirm, PostClose, LocalState
  <2>2. CASE PostMount(c)
    <3>1. PICK r : r = Ask("mount", "get", c, ChannelOf[c])
      OBVIOUS
    <3>2. r \in KnownRequest /\ ~Relies(r.part)
      <4>1. "get" \in {"create", "join", "leave", "dismiss", "get"} /\ "mount" \in Part
        BY <1>0
      <4> QED
        BY <1>0, <3>1, <4>1, AskSound DEF Relies
    <3> QED
      BY <1>1, <2>1, <2>2, <3>1, <3>2 DEF PostMount
  <2>3. CASE UNCHANGED http \/ Send(<<AskJoin("post", c)>>)
             \/ Send(LeaveMine("post") \o <<AskJoin("postSwitch", c)>>)
    BY <1>1, <1>2, <1>3, <2>1, <2>3
  <2> QED
    BY <1>8, <2>2, <2>3 DEF PostJoin, PostConfirm, PostClose
<1> QED
  BY <1>4, <1>5, <1>6, <1>7, <1>8

\* ... the toast offers the call that its channel shows, ...
LEMMA ToastClickHolds ==
    ASSUME WebInvariant, NEW ch \in Channel, AtHome(ch),
           ToastJoin(ch) \/ ToastConfirm(ch) \/ ToastClose(ch), NEW d \in Call
    PROVE  /\ d # None /\ ui'.toast.pending = d => ui.toast.pending = d \/ ShowsCall(d)
           /\ Relied(d)' => Relied(d) \/ (d # None /\ ui.toast.pending = d) \/ ShowsCall(d)
<1>0. /\ slice \in CallsPluginState /\ ui \in LocalState /\ http \in Seq(KnownRequest)
      /\ ui.toast \in Modal
      /\ {"toast", "toastSwitch"} \subseteq Part /\ "toast" \in Part \ {"header"}
  BY DEF WebInvariant, TabTyped, Part, LocalState
<1>1. ASSUME UNCHANGED http, Relied(d)' PROVE Relied(d)
  BY <1>1 DEF Relied, Relying, Relies
<1>2. CASE ToastJoin(ch)
  <2>1. PICK c : c = selectCallByChannel(slice, ch).id
    OBVIOUS
  <2>2. selectCallByChannel(slice, ch) # None /\ c \in Call
    BY <1>0, <1>2, <2>1
       DEF ToastJoin, ToastVisible, selectCallByChannel, CallsPluginState, ActiveCall
  <2>3. ShowsCall(c)
    BY <2>1, <2>2 DEF AtHome, ShowsCall, selectCallByChannel
  <2>4. \/ ui' = [ui EXCEPT !.toast = [visible |-> TRUE, pending |-> c]] /\ http' = http
        \/ Send(<<AskJoin("toast", c)>>) /\ ui' = ui
    BY <1>2, <2>1 DEF ToastJoin
  <2>5. ASSUME Send(<<AskJoin("toast", c)>>), Relied(d)' PROVE Relied(d) \/ d = c
    <3>1. PICK r : r = AskJoin("toast", c)
      OBVIOUS
    <3>2. r \in KnownRequest /\ r.call = c
      BY <1>0, <2>2, <3>1, JoinAsked DEF AskJoin, Ask
    <3>3. PICK one : one = <<r>>
      OBVIOUS
    <3>4. one \in Seq(KnownRequest) /\ Send(one) /\ \A i \in DOMAIN one : one[i] = r
      BY <2>5, <3>1, <3>2, <3>3
    <3>5. Relied(d) \/ Relying(r, d)
      BY <1>0, <2>5, <3>4, SendHolds
    <3> QED
      BY <3>2, <3>5 DEF Relying
  <2>6. ui'.toast.pending \in {ui.toast.pending, c}
    BY <1>0, <2>4 DEF LocalState
  <2> QED
    BY <1>1, <2>3, <2>4, <2>5, <2>6
<1>3. CASE ToastConfirm(ch)
  <2>1. PICK c : c = ui.toast.pending
    OBVIOUS
  <2>2. /\ ui' = [ui EXCEPT !.toast.visible = FALSE]
        /\ \/ http' = http
           \/ c \in Call /\ c # None
              /\ Send(LeaveMine("toast") \o <<AskJoin("toastSwitch", c)>>)
    BY <1>0, <1>3, <2>1 DEF ToastConfirm, Modal
  <2>3. ui'.toast.pending = ui.toast.pending
    BY <1>0, <2>2 DEF LocalState, Modal
  <2>4. ASSUME c \in Call, Send(LeaveMine("toast") \o <<AskJoin("toastSwitch", c)>>), Relied(d)'
        PROVE  Relied(d) \/ d = c
    <3>1. PICK requests : requests = LeaveMine("toast") \o <<AskJoin("toastSwitch", c)>>
      OBVIOUS
    <3>2. requests \in Seq(KnownRequest)
      BY <1>0, <2>4, <3>1, JoinAsked
    <3>3. ASSUME NEW i \in DOMAIN requests, Relying(requests[i], d) PROVE d = c
      BY <1>0, <2>4, <3>1, <3>3, SwitchHolds
    <3>4. Send(requests)
      BY <2>4, <3>1
    <3>5. Relied(d) \/ \E i \in DOMAIN requests : Relying(requests[i], d)
      BY <1>0, <2>4, <3>2, <3>4, SendHolds
    <3> QED
      BY <3>3, <3>5
  <2> QED
    BY <1>1, <2>1, <2>2, <2>3, <2>4
<1>4. CASE ToastClose(ch)
  <2>1. /\ ui' \in {[ui EXCEPT !.toast = Closed], [ui EXCEPT !.dismissed = TRUE]}
        /\ UNCHANGED http
    BY <1>4 DEF ToastClose
  <2>2. ui'.toast \in {Closed, ui.toast}
    BY <1>0, <2>1 DEF LocalState
  <2> QED
    BY <1>1, <2>1, <2>2 DEF Closed
<1> QED
  BY <1>2, <1>3, <1>4

\* ... and the notification the call that rings.
LEMMA IncomingClickHolds ==
    ASSUME WebInvariant,
           IncomingIgnore \/ IncomingJoin \/ IncomingConfirm \/ IncomingCancel,
           NEW d \in Call
    PROVE  ui'.toast = ui.toast /\ (Relied(d)' => Relied(d) \/ IsIncomingCall(slice, d))
<1>0. /\ slice \in CallsPluginState /\ ui \in LocalState /\ http \in Seq(KnownRequest)
      /\ "incoming" \in Part /\ "incoming" \in Part \ {"header"}
  BY DEF WebInvariant, TabTyped, Part
<1>1. ui'.toast = ui.toast
  BY <1>0 DEF IncomingIgnore, IncomingJoin, IncomingConfirm, IncomingCancel, LocalState
<1>2. PICK c, ch : c = slice.incomingCall.callId /\ ch = slice.incomingCall.channelId
  OBVIOUS
<1>3. /\ Ringing /\ c \in Call /\ ch \in Channel
      /\ \/ UNCHANGED http
         \/ Send(<<Ask("incoming", "dismiss", c, ch)>>)
         \/ Send(<<AskJoin("incoming", c)>>)
         \/ Send(LeaveMine("incoming") \o <<AskJoin("incoming", c)>>)
  <2>1. Ringing
    BY DEF IncomingIgnore, IncomingJoin, IncomingConfirm, IncomingCancel
  <2>2. c \in Call /\ ch \in Channel
    BY <1>0, <1>2, <2>1 DEF Ringing, CallsPluginState, IncomingCall
  <2> QED
    BY <1>2, <2>1, <2>2 DEF IncomingIgnore, IncomingJoin, IncomingConfirm, IncomingCancel
<1>4. ASSUME NEW r \in KnownRequest, Send(<<r>>), Relied(d)', r.kind = "dismiss" \/ r.call = c
      PROVE  Relied(d) \/ d = c
  <2>1. PICK one : one = <<r>>
    OBVIOUS
  <2>2. one \in Seq(KnownRequest) /\ Send(one) /\ \A i \in DOMAIN one : one[i] = r
    BY <1>4, <2>1
  <2>3. Relied(d) \/ Relying(r, d)
    BY <1>0, <1>4, <2>2, SendHolds
  <2> QED
    BY <1>4, <2>3 DEF Relying
<1>5. ASSUME Relied(d)' PROVE Relied(d) \/ d = c
  <2>1. CASE UNCHANGED http
    BY <1>5, <2>1 DEF Relied, Relying, Relies
  <2>2. CASE Send(<<Ask("incoming", "dismiss", c, ch)>>)
    <3>1. PICK r : r = Ask("incoming", "dismiss", c, ch)
      OBVIOUS
    <3>2. r \in KnownRequest
      BY <1>0, <1>3, <3>1, AskSound
    <3>3. r.kind = "dismiss"
      BY <3>1 DEF Ask
    <3> QED
      BY <1>4, <1>5, <2>2, <3>1, <3>2, <3>3
  <2>3. CASE Send(<<AskJoin("incoming", c)>>)
    <3>1. PICK r : r = AskJoin("incoming", c)
      OBVIOUS
    <3>2. r \in KnownRequest /\ r.call = c
      BY <1>0, <1>3, <3>1, JoinAsked DEF AskJoin, Ask
    <3> QED
      BY <1>4, <1>5, <2>3, <3>1, <3>2
  <2>4. CASE Send(LeaveMine("incoming") \o <<AskJoin("incoming", c)>>)
    <3>1. PICK requests : requests = LeaveMine("incoming") \o <<AskJoin("incoming", c)>>
      OBVIOUS
    <3>2. requests \in Seq(KnownRequest)
      BY <1>0, <1>3, <3>1, JoinAsked
    <3>3. \A i \in DOMAIN requests : Relying(requests[i], d) => d = c
      BY <1>0, <1>3, <3>1, SwitchHolds
    <3> QED
      BY <1>0, <1>5, <2>4, <3>1, <3>2, <3>3, SendHolds
  <2> QED
    BY <1>3, <2>1, <2>2, <2>3, <2>4
<1> QED
  BY <1>1, <1>2, <1>3, <1>5 DEF IsIncomingCall, Ringing

\* All clicks.
LEMMA ClickHolds ==
    ASSUME MineInvariant, UserClicks, NEW d \in Call, Held(d)'
    PROVE  Held(d) \/ ShowsCall(d)
<1>1. WebInvariant
  BY DEF MineInvariant, ViewInvariant, RingInvariant
<1>2. slice'.myActiveCall = slice.myActiveCall /\ slice'.incomingCall = slice.incomingCall
  BY <1>1, ClickEntry, UserSound DEF UserStep
<1>3. /\ d # None /\ ui'.toast.pending = d =>
            (d # None /\ ui.toast.pending = d) \/ ShowsCall(d)
      /\ Relied(d)' => Relied(d) \/ (d # None /\ ui.toast.pending = d) \/ ShowsCall(d)
                       \/ IsIncomingCall(slice, d)
  <2>1. CASE \/ \E ch \in Channel : HeaderStart(ch) \/ HeaderJoin(ch)
             \/ SwitchConfirm \/ CloseGlobalModal
             \/ \E c \in Call : PostMount(c) \/ PostJoin(c) \/ PostConfirm(c) \/ PostClose(c)
    BY <1>1, <2>1, PlainClickHolds
  <2>2. ASSUME NEW ch \in Channel, ToastJoin(ch) \/ ToastConfirm(ch) \/ ToastClose(ch)
        PROVE  /\ d # None /\ ui'.toast.pending = d => ui.toast.pending = d \/ ShowsCall(d)
               /\ Relied(d)' => Relied(d) \/ (d # None /\ ui.toast.pending = d) \/ ShowsCall(d)
    BY <1>1, <2>2, ToastClickHolds DEF MineInvariant
  <2>3. CASE IncomingIgnore \/ IncomingJoin \/ IncomingConfirm \/ IncomingCancel
    BY <1>1, <2>3, IncomingClickHolds
  <2> QED
    BY <2>1, <2>2, <2>3 DEF UserClicks
<1> QED
  BY <1>2, <1>3 DEF Held, IsMyActiveCall, IsIncomingCall

\* MineInvariant without what ViewStep shows.
MineRest ==
    /\ \A i \in DOMAIN inbox : EndSaidAt(i)
    /\ \A ch \in Channel : AtHome(ch)
    /\ \A c \in Call : HeldShown(c)

\* What a move publishes joins the events on their way, or the tab misses it.
LEMMA MoveArrives ==
    ASSUME RingInvariant, NEW c \in Call, NEW events, Move(c, events)
    PROVE  /\ stale \subseteq stale'
           /\ \A i \in DOMAIN inbox : i \in DOMAIN inbox' /\ inbox'[i] = inbox[i]
           /\ \A i \in DOMAIN inbox' :
                 i \in DOMAIN inbox \/ \E j \in DOMAIN events : inbox'[i] = events[j]
           /\ Len(events) \in DOMAIN events
           /\ c \in stale' \/ \E i \in DOMAIN inbox' : inbox'[i] = events[Len(events)]
<1>0. /\ WireTyped /\ events \in Seq(Event) /\ Publish(events) /\ events # <<>>
      /\ \A i \in DOMAIN events : Tidings(events[i], c)
      /\ ~online => inbox = <<>>
  BY DEF RingInvariant, WebInvariant, Move
<1>1. PICK n : n = Len(events) /\ n \in DOMAIN events
  BY <1>0, LenProperties, EmptySeq
<1>2. CASE online
  <2>1. Len(inbox) + n \in DOMAIN inbox' /\ inbox'[Len(inbox) + n] = events[n]
    BY <1>0, <1>1, <1>2, Appended
  <2> QED
    BY <1>0, <1>1, <1>2, <2>1, Appended
<1>3. CASE ~online
  <2>1. inbox' = inbox /\ stale' = stale \cup {events[i].call_id : i \in DOMAIN events}
    BY <1>0, <1>3, PublishSound
  <2>2. events[n].call_id = c
    BY <1>0, <1>1 DEF Tidings
  <2> QED
    BY <1>0, <1>1, <1>3, <2>1, <2>2
<1> QED
  BY <1>0, <1>2, <1>3 DEF WireTyped

\* A move on the server takes nothing from what the tab knows, and publishes
\* call_started of the call that it starts.
LEMMA MoveMine ==
    ASSUME MineInvariant, NEW c \in Call, NEW events, Move(c, events), UNCHANGED <<slice, ui>>,
           \A d \in Call : Relied(d)' => Relied(d)
    PROVE  MineRest'
<1>0. /\ RingInvariant /\ WireTyped
      /\ \A i \in DOMAIN events : Tidings(events[i], c)
      /\ \A d \in Call \ {c} : phase'[d] = phase[d]
      /\ slice' = slice /\ ui' = ui
  BY DEF MineInvariant, ViewInvariant, RingInvariant, WebInvariant, Move
<1>1. PICK n : n = Len(events) /\ n \in DOMAIN events
  BY <1>0, MoveArrives
<1>2. \/ /\ phase'[c] = "live" /\ \A i \in DOMAIN events : events[i].type # "call_ended"
         /\ phase[c] = "live" \/ (phase[c] = "silent" /\ Starts(events[n], c))
      \/ phase[c] = "live" /\ phase'[c] = "over"
  BY <1>0, <1>1 DEF Move, GoesOn, Starts, Tidings
<1>3. /\ stale \subseteq stale'
      /\ \A i \in DOMAIN inbox : i \in DOMAIN inbox' /\ inbox'[i] = inbox[i]
      /\ \A i \in DOMAIN inbox' :
            i \in DOMAIN inbox \/ \E j \in DOMAIN events : inbox'[i] = events[j]
      /\ c \in stale' \/ \E i \in DOMAIN inbox' : inbox'[i] = events[n]
  BY <1>0, <1>1, MoveArrives
<1>4. ASSUME NEW i \in DOMAIN inbox' PROVE EndSaidAt(i)'
  <2>1. CASE i \in DOMAIN inbox
    <3>1. PICK d : d = inbox[i].call_id
      OBVIOUS
    <3>2. EndSaidAt(i) /\ inbox'[i] = inbox[i]
      BY <1>3, <2>1 DEF MineInvariant
    <3>3. d \in Call
      <4>1. inbox[i] \in Event
        BY <1>0, <2>1, LenProperties, ElementOfSeq DEF WireTyped
      <4> QED
        BY <3>1, <4>1 DEF Event, CallStartedPayload, UserJoinedPayload, UserLeftPayload,
           CallEndedPayload, NotifDismissedPayload
    <3>4. Over(d) => Over(d)'
      BY <1>0, <1>2, <3>3 DEF Over
    <3> QED
      BY <3>1, <3>2, <3>4 DEF EndSaidAt, Over
  <2>2. ASSUME NEW j \in DOMAIN events, inbox'[i] = events[j] PROVE EndSaidAt(i)'
    BY <1>0, <1>2, <2>2 DEF EndSaidAt, Tidings, Over
  <2> QED
    BY <1>3, <2>1, <2>2
<1>5. ASSUME NEW d \in Call PROVE HeldShown(d)'
  <2> SUFFICES ASSUME Held(d)', Live(d)'
               PROVE  \/ ShowsCall(d)
                      \/ \E i \in DOMAIN inbox' : Starts(inbox'[i], d)
                      \/ \E x \in stale' : ChannelOf[x] = ChannelOf[d]
    BY <1>0 DEF HeldShown, ShowsCall, Starts
  <2>1. Held(d)
    BY <1>0 DEF Held
  <2>2. CASE Live(d)
    <3>1. \/ ShowsCall(d)
          \/ \E i \in DOMAIN inbox : Starts(inbox[i], d)
          \/ \E x \in stale : ChannelOf[x] = ChannelOf[d]
      BY <2>1, <2>2 DEF MineInvariant, HeldShown
    <3> QED
      BY <1>3, <3>1
  <2>3. CASE ~Live(d)
    <3>1. d = c /\ Starts(events[n], c)
      BY <1>0, <1>2, <2>3 DEF Live
    <3> QED
      BY <1>3, <3>1
  <2> QED
    BY <2>2, <2>3
<1>6. ASSUME NEW ch \in Channel PROVE AtHome(ch)'
  BY <1>0 DEF MineInvariant, AtHome
<1> QED
  BY <1>4, <1>5, <1>6 DEF MineRest

\* A step that starts and ends no call, takes nothing from the tab, and holds on to
\* no call that is not shown.
LEMMA QuietMine ==
    ASSUME MineInvariant, UNCHANGED phase, stale \subseteq stale',
           slice'.callsByChannel = slice.callsByChannel,
           \A d \in Call : Held(d)' => Held(d) \/ ShowsCall(d),
           \A i \in DOMAIN inbox : i \in DOMAIN inbox' /\ inbox'[i] = inbox[i],
           \A i \in DOMAIN inbox' : i \in DOMAIN inbox \/ inbox'[i].type # "call_ended"
    PROVE  MineRest'
<1>0. phase' = phase
  OBVIOUS
<1>1. ASSUME NEW i \in DOMAIN inbox' PROVE EndSaidAt(i)'
  <2>1. CASE i \in DOMAIN inbox
    <3>1. EndSaidAt(i) /\ inbox'[i] = inbox[i]
      BY <2>1 DEF MineInvariant
    <3> QED
      BY <1>0, <3>1 DEF EndSaidAt, Over
  <2>2. CASE inbox'[i].type # "call_ended"
    BY <2>2 DEF EndSaidAt
  <2> QED
    BY <2>1, <2>2
<1>2. ASSUME NEW d \in Call PROVE HeldShown(d)'
  <2> SUFFICES ASSUME Held(d)', Live(d)
               PROVE  \/ ShowsCall(d)
                      \/ \E i \in DOMAIN inbox' : Starts(inbox'[i], d)
                      \/ \E x \in stale' : ChannelOf[x] = ChannelOf[d]
    BY <1>0 DEF HeldShown, ShowsCall, selectCallByChannel, Starts, Live
  <2>1. \/ ShowsCall(d)
        \/ \E i \in DOMAIN inbox : Starts(inbox[i], d)
        \/ \E x \in stale : ChannelOf[x] = ChannelOf[d]
    BY DEF MineInvariant, HeldShown
  <2> QED
    BY <2>1
<1>3. ASSUME NEW ch \in Channel PROVE AtHome(ch)'
  BY DEF MineInvariant, AtHome
<1> QED
  BY <1>1, <1>2, <1>3 DEF MineRest

\* An answer that replaces the live call's entry by another call is stale.
LEMMA AnswerMine ==
    ASSUME MineInvariant, DeliverAnswer
    PROVE  MineRest'
<1>0. /\ ViewInvariant /\ RingInvariant /\ WebInvariant /\ OneLive
      /\ slice \in CallsPluginState /\ ui \in LocalState /\ http \in Seq(KnownRequest)
      /\ inbox' = inbox /\ phase' = phase /\ shown' = shown
  BY DEF MineInvariant, ViewInvariant, WireInvariant, RingInvariant, WebInvariant, TabTyped,
         DeliverAnswer, wire, server
<1>1. PICK i \in DOMAIN http :
        /\ http[i].stage = "answered" /\ http[i].part # "widget"
        /\ slice' = AnswerTo(slice, http[i])
        /\ ui' = UiAfter(http[i])
        /\ stale' = StaleAfter(http[i])
        /\ http' = RemoveAt(http, i)
  BY DEF DeliverAnswer
<1>2. PICK r \in KnownRequest : r = http[i]
  BY <1>0, LenProperties, ElementOfSeq
<1>3. /\ slice'.callsByChannel = slice.callsByChannel \/ (r.ok /\ Put(slice', r))
      /\ \A c \in Call :
            IsMyActiveCall(slice', c) =>
               \/ IsMyActiveCall(slice, c)
               \/ r.ok /\ c = r.call /\ (Put(slice', r) \/ Relies(r.part))
  <2>1. /\ slice'.callsByChannel = slice.callsByChannel \/ (r.ok /\ Put(slice', r))
        /\ \/ slice'.myActiveCall = slice.myActiveCall
           \/ /\ r.ok /\ slice'.myActiveCall = Entered(r)
              /\ Put(slice', r) \/ Relies(r.part)
    BY <1>0, <1>1, <1>2, AnswerEntry
  <2> QED
    BY <2>1 DEF IsMyActiveCall, Entered
<1>4. r.ok => r.call \in Call /\ ChannelOf[r.call] \in Channel
  BY <1>2, WebAssumption DEF KnownRequest, Known, WebAssumption
<1>5. slice'.incomingCall \in {slice.incomingCall, None}
  BY <1>0, AnswerSound
<1>8. r.ok => /\ r.participants \in SUBSET User
              /\ \A list \in SUBSET User : [id |-> r.call, participants |-> list] # None
  BY <1>2, <1>4, WebAssumption DEF KnownRequest, Request, WebAssumption, ActiveCall
\* The tab holds on to the call of the answer, if that is new to it, in its slice.
<1>6. ASSUME NEW d \in Call, Held(d)'
      PROVE  Held(d) \/ (r.ok /\ d = r.call /\ Put(slice', r))
  <2>1. ASSUME Relied(d)' PROVE Held(d)
    <3>1. PICK j \in DOMAIN http' : Relying(http'[j], d)
      BY <2>1 DEF Relied, Relying, Relies
    <3>2. PICK k \in DOMAIN http : http'[j] = http[k]
      BY <1>0, <1>1, RemoveAtFrom
    <3> QED
      BY <3>1, <3>2 DEF Held, Relied
  <2>2. ASSUME IsMyActiveCall(slice', d)
        PROVE  Held(d) \/ (r.ok /\ d = r.call /\ Put(slice', r))
    <3>1. CASE d = r.call /\ Relies(r.part)
      <4>1. Relying(http[i], d)
        BY <1>1, <1>2, <3>1 DEF KnownRequest, Known, Forgotten, Relying
      <4> QED
        BY <4>1 DEF Held, Relied
    <3> QED
      BY <1>3, <2>2, <3>1 DEF Held
  <2>3. ASSUME IsIncomingCall(slice', d) PROVE Held(d)
    BY <1>5, <2>3 DEF Held, IsIncomingCall
  <2>4. ASSUME d # None, ui'.toast.pending = d PROVE Held(d)
    <3>1. ui'.toast.pending \in {None, ui.toast.pending}
      BY <1>0, <1>1 DEF UiAfter, LocalState, Modal
    <3> QED
      BY <2>4, <3>1 DEF Held
  <2> QED
    BY <1>6, <2>1, <2>2, <2>3, <2>4 DEF Held
<1>7. ASSUME NEW d \in Call PROVE HeldShown(d)'
  <2> SUFFICES ASSUME Held(d)', Live(d)
               PROVE  \/ ShowsCall(d)'
                      \/ \E k \in DOMAIN inbox : Starts(inbox[k], d)
                      \/ \E x \in stale' : ChannelOf[x] = ChannelOf[d]
    BY <1>0 DEF HeldShown, Starts, Live
  \* The call is in the answer.
  <2>1. ASSUME r.ok, d = r.call, Put(slice', r) PROVE ShowsCall(d)'
    BY <1>8, <2>1 DEF Put, ShowsCall, selectCallByChannel
  \* A call that is no longer stale is shown.
  <2>2. ASSUME NEW x \in stale, x \notin stale', ChannelOf[x] = ChannelOf[d]
        PROVE  ShowsCall(d)'
    <3>1. /\ x = r.call /\ r.ok /\ Live(r.call)
          /\ selectCallByChannel(slice', ChannelOf[r.call])
                = [id |-> r.call, participants |-> shown[r.call]]
      BY <1>1, <1>2, <2>2 DEF StaleAfter
    <3>2. d = r.call
      BY <1>0, <1>4, <2>2, <3>1 DEF OneLive, Live
    <3>3. selectCallByChannel(slice', ChannelOf[r.call]) # None
      <4>1. shown[r.call] \in SUBSET User
        BY <1>0, <1>4, <3>1 DEF WebInvariant, ServerTyped
      <4> QED
        BY <1>8, <3>1, <4>1
    <3> QED
      BY <3>1, <3>2, <3>3 DEF ShowsCall, selectCallByChannel
  <2>3. ASSUME Held(d) PROVE \/ ShowsCall(d)'
                             \/ \E k \in DOMAIN inbox : Starts(inbox[k], d)
                             \/ \E x \in stale' : ChannelOf[x] = ChannelOf[d]
    <3>1. \/ ShowsCall(d)
          \/ \E k \in DOMAIN inbox : Starts(inbox[k], d)
          \/ \E x \in stale : ChannelOf[x] = ChannelOf[d]
      BY <2>3 DEF MineInvariant, HeldShown
    <3>2. CASE ShowsCall(d)
      <4>1. CASE slice'.callsByChannel = slice.callsByChannel
        BY <3>2, <4>1 DEF ShowsCall, selectCallByChannel
      <4>2. CASE r.ok /\ Put(slice', r)
        <5>1. CASE ChannelOf[d] = ChannelOf[r.call] /\ d # r.call
          <6>1. ~Live(r.call)
            BY <1>0, <1>4, <4>2, <5>1 DEF OneLive, Live
          <6>2. selectCallByChannel(slice', ChannelOf[r.call]) # None
            BY <1>4, <1>8, <4>2 DEF Put, selectCallByChannel
          <6>3. r.call \in stale'
            BY <1>1, <1>2, <4>2, <6>1, <6>2 DEF StaleAfter, Overtaken
          <6> QED
            BY <5>1, <6>3
        <5>2. CASE d = r.call
          BY <2>1, <4>2, <5>2
        <5>3. CASE ChannelOf[d] # ChannelOf[r.call]
          <6>1. ChannelOf[d] \in Channel
            BY WebAssumption DEF WebAssumption
          <6> QED
            BY <3>2, <4>2, <5>3, <6>1 DEF Put, ShowsCall, selectCallByChannel
        <5> QED
          BY <5>1, <5>2, <5>3
      <4> QED
        BY <1>3, <4>1, <4>2
    <3> QED
      BY <2>2, <3>1, <3>2
  <2> QED
    BY <1>6, <2>1, <2>3
<1>9. ASSUME NEW ch \in Channel PROVE AtHome(ch)'
  <2>1. AtHome(ch)
    BY DEF MineInvariant
  <2> QED
    BY <1>3, <1>4, <2>1 DEF AtHome, Put
<1>10. ASSUME NEW k \in DOMAIN inbox' PROVE EndSaidAt(k)'
  BY <1>0, <1>10 DEF MineInvariant, EndSaidAt, Over
<1> QED
  BY <1>7, <1>9, <1>10 DEF MineRest

\* An event starts the call, or leaves its entry; what replaces the entry of the
\* live call, its own call_started corrects.
LEMMA EventMine ==
    ASSUME MineInvariant, DeliverEvent
    PROVE  MineRest'
<1>1. /\ ViewInvariant /\ WireTyped /\ WireInvariant /\ inbox # <<>>
      /\ slice \in CallsPluginState /\ slice' \in CallsPluginState
      /\ ui' = ui /\ http' = http /\ phase' = phase
  BY EventSound DEF MineInvariant, ViewInvariant, RingInvariant, WebInvariant, TabTyped,
     DeliverEvent, server
<1>2. PICK e \in Event : e = inbox[1] /\ e = Head(inbox) /\ 1 \in DOMAIN inbox
  BY <1>1, Consumed DEF DeliverEvent
<1>3. /\ inbox' = Tail(inbox) /\ slice' = HandleEvent(slice, e)
      /\ stale' = StaleAfterEvent(e)
  BY <1>2 DEF DeliverEvent
<1>4. /\ \A i \in DOMAIN inbox \ {1} : i - 1 \in DOMAIN inbox' /\ inbox'[i - 1] = inbox[i]
      /\ \A i \in DOMAIN inbox' : i + 1 \in DOMAIN inbox /\ inbox'[i] = inbox[i + 1]
  BY <1>1, <1>3, Consumed
<1>5. /\ slice'.myActiveCall \in {slice.myActiveCall, None}
      /\ \A c \in Call : IsIncomingCall(slice', c) => IsIncomingCall(slice, c) \/ Starts(e, c)
      /\ ~IsTidings(e) => slice'.callsByChannel = slice.callsByChannel
      /\ IsTidings(e) =>
            /\ e.channel_id \in Channel /\ e.call_id \in Call
            /\ slice'.callsByChannel[e.channel_id]
                  = EntryAfter(slice.callsByChannel[e.channel_id], e)
            /\ \A ch \in Channel \ {e.channel_id} :
                  slice'.callsByChannel[ch] = slice.callsByChannel[ch]
  BY <1>1, <1>2, <1>3, HandlerSound, HandlerEntry DEF IsTidings, Starts
<1>6. /\ IsTidings(e) => e.channel_id = ChannelOf[e.call_id]
      /\ e.type = "call_ended" => Over(e.call_id)
      /\ IsTidings(e) => e.type \in {"call_started", "user_joined", "user_left", "call_ended"}
      /\ e.type = "call_started" => e.participants \in SUBSET User
      /\ \A ch \in Channel : AtHome(ch)
  <2>1. FormedAt(1) /\ EndSaidAt(1)
    BY <1>1, <1>2 DEF MineInvariant, WireInvariant
  <2> QED
    BY <1>2, <2>1 DEF MineInvariant, FormedAt, EndSaidAt, IsTidings, Event, CallStartedPayload,
       UserJoinedPayload, UserLeftPayload, CallEndedPayload, NotifDismissedPayload
<1>7. ASSUME NEW d \in Call PROVE HeldShown(d)'
  <2> DEFINE Shown == \/ ShowsCall(d)'
                      \/ \E j \in DOMAIN inbox' : Starts(inbox'[j], d)
                      \/ \E x \in stale' : ChannelOf[x] = ChannelOf[d]
  <2> SUFFICES ASSUME Held(d)', Live(d) PROVE Shown
    BY <1>1 DEF HeldShown, Starts, Live
  <2>0. PICK ch \in Channel : ch = ChannelOf[d]
    BY WebAssumption DEF WebAssumption
  <2>1. PICK old, new : old = slice.callsByChannel[ch] /\ new = slice'.callsByChannel[ch]
    OBVIOUS
  <2>2. /\ ShowsCall(d)' <=> new # None /\ new.id = d
        /\ ShowsCall(d) <=> old # None /\ old.id = d
        /\ old # None => old \in ActiveCall
    BY <1>1, <2>0, <2>1 DEF ShowsCall, selectCallByChannel, CallsPluginState
  <2>3. /\ None \notin ActiveCall
        /\ old # None =>
              \A list \in SUBSET User : [id |-> old.id, participants |-> list] # None
    BY <2>2, WebAssumption DEF WebAssumption, ActiveCall
  <2>4. Held(d) \/ Starts(e, d)
    BY <1>1, <1>5 DEF Held, IsMyActiveCall, Relied, Relying, Relies
  <2>5. ASSUME NEW i \in DOMAIN inbox, i # 1, Starts(inbox[i], d) PROVE Shown
    BY <1>4, <2>5
  <2>6. ASSUME Starts(e, d) PROVE Shown
    <3>1. new = [id |-> d, participants |-> e.participants] /\ e.participants \in SUBSET User
      BY <1>5, <1>6, <2>0, <2>1, <2>6 DEF Starts, IsTidings, EntryAfter
    <3>2. new # None
      BY <2>3, <3>1 DEF ActiveCall
    <3> QED
      BY <2>2, <3>1, <3>2
  <2>7. ASSUME News(e, ch), e.call_id # d, e.type # "user_joined" PROVE Shown
    <3>1. StartSaidAt(d, 1)
      BY <1>1, <1>2 DEF WireInvariant
    <3>2. PICK j \in DOMAIN inbox : 1 < j /\ Starts(inbox[j], d)
      BY <1>2, <2>0, <2>7, <3>1 DEF StartSaidAt
    <3>3. j # 1
      BY <3>2
    <3> QED
      BY <2>5, <3>2, <3>3
  <2>8. Held(d) => \/ old # None /\ old.id = d
                   \/ \E i \in DOMAIN inbox : Starts(inbox[i], d)
                   \/ \E x \in stale : ChannelOf[x] = ch
    BY <2>0, <2>2 DEF MineInvariant, HeldShown
  \* A call that is no longer stale has ended, or is shown.
  <2>9. ASSUME NEW x \in stale, x \notin stale', ChannelOf[x] = ch
        PROVE  News(e, ch) /\ (e.type = "call_ended" \/ ShowsCall(d)')
    <3>1. /\ x = e.call_id /\ IsTidings(e)
          /\ e.type # "call_ended" =>
                /\ Live(x)
                /\ selectCallByChannel(slice', e.channel_id) # None
                /\ selectCallByChannel(slice', e.channel_id).id = x
      BY <1>1, <1>2, <1>3, <2>9, StaleSound DEF IsTidings
    <3>2. e.channel_id = ch /\ x \in Call
      BY <1>5, <1>6, <2>9, <3>1
    <3>3. Live(x) => x = d
      BY <1>1, <2>0, <2>9, <3>2 DEF WireInvariant, OneLive
    <3> QED
      BY <2>1, <2>2, <3>1, <3>2, <3>3 DEF News, selectCallByChannel
  <2>10. CASE ~News(e, ch)
    <3>1. new = old
      BY <1>5, <2>1, <2>10 DEF News
    <3>2. ~Starts(e, d)
      BY <1>6, <2>0, <2>10 DEF Starts, News, IsTidings
    <3>3. \A x \in stale : ChannelOf[x] = ch => x \in stale'
      BY <2>9, <2>10
    <3> QED
      BY <1>2, <2>0, <2>2, <2>4, <2>5, <2>8, <3>1, <3>2, <3>3
  <2>11. CASE News(e, ch) /\ ~Starts(e, d) /\ (e.call_id = d \/ e.type = "user_joined")
    <3>1. e.type \in {"user_joined", "user_left"}
      <4>1. e.type # "call_ended"
        BY <1>6, <2>11 DEF Over, Live
      <4> QED
        BY <1>6, <2>11, <4>1 DEF News, Starts
    <3>2. new = EntryAfter(old, e) /\ e.participants \in SUBSET User
      <4>1. e.participants \in SUBSET User
        BY <3>1 DEF Event, CallStartedPayload, UserJoinedPayload, UserLeftPayload,
           CallEndedPayload, NotifDismissedPayload
      <4> QED
        BY <1>5, <2>1, <2>11, <4>1 DEF News
    <3>3. old # None /\ old.id = d => new # None /\ new.id = d
      BY <2>3, <3>1, <3>2 DEF EntryAfter
    <3>4. ASSUME NEW x \in stale, ChannelOf[x] = ch PROVE Shown
      <4>1. CASE x \in stale'
        BY <2>0, <3>4, <4>1
      <4>2. CASE x \notin stale'
        BY <2>9, <3>1, <3>4, <4>2
      <4> QED
        BY <4>1, <4>2
    <3>5. ~Starts(inbox[1], d)
      BY <1>2, <2>11
    <3> QED
      BY <2>2, <2>4, <2>5, <2>8, <2>11, <3>3, <3>4, <3>5
  <2> QED
    BY <2>6, <2>7, <2>10, <2>11
<1>8. ASSUME NEW ch \in Channel PROVE AtHome(ch)'
  <2>1. PICK old, new : old = slice.callsByChannel[ch] /\ new = slice'.callsByChannel[ch]
    OBVIOUS
  <2>2. old # None => ChannelOf[old.id] = ch
    BY <1>6, <2>1 DEF AtHome
  <2>3. CASE ~News(e, ch)
    BY <1>5, <2>1, <2>2, <2>3 DEF News, AtHome
  <2>4. CASE News(e, ch)
    <3>1. new = EntryAfter(old, e) /\ ChannelOf[e.call_id] = ch
      BY <1>5, <1>6, <2>1, <2>4 DEF News
    <3>2. new # None => ChannelOf[new.id] = ch
      BY <1>6, <2>2, <2>4, <3>1 DEF EntryAfter, News
    <3> QED
      BY <2>1, <3>2 DEF AtHome
  <2> QED
    BY <2>3, <2>4
<1>9. ASSUME NEW i \in DOMAIN inbox' PROVE EndSaidAt(i)'
  <2>1. PICK k \in DOMAIN inbox : inbox'[i] = inbox[k]
    BY <1>4
  <2>2. EndSaidAt(k)
    BY DEF MineInvariant
  <2> QED
    BY <1>1, <2>1, <2>2 DEF EndSaidAt, Over
<1> QED
  BY <1>7, <1>8, <1>9 DEF MineRest

\* A dropped connection that loses the call_started of a call leaves it stale.
LEMMA DisconnectMine ==
    ASSUME MineInvariant, Disconnect
    PROVE  MineRest'
<1>1. /\ inbox' = <<>> /\ DOMAIN inbox' = {}
      /\ stale' = stale \cup {inbox[i].call_id : i \in DOMAIN inbox}
      /\ phase' = phase /\ slice' = slice /\ ui' = ui /\ http' = http
  BY DEF Disconnect, server
<1>2. ASSUME NEW d \in Call PROVE HeldShown(d)'
  <2> SUFFICES ASSUME Held(d), Live(d)
               PROVE  ShowsCall(d) \/ \E x \in stale' : ChannelOf[x] = ChannelOf[d]
    BY <1>1 DEF HeldShown, Held, ShowsCall, Live, Relied, Relying, Relies
  <2>1. \/ ShowsCall(d)
        \/ \E i \in DOMAIN inbox : Starts(inbox[i], d)
        \/ \E x \in stale : ChannelOf[x] = ChannelOf[d]
    BY DEF MineInvariant, HeldShown
  <2> QED
    BY <1>1, <2>1 DEF Starts
<1>3. ASSUME NEW ch \in Channel PROVE AtHome(ch)'
  BY <1>1 DEF MineInvariant, AtHome
<1> QED
  BY <1>1, <1>2, <1>3 DEF MineRest

\* All steps.
LEMMA MineStep ==
    ASSUME MineInvariant, [WebNext]_webVars
    PROVE  MineInvariant'
<1>1. /\ ViewInvariant /\ WebInvariant /\ WireTyped /\ ServerTyped
      /\ slice \in CallsPluginState /\ http \in Seq(KnownRequest)
  BY DEF MineInvariant, ViewInvariant, RingInvariant, WebInvariant, TabTyped
<1>2. ViewInvariant'
  BY <1>1, ViewStep
<1> SUFFICES MineRest'
  BY <1>2 DEF MineInvariant, MineRest
<1>3. ASSUME UNCHANGED <<phase, inbox, stale>>,
             slice'.callsByChannel = slice.callsByChannel,
             \A d \in Call : Held(d)' => Held(d) \/ ShowsCall(d)
      PROVE  MineRest'
  BY <1>3, QuietMine
\* A single event, which ends no call.
<1>12. ASSUME NEW e \in Event, Publish(<<e>>), e.type # "call_ended", UNCHANGED phase,
              UNCHANGED <<slice, ui>>, \A d \in Call : Held(d)' => Held(d)
       PROVE  MineRest'
  <2>1. /\ stale \subseteq stale'
        /\ \A i \in DOMAIN inbox : i \in DOMAIN inbox' /\ inbox'[i] = inbox[i]
        /\ \A i \in DOMAIN inbox' : i \in DOMAIN inbox \/ inbox'[i] = e
    BY <1>1, <1>12, OneAppended
  <2> QED
    BY <1>12, <2>1, QuietMine
<1>4. ASSUME ServerStep, UNCHANGED <<slice, ui>>, \A d \in Call : Relied(d)' => Relied(d)
      PROVE  MineRest'
  <2>1. ASSUME NEW c \in Call, NEW events, Move(c, events) PROVE MineRest'
    BY <1>4, <2>1, MoveMine
  <2>2. \A d \in Call : Held(d)' => Held(d)
    BY <1>4 DEF Held
  <2>3. CASE Unmoved
    BY <1>3, <1>4, <2>2, <2>3 DEF Unmoved, wire, server
  <2>4. ASSUME NEW c \in Call, UNCHANGED server, Publish(<<DismissedEvent(c)>>)
        PROVE  MineRest'
    <3>1. PICK e \in Event : e = DismissedEvent(c) /\ e.type = "notification_dismissed"
      BY DismissedSound
    <3> QED
      BY <1>4, <1>12, <2>2, <2>4, <3>1 DEF server
  <2>5. ASSUME NEW c \in Call, Added(c) PROVE MineRest'
    BY <1>3, <1>4, <2>2, <2>5 DEF Added, wire
  <2>6. ASSUME NEW e \in Rescue, Rescued(e) PROVE MineRest'
    <3>1. e \in Event /\ e.type # "call_ended"
      BY DEF Rescue, UserJoinedPayload, Event
    <3> QED
      BY <1>4, <1>12, <2>2, <2>6, <3>1 DEF Rescued
  <2> QED
    BY <1>4, <2>1, <2>3, <2>4, <2>5, <2>6 DEF ServerStep
<1>5. UNCHANGED http => \A d \in Call : Relied(d)' => Relied(d)
  BY DEF Relied, Relying, Relies
<1>6. CASE OthersMove \/ PublishRescue
  <2>1. ServerStep /\ UNCHANGED <<slice, ui, http>>
    BY <1>1, <1>6, OthersSound
  <2> QED
    BY <1>4, <1>5, <2>1
<1>7. CASE Serve
  <2>1. ServerStep
    BY <1>1, <1>7, ServeSound
  <2>2. \A d \in Call : Relied(d)' => Relied(d)
    BY <1>1, <1>7, ServeHolds
  <2> QED
    BY <1>4, <1>7, <2>1, <2>2 DEF Serve
<1>8. CASE FetchFails
  <2>1. \A d \in Call : Relied(d)' => Relied(d)
    BY <1>1, <1>8, ServeHolds
  <2>2. UNCHANGED <<phase, inbox, stale>> /\ slice' = slice /\ ui' = ui
    BY <1>8 DEF FetchFails, wire, server
  <2> QED
    BY <1>3, <2>1, <2>2 DEF Held
<1>9. CASE RingTimeout
  <2>1. UNCHANGED <<phase, inbox, stale>> /\ UNCHANGED http /\ ui' = ui
        /\ slice' = clearIncomingCall(slice)
    BY <1>9 DEF RingTimeout, wire, server
  <2>2. /\ slice'.callsByChannel = slice.callsByChannel
        /\ slice'.myActiveCall = slice.myActiveCall /\ slice'.incomingCall = None
    BY <1>1, <2>1 DEF clearIncomingCall, CallsPluginState
  <2> QED
    BY <1>3, <1>5, <2>1, <2>2 DEF Held, IsMyActiveCall, IsIncomingCall
<1>10. CASE Reconnect \/ UNCHANGED webVars
  <2>1. UNCHANGED <<phase, inbox, stale>> /\ slice' = slice /\ ui' = ui /\ UNCHANGED http
    BY <1>10 DEF Reconnect, webVars, wire, server
  <2> QED
    BY <1>3, <1>5, <2>1 DEF Held
<1>11. CASE UserClicks
  <2>1. UNCHANGED <<phase, inbox, stale>>
    BY <1>1, <1>11, UserSound DEF wire, server
  <2>2. slice'.callsByChannel = slice.callsByChannel
    BY <1>1, <1>11, ClickEntry
  <2> QED
    BY <1>3, <1>11, <2>1, <2>2, ClickHolds
<1> QED
  BY <1>6, <1>7, <1>8, <1>9, <1>10, <1>11, AnswerMine, EventMine, DisconnectMine DEF WebNext

\* A freshly loaded page holds on to no call.
LEMMA MineInitial == WebInit => MineInvariant
<1> SUFFICES ASSUME WebInit PROVE MineInvariant
  OBVIOUS
<1>1. DOMAIN inbox = {} /\ DOMAIN http = {}
  BY DEF WebInit
<1>2. /\ slice.callsByChannel = [ch \in Channel |-> None]
      /\ slice.myActiveCall = None /\ slice.incomingCall = None
      /\ ui.toast.pending = None
  BY DEF WebInit, setPluginEnabled, initialState, FreshUi, Closed
<1>3. \A c \in Call : ~Held(c)
  BY <1>1, <1>2 DEF Held, IsMyActiveCall, IsIncomingCall, Relied
<1> QED
  BY <1>1, <1>2, <1>3, ViewInitial DEF MineInvariant, HeldShown, AtHome

THEOREM MineInvariance == WebSpec => []MineInvariant
<1>1. MineInvariant /\ [WebNext]_webVars => MineInvariant'
  BY MineStep
<1> QED
  BY <1>1, MineInitial, PTL DEF WebSpec

\* Once the events that were on their way are handled, the tab shows the live
\* call that it is in, unless it has missed something of the channel: no delayed
\* event of an older call, and no join that trusts the slice, leaves it without.
THEOREM MineHasEntryAlways == WebSpec => []MineHasEntry
<1>1. MineInvariant => MineHasEntry
  <2> SUFFICES ASSUME MineInvariant, inbox = <<>>, NEW c \in Call,
                      IsMyActiveCall(slice, c), Live(c),
                      \A d \in stale : ChannelOf[d] # ChannelOf[c]
               PROVE  ShowsCall(c)
    BY DEF MineHasEntry
  <2>1. DOMAIN inbox = {}
    OBVIOUS
  <2> QED
    BY <2>1 DEF MineInvariant, HeldShown, Held
<1> QED
  BY <1>1, MineInvariance, PTL

-----------------------------------------------------------------------------
(* Why no other event leaves a call stale.                                 *)

\* The last event on its way about a live call has its participants.
SaidAt(c, i) ==
    Live(c) /\ About(inbox[i], c) =>
        \/ inbox[i].participants = shown[c]
        \/ \E j \in DOMAIN inbox : i < j /\ About(inbox[j], c)

\* Without participantJoined there are no late lists.
Timely == rescues = {} /\ \A c \in Call : \A i \in DOMAIN inbox : SaidAt(c, i)

TimelyInvariant == MineInvariant /\ ("webhook" \notin Faults => Timely)

\* A move on the server ends with the list that it leaves.
LEMMA MoveTimely ==
    ASSUME ViewInvariant, Timely, "webhook" \notin Faults,
           NEW c \in Call, NEW events, Move(c, events)
    PROVE  Timely'
<1>0. /\ WireTyped /\ events \in Seq(Event) /\ Publish(events) /\ events # <<>>
      /\ \A i \in DOMAIN events : Tidings(events[i], c)
      /\ \A d \in Call \ {c} : phase'[d] = phase[d] /\ shown'[d] = shown[d]
      /\ rescues' = {}
      /\ phase'[c] = "live" => events[Len(events)].participants = shown'[c]
  BY DEF ViewInvariant, RingInvariant, WebInvariant, Move, GoesOn, Timely
<1>1. PICK m \in Nat, n \in Nat : m = Len(inbox) /\ n = Len(events) /\ n >= 1
                                  /\ DOMAIN inbox = 1..m /\ DOMAIN events = 1..n
  <2>1. inbox \in Seq(Event)
    BY <1>0 DEF WireTyped
  <2> QED
    BY <1>0, <2>1, LenProperties, EmptySeq
<1>2. CASE ~online
  <2>1. inbox = <<>> /\ inbox' = inbox
    BY <1>0, <1>2, PublishSound DEF ViewInvariant, RingInvariant
  <2>2. DOMAIN inbox' = {}
    BY <2>1
  <2> QED
    BY <1>0, <2>2 DEF Timely
<1>3. CASE online
  <2>1. /\ \A i \in DOMAIN inbox : i \in DOMAIN inbox' /\ inbox'[i] = inbox[i]
        /\ \A i \in DOMAIN events : m + i \in DOMAIN inbox' /\ inbox'[m + i] = events[i]
        /\ \A i \in DOMAIN inbox' :
              i \in DOMAIN inbox \/ \E j \in DOMAIN events : i = m + j /\ inbox'[i] = events[j]
    <3>1. m = Len(inbox)
      BY <1>1
    <3> QED
      BY <1>0, <1>3, <3>1, Appended
  <2>2. ASSUME NEW i \in DOMAIN inbox' PROVE SaidAt(c, i)'
    <3> SUFFICES ASSUME phase'[c] = "live"
                 PROVE  \/ inbox'[i].participants = shown'[c]
                        \/ \E j \in DOMAIN inbox' : i < j /\ About(inbox'[j], c)
      BY DEF SaidAt, Live, About
    <3>1. n \in DOMAIN events /\ events[n].participants = shown'[c]
      BY <1>0, <1>1
    <3>2. m + n \in DOMAIN inbox' /\ inbox'[m + n] = events[n] /\ About(inbox'[m + n], c)
      BY <1>0, <2>1, <3>1 DEF About, Tidings
    <3>3. i < m + n \/ i = m + n
      BY <1>1, <2>1
    <3> QED
      BY <3>1, <3>2, <3>3
  <2>3. ASSUME NEW d \in Call \ {c}, NEW i \in DOMAIN inbox' PROVE SaidAt(d, i)'
    <3> SUFFICES ASSUME Live(d), About(inbox'[i], d)
                 PROVE  \/ inbox'[i].participants = shown[d]
                        \/ \E j \in DOMAIN inbox' : i < j /\ About(inbox'[j], d)
      BY <1>0 DEF SaidAt, Live, About
    <3>1. i \in DOMAIN inbox
      BY <1>0, <2>1 DEF Tidings, About
    <3> QED
      BY <2>1, <3>1 DEF Timely, SaidAt
  <2> QED
    BY <1>0, <2>2, <2>3 DEF Timely
<1> QED
  BY <1>0, <1>2, <1>3 DEF WireTyped

\* A step that leaves the server alone, and what is on its way, but for the loss of
\* all, for its first event, or for the dismissal of a ring.
LEMMA QuietTimely ==
    ASSUME Timely, UNCHANGED server,
           \/ UNCHANGED inbox
           \/ inbox' = <<>>
           \/ WireTyped /\ \E d \in Call : Publish(<<DismissedEvent(d)>>)
           \/ WireTyped /\ inbox # <<>> /\ inbox' = Tail(inbox)
    PROVE  Timely'
<1>0. phase' = phase /\ shown' = shown /\ rescues' = {}
  BY DEF server, Timely
<1> SUFFICES ASSUME NEW c \in Call, NEW i \in DOMAIN inbox', Live(c), About(inbox'[i], c)
             PROVE  \/ inbox'[i].participants = shown[c]
                    \/ \E j \in DOMAIN inbox' : i < j /\ About(inbox'[j], c)
  BY <1>0 DEF Timely, SaidAt, Live, About
<1>1. CASE UNCHANGED inbox
  BY <1>1 DEF Timely, SaidAt, About
<1>2. CASE inbox' = <<>>
  BY <1>2
<1>3. ASSUME WireTyped, NEW d \in Call, Publish(<<DismissedEvent(d)>>)
      PROVE  \/ inbox'[i].participants = shown[c]
             \/ \E j \in DOMAIN inbox' : i < j /\ About(inbox'[j], c)
  <2>1. PICK e \in Event : e = DismissedEvent(d) /\ e.type = "notification_dismissed"
    BY DismissedSound
  <2>2. /\ \A k \in DOMAIN inbox : k \in DOMAIN inbox' /\ inbox'[k] = inbox[k]
        /\ \A k \in DOMAIN inbox' : k \in DOMAIN inbox \/ inbox'[k] = e
    BY <1>3, <2>1, OneAppended
  <2>3. i \in DOMAIN inbox
    BY <2>1, <2>2 DEF About
  <2> QED
    BY <2>2, <2>3 DEF Timely, SaidAt, About
<1>4. CASE WireTyped /\ inbox # <<>> /\ inbox' = Tail(inbox)
  <2>1. /\ i \in Nat /\ i + 1 \in DOMAIN inbox /\ inbox'[i] = inbox[i + 1]
        /\ \A k \in DOMAIN inbox \ {1} :
              /\ k \in Nat /\ 1 < k
              /\ k - 1 \in DOMAIN inbox' /\ inbox'[k - 1] = inbox[k]
    BY <1>4, Consumed
  <2>2. PICK k \in DOMAIN inbox : k = i + 1 /\ inbox'[i] = inbox[k]
    BY <2>1
  <2>3. \/ inbox[k].participants = shown[c]
        \/ \E j \in DOMAIN inbox : k < j /\ About(inbox[j], c)
    BY <2>2 DEF Timely, SaidAt, About
  <2>4. ASSUME NEW j \in DOMAIN inbox, k < j, About(inbox[j], c)
        PROVE  \E l \in DOMAIN inbox' : i < l /\ About(inbox'[l], c)
    <3>1. j # 1
      <4>1. inbox \in Seq(Event) /\ DOMAIN inbox = 1..Len(inbox) /\ Len(inbox) \in Nat
        BY <1>4, LenProperties DEF WireTyped
      <4> QED
        BY <2>1, <2>2, <2>4, <4>1
    <3>2. j \in Nat /\ j - 1 \in DOMAIN inbox' /\ inbox'[j - 1] = inbox[j]
      BY <2>1, <3>1
    <3>3. i < j - 1
      BY <2>1, <2>2, <2>4, <3>2
    <3> QED
      BY <2>4, <3>2, <3>3 DEF About
  <2> QED
    BY <2>2, <2>3, <2>4
<1> QED
  BY <1>1, <1>2, <1>3, <1>4

\* All steps.
LEMMA TimelyStep ==
    ASSUME TimelyInvariant, [WebNext]_webVars
    PROVE  TimelyInvariant'
<1>1. MineInvariant /\ ViewInvariant /\ RingInvariant /\ WebInvariant /\ WireTyped
  BY DEF TimelyInvariant, MineInvariant, ViewInvariant, RingInvariant, WebInvariant
<1>2. MineInvariant'
  BY <1>1, MineStep
<1> SUFFICES ASSUME "webhook" \notin Faults, Timely PROVE Timely'
  BY <1>2 DEF TimelyInvariant
<1>3. CASE OthersMove \/ PublishRescue \/ Serve
  <2>1. ServerStep
    BY <1>1, <1>3, OthersSound, ServeSound
  <2>2. CASE Unmoved
    BY <2>2, QuietTimely DEF Unmoved, wire
  <2>3. ASSUME NEW e \in Rescue, Rescued(e) PROVE FALSE
    BY <2>3 DEF Timely, Rescued
  <2> QED
    BY <1>1, <2>1, <2>2, <2>3, MoveTimely, QuietTimely DEF ServerStep, Added
<1>4. CASE DeliverEvent
  BY <1>1, <1>4, QuietTimely DEF DeliverEvent
<1>5. CASE Disconnect
  BY <1>5, QuietTimely DEF Disconnect
<1>6. CASE FetchFails \/ DeliverAnswer \/ Reconnect \/ RingTimeout \/ UserClicks
           \/ UNCHANGED webVars
  <2>1. UserClicks => UNCHANGED <<server, wire>>
    BY <1>1, UserSound
  <2>2. UNCHANGED <<server, inbox>>
    BY <1>6, <2>1 DEF FetchFails, DeliverAnswer, Reconnect, RingTimeout, webVars, wire
  <2> QED
    BY <2>2, QuietTimely
<1> QED
  BY <1>3, <1>4, <1>5, <1>6 DEF WebNext

\* Only lists that participantJoined publishes late, or a handler that it overtook,
\* leave a call stale when they are handled: without participantJoined no event does,
\* since the last one on its way about a call says how the call is.
THEOREM OnlyLateListsMislead ==
    "webhook" \notin Faults => (WebSpec => [][DeliverEvent => stale' \subseteq stale]_webVars)
<1> SUFFICES ASSUME "webhook" \notin Faults
             PROVE  WebSpec => [][DeliverEvent => stale' \subseteq stale]_webVars
  OBVIOUS
<1>1. TimelyInvariant /\ [WebNext]_webVars => TimelyInvariant'
  BY TimelyStep
<1>2. WebInit => TimelyInvariant
  <2>1. WebInit => Timely
    BY DEF WebInit, Timely
  <2> QED
    BY <2>1, MineInitial DEF TimelyInvariant
<1>3. TimelyInvariant => [DeliverEvent => stale' \subseteq stale]_webVars
  <2> SUFFICES ASSUME MineInvariant, Timely, DeliverEvent, NEW c \in stale', c \notin stale
               PROVE  FALSE
    BY DEF TimelyInvariant
  <2>1. /\ RingInvariant /\ WireTyped /\ WireInvariant
        /\ \A ch \in Channel : AtHome(ch)
        /\ slice \in CallsPluginState /\ inbox # <<>> /\ inbox' = Tail(inbox)
        /\ slice' \in CallsPluginState
    BY EventSound DEF MineInvariant, ViewInvariant, RingInvariant, WebInvariant, TabTyped,
       DeliverEvent
  <2>2. PICK e \in Event : e = inbox[1] /\ e = Head(inbox) /\ 1 \in DOMAIN inbox
    BY <2>1, Consumed
  <2>3. slice' = HandleEvent(slice, e) /\ stale' = StaleAfterEvent(e)
    BY <2>2 DEF DeliverEvent
  <2>4. PICK ch, new, old : /\ ch = e.channel_id /\ new = slice'.callsByChannel[ch]
                            /\ old = slice.callsByChannel[ch]
    OBVIOUS
  <2>5. /\ e.type \in {"call_started", "user_joined", "user_left"}
        /\ new # None /\ c = new.id /\ ~Says(e) /\ ~Awaited(c)
    <3>1. e.type \in {"call_started", "user_joined", "user_left", "call_ended",
                      "notification_dismissed"}
      BY DEF Event, CallStartedPayload, UserJoinedPayload, UserLeftPayload, CallEndedPayload,
         NotifDismissedPayload
    <3>2. CASE e.type \in {"call_started", "user_joined", "user_left"}
      BY <2>3, <2>4, <3>2 DEF StaleAfterEvent, selectCallByChannel
    <3>3. CASE e.type \in {"call_ended", "notification_dismissed"}
      BY <2>3, <3>3 DEF StaleAfterEvent
    <3> QED
      BY <3>1, <3>2, <3>3
  <2>6. /\ ch \in Channel /\ e.call_id \in Call /\ IsTidings(e)
        /\ new = EntryAfter(old, e) /\ ChannelOf[e.call_id] = ch
    <3>1. FormedAt(1)
      BY <2>1, <2>2 DEF WireInvariant
    <3> QED
      BY <2>1, <2>2, <2>3, <2>4, <2>5, <3>1, HandlerEntry DEF IsTidings, FormedAt
  <2>7. c \in Call
    BY <2>1, <2>4, <2>5, <2>6 DEF CallsPluginState, ActiveCall
  <2>8. ASSUME NEW i \in DOMAIN inbox, i # 1, About(inbox[i], c) PROVE FALSE
    <3>1. i - 1 \in DOMAIN inbox' /\ inbox'[i - 1] = inbox[i]
      BY <2>1, <2>8, Consumed
    <3> QED
      BY <2>5, <2>8, <3>1 DEF Awaited
  <2>9. ~About(Ended(c), c) => FALSE
    BY DEF About, Ended
  <2>10. \A i \in DOMAIN inbox : inbox[i] # Ended(c)
    <3>1. e # Ended(c)
      BY <2>5 DEF Ended
    <3> QED
      BY <2>2, <2>8, <2>9, <3>1
  <2>11. CASE Starts(e, c) \/ (e.call_id = c /\ Live(c))
    <3>1. Live(c) /\ e.call_id = c
      BY <2>1, <2>2, <2>7, <2>10, <2>11, EndFollows DEF Starts
    <3>2. SaidAt(c, 1) /\ About(e, c)
      BY <2>2, <2>5, <2>7, <3>1 DEF Timely, About
    <3>3. e.participants = shown[c] \/ \E j \in DOMAIN inbox : 1 < j /\ About(inbox[j], c)
      BY <2>2, <3>1, <3>2 DEF SaidAt
    <3>4. e.participants = shown[c]
      BY <2>8, <3>3
    <3> QED
      BY <2>5, <3>1, <3>4 DEF Says
  <2>12. CASE ~Starts(e, c) /\ ~(e.call_id = c /\ Live(c))
    <3>1. old # None /\ old.id = c
      BY <2>5, <2>6, <2>12 DEF EntryAfter, Starts
    <3>2. ChannelOf[c] = ch /\ ShowsCall(c)
      BY <2>1, <2>4, <2>6, <3>1 DEF AtHome, ShowsCall, selectCallByChannel
    <3>3. CASE ~Live(c)
      <4>1. RightOn(c)
        BY <2>7 DEF MineInvariant, ViewInvariant
      <4> QED
        BY <2>10, <3>2, <3>3, <4>1 DEF RightOn
    <3>4. CASE Live(c)
      <4>1. StartSaidAt(c, 1)
        BY <2>1, <2>2, <2>7 DEF WireInvariant
      <4>2. PICK j \in DOMAIN inbox : 1 < j /\ Starts(inbox[j], c)
        BY <2>2, <2>4, <2>6, <2>12, <3>2, <3>4, <4>1 DEF StartSaidAt, News
      <4>3. About(inbox[j], c)
        BY <4>2 DEF About, Starts
      <4> QED
        BY <2>8, <4>2, <4>3
    <3> QED
      BY <3>3, <3>4
  <2> QED
    BY <2>11, <2>12
<1> QED
  BY <1>1, <1>2, <1>3, PTL DEF WebSpec
=============================================================================
