----------------------------- MODULE WebClient ------------------------------
(***************************************************************************)
(* One browser tab of the user me: the Redux slice, the components that    *)
(* start and join calls, their HTTP requests, and the WebSocket.           *)
(*                                                                         *)
(* The server is one node.  Its calls live as CallFeed says; the handlers   *)
(* that hold callMu change the store and publish their events in one step. *)
(* participantJoined takes no lock: it commits, and publishes at any later *)
(* time, or between the commit and the publication of another handler.     *)
(* The answer of an HTTP request travels on its own, so an event published *)
(* later may arrive first.  Other users, and me on another device, act on  *)
(* the server directly.  The events of a connection arrive in the order of *)
(* publication; those published while it is down are lost.                 *)
(***************************************************************************)
EXTENDS WebSocketHandlers, SequencesExt

CONSTANTS ChannelOf,    \* the channel an id is minted for, by call
          Parts,        \* the components in use, see Part
          Faults,       \* "network": a request fails; "offline": the WebSocket drops;
                        \* "webhook": participantJoined arrives
          MaxInbox,     \* bound: events on their way to the tab
          MaxRequests,  \* bound: requests in flight
          MaxClicks,    \* bound: clicks of the user in this tab
          MaxMoves      \* bound: moves of others on the server

\* Who asked.  The joins of a post and of the toast after their switch modal
\* are told apart; nobody waits for the answer of "beacon".
Part == {"header", "switch", "post", "postSwitch", "mount", "toast", "toastSwitch",
         "incoming", "widget", "beacon"}

ASSUME WebAssumption ==
    /\ ChannelOf \in [Call -> Channel]
    /\ Parts \subseteq Part
    /\ me \in User
    /\ DirectChannels \subseteq Channel
    /\ None \notin ActiveCall
    /\ MaxClicks \in Nat /\ MaxMoves \in Nat

VARIABLES phase, shown,  \* the server: the state of each call and its participants
          rescues,       \* events that participantJoined has still to publish
          inbox,         \* events on their way to the tab
          online,        \* the WebSocket is connected
          slice,         \* the Redux slice of the plugin
          ui,            \* local state of the components
          http,          \* requests in flight, in the order they were sent
          stale,         \* history: calls of which the tab missed an event, or was
                         \* told last by an overtaken answer or a late event
          budget         \* clicks and moves so far

server == <<phase, shown, rescues>>
wire   == <<inbox, online>>
webVars == <<server, wire, slice, ui, http, stale, budget>>

Feed == INSTANCE CallFeed

\* The switch modal of a component and the call it would switch to.
Modal == [visible : BOOLEAN, pending : Call \cup {None}]

Closed == [visible |-> FALSE, pending |-> None]

LocalState == [posts : [Call -> Modal], postError : BOOLEAN, toast : Modal,
               dismissed : BOOLEAN, incoming : BOOLEAN]

FreshUi == [posts |-> [c \in Call |-> Closed], postError |-> FALSE, toast |-> Closed,
            dismissed |-> FALSE, incoming |-> FALSE]

Request == [part : Part, kind : {"create", "join", "leave", "dismiss", "get"},
            call : Call \cup {None}, channel : Channel,
            stage : {"sent", "answered"}, ok : BOOLEAN, ended : BOOLEAN,
            participants : SUBSET User]

\* A freshly loaded page: what happened before, it does not know.
WebInit ==
    /\ Feed!Init
    /\ \A c \in Call : (shown[c] = {}) = (phase[c] = "silent")
    /\ \A c, d \in Call :
         phase[c] = "live" /\ phase[d] = "live" /\ ChannelOf[c] = ChannelOf[d] => c = d
    /\ rescues = {}
    /\ inbox = <<>>
    /\ online = TRUE
    /\ slice = setPluginEnabled(initialState, TRUE)
    /\ ui = FreshUi
    /\ http = <<>>
    /\ stale = {}
    /\ budget = [clicks |-> 0, moves |-> 0]

-----------------------------------------------------------------------------
(* The server and its events.                                              *)

Live(c) == phase[c] = "live"

Over(c) == phase[c] = "over"

LiveIn(ch) == {c \in Call : Live(c) /\ ChannelOf[c] = ch}

StartedEvent(c, u) == [type |-> "call_started", call_id |-> c, channel_id |-> ChannelOf[c],
                       creator_id |-> u, participants |-> {u}]

ListEvent(type, c, u, list) == [type |-> type, call_id |-> c, channel_id |-> ChannelOf[c],
                                user_id |-> u, participants |-> list]

EndedEvent(c) == [type |-> "call_ended", call_id |-> c, channel_id |-> ChannelOf[c]]

\* Published to a connected tab, lost on any other.
Publish(events) ==
    /\ IF online THEN Len(inbox) + Len(events) <= MaxInbox /\ inbox' = inbox \o events
                      /\ UNCHANGED stale
       ELSE /\ UNCHANGED inbox
            /\ stale' = stale \cup {events[i].call_id : i \in DOMAIN events}
    /\ UNCHANGED online

\* A handler under callMu publishes the list that its transaction has returned.
\* A participantJoined that commits after that transaction, for the user v, may
\* publish its own list before.
PublishList(e) ==
    \/ shown' = [shown EXCEPT ![e.call_id] = e.participants] /\ Publish(<<e>>)
    \/ /\ "webhook" \in Faults
       /\ \E v \in User \ e.participants :
            LET list == e.participants \cup {v}
            IN  /\ shown' = [shown EXCEPT ![e.call_id] = list]
                /\ Publish(<<ListEvent("user_joined", e.call_id, v, list), e>>)

Start(c, u) ==
    /\ LiveIn(ChannelOf[c]) = {}
    /\ Feed!CallStarted(c)
    /\ shown'[c] = {u}
    /\ Publish(<<StartedEvent(c, u)>>)
    /\ UNCHANGED rescues

Join(c, u) ==
    /\ Live(c)
    /\ PublishList(ListEvent("user_joined", c, u, shown[c] \cup {u}))
    /\ UNCHANGED <<phase, rescues>>

\* The last participant's leave ends the call.
Leave(c, u) ==
    LET list == shown[c] \ {u}
        left == ListEvent("user_left", c, u, list)
    IN  /\ Live(c)
        /\ IF list = {}
           THEN /\ phase' = [phase EXCEPT ![c] = "over"]
                /\ shown' = [shown EXCEPT ![c] = list]
                /\ Publish(<<left, EndedEvent(c)>>)
           ELSE UNCHANGED phase /\ PublishList(left)
        /\ UNCHANGED rescues

\* EndCall, meeting.ended, or a reconciliation that finds no meeting.
End(c) == Feed!CallEnded(c) /\ Publish(<<EndedEvent(c)>>) /\ UNCHANGED rescues

\* The user u, who holds a token of the call and may have left it since, connects
\* to its room, and HandleWebhookParticipantJoined adds u.  Bound: two handlers
\* that would publish the same event count as one.
ParticipantJoined(c, u) ==
    /\ "webhook" \in Faults
    /\ Live(c)
    /\ shown' = [shown EXCEPT ![c] = @ \cup {u}]
    /\ rescues' = rescues \cup {ListEvent("user_joined", c, u, shown[c] \cup {u})}
    /\ UNCHANGED <<phase, wire, stale>>

OthersMove ==
    /\ budget.moves < MaxMoves
    /\ budget' = [budget EXCEPT !.moves = @ + 1]
    /\ \E c \in Call :
         \/ End(c)
         \/ \E u \in User : Start(c, u) \/ Leave(c, u)
         \/ \E u \in User \ shown[c] : Join(c, u)
         \/ \E u \in User : ParticipantJoined(c, u)
    /\ UNCHANGED <<slice, ui, http>>

\* The end of HandleWebhookParticipantJoined, whatever has become of the call.
PublishRescue ==
    /\ \E e \in rescues : rescues' = rescues \ {e} /\ Publish(<<e>>)
    /\ UNCHANGED <<phase, shown, slice, ui, http, budget>>

-----------------------------------------------------------------------------
(* Requests.                                                               *)

Ask(part, kind, c, ch) ==
    [part |-> part, kind |-> kind, call |-> c, channel |-> ch,
     stage |-> "sent", ok |-> FALSE, ended |-> FALSE, participants |-> {}]

AskJoin(part, c) == Ask(part, "join", c, ChannelOf[c])

\* The leave that a confirmed switch sends without waiting for it.
LeaveMine(part) ==
    IF slice.myActiveCall = None THEN <<>>
    ELSE <<Ask(part, "leave", slice.myActiveCall.callId, slice.myActiveCall.channelId)>>

Send(requests) ==
    /\ Len(http) + Len(requests) <= MaxRequests
    /\ http' = http \o requests

Answered(r, ok, c, list) ==
    [r EXCEPT !.stage = "answered", !.ok = ok, !.call = c, !.participants = list,
              !.ended = r.kind = "get" /\ ok /\ Over(c)]

\* Nobody waits for the answer of a leave or a dismiss, except the widget, nor
\* for that of a page that is gone.
Forgotten(r) ==
    r.part = "beacon" \/ (r.kind \in {"leave", "dismiss"} /\ r.part # "widget")

\* The answer is on its way.
Reply(i, ok, c, list) ==
    http' = IF Forgotten(http[i]) THEN RemoveAt(http, i)
            ELSE ReplaceAt(http, i, Answered(http[i], ok, c, list))

ServeCreate(i) ==
    \/ \E c \in Call :
         /\ ChannelOf[c] = http[i].channel
         /\ Start(c, me)
         /\ Reply(i, TRUE, c, {me})
    \/ /\ LiveIn(http[i].channel) # {}
       /\ Reply(i, FALSE, None, {})
       /\ UNCHANGED <<server, wire, stale>>

ServeJoin(i) ==
    LET c == http[i].call
    IN  \/ Join(c, me) /\ Reply(i, TRUE, c, shown[c] \cup {me})
        \/ ~Live(c) /\ Reply(i, FALSE, c, {}) /\ UNCHANGED <<server, wire, stale>>

\* A leave is answered by a status without a body, which pluginFetch takes for
\* an error.
ServeLeave(i) ==
    LET c == http[i].call
    IN  /\ \/ Leave(c, me)
           \/ ~Live(c) /\ UNCHANGED <<server, wire, stale>>
        /\ Reply(i, FALSE, c, {})

ServeGet(i) ==
    /\ Reply(i, TRUE, http[i].call, shown[http[i].call])
    /\ UNCHANGED <<server, wire, stale>>

ServeDismiss(i) ==
    /\ Publish(<<[type |-> "notification_dismissed", call_id |-> http[i].call,
                  user_id |-> me]>>)
    /\ Reply(i, TRUE, http[i].call, {})
    /\ UNCHANGED server

Serve ==
    /\ \E i \in DOMAIN http :
         /\ http[i].stage = "sent"
         /\ CASE http[i].kind = "create" -> ServeCreate(i)
              [] http[i].kind = "join" -> ServeJoin(i)
              [] http[i].kind = "leave" -> ServeLeave(i)
              [] http[i].kind = "get" -> ServeGet(i)
              [] http[i].kind = "dismiss" -> ServeDismiss(i)
    /\ UNCHANGED <<slice, ui, budget>>

\* The request or its answer is lost, and pluginFetch resolves with an error.
FetchFails ==
    /\ "network" \in Faults
    /\ \E i \in DOMAIN http : Reply(i, FALSE, http[i].call, {}) /\ http' # http
    /\ UNCHANGED <<server, wire, slice, ui, stale, budget>>

-----------------------------------------------------------------------------
(* The channel header button and the modals of CallActionsRoot.            *)

Click ==
    /\ budget.clicks < MaxClicks
    /\ budget' = [budget EXCEPT !.clicks = @ + 1]
    /\ UNCHANGED <<server, wire, stale>>

Uses(part) == part \in Parts

\* What the button says, if calls are enabled.
HeaderLabel(ch) ==
    CASE slice.callLoading -> "starting"
      [] ~slice.callLoading /\ selectIsCurrentUserParticipant(slice, ch, me) -> "in call"
      [] ~slice.callLoading /\ ~selectIsCurrentUserParticipant(slice, ch, me)
         /\ selectCallByChannel(slice, ch) # None -> "join"
      [] OTHER -> "start"

\* "Start new call": whatever call this user is in.
HeaderStart(ch) ==
    /\ Uses("header") /\ Click
    /\ selectCallByChannel(slice, ch) = None
    /\ slice' = setCallLoading(slice, TRUE)
    /\ Send(<<Ask("header", "create", None, ch)>>)
    /\ UNCHANGED ui

\* A click that joins does nothing for a participant, nor in the same call.
HeaderJoin(ch) ==
    LET call == selectCallByChannel(slice, ch)
    IN  /\ Uses("header") /\ Click
        /\ call # None /\ me \notin call.participants
        /\ \/ /\ InAnotherCall(slice, call.id)
              /\ slice' = setPendingSwitchCallId(slice, call.id)
              /\ UNCHANGED http
           \/ /\ slice.myActiveCall = None
              /\ slice' = setCallLoading(slice, TRUE)
              /\ Send(<<AskJoin("header", call.id)>>)
        /\ UNCHANGED ui

\* upsertCall and setMyActiveCall with the call of the answer.
Enter(s, r) ==
    setMyActiveCall(upsertCall(s, ChannelOf[r.call], r.call, r.participants),
                    ChannelOf[r.call], r.call)

\* Mutant: a failed request leaves the button loading.
MutHeaderAnswer(s, r) ==
    IF r.ok THEN Enter(setCallLoading(s, FALSE), r) ELSE setCallError(s, TRUE)

\* The rest of the click handler, after its await.
HeaderAnswer(s, r) ==
    LET t == setCallLoading(s, FALSE)
    IN  IF r.ok THEN Enter(t, r) ELSE setCallError(t, TRUE)

SwitchConfirm ==
    /\ Uses("header") /\ Click
    /\ slice.pendingSwitchCallId # None
    /\ slice' = setPendingSwitchCallId(slice, None)
    /\ Send(LeaveMine("switch") \o <<AskJoin("switch", slice.pendingSwitchCallId)>>)
    /\ UNCHANGED ui

SwitchAnswer(s, r) == IF r.ok THEN Enter(s, r) ELSE setCallError(s, TRUE)

CloseGlobalModal ==
    /\ Click
    /\ \/ /\ slice.pendingSwitchCallId # None
          /\ slice' = setPendingSwitchCallId(slice, None)
       \/ slice.callError /\ slice' = setCallError(slice, FALSE)
    /\ UNCHANGED <<ui, http>>

-----------------------------------------------------------------------------
(* The post of a call, one per call.                                       *)

\* end_at in the props that Mattermost keeps for the post: its update comes
\* over the same WebSocket right before call_ended.
PostSaysEnded(c) ==
    Over(c) /\ \A i \in DOMAIN inbox : inbox[i] # EndedEvent(c)

ShowsCall(c) ==
    LET live == selectCallByChannel(slice, ChannelOf[c]) IN live # None /\ live.id = c

\* The post renders CallPostEnded: a live call in the store has no endAt.
PostShowsEnded(c) == ~ShowsCall(c) /\ PostSaysEnded(c)

\* The user opens the channel: the post is mounted anew.
PostMount(c) ==
    /\ Uses("post") /\ Click
    /\ phase[c] # "silent" /\ ~PostSaysEnded(c) /\ ~ShowsCall(c)
    /\ Send(<<Ask("mount", "get", c, ChannelOf[c])>>)
    /\ ui' = [ui EXCEPT !.posts[c] = Closed, !.postError = FALSE]
    /\ UNCHANGED slice

MountAnswer(s, r) ==
    IF r.ok THEN upsertCall(s, ChannelOf[r.call], r.call, r.participants) ELSE s

\* The join button of CallPostActive.
PostOffersJoin(c) ==
    phase[c] # "silent" /\ ~PostShowsEnded(c) /\ ~IsMyActiveCall(slice, c)

PostJoin(c) ==
    /\ Uses("post") /\ Click
    /\ PostOffersJoin(c)
    /\ IF InAnotherCall(slice, c)
       THEN /\ ui' = [ui EXCEPT !.posts[c] = [visible |-> TRUE, pending |-> c]]
            /\ UNCHANGED http
       ELSE Send(<<AskJoin("post", c)>>) /\ UNCHANGED ui
    /\ UNCHANGED slice

PostConfirm(c) ==
    /\ Uses("post") /\ Click
    /\ ui.posts[c].visible
    /\ ui' = [ui EXCEPT !.posts[c].visible = FALSE]
    /\ IF ui.posts[c].pending = None THEN UNCHANGED http
       ELSE Send(LeaveMine("post") \o <<AskJoin("postSwitch", c)>>)
    /\ UNCHANGED slice

PostClose(c) ==
    /\ Uses("post") /\ Click
    /\ \/ ui.posts[c].visible /\ ui' = [ui EXCEPT !.posts[c] = Closed]
       \/ ui.postError /\ ui' = [ui EXCEPT !.postError = FALSE]
    /\ UNCHANGED <<slice, http>>

\* Mutant: the call is not put into the slice.
MutPostAnswer(s, r) ==
    IF r.ok THEN setMyActiveCall(s, ChannelOf[r.call], r.call) ELSE s

PostAnswer(s, r) == IF r.ok THEN Enter(s, r) ELSE s

-----------------------------------------------------------------------------
(* The toast bar of the current channel, which may be any.                 *)

ToastVisible(ch) ==
    /\ selectCallByChannel(slice, ch) # None
    /\ ~selectIsCurrentUserParticipant(slice, ch, me)
    /\ ~ui.dismissed

ToastJoin(ch) ==
    LET c == selectCallByChannel(slice, ch).id
    IN  /\ Uses("toast") /\ Click
        /\ ToastVisible(ch)
        /\ IF InAnotherCall(slice, c)
           THEN /\ ui' = [ui EXCEPT !.toast = [visible |-> TRUE, pending |-> c]]
                /\ UNCHANGED http
           ELSE Send(<<AskJoin("toast", c)>>) /\ UNCHANGED ui
        /\ UNCHANGED slice

ToastConfirm(ch) ==
    /\ Uses("toast") /\ Click
    /\ ToastVisible(ch) /\ ui.toast.visible
    /\ ui' = [ui EXCEPT !.toast.visible = FALSE]
    /\ IF ui.toast.pending = None THEN UNCHANGED http
       ELSE Send(LeaveMine("toast") \o <<AskJoin("toastSwitch", ui.toast.pending)>>)
    /\ UNCHANGED slice

\* Cancel, and the dismissal that lasts until the page is reloaded.
ToastClose(ch) ==
    /\ Uses("toast") /\ Click
    /\ ToastVisible(ch)
    /\ \/ ui.toast.visible /\ ui' = [ui EXCEPT !.toast = Closed]
       \/ ui' = [ui EXCEPT !.dismissed = TRUE]
    /\ UNCHANGED <<slice, http>>

\* The call is not put into the slice: its entry was there at the click.
ToastAnswer(s, r) ==
    IF r.ok THEN setMyActiveCall(s, ChannelOf[r.call], r.call) ELSE s

-----------------------------------------------------------------------------
(* The incoming call notification.                                         *)

Ringing == slice.incomingCall # None

IncomingIgnore ==
    /\ Uses("incoming") /\ Click
    /\ Ringing
    /\ Send(<<Ask("incoming", "dismiss", slice.incomingCall.callId,
                  slice.incomingCall.channelId)>>)
    /\ UNCHANGED <<slice, ui>>

IncomingJoin ==
    /\ Uses("incoming") /\ Click
    /\ Ringing
    /\ IF InAnotherCall(slice, slice.incomingCall.callId)
       THEN ui' = [ui EXCEPT !.incoming = TRUE] /\ UNCHANGED http
       ELSE Send(<<AskJoin("incoming", slice.incomingCall.callId)>>) /\ UNCHANGED ui
    /\ UNCHANGED slice

\* The switch modal stays open when the ring it belongs to is gone.
IncomingConfirm ==
    /\ Uses("incoming") /\ Click
    /\ Ringing /\ ui.incoming
    /\ ui' = [ui EXCEPT !.incoming = FALSE]
    /\ Send(LeaveMine("incoming") \o <<AskJoin("incoming", slice.incomingCall.callId)>>)
    /\ UNCHANGED slice

IncomingCancel ==
    /\ Uses("incoming") /\ Click
    /\ Ringing /\ ui.incoming
    /\ ui' = [ui EXCEPT !.incoming = FALSE]
    /\ UNCHANGED <<slice, http>>

\* Whatever rings by now stops.
IncomingAnswer(s, r) ==
    IF r.ok THEN clearIncomingCall(setMyActiveCall(s, ChannelOf[r.call], r.call)) ELSE s

\* The timer of 30 seconds.
RingTimeout ==
    /\ Ringing
    /\ slice' = clearIncomingCall(slice)
    /\ UNCHANGED <<server, wire, ui, http, stale, budget>>

-----------------------------------------------------------------------------
(* What arrives at the tab.                                                *)

AnswerTo(s, r) ==
    CASE r.part = "header" -> HeaderAnswer(s, r)
      [] r.part = "switch" -> SwitchAnswer(s, r)
      [] r.part \in {"post", "postSwitch"} -> PostAnswer(s, r)
      [] r.part = "mount" -> MountAnswer(s, r)
      [] r.part \in {"toast", "toastSwitch"} -> ToastAnswer(s, r)
      [] r.part = "incoming" -> IncomingAnswer(s, r)

\* The local state after the await of a join.
UiAfter(r) ==
    LET failed == r.part \in {"post", "postSwitch"} /\ ~r.ok
    IN  [ui EXCEPT !.postError = @ \/ failed,
                   !.posts = IF r.part = "postSwitch"
                             THEN [@ EXCEPT ![r.call].pending = None] ELSE @,
                   !.toast.pending = IF r.part = "toastSwitch" THEN None ELSE @]

\* The answer is not what the server says by now.
Overtaken(r) == r.ok /\ (~Live(r.call) \/ r.participants # shown[r.call])

\* A call is stale once an overtaken answer about it is acted upon while the
\* channel shows a call: nothing will correct the picture.  It is stale no more
\* when an answer shows it as it is.
StaleAfter(r) ==
    LET entry == selectCallByChannel(slice', ChannelOf[r.call])
    IN  IF Overtaken(r) /\ entry # None THEN stale \cup {r.call}
        ELSE IF r.ok /\ Live(r.call)
                /\ entry = [id |-> r.call, participants |-> shown[r.call]]
        THEN stale \ {r.call} ELSE stale

DeliverAnswer ==
    /\ \E i \in DOMAIN http :
         LET r == http[i]
         IN  /\ r.stage = "answered" /\ r.part # "widget"
             /\ slice' = AnswerTo(slice, r)
             /\ ui' = UiAfter(r)
             /\ stale' = StaleAfter(r)
             /\ http' = RemoveAt(http, i)
    /\ UNCHANGED <<server, wire, budget>>

\* The event tells how its channel is now: its call has these participants, or
\* none goes on there.
Says(e) ==
    IF e.type = "call_ended" THEN LiveIn(e.channel_id) = {}
    ELSE Live(e.call_id) /\ e.participants = shown[e.call_id]

\* The event is about the call.
About(e, c) == e.type # "notification_dismissed" /\ e.call_id = c

\* Something about the call will still come to the tab.
Awaited(c) ==
    \/ \E i \in DOMAIN inbox' : About(inbox'[i], c)
    \/ \E e \in rescues : e.call_id = c

\* A late event tells how things were: the call that its channel shows is stale
\* then, if nothing about that call will follow.  A call is stale no more after
\* its call_ended, or an event that shows it as it is.
StaleAfterEvent(data) ==
    LET entry == selectCallByChannel(slice', data.channel_id)
    IN  CASE data.type = "notification_dismissed" -> stale
          [] data.type = "call_ended" -> stale \ {data.call_id}
          [] data.type \in {"call_started", "user_joined", "user_left"} ->
                IF entry = None THEN stale
                ELSE IF Says(data)
                THEN IF entry.id = data.call_id THEN stale \ {entry.id} ELSE stale
                ELSE IF Awaited(entry.id) THEN stale ELSE stale \cup {entry.id}

DeliverEvent ==
    /\ inbox # <<>>
    /\ inbox' = Tail(inbox)
    /\ slice' = HandleEvent(slice, Head(inbox))
    /\ stale' = StaleAfterEvent(Head(inbox))
    /\ UNCHANGED <<server, online, ui, http, budget>>

Disconnect ==
    /\ "offline" \in Faults /\ online
    /\ online' = FALSE
    /\ inbox' = <<>>
    /\ stale' = stale \cup {inbox[i].call_id : i \in DOMAIN inbox}
    /\ UNCHANGED <<server, slice, ui, http, budget>>

\* The reconnect handler fetches the configuration and the channels only.
Reconnect ==
    /\ ~online
    /\ online' = TRUE
    /\ UNCHANGED <<server, inbox, slice, ui, http, stale, budget>>

-----------------------------------------------------------------------------

UserClicks ==
    \/ \E ch \in Channel : HeaderStart(ch) \/ HeaderJoin(ch)
                           \/ ToastJoin(ch) \/ ToastConfirm(ch) \/ ToastClose(ch)
    \/ SwitchConfirm \/ CloseGlobalModal
    \/ \E c \in Call : PostMount(c) \/ PostJoin(c) \/ PostConfirm(c) \/ PostClose(c)
    \/ IncomingIgnore \/ IncomingJoin \/ IncomingConfirm \/ IncomingCancel

WebNext ==
    \/ OthersMove \/ PublishRescue \/ Serve \/ FetchFails \/ DeliverAnswer \/ DeliverEvent
    \/ Disconnect \/ Reconnect \/ RingTimeout \/ UserClicks

\* The WebSocket and HTTP deliver in the end.  Nothing is assumed of users.
WebFairness ==
    /\ WF_webVars(Serve)
    /\ WF_webVars(DeliverAnswer)
    /\ WF_webVars(DeliverEvent)

WebSpec == WebInit /\ [][WebNext]_webVars /\ WebFairness
=============================================================================
