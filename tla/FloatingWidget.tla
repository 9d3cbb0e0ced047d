--------------------------- MODULE FloatingWidget ---------------------------
(***************************************************************************)
(* The floating widget of the tab of WebClient: it initialises the RTK SDK *)
(* for the call this tab is in, shows the meeting, and hangs up.           *)
(*                                                                         *)
(* React runs the effects of a render before it renders again: after every *)
(* change of myActiveCall, Effects comes before anything else.  The SDK is *)
(* external (RTK web-core, bundled in server/assets): an initialisation    *)
(* takes time and may fail; one started while another is running is        *)
(* ignored, and one that succeeds replaces the meeting without leaving its *)
(* room (useRealtimeKitClient).  RtkMeeting joins the room when it is      *)
(* mounted, joining takes time, and leaveRoom ends with roomLeft whatever  *)
(* the room was doing.  Only the current meeting has the widget's handlers.*)
(***************************************************************************)
EXTENDS WebClient

CONSTANTS MAX_RETRIES,  \* 3
          Controls,     \* what the user uses of the widget, see Control
          SdkFaults     \* "init": an initialisation fails; "drop": a room is lost

Control == {"close", "retry", "resize", "unload"}

Meeting == [call : Call, room : {"new", "joining", "in", "leaving", "out"}]

ASSUME WidgetAssumption ==
    /\ MAX_RETRIES \in Nat
    /\ Controls \subseteq Control
    /\ SdkFaults \subseteq {"init", "drop"}
    /\ None \notin Call /\ None \notin Meeting

VARIABLE widget  \* refs, local state and SDK of FloatingWidget, see WidgetState

roomVars == <<webVars, widget>>

WidgetState ==
    [seen : MyActiveCall \cup {None},    \* myActiveCall when the effects last ran
     init : Call \cup {None},            \* the call whose initialisation is running
     meeting : Meeting \cup {None},
     retryCount : 0..MAX_RETRIES,
     retryTimeout : Call \cup {None},    \* the timer the ref holds, by its call
     strays : SUBSET Call,               \* timers that no ref holds any more
     joinError : BOOLEAN,
     isJoining : BOOLEAN,
     display : {"normal", "minimized", "fullscreen"},
     closing : Call \cup {None},         \* handleClose awaits leaveRoom
     abandoned : SUBSET Call,            \* rooms that nobody has left although another
                                         \* meeting has taken the widget
     crossed : BOOLEAN]                  \* history: since this token, the SDK ignored an
                                         \* attempt, a timer of another call started one,
                                         \* or the room of an earlier meeting was joined

NoWidget == [seen |-> None, init |-> None, meeting |-> None, retryCount |-> 0,
             retryTimeout |-> None, strays |-> {}, joinError |-> FALSE,
             isJoining |-> FALSE, display |-> "normal", closing |-> None,
             abandoned |-> {}, crossed |-> FALSE]

CallIdOf(mine) == IF mine = None THEN None ELSE mine.callId

MyCall == CallIdOf(slice.myActiveCall)

\* The requests in flight with these indexes; nothing relies on their order.
InFlight(indexes) ==
    LET order == SetToSeq(indexes) IN [k \in DOMAIN order |-> http[order[k]]]

\* The effects of the last render have run.
Settled == widget.seen = slice.myActiveCall

\* The room is being joined or has been: camera and microphone are on.
Entering(m) == m # None /\ m.room \in {"joining", "in"}

InRoom == Entering(widget.meeting)

\* The widget renders: the tab is in a call, and its channel shows one.
Rendered ==
    slice.myActiveCall # None
    /\ selectCallByChannel(slice, slice.myActiveCall.channelId) # None

\* RtkMeeting is mounted.
MeetingShown ==
    /\ Rendered /\ widget.display # "minimized"
    /\ ~widget.joinError /\ ~widget.isJoining /\ widget.meeting # None

-----------------------------------------------------------------------------
(* The SDK.                                                                *)

\* Mutant: the widget does not say that it is connecting.
MutAttemptInit(w, c) ==
    IF w.init = None
    THEN [w EXCEPT !.joinError = FALSE, !.isJoining = FALSE, !.init = c,
                   !.crossed = @ \/ c # MyCall]
    ELSE [w EXCEPT !.joinError = FALSE, !.isJoining = FALSE, !.crossed = TRUE]

\* While another one is running, initMeeting resolves at once with nothing.
attemptInit(w, c) ==
    IF w.init = None
    THEN [w EXCEPT !.joinError = FALSE, !.isJoining = TRUE, !.init = c,
                   !.crossed = @ \/ c # MyCall]
    ELSE [w EXCEPT !.joinError = FALSE, !.isJoining = FALSE, !.crossed = TRUE]

\* The widget forgets the meeting it had; a leave that is under way goes on.
InitSucceeds ==
    /\ widget.init # None
    /\ widget' = [widget EXCEPT
                     !.init = None, !.isJoining = FALSE,
                     !.meeting = [call |-> widget.init, room |-> "new"],
                     !.abandoned = IF InRoom THEN @ \cup {widget.meeting.call} ELSE @]
    /\ UNCHANGED webVars

\* Mutant: failed attempts are not counted.
MutAfterFailure(w) ==
    [w EXCEPT !.init = None, !.retryTimeout = w.init]

\* Mutant: one attempt too many.
MutTooManyRetries(w) ==
    IF w.retryCount <= MAX_RETRIES
    THEN [w EXCEPT !.init = None, !.retryCount = @ + 1, !.retryTimeout = w.init]
    ELSE [w EXCEPT !.init = None, !.isJoining = FALSE, !.joinError = TRUE]

\* The timer of a failed attempt, or the error after MAX_RETRIES of them.
AfterFailure(w) ==
    IF w.retryCount < MAX_RETRIES
    THEN [w EXCEPT !.init = None, !.retryCount = @ + 1, !.retryTimeout = w.init,
                   !.strays = IF w.retryTimeout = None THEN @ ELSE @ \cup {w.retryTimeout}]
    ELSE [w EXCEPT !.init = None, !.isJoining = FALSE, !.joinError = TRUE]

InitFails ==
    /\ "init" \in SdkFaults /\ widget.init # None
    /\ widget' = AfterFailure(widget)
    /\ UNCHANGED webVars

RetryFires ==
    /\ \/ /\ widget.retryTimeout # None
          /\ widget' = attemptInit([widget EXCEPT !.retryTimeout = None],
                                   widget.retryTimeout)
       \/ \E c \in widget.strays :
             widget' = attemptInit([widget EXCEPT !.strays = @ \ {c}], c)
    /\ UNCHANGED webVars

\* RtkMeeting is mounted, and joins the room unless that is under way or done.
RoomJoins ==
    /\ MeetingShown /\ widget.meeting.room \in {"new", "out"}
    /\ widget' = [widget EXCEPT !.meeting.room = "joining"]
    /\ UNCHANGED webVars

\* roomJoined fires, whatever the widget is waiting for by now.
RoomJoined ==
    /\ widget.meeting # None /\ widget.meeting.room = "joining"
    /\ widget' = [widget EXCEPT !.meeting.room = "in", !.joinError = FALSE,
                                !.isJoining = FALSE,
                                !.crossed = @ \/ widget.meeting.call # MyCall]
    /\ UNCHANGED webVars

\* roomLeft fires.  The handler names the call that this tab is in by now.
RoomLeft(room) ==
    /\ widget.meeting # None /\ widget.meeting.room = room
    /\ widget' = [widget EXCEPT !.meeting.room = "out"]
    /\ http' = http \o LeaveMine("beacon")
    /\ slice' = clearMyActiveCall(slice)
    /\ UNCHANGED <<server, wire, ui, stale, budget>>

\* The connection is lost, the user is removed, or leaves in the meeting's own UI.
RoomDrops ==
    /\ "drop" \in SdkFaults
    /\ \/ RoomLeft("in")
       \/ \E c \in widget.abandoned :
             widget' = [widget EXCEPT !.abandoned = @ \ {c}] /\ UNCHANGED webVars

leaveRoom(w) ==
    IF w.meeting = None THEN w ELSE [w EXCEPT !.meeting.room = "leaving"]

-----------------------------------------------------------------------------
(* The effects, in the order of the component.                             *)

\* A new call is shown in its normal size.
ResetDisplay(w, mine) ==
    IF mine # None /\ CallIdOf(mine) # CallIdOf(w.seen)
    THEN [w EXCEPT !.display = "normal"] ELSE w

\* A new token cancels the timer that is left and starts over.
InitEffect(w, mine) ==
    LET v == [w EXCEPT !.retryTimeout = IF w.seen = None THEN @ ELSE None]
    IN  IF mine = None THEN v
        ELSE attemptInit([v EXCEPT !.retryCount = 0, !.crossed = FALSE], mine.callId)

\* Mutant: when the host ends the call, the tab stays in the room.
MutHangUpEffect(w, mine) == w

\* Leave the room when the call was ended under this tab.
HangUpEffect(w, mine) == IF mine = None THEN leaveRoom(w) ELSE w

\* Mutant: the call is never verified.
MutReconcileEffect(mine) == <<>>

\* "Defense-in-depth": the call is missing from the slice.
ReconcileEffect(mine) ==
    IF mine # None /\ selectCallByChannel(slice, mine.channelId) = None
    THEN <<Ask("widget", "get", mine.callId, mine.channelId)>> ELSE <<>>

IsReconcile(r) == r.part = "widget" /\ r.kind = "get"

\* The cleanup of the effect: nobody waits for an earlier check any more.
NotReconcile == InFlight({i \in DOMAIN http : ~IsReconcile(http[i])})

Effects ==
    LET mine == slice.myActiveCall
    IN  /\ ~Settled
        /\ widget' = [HangUpEffect(InitEffect(ResetDisplay(widget, mine), mine), mine)
                          EXCEPT !.seen = mine]
        /\ http' = IF CallIdOf(mine) = CallIdOf(widget.seen) THEN http
                   ELSE NotReconcile \o ReconcileEffect(mine)
        /\ UNCHANGED <<server, wire, slice, ui, stale, budget>>

\* A call that has ended is cleared, any other is put into the slice.  A check
\* that fails leaves everything to the events: the tab missed what it asked for.
ReconcileAnswer ==
    \E i \in DOMAIN http :
        LET r == http[i]
        IN  /\ r.stage = "answered" /\ IsReconcile(r)
            /\ slice' = IF ~r.ok THEN slice
                        ELSE IF r.ended THEN clearMyActiveCall(slice)
                        ELSE upsertCall(slice, r.channel, r.call, r.participants)
            /\ stale' = IF r.ok THEN StaleAfter(r) ELSE stale \cup {r.call}
            /\ http' = RemoveAt(http, i)
            /\ UNCHANGED <<server, wire, ui, budget, widget>>

-----------------------------------------------------------------------------
(* What the user does.                                                     *)

Offers(control) == control \in Controls

\* handleClose; bound: one at a time.
CloseClick ==
    /\ Offers("close") /\ Click
    /\ Rendered /\ widget.closing = None
    /\ widget' = [leaveRoom(widget) EXCEPT !.closing = MyCall]
    /\ UNCHANGED <<slice, ui, http>>

\* leaveRoom has resolved.
CloseContinues ==
    /\ widget.closing # None
    /\ widget.meeting # None => widget.meeting.room # "leaving"
    /\ widget' = [widget EXCEPT !.closing = None]
    /\ http' = Append(http, Ask("widget", "leave", widget.closing, ChannelOf[widget.closing]))
    /\ UNCHANGED <<server, wire, slice, ui, stale, budget>>

\* Mutant: a failed leave keeps the tab in the call.
MutAfterClose(s, r) == IF r.ok THEN clearMyActiveCall(s) ELSE s

\* Whatever the answer, and whatever call the tab is in by now.
AfterClose(s, r) == clearMyActiveCall(s)

CloseAnswer ==
    \E i \in DOMAIN http :
        /\ http[i].part = "widget" /\ http[i].kind = "leave" /\ http[i].stage = "answered"
        /\ slice' = AfterClose(slice, http[i])
        /\ http' = RemoveAt(http, i)
        /\ UNCHANGED <<server, wire, ui, stale, budget, widget>>

RetryClick ==
    /\ Offers("retry") /\ Click
    /\ Rendered /\ widget.display # "minimized" /\ widget.joinError
    /\ widget' = attemptInit([widget EXCEPT !.retryCount = 0], MyCall)
    /\ UNCHANGED <<slice, ui, http>>

\* The minimize and fullscreen buttons; Escape leaves fullscreen as well.
ResizeClick ==
    /\ Offers("resize") /\ Click
    /\ Rendered
    /\ \/ /\ widget.display # "fullscreen"
          /\ widget' = [widget EXCEPT !.display =
                           IF @ = "minimized" THEN "normal" ELSE "minimized"]
       \/ widget' = [widget EXCEPT !.display =
                        IF @ = "fullscreen" THEN "normal" ELSE "fullscreen"]
    /\ UNCHANGED <<slice, ui, http>>

\* The page is reloaded: beforeunload sends a leave, the requests that were sent
\* may still be served, and the new page knows nothing.
Unload ==
    /\ Offers("unload") /\ budget.clicks < MaxClicks
    /\ budget' = [budget EXCEPT !.clicks = @ + 1]
    /\ LET sent == InFlight({i \in DOMAIN http : http[i].stage = "sent"
                                                /\ http[i].kind # "get"})
       IN  http' = [i \in DOMAIN sent |-> [sent[i] EXCEPT !.part = "beacon"]]
                   \o LeaveMine("beacon")
    /\ slice' = setPluginEnabled(initialState, TRUE)
    /\ ui' = FreshUi
    /\ widget' = NoWidget
    /\ inbox' = <<>> /\ online' = TRUE /\ stale' = {}
    /\ UNCHANGED server

-----------------------------------------------------------------------------

WidgetStep ==
    \/ InitSucceeds \/ InitFails \/ RetryFires
    \/ RoomJoins \/ RoomJoined \/ RoomLeft("leaving") \/ RoomDrops
    \/ ReconcileAnswer \/ CloseClick \/ CloseContinues \/ CloseAnswer
    \/ RetryClick \/ ResizeClick \/ Unload

RoomNext ==
    \/ Effects
    \/ Settled /\ WebNext /\ UNCHANGED widget
    \/ Settled /\ WidgetStep

\* What goes on without the user and the other users.
SystemStep ==
    \/ Effects
    \/ Settled /\ (Serve \/ DeliverAnswer \/ DeliverEvent) /\ UNCHANGED widget
    \/ Settled /\ \/ ReconcileAnswer \/ CloseContinues \/ CloseAnswer
                  \/ InitSucceeds \/ InitFails \/ RetryFires \/ RoomLeft("leaving")

\* As long as the browser, the server or the SDK have something to do, one of
\* them goes on: HTTP and the SDK answer, events arrive, timers fire.  Nothing is
\* assumed of which comes first.
RoomFairness == WF_roomVars(SystemStep)

RoomSpec == WebInit /\ widget = NoWidget /\ [][RoomNext]_roomVars /\ RoomFairness
=============================================================================
