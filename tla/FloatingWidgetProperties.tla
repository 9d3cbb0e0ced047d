---------------------- MODULE FloatingWidgetProperties ----------------------
(***************************************************************************)
(* What the floating widget guarantees to the user of the tab.             *)
(***************************************************************************)
EXTENDS FloatingWidget, WebClientProperties

RoomTypeOK ==
    /\ widget \in WidgetState
    /\ slice \in CallsPluginState
    /\ \A i \in DOMAIN http : http[i] \in Request

\* Nothing is on its way to the tab, and its effects have run.
TabAtRest == Settled /\ AtRest

\* The meeting the widget shows is that of the call it names in its title, even
\* right after a switch, when the meeting of the call that was left is still
\* there.  It may be another one, and the code cannot tell, in three cases, which
\* crossed records when they arise: since the tab has this token, the SDK was busy
\* and ignored an attempt (useRealtimeKitClient), a timer left over from another
\* call has started an attempt (index.tsx:74), or the room of an earlier meeting
\* was joined only then, which ends "connecting" (index.tsx:106).
MeetingIsMine ==
    Settled /\ MeetingShown /\ ~widget.crossed => widget.meeting.call = MyCall

\* A tab that is in no call is not in the room of the meeting that the widget
\* holds: whoever ended the call, and whatever joins, failed initialisations and
\* late leaves came before, the effect of floating_widget/index.tsx:145 leaves it.
\* The rooms of meetings that others have replaced are not the widget's any more;
\* for these see NoRoomLeftBehind, which the code violates.
NoCallNoRoom ==
    Settled /\ slice.myActiveCall = None => ~InRoom

\* "Leave and join new call" (i18n/en.json:28) leaves the room of the current call
\* before the tab is in the room of the new one.
NoRoomLeftBehind ==
    Settled /\ InRoom => widget.abandoned \subseteq {widget.meeting.call}

\* A tab at rest does not believe to be in a call that is over: call_ended or
\* the widget's own check of a call that it misses has cleared it.
MineIsLive ==
    TabAtRest => \A c \in Call \ stale : MyCall = c => Live(c)

\* Whatever the SDK does, and however often the user switches, a call that the
\* user is in ends up with its meeting, or with an error and its retry button: the
\* widget is not connecting for ever.  After one of the three cases of
\* MeetingIsMine, the meeting may be another call's.
CallSettles ==
    MyCall # None ~>
        \/ MyCall = None
        \/ widget.joinError
        \/ /\ ~widget.isJoining /\ widget.meeting # None
           /\ widget.crossed \/ widget.meeting.call = MyCall

\* The close button gets the user out, whether or not the leave succeeds.
CloseHangsUp == widget.closing # None ~> slice.myActiveCall = None
=============================================================================
