------------------------ MODULE WebClientProperties -------------------------
(***************************************************************************)
(* What WebClient guarantees to its user, for a server of one node.  A tab *)
(* cannot know more than what reached it: a call of which it lost an       *)
(* event, or was told last by an answer that an event had overtaken, or by *)
(* a list that participantJoined, or a handler that it overtook, published *)
(* late (webhook.go:80), is in stale, and excepted.                        *)
(***************************************************************************)
EXTENDS WebClient

WebTypeOK ==
    /\ phase \in [Call -> {"silent", "live", "over"}]
    /\ shown \in [Call -> SUBSET User]
    /\ rescues \subseteq UserJoinedPayload
    /\ \A i \in DOMAIN inbox : inbox[i] \in Event
    /\ online \in BOOLEAN
    /\ slice \in CallsPluginState
    /\ ui \in LocalState
    /\ \A i \in DOMAIN http : http[i] \in Request
    /\ stale \subseteq Call
    /\ budget \in [clicks : 0..MaxClicks, moves : 0..MaxMoves]

\* Nothing is on its way to the tab.
AtRest == inbox = <<>> /\ http = <<>> /\ rescues = {}

Ended(c) == [type |-> "call_ended", call_id |-> c, channel_id |-> ChannelOf[c]]

\* The phone rings for a call that goes on, or whose call_ended is on its way:
\* whatever the order of answers and events, a call that is over has stopped
\* ringing (handleCallEnded, handleCallStarted, RING answers).
RingIsLive ==
    \A c \in Call \ stale :
        IsIncomingCall(slice, c) =>
            Live(c) \/ \E i \in DOMAIN inbox : inbox[i] = Ended(c)

\* When nothing is on its way, and no participantJoined is half done, the call
\* that a channel shows is the live one, with the participants the server has, so
\* the header, the toast and the post offer to join exactly the calls this user
\* is not in; except for a call that is stale, so whose last news was lost,
\* overtaken, or a list published late, as no code would correct it.
ViewIsCurrent ==
    AtRest =>
        \A c \in Call \ stale :
            ShowsCall(c) =>
                /\ Live(c)
                /\ selectCallByChannel(slice, ChannelOf[c]).participants = shown[c]
                /\ (me \in shown[c]) = (HeaderLabel(ChannelOf[c]) = "in call")
                /\ (me \in shown[c]) => ~ToastVisible(ChannelOf[c])

\* The header button spins only while one of its requests is in flight, so no
\* error, and no double click, leaves it spinning.
SpinnerStops ==
    slice.callLoading => \E i \in DOMAIN http : http[i].part = "header"

\* Once the events that were on their way are handled, the tab shows the live
\* call that it is in, so the floating widget can render it: a delayed
\* call_started or call_ended of an older call of the channel does not take it
\* away for good, nor does a join that leaves the slice's calls alone.
MineHasEntry ==
    inbox = <<>> => \A c \in Call :
        /\ IsMyActiveCall(slice, c) /\ Live(c)
        /\ \A d \in stale : ChannelOf[d] # ChannelOf[c]
        => ShowsCall(c)

\* A call that is over disappears from the tab, unless it is stale.
EndReachesTab ==
    \A c \in Call : Over(c) ~> (~ShowsCall(c) \/ c \in stale)

\* When nothing is on its way, a post that the user may join from is the post
\* of a live call: "fetch the latest call state from the server so that the
\* post reflects reality" (call_post/index.tsx), "EndAt > 0: renders
\* CallPostEnded" (ARCHITECTURE.md).
PostReflectsReality ==
    AtRest => \A c \in Call : Over(c) => PostShowsEnded(c)
=============================================================================
