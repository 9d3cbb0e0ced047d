------------------------- MODULE WebSocketHandlers --------------------------
(***************************************************************************)
(* The handlers of the plugin's five WebSocket events, as functions of the *)
(* slice.  The type guards are the sets of the payloads they accept; a     *)
(* handler leaves the slice alone when the payload is not in its set.      *)
(***************************************************************************)
EXTENDS CallsSlice

CONSTANTS me,              \* currentUserId
          DirectChannels   \* DM and GM channels, which ring

CallStartedPayload ==
    [type : {"call_started"}, call_id : Call, channel_id : Channel, creator_id : User,
     participants : SUBSET User]

UserJoinedPayload ==
    [type : {"user_joined"}, call_id : Call, channel_id : Channel, user_id : User,
     participants : SUBSET User]

UserLeftPayload ==
    [type : {"user_left"}, call_id : Call, channel_id : Channel, user_id : User,
     participants : SUBSET User]

CallEndedPayload == [type : {"call_ended"}, call_id : Call, channel_id : Channel]

NotifDismissedPayload == [type : {"notification_dismissed"}, call_id : Call, user_id : User]

Event == CallStartedPayload \cup UserJoinedPayload \cup UserLeftPayload
         \cup CallEndedPayload \cup NotifDismissedPayload

isDmOrGm(ch) == ch \in DirectChannels

-----------------------------------------------------------------------------

handleCallStarted(s, data) ==
    LET t == upsertCall(s, data.channel_id, data.call_id, data.participants)
    IN  IF isDmOrGm(data.channel_id) /\ data.creator_id # me
        THEN setIncomingCall(t, data.channel_id, data.call_id) ELSE t

\* The list of an event replaces that of whatever call the channel shows.
WithParticipants(s, data) ==
    LET existing == selectCallByChannel(s, data.channel_id)
    IN  IF existing = None THEN s
        ELSE upsertCall(s, data.channel_id, existing.id, data.participants)

\* Mutant: a join is not shown.
MutHandleUserJoined(s, data) == s

handleUserJoined(s, data) == WithParticipants(s, data)

handleUserLeft(s, data) ==
    LET t == WithParticipants(s, data)
    IN  IF data.user_id = me /\ IsMyActiveCall(t, data.call_id)
        THEN clearMyActiveCall(t) ELSE t

\* Mutant: call_ended does not stop the ringing.
MutCallEndedRings(s, data) ==
    LET existing == selectCallByChannel(s, data.channel_id)
        t == IF existing = None \/ existing.id = data.call_id
             THEN removeCall(s, data.channel_id) ELSE s
    IN  IF IsMyActiveCall(t, data.call_id) THEN clearMyActiveCall(t) ELSE t

\* Mutant: the call stays in the slice.
MutCallEndedKeepsCall(s, data) ==
    LET t == IF IsMyActiveCall(s, data.call_id) THEN clearMyActiveCall(s) ELSE s
    IN  IF IsIncomingCall(t, data.call_id) THEN clearIncomingCall(t) ELSE t

handleCallEnded(s, data) ==
    LET existing == selectCallByChannel(s, data.channel_id)
        t == IF existing = None \/ existing.id = data.call_id
             THEN removeCall(s, data.channel_id) ELSE s
        v == IF IsMyActiveCall(t, data.call_id) THEN clearMyActiveCall(t) ELSE t
    IN  IF IsIncomingCall(v, data.call_id) THEN clearIncomingCall(v) ELSE v

handleNotifDismissed(s, data) ==
    IF data.user_id = me /\ IsIncomingCall(s, data.call_id)
    THEN clearIncomingCall(s) ELSE s

\* The handler registered for the event, behind its type guard.
HandleEvent(s, data) ==
    CASE data \in CallStartedPayload -> handleCallStarted(s, data)
      [] data \in UserJoinedPayload -> handleUserJoined(s, data)
      [] data \in UserLeftPayload -> handleUserLeft(s, data)
      [] data \in CallEndedPayload -> handleCallEnded(s, data)
      [] data \in NotifDismissedPayload -> handleNotifDismissed(s, data)
      [] OTHER -> s
=============================================================================
