----------------------------- MODULE CallsSlice -----------------------------
(***************************************************************************)
(* The plugin's slice of the Redux store in a browser tab: one operator    *)
(* per case of callsReducer, from a slice to the next one, and the         *)
(* selectors that compute something.                                       *)
(*                                                                         *)
(* A call in the slice keeps its id and its participants, as a set; the    *)
(* channel is its key, and creator, start time and post only reach the     *)
(* screen.  A token is one bit that differs from the token it replaces:    *)
(* the code only asks whether the token has changed.                       *)
(***************************************************************************)
EXTENDS Naturals

CONSTANTS Call, Channel, User,
          None  \* null, undefined, or a missing key

ActiveCall == [id : Call, participants : SUBSET User]

MyActiveCall == [callId : Call, channelId : Channel, token : {0, 1}]

IncomingCall == [callId : Call, channelId : Channel]

CallsPluginState ==
    [callsByChannel : [Channel -> ActiveCall \cup {None}],
     myActiveCall : MyActiveCall \cup {None},
     incomingCall : IncomingCall \cup {None},
     pluginEnabled : BOOLEAN,
     callLoading : BOOLEAN,
     callError : BOOLEAN,
     pendingSwitchCallId : Call \cup {None},
     channelEnabledState : [Channel -> BOOLEAN \cup {None}]]

initialState ==
    [callsByChannel |-> [ch \in Channel |-> None],
     myActiveCall |-> None,
     incomingCall |-> None,
     pluginEnabled |-> FALSE,
     callLoading |-> FALSE,
     callError |-> FALSE,
     pendingSwitchCallId |-> None,
     channelEnabledState |-> [ch \in Channel |-> None]]

-----------------------------------------------------------------------------
(* The reducer.                                                            *)

setPluginEnabled(s, enabled) == [s EXCEPT !.pluginEnabled = enabled]

upsertCall(s, ch, c, participants) ==
    [s EXCEPT !.callsByChannel[ch] = [id |-> c, participants |-> participants]]

removeCall(s, ch) == [s EXCEPT !.callsByChannel[ch] = None]

NextToken(s) == IF s.myActiveCall = None THEN 0 ELSE 1 - s.myActiveCall.token

\* Mutant: the arguments are swapped.
MutSetMyActiveCall(s, ch, c) ==
    [s EXCEPT !.myActiveCall = [callId |-> ch, channelId |-> c, token |-> NextToken(s)]]

setMyActiveCall(s, ch, c) ==
    [s EXCEPT !.myActiveCall = [callId |-> c, channelId |-> ch, token |-> NextToken(s)]]

clearMyActiveCall(s) == [s EXCEPT !.myActiveCall = None]

setIncomingCall(s, ch, c) == [s EXCEPT !.incomingCall = [callId |-> c, channelId |-> ch]]

clearIncomingCall(s) == [s EXCEPT !.incomingCall = None]

setCallLoading(s, loading) == [s EXCEPT !.callLoading = loading]

setCallError(s, error) == [s EXCEPT !.callError = error]

setPendingSwitchCallId(s, c) == [s EXCEPT !.pendingSwitchCallId = c]

setChannelEnabled(s, ch, enabled) == [s EXCEPT !.channelEnabledState[ch] = enabled]

\* Mutant: an entry without "enabled" counts as disabled.
MutSetChannelEnabledBulk(s, entries) ==
    [s EXCEPT !.channelEnabledState =
        [ch \in Channel |-> IF ch \in DOMAIN entries THEN entries[ch] = TRUE ELSE @[ch]]]

\* entries maps the channels of the answer to "enabled", None where the entry
\* has no such field.
setChannelEnabledBulk(s, entries) ==
    [s EXCEPT !.channelEnabledState =
        [ch \in Channel |-> IF ch \in DOMAIN entries /\ entries[ch] \in BOOLEAN
                            THEN entries[ch] ELSE @[ch]]]

-----------------------------------------------------------------------------
(* The selectors.                                                          *)

selectCallByChannel(s, ch) == s.callsByChannel[ch]

selectIsCurrentUserParticipant(s, ch, u) ==
    s.callsByChannel[ch] # None /\ u \in s.callsByChannel[ch].participants

\* myActiveCall?.callId = c, incomingCall?.callId = c
IsMyActiveCall(s, c) == s.myActiveCall # None /\ s.myActiveCall.callId = c

InAnotherCall(s, c) == s.myActiveCall # None /\ s.myActiveCall.callId # c

IsIncomingCall(s, c) == s.incomingCall # None /\ s.incomingCall.callId = c
=============================================================================
