------------------------------ MODULE CallStore ------------------------------
(***************************************************************************)
(* The call tables of the SQL store: rtk_call_sessions,                    *)
(* rtk_call_participants and rtk_channel_meetings.                         *)
(*                                                                         *)
(* Every public method of the store is one transaction (or one statement)  *)
(* whose first statement locks the call's row, so here it is one action    *)
(* that reads and writes the committed tables.  That the row locks make    *)
(* the transactions atomic is taken from PostgreSQL.                       *)
(*                                                                         *)
(* The data are abstracted to what the callers can tell apart.  A time is  *)
(* an opaque stamp, and 0 is the column default of endat.  Participants    *)
(* are the rows of the participants table without joined_at, which only    *)
(* orders the list.  post_id is unique per call, hence left out.           *)
(***************************************************************************)
EXTENDS Naturals

CONSTANTS Call,         \* ids that model.NewId() can return for calls
          Channel,      \* channels
          User,         \* users
          Meeting,      \* RTK meeting ids
          App,          \* ids of the rows of rtk_app_config
          RtkSession,   \* RTK session ids (one occupancy of a meeting)
          Time,         \* results of nowMs()
          None          \* a missing row, an empty string

VARIABLES sessions,        \* rtk_call_sessions, by id
          participants,    \* rtk_call_participants: <<call, user>> rows
          channelMeetings  \* rtk_channel_meetings, by channel

storeVars == <<sessions, participants, channelMeetings>>

Session == [channel : Channel, creator : User, meeting : Meeting,
            endat : Time \cup {0}, sessionId : RtkSession \cup {None}]

ChannelMeeting == [meeting : Meeting, app : App]

ASSUME StoreAssumption ==
    /\ 0 \notin Time
    /\ None \notin Session
    /\ None \notin ChannelMeeting
    /\ None \notin RtkSession

-----------------------------------------------------------------------------

Exists(c) == sessions[c] # None

\* The row is there and endat = 0.
Active(c) == Exists(c) /\ sessions[c].endat = 0

Ended(c) == Exists(c) /\ sessions[c].endat # 0

ParticipantsOf(c) == {u \in User : <<c, u>> \in participants}

\* Mutant: migration 000001 without the index on channel_id.
MutActiveConflict(ch, m) == \E d \in Call : Active(d) /\ sessions[d].meeting = m

\* The two partial unique indexes WHERE endat = 0.
ActiveConflict(ch, m) ==
    \E d \in Call : /\ Active(d)
                    /\ sessions[d].channel = ch \/ sessions[d].meeting = m

\* The unique index on the non-empty session_id.
SessionIdTaken(c, s) ==
    \E d \in Call \ {c} : Exists(d) /\ sessions[d].sessionId = s

NewSession(ch, u, m) ==
    [channel |-> ch, creator |-> u, meeting |-> m, endat |-> 0,
     sessionId |-> None]

-----------------------------------------------------------------------------

StoreInit ==
    /\ sessions = [c \in Call |-> None]
    /\ participants = {}
    /\ channelMeetings = [ch \in Channel |-> None]

\* Inserts the session and its creator's participant row in one transaction.
\* c is fresh, so the statement's ON CONFLICT (id) branch is never taken.
CreateCallSession(c, ch, u, m) ==
    /\ ~Exists(c)
    /\ ~ActiveConflict(ch, m)
    /\ sessions' = [sessions EXCEPT ![c] = NewSession(ch, u, m)]
    /\ participants' = participants \cup {<<c, u>>}
    /\ UNCHANGED channelMeetings

\* Mutant: the ended call is not refused.
MutAddCallParticipant(c, u) ==
    /\ participants' = participants \cup {<<c, u>>}
    /\ UNCHANGED <<sessions, channelMeetings>>

\* SELECT ... FOR UPDATE, then the insert, unless the call is gone or ended.
AddCallParticipant(c, u) ==
    /\ participants' = IF Active(c) THEN participants \cup {<<c, u>>}
                                    ELSE participants
    /\ UNCHANGED <<sessions, channelMeetings>>

\* Mutant: the participants are counted before the delete.
MutIsLastParticipant(c, u) == ParticipantsOf(c) = {}

\* Removing u leaves an active call without participants.
IsLastParticipant(c, u) == ParticipantsOf(c) \ {u} = {}

\* SELECT ... FOR UPDATE, the delete, and endat in the same transaction when
\* nobody is left.
RemoveCallParticipant(c, u, t) ==
    /\ participants' = IF Active(c) THEN participants \ {<<c, u>>}
                                    ELSE participants
    /\ sessions' = IF Active(c) /\ IsLastParticipant(c, u)
                   THEN [sessions EXCEPT ![c].endat = t]
                   ELSE sessions
    /\ UNCHANGED channelMeetings

\* UPDATE ... WHERE id = c AND endat = 0; the participant rows stay.
EndCall(c, t) ==
    /\ sessions' = IF Active(c) THEN [sessions EXCEPT ![c].endat = t]
                                ELSE sessions
    /\ UNCHANGED <<participants, channelMeetings>>

\* Fails on a missing row or on the unique index; does not look at endat.
UpdateCallSessionID(c, s) ==
    /\ Exists(c)
    /\ ~SessionIdTaken(c, s)
    /\ sessions' = [sessions EXCEPT ![c].sessionId = s]
    /\ UNCHANGED <<participants, channelMeetings>>

\* Upsert by channel; meeting_id is unique over the whole table.
SaveChannelMeeting(ch, m, a) ==
    /\ \A other \in Channel \ {ch} :
         channelMeetings[other] # None => channelMeetings[other].meeting # m
    /\ channelMeetings' = [channelMeetings EXCEPT ![ch] = [meeting |-> m, app |-> a]]
    /\ UNCHANGED <<sessions, participants>>

StoreNext ==
    \/ \E c \in Call, ch \in Channel, u \in User, m \in Meeting :
          CreateCallSession(c, ch, u, m)
    \/ \E c \in Call, u \in User : AddCallParticipant(c, u)
    \/ \E c \in Call, u \in User, t \in Time : RemoveCallParticipant(c, u, t)
    \/ \E c \in Call, t \in Time : EndCall(c, t)
    \/ \E c \in Call, s \in RtkSession : UpdateCallSessionID(c, s)
    \/ \E ch \in Channel, m \in Meeting, a \in App : SaveChannelMeeting(ch, m, a)

StoreSpec == StoreInit /\ [][StoreNext]_storeVars

-----------------------------------------------------------------------------

StoreTypeOK ==
    /\ sessions \in [Call -> Session \cup {None}]
    /\ participants \subseteq Call \X User
    /\ channelMeetings \in [Channel -> ChannelMeeting \cup {None}]

\* Two different calls are never active in the same channel or on the same
\* RTK meeting: the partial unique indexes of migration 000001, which every
\* transition of a row back to or into endat = 0 has to respect.
OneActiveCall ==
    \A c, d \in Call :
        /\ Active(c)
        /\ Active(d)
        /\ \/ sessions[c].channel = sessions[d].channel
           \/ sessions[c].meeting = sessions[d].meeting
        => c = d

\* An active call always has a participant: the creator's row is inserted
\* with the session, and the removal of the last row ends the call in the
\* same transaction, so no call is left active that nobody can leave.
ActiveHasParticipant ==
    \A c \in Call : Active(c) => ParticipantsOf(c) # {}

\* Once a call has ended its endat never changes and no participant row is
\* added to or removed from it: a join, a leave, an explicit end and a
\* webhook that lost the race against the ending are all no-ops.
EndedStaysFrozen ==
    [][\A c \in Call : Ended(c) => /\ Ended(c)'
                                   /\ sessions'[c].endat = sessions[c].endat
                                   /\ ParticipantsOf(c)' = ParticipantsOf(c)]_storeVars

\* No two calls carry the same RTK session id.
SessionIdsUnique ==
    \A c, d \in Call :
        /\ Exists(c) /\ Exists(d)
        /\ sessions[c].sessionId = sessions[d].sessionId
        /\ sessions[c].sessionId # None
        => c = d

StoreInvariant ==
    /\ OneActiveCall
    /\ ActiveHasParticipant
    /\ SessionIdsUnique
=============================================================================
