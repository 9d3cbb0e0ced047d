--------------------------- MODULE CallStoreProofs ---------------------------
(***************************************************************************)
(* Proofs about CallStore, for every value of its constants: the types,    *)
(* the safety invariants and the action property that its runs check.      *)
(***************************************************************************)
EXTENDS CallStore, TLAPS

-----------------------------------------------------------------------------
(* What the rows look like.                                                *)

\* A fresh row is a session: the record CreateCallSession writes.
LEMMA NewSessionType ==
    ASSUME NEW ch \in Channel, NEW u \in User, NEW m \in Meeting
    PROVE  NewSession(ch, u, m) \in Session
BY DEF NewSession, Session

\* No statement writes anything but a well-typed row.
LEMMA StoreTypeStep ==
    ASSUME StoreTypeOK, [StoreNext]_storeVars
    PROVE  StoreTypeOK'
<1> USE DEF StoreTypeOK, Session
<1>1. ASSUME NEW c \in Call, NEW ch \in Channel, NEW u \in User, NEW m \in Meeting,
             CreateCallSession(c, ch, u, m)
      PROVE  StoreTypeOK'
  BY <1>1, NewSessionType DEF CreateCallSession
<1>2. ASSUME NEW c \in Call, NEW u \in User, AddCallParticipant(c, u)
      PROVE  StoreTypeOK'
  BY <1>2 DEF AddCallParticipant
<1>3. ASSUME NEW c \in Call, NEW u \in User, NEW t \in Time,
             RemoveCallParticipant(c, u, t)
      PROVE  StoreTypeOK'
  BY <1>3 DEF RemoveCallParticipant, Active, Exists
<1>4. ASSUME NEW c \in Call, NEW t \in Time, EndCall(c, t)
      PROVE  StoreTypeOK'
  BY <1>4 DEF EndCall, Active, Exists
<1>5. ASSUME NEW c \in Call, NEW s \in RtkSession, UpdateCallSessionID(c, s)
      PROVE  StoreTypeOK'
  BY <1>5 DEF UpdateCallSessionID, Exists
<1>6. ASSUME NEW ch \in Channel, NEW m \in Meeting, NEW a \in App,
             SaveChannelMeeting(ch, m, a)
      PROVE  StoreTypeOK'
  BY <1>6 DEF SaveChannelMeeting, ChannelMeeting
<1>7. CASE UNCHANGED storeVars
  BY <1>7 DEF storeVars
<1> QED
  BY <1>1, <1>2, <1>3, <1>4, <1>5, <1>6, <1>7 DEF StoreNext

\* The tables always hold rows of their declared types.
THEOREM StoreTypeInvariant == StoreSpec => []StoreTypeOK
<1>1. StoreInit => StoreTypeOK
  BY DEF StoreInit, StoreTypeOK
<1>2. StoreTypeOK /\ [StoreNext]_storeVars => StoreTypeOK'
  BY StoreTypeStep
<1> QED
  BY <1>1, <1>2, PTL DEF StoreSpec

-----------------------------------------------------------------------------
(* What one step may do to the row of call d: nothing, insert it as a      *)
(* fresh session, end it, or fill in its RTK session id.                   *)

OthersUnchanged(d) == \A e \in Call \ {d} : sessions'[e] = sessions[e]

RowUnchanged(d) == sessions'[d] = sessions[d]

RowCreated(d) ==
    /\ ~Exists(d)
    /\ \E ch \in Channel, u \in User, m \in Meeting :
          /\ ~ActiveConflict(ch, m)
          /\ sessions'[d] = NewSession(ch, u, m)
          /\ participants' = participants \cup {<<d, u>>}
    /\ OthersUnchanged(d)

RowEnded(d) ==
    /\ Active(d)
    /\ \E t \in Time : sessions'[d] = [sessions[d] EXCEPT !.endat = t]

RowBackfilled(d) ==
    /\ Exists(d)
    /\ \E s \in RtkSession : /\ ~SessionIdTaken(d, s)
                             /\ sessions'[d] = [sessions[d] EXCEPT !.sessionId = s]
    /\ OthersUnchanged(d)

\* Nothing else happens to a row.
LEMMA RowChange ==
    ASSUME StoreTypeOK, [StoreNext]_storeVars, NEW d \in Call
    PROVE  RowUnchanged(d) \/ RowCreated(d) \/ RowEnded(d) \/ RowBackfilled(d)
<1> USE DEF StoreTypeOK, RowUnchanged, RowCreated, RowEnded, RowBackfilled,
            OthersUnchanged
<1>1. ASSUME NEW c \in Call, NEW ch \in Channel, NEW u \in User, NEW m \in Meeting,
             CreateCallSession(c, ch, u, m)
      PROVE  RowUnchanged(d) \/ RowCreated(d)
  <2>1. sessions' = [sessions EXCEPT ![c] = NewSession(ch, u, m)]
    BY <1>1 DEF CreateCallSession
  <2>2. CASE c # d
    BY <2>1, <2>2
  <2>3. CASE c = d
    BY <1>1, <2>1, <2>3 DEF CreateCallSession
  <2> QED
    BY <2>2, <2>3
<1>2. ASSUME NEW c \in Call, NEW u \in User, NEW t \in Time,
             RemoveCallParticipant(c, u, t)
      PROVE  RowUnchanged(d) \/ RowEnded(d)
  BY <1>2 DEF RemoveCallParticipant
<1>3. ASSUME NEW c \in Call, NEW t \in Time, EndCall(c, t)
      PROVE  RowUnchanged(d) \/ RowEnded(d)
  BY <1>3 DEF EndCall
<1>4. ASSUME NEW c \in Call, NEW s \in RtkSession, UpdateCallSessionID(c, s)
      PROVE  RowUnchanged(d) \/ RowBackfilled(d)
  <2>1. sessions' = [sessions EXCEPT ![c] = [sessions[c] EXCEPT !.sessionId = s]]
    BY <1>4 DEF UpdateCallSessionID
  <2>2. CASE c # d
    BY <2>1, <2>2
  <2>3. CASE c = d
    BY <1>4, <2>1, <2>3 DEF UpdateCallSessionID
  <2> QED
    BY <2>2, <2>3
<1>5. CASE \/ \E c \in Call, u \in User : AddCallParticipant(c, u)
           \/ \E ch \in Channel, m \in Meeting, a \in App : SaveChannelMeeting(ch, m, a)
           \/ UNCHANGED storeVars
  BY <1>5 DEF AddCallParticipant, SaveChannelMeeting, storeVars
<1> QED
  BY <1>1, <1>2, <1>3, <1>4, <1>5 DEF StoreNext

\* A row that a step leaves active was inserted by it, or was active with the
\* same channel and meeting before it.
LEMMA ActiveAfter ==
    ASSUME StoreTypeOK, [StoreNext]_storeVars, NEW d \in Call, Active(d)'
    PROVE  \/ RowCreated(d)
           \/ /\ Active(d)
              /\ sessions'[d].channel = sessions[d].channel
              /\ sessions'[d].meeting = sessions[d].meeting
<1>1. CASE RowUnchanged(d)
  BY <1>1 DEF RowUnchanged, Active, Exists
<1>2. CASE RowEnded(d)
  <2>1. sessions[d] \in Session
    BY <1>2 DEF StoreTypeOK, RowEnded, Active, Exists
  <2>2. sessions'[d].endat \in Time
    BY <1>2, <2>1 DEF RowEnded, Session
  <2> QED
    BY <2>2, StoreAssumption DEF Active
<1>3. CASE RowBackfilled(d)
  <2>1. sessions[d] \in Session
    BY <1>3 DEF StoreTypeOK, RowBackfilled, Exists
  <2> QED
    BY <1>3, <2>1 DEF RowBackfilled, Session, Active
<1> QED
  BY <1>1, <1>2, <1>3, RowChange

-----------------------------------------------------------------------------
(* The safety invariants, each inductive relative to the types.            *)

\* An insert respects the partial indexes, and no other statement opens a row.
LEMMA OneActiveCallStep ==
    ASSUME StoreTypeOK, OneActiveCall, [StoreNext]_storeVars
    PROVE  OneActiveCall'
<1> SUFFICES ASSUME NEW c \in Call, NEW d \in Call, Active(c)', Active(d)',
                    \/ sessions'[c].channel = sessions'[d].channel
                    \/ sessions'[c].meeting = sessions'[d].meeting,
                    c # d
             PROVE  FALSE
  BY DEF OneActiveCall
\* The index refuses a new row while another active one has its channel or
\* its meeting.
<1>1. ASSUME NEW x \in Call, NEW y \in Call, x # y, RowCreated(x), Active(y)',
             \/ sessions'[x].channel = sessions'[y].channel
             \/ sessions'[x].meeting = sessions'[y].meeting
      PROVE  FALSE
  <2>1. PICK ch \in Channel, u \in User, m \in Meeting :
             ~ActiveConflict(ch, m) /\ sessions'[x] = NewSession(ch, u, m)
    BY <1>1 DEF RowCreated
  <2>2. sessions'[y] = sessions[y]
    BY <1>1 DEF RowCreated, OthersUnchanged
  <2>3. Active(y)
    BY <1>1, <2>2 DEF Active, Exists
  <2>4. sessions[y].channel = ch \/ sessions[y].meeting = m
    BY <1>1, <2>1, <2>2 DEF NewSession
  <2> QED
    BY <2>1, <2>3, <2>4 DEF ActiveConflict
<1>2. ~RowCreated(c) /\ ~RowCreated(d)
  BY <1>1
<1> QED
  BY <1>2, ActiveAfter DEF OneActiveCall

\* The transaction that removes the last participant ends the call.
LEMMA ActiveHasParticipantStep ==
    ASSUME StoreTypeOK, ActiveHasParticipant, [StoreNext]_storeVars
    PROVE  ActiveHasParticipant'
<1> SUFFICES ASSUME NEW d \in Call, Active(d)'
             PROVE  ParticipantsOf(d)' # {}
  BY DEF ActiveHasParticipant
<1>1. CASE RowCreated(d)
  BY <1>1 DEF RowCreated, ParticipantsOf
<1>2. CASE Active(d) /\ participants \subseteq participants'
  BY <1>2 DEF ActiveHasParticipant, ParticipantsOf
<1>3. ASSUME Active(d), NEW c \in Call, NEW u \in User, NEW t \in Time,
             RemoveCallParticipant(c, u, t)
      PROVE  ParticipantsOf(d)' # {}
  <2>1. CASE c # d
    BY <1>3, <2>1 DEF ActiveHasParticipant, ParticipantsOf, RemoveCallParticipant
  <2>2. CASE c = d
    <3>1. ~IsLastParticipant(d, u)
      <4>1. SUFFICES ASSUME IsLastParticipant(d, u) PROVE FALSE
        OBVIOUS
      <4>2. sessions[d] \in Session
        BY <1>3 DEF StoreTypeOK, Active, Exists
      <4>3. sessions'[d].endat = t
        BY <1>3, <2>2, <4>1, <4>2 DEF RemoveCallParticipant, StoreTypeOK, Session
      <4> QED
        BY <4>3, StoreAssumption DEF Active
    <3> QED
      BY <1>3, <2>2, <3>1
      DEF RemoveCallParticipant, IsLastParticipant, ParticipantsOf
  <2> QED
    BY <2>1, <2>2
<1>4. \/ participants \subseteq participants'
      \/ \E c \in Call, u \in User, t \in Time : RemoveCallParticipant(c, u, t)
  BY DEF StoreNext, storeVars, CreateCallSession, AddCallParticipant, EndCall,
         UpdateCallSessionID, SaveChannelMeeting
<1> QED
  BY <1>1, <1>2, <1>3, <1>4, ActiveAfter

\* A row that carries a session id after a step carried the same id before,
\* unless the step filled it in.
LEMMA SessionIdAfter ==
    ASSUME StoreTypeOK, [StoreNext]_storeVars, NEW d \in Call, Exists(d)',
           sessions'[d].sessionId # None
    PROVE  \/ RowBackfilled(d)
           \/ Exists(d) /\ sessions'[d].sessionId = sessions[d].sessionId
<1>1. CASE RowUnchanged(d)
  BY <1>1 DEF RowUnchanged, Exists
<1>2. CASE RowCreated(d)
  BY <1>2 DEF RowCreated, NewSession
<1>3. CASE RowEnded(d)
  <2>1. sessions[d] \in Session
    BY <1>3 DEF StoreTypeOK, RowEnded, Active, Exists
  <2> QED
    BY <1>3, <2>1 DEF RowEnded, Session, Active
<1> QED
  BY <1>1, <1>2, <1>3, RowChange

\* Only the backfill writes a session id, under its unique index.
LEMMA SessionIdsUniqueStep ==
    ASSUME StoreTypeOK, SessionIdsUnique, [StoreNext]_storeVars
    PROVE  SessionIdsUnique'
<1> SUFFICES ASSUME NEW c \in Call, NEW d \in Call, Exists(c)', Exists(d)',
                    sessions'[c].sessionId = sessions'[d].sessionId,
                    sessions'[c].sessionId # None,
                    c # d
             PROVE  FALSE
  BY DEF SessionIdsUnique
\* The index refuses an id that another row carries.
<1>1. ASSUME NEW x \in Call, NEW y \in Call, x # y, RowBackfilled(x), Exists(y)',
             sessions'[x].sessionId = sessions'[y].sessionId
      PROVE  FALSE
  <2>1. PICK s \in RtkSession :
             /\ ~SessionIdTaken(x, s)
             /\ sessions'[x] = [sessions[x] EXCEPT !.sessionId = s]
    BY <1>1 DEF RowBackfilled
  <2>2. sessions'[x].sessionId = s
    BY <1>1, <2>1 DEF RowBackfilled, Exists, StoreTypeOK, Session
  <2>3. Exists(y) /\ sessions[y].sessionId = s
    BY <1>1, <2>2 DEF RowBackfilled, OthersUnchanged, Exists
  <2> QED
    BY <1>1, <2>1, <2>3 DEF SessionIdTaken
<1>2. ~RowBackfilled(c) /\ ~RowBackfilled(d)
  BY <1>1
<1> QED
  BY <1>2, SessionIdAfter DEF SessionIdsUnique

\* No transaction reopens an ended call or moves its endat, and none that
\* touches the participants table takes effect on an ended call.
LEMMA EndedFrozenStep ==
    ASSUME StoreTypeOK, [StoreNext]_storeVars, NEW d \in Call, Ended(d)
    PROVE  /\ Ended(d)'
           /\ sessions'[d].endat = sessions[d].endat
           /\ ParticipantsOf(d)' = ParticipantsOf(d)
<1>1. sessions[d] \in Session
  BY DEF StoreTypeOK, Ended, Exists
<1>2. Ended(d)' /\ sessions'[d].endat = sessions[d].endat
  <2>1. CASE RowUnchanged(d)
    BY <2>1 DEF RowUnchanged, Ended, Exists
  <2>2. CASE RowBackfilled(d)
    <3>1. PICK s \in RtkSession : sessions'[d] = [sessions[d] EXCEPT !.sessionId = s]
      BY <2>2 DEF RowBackfilled
    <3>2. sessions'[d] \in Session /\ sessions'[d].endat = sessions[d].endat
      BY <1>1, <3>1 DEF Session
    <3> QED
      BY <3>2, StoreAssumption DEF Ended, Exists
  <2>3. ~RowCreated(d) /\ ~RowEnded(d)
    BY DEF RowCreated, RowEnded, Ended, Active, Exists
  <2> QED
    BY <2>1, <2>2, <2>3, RowChange
<1>3. ParticipantsOf(d)' = ParticipantsOf(d)
  <2>1. ~Active(d) /\ Exists(d)
    BY DEF Ended, Active
  <2>2. ASSUME NEW c \in Call, NEW ch \in Channel, NEW u \in User, NEW m \in Meeting,
               CreateCallSession(c, ch, u, m)
        PROVE  ParticipantsOf(d)' = ParticipantsOf(d)
    BY <2>1, <2>2 DEF CreateCallSession, ParticipantsOf
  <2>3. ASSUME NEW c \in Call, NEW u \in User, AddCallParticipant(c, u)
        PROVE  ParticipantsOf(d)' = ParticipantsOf(d)
    BY <2>1, <2>3 DEF AddCallParticipant, ParticipantsOf
  <2>4. ASSUME NEW c \in Call, NEW u \in User, NEW t \in Time,
               RemoveCallParticipant(c, u, t)
        PROVE  ParticipantsOf(d)' = ParticipantsOf(d)
    BY <2>1, <2>4 DEF RemoveCallParticipant, ParticipantsOf
  <2>5. \/ participants' = participants
        \/ \E c \in Call, ch \in Channel, u \in User, m \in Meeting :
              CreateCallSession(c, ch, u, m)
        \/ \E c \in Call, u \in User : AddCallParticipant(c, u)
        \/ \E c \in Call, u \in User, t \in Time : RemoveCallParticipant(c, u, t)
    BY DEF StoreNext, storeVars, EndCall, UpdateCallSessionID, SaveChannelMeeting
  <2> QED
    BY <2>2, <2>3, <2>4, <2>5 DEF ParticipantsOf
<1> QED
  BY <1>2, <1>3

-----------------------------------------------------------------------------

\* Empty tables satisfy the invariants, ...
LEMMA StoreInitInvariant == StoreInit => StoreInvariant
BY DEF StoreInit, StoreInvariant, OneActiveCall, ActiveHasParticipant,
       SessionIdsUnique, Active, Exists

\* ... and every transaction keeps them.
LEMMA StoreInvariantStep ==
    StoreTypeOK /\ StoreInvariant /\ [StoreNext]_storeVars => StoreInvariant'
BY OneActiveCallStep, ActiveHasParticipantStep, SessionIdsUniqueStep
DEF StoreInvariant

\* Whatever the callers do, in any number of nodes: one active call per
\* channel and per meeting, no active call without participants, and no RTK
\* session id on two calls.
THEOREM StoreSafety == StoreSpec => []StoreInvariant
BY StoreTypeInvariant, StoreInitInvariant, StoreInvariantStep, PTL DEF StoreSpec

\* At most one call is active per channel and per RTK meeting.
THEOREM OneActiveCallAlways == StoreSpec => []OneActiveCall
<1>1. StoreInvariant => OneActiveCall
  BY DEF StoreInvariant
<1> QED
  BY <1>1, StoreSafety, PTL

\* No call is active with an empty participants table.
THEOREM ActiveHasParticipantAlways == StoreSpec => []ActiveHasParticipant
<1>1. StoreInvariant => ActiveHasParticipant
  BY DEF StoreInvariant
<1> QED
  BY <1>1, StoreSafety, PTL

\* An RTK session id never appears on two calls.
THEOREM SessionIdsUniqueAlways == StoreSpec => []SessionIdsUnique
<1>1. StoreInvariant => SessionIdsUnique
  BY DEF StoreInvariant
<1> QED
  BY <1>1, StoreSafety, PTL

\* Ending is final, and what was recorded at the end is never rewritten.
THEOREM EndedFrozen == StoreSpec => EndedStaysFrozen
<1>1. StoreTypeOK /\ [StoreNext]_storeVars
      => [\A c \in Call : Ended(c) => /\ Ended(c)'
                                      /\ sessions'[c].endat = sessions[c].endat
                                      /\ ParticipantsOf(c)' = ParticipantsOf(c)]_storeVars
  BY EndedFrozenStep
<1> QED
  BY <1>1, StoreTypeInvariant, PTL DEF StoreSpec, EndedStaysFrozen
=============================================================================
