------------------------ MODULE CallServiceNodeProofs ------------------------
(***************************************************************************)
(* Proofs of the properties that callMu gives to the calls of a server     *)
(* with one node, for any number of requests, calls and users.             *)
(***************************************************************************)
EXTENDS CallServiceSafetyProofs

USE DEF At, Running, Final, Label, CreateLabel, JoinLabel, LeaveLabel,
        EmitLabel, PartsLabel, SubjectLabel, MeetingLabel, CriticalLabel

OneNode == \A m, n \in Node : m = n

-----------------------------------------------------------------------------
(* What the critical sections are protected from.                          *)

\* One request is inside at a time.
LEMMA OneInside ==
    ASSUME OneNode, ServiceInvariant, NEW r \in Request, NEW s \in Request,
           InCritical(r), InCritical(s)
    PROVE  r = s
<1>1. loc[r].node \in Node /\ loc[s].node \in Node
  BY DEF ServiceInvariant, Fits, LocalsSet, InCritical
<1>2. callMu[loc[r].node] = r /\ callMu[loc[s].node] = s
  BY <1>1 DEF ServiceInvariant, MutexCovers
<1> QED
  BY <1>1, <1>2 DEF OneNode

\* What the steps of a request that is outside leave alone.
LEMMA OutsideStep ==
    ASSUME OneNode, ServiceInvariant, NEW a \in Request, Arrival(a) \/ Handle(a), ~Panic(a),
           NEW s \in Request, s # a, InCritical(s)
    PROVE  \/ WebhookAdd(a) \/ WebhookBackfill(a)
           \/ WriteParts(a) /\ loc[a].op = "partJoined"
           \/ JoinPublish(a) /\ loc[a].op = "partJoined"
           \/ UNCHANGED shared
<1>0. ~InCritical(a) /\ pc[a] \in Label
  BY OneInside DEF ServiceInvariant, TypeOK
<1>1. CASE Arrival(a)
  BY <1>1
  DEF Arrival, RequestCreate, RequestOnCall, ParticipantWebhook, MeetingWebhook, Arrive
<1>2. CASE Handle(a)
  <2>1. CASE pc[a] \in {"parts_get", "parts_put", "j_publish"}
    <3>1. loc[a].op = "partJoined"
      BY <1>0, <2>1 DEF InCritical
    <3>2. ReadParts(a) \/ WriteParts(a) \/ JoinPublish(a)
      BY <1>2, <2>1, StepFrom
    <3> QED
      BY <3>1, <3>2 DEF ReadParts, ReadPost
  <2>2. CASE pc[a] \in {"lock", "g_load", "g_probe", "g_reload", "w_lookup", "w_add",
                        "w_backfill"}
    <3>1. \/ Lock(a) \/ GetLoad(a) \/ GetProbe(a) \/ GetReload(a) \/ WebhookLookup(a)
          \/ WebhookAdd(a) \/ WebhookBackfill(a)
      BY <1>2, <2>2, StepFrom
    <3> QED
      BY <3>1 DEF Lock, GetLoad, GetProbe, GetReload, WebhookLookup
  <2> QED
    BY <1>0, <1>2, <2>1, <2>2, WhoSteps DEF InCritical
<1> QED
  BY <1>1, <1>2

\* While a request is inside, nobody else creates or ends a call or takes a
\* participant out, and only meeting.participantJoined touches a post.
LEMMA InsideKeeps ==
    ASSUME OneNode, ServiceInvariant, NEW a \in Request, Arrival(a) \/ Handle(a), ~Panic(a),
           NEW s \in Request, s # a, InCritical(s)
    PROVE  /\ \A c \in Call : /\ Exists(c)' <=> Exists(c)
                              /\ Exists(c) => sessions'[c].endat = sessions[c].endat
           /\ participants \subseteq participants'
           /\ UNCHANGED <<channelMeetings, extVars, started, announced, tokens>>
           /\ WriteParts(a) \/ UNCHANGED posts
           /\ JoinPublish(a) \/ UNCHANGED wsParts
           /\ loc[a].op # "partJoined" => UNCHANGED shared
<1>0. /\ StoreTypeOK /\ OpFits(pc[a], loc[a].op)
      /\ \A c \in Call : Exists(c) => sessions[c] \in Session
  BY DEF ServiceInvariant, TypeOK, Fits, StoreTypeOK, Exists
<1>1. CASE WebhookAdd(a)
  <2>1. loc[a].op = "partJoined"
    BY <1>0, <1>1 DEF WebhookAdd, OpFits
  <2>2. UNCHANGED <<sessions, channelMeetings>> /\ participants \subseteq participants'
    BY <1>1 DEF WebhookAdd, AddCallParticipant, storeVars
  <2> QED
    BY <1>1, <2>1, <2>2 DEF WebhookAdd, Exists, extVars, feedVars
<1>2. CASE WebhookBackfill(a)
  <2>1. loc[a].op = "partJoined"
    BY <1>0, <1>2 DEF WebhookBackfill, OpFits
  <2>2. UNCHANGED <<participants, channelMeetings>>
    BY <1>2 DEF WebhookBackfill, UpdateCallSessionID, storeVars
  <2>3. ASSUME NEW c \in Call
        PROVE  /\ Exists(c)' <=> Exists(c)
               /\ Exists(c) => sessions'[c].endat = sessions[c].endat
    <3>1. CASE UNCHANGED sessions
      BY <3>1 DEF Exists
    <3>2. CASE \E d \in Call, i \in RtkSession :
                 Exists(d) /\ sessions' = [sessions EXCEPT ![d].sessionId = i]
      BY <1>0, <3>2, StoreAssumption DEF StoreTypeOK, Exists, Session
    <3>3. loc[a].call \in Call /\ loc[a].rtkSession \in RtkSession \cup {None}
      BY <1>0, <1>2, <2>1
      DEF WebhookBackfill, ServiceInvariant, TypeOK, Local, Fits, LocalsSet
    <3> QED
      BY <1>2, <3>1, <3>2, <3>3 DEF WebhookBackfill, UpdateCallSessionID, storeVars
  <2> QED
    BY <1>2, <2>1, <2>2, <2>3 DEF WebhookBackfill, extVars, feedVars
<1>3. CASE WriteParts(a) /\ loc[a].op = "partJoined"
  BY <1>3 DEF WriteParts, WritePost, Exists, extVars, feedVars, storeVars
<1>4. CASE JoinPublish(a) /\ loc[a].op = "partJoined"
  BY <1>4 DEF JoinPublish, Exists, extVars, feedVars, storeVars
<1>5. CASE UNCHANGED shared
  BY <1>5 DEF shared, Exists, extVars, feedVars, storeVars
<1> QED
  BY <1>1, <1>2, <1>3, <1>4, <1>5, OutsideStep

-----------------------------------------------------------------------------
(* What is true of the call that a request inside is working on.           *)

\* The handler has seen its call active, and the call still is.
Working(r) ==
    pc[r] \in {"c_probe", "j_probe", "j_add", "l_remove", "end_store"} =>
        Active(loc[r].subject)

\* JoinCall has put the user in the table, where the user still is.
Joined(r) ==
    \/ pc[r] \in {"j_token", "j_undo"}
    \/ pc[r] \in PartsLabel \cup {"j_publish"} /\ loc[r].op = "join"
    => Active(loc[r].subject) /\ loc[r].user \in ParticipantsOf(loc[r].subject)

\* CreateCall has inserted the row and its creator, or has not inserted any.
Created(r) ==
    /\ pc[r] = "c_publish" =>
          Active(loc[r].call) /\ loc[r].user \in ParticipantsOf(loc[r].call)
    /\ pc[r] = "c_deletePost" => ~Ended(loc[r].call)

\* A handler that announces an end, or is going to, is the one that stored it.
Ending(r) ==
    /\ pc[r] \in EmitLabel => sessions[loc[r].subject].endat = r
    /\ /\ pc[r] \in PartsLabel \cup {"l_publish"}
       /\ loc[r].op \in {"leave", "partLeft"}
       /\ loc[r].endedNow
       => sessions[loc[r].subject].endat = r

NodeInvariant ==
    /\ CreateInvariant
    /\ \A r \in Request : Working(r) /\ Joined(r) /\ Created(r) /\ Ending(r)
    /\ OnlyEnderAnnounces

\* It stays true while others run.
LEMMA NodeStays ==
    ASSUME OneNode, NodeInvariant, NEW a \in Request, Arrival(a) \/ Handle(a), ~Panic(a),
           NEW s \in Request, s # a
    PROVE  Working(s)' /\ Joined(s)' /\ Created(s)' /\ Ending(s)'
<1>0. /\ ServiceInvariant /\ Fits(s) /\ SoundStep(a)
      /\ Working(s) /\ Joined(s) /\ Created(s) /\ Ending(s)
  BY ServiceStepSound DEF NodeInvariant, CreateInvariant, ServiceInvariant
<1>1. pc'[s] = pc[s] /\ loc'[s] = loc[s]
  BY <1>0 DEF SoundStep, OthersWait
<1>2. CASE InCritical(s)
  <2>1. ASSUME NEW c \in Call
        PROVE  /\ Active(c) => Active(c)'
               /\ ~Ended(c) => ~Ended(c)'
               /\ ParticipantsOf(c) \subseteq ParticipantsOf(c)'
               /\ Exists(c) => sessions'[c].endat = sessions[c].endat
    BY <1>0, <1>2, InsideKeeps DEF Active, Ended, ParticipantsOf
  <2>2. CASE OnSubject(pc[s], loc[s].op)
    <3>1. PICK c \in Call : c = loc[s].subject /\ Exists(c)
      BY <1>0, <2>2 DEF Fits, LocalsSet
    <3>2. pc[s] \notin {"c_publish", "c_deletePost"}
      BY <2>2 DEF OnSubject
    <3>3. Working(s)'
      BY <1>0, <1>1, <2>1, <3>1 DEF Working, Active, Exists
    <3>4. Joined(s)'
      BY <1>0, <1>1, <2>1, <3>1 DEF Joined, Active, Exists, ParticipantsOf
    <3>5. Ending(s)'
      BY <1>0, <1>1, <2>1, <3>1 DEF Ending
    <3> QED
      BY <1>1, <3>2, <3>3, <3>4, <3>5 DEF Created
  <2>3. CASE pc[s] \in {"c_publish", "c_deletePost"}
    <3>1. PICK c \in Call : c = loc[s].call
      BY <1>0, <2>3 DEF Fits, OpFits, LocalsSet
    <3>2. Created(s)'
      BY <1>0, <1>1, <2>1, <3>1 DEF Created, Active, Ended, Exists, ParticipantsOf
    <3> QED
      BY <1>1, <2>3, <3>2 DEF Working, Joined, Ending
  <2>4. CASE ~OnSubject(pc[s], loc[s].op) /\ pc[s] \notin {"c_publish", "c_deletePost"}
    BY <1>1, <2>4 DEF OnSubject, Working, Joined, Created, Ending
  <2> QED
    BY <2>2, <2>3, <2>4
<1>3. CASE ~InCritical(s)
  BY <1>0, <1>1, <1>3
  DEF InCritical, Working, Joined, Created, Ending, ServiceInvariant, TypeOK
<1> QED
  BY <1>2, <1>3

\* A handler that goes on with a call it has seen active.
LEMMA WorkingStep ==
    ASSUME NodeInvariant, NEW r \in Request, Arrival(r) \/ Handle(r), ~Panic(r)
    PROVE  Working(r)'
<1> SUFFICES ASSUME pc'[r] \in {"c_probe", "j_probe", "j_add", "l_remove", "end_store"}
             PROVE  Active(loc[r].subject)'
  BY DEF Working
<1>0. /\ ServiceInvariant /\ Fits(r) /\ Working(r)
      /\ pc \in [Request -> Label] /\ loc \in [Request -> Local]
  BY DEF NodeInvariant, CreateInvariant, ServiceInvariant, TypeOK
<1>1. ASSUME NEW d, Active(d), loc' = [loc EXCEPT ![r].subject = d], UNCHANGED shared
      PROVE  Active(loc[r].subject)'
  <2>1. loc'[r].subject = d
    BY <1>0, <1>1 DEF Local
  <2> QED
    BY <1>1, <2>1 DEF Active, Exists, shared, storeVars
<1>2. ASSUME Active(loc[r].subject), loc' = loc, UNCHANGED shared
      PROVE  Active(loc[r].subject)'
  BY <1>2 DEF Active, Exists, shared, storeVars
<1>3. \/ CreateCheckExisting(r) \/ CreateProbeExisting(r) \/ JoinLoad(r) \/ JoinProbe(r)
      \/ LeaveLoad(r) \/ EndLoad(r) \/ Reread(r)
  BY <1>0, StepTo
<1>4. CASE CreateCheckExisting(r)
  BY <1>0, <1>1, <1>4 DEF CreateCheckExisting, ActiveIn, Goto, Return
<1>5. CASE CreateProbeExisting(r) \/ JoinProbe(r)
  BY <1>0, <1>2, <1>5 DEF CreateProbeExisting, JoinProbe, Working, Return
<1>6. CASE JoinLoad(r) \/ LeaveLoad(r) \/ EndLoad(r)
  BY <1>0, <1>1, <1>6 DEF JoinLoad, LeaveLoad, EndLoad, Return
<1>7. CASE Reread(r)
  BY <1>0, <1>2, <1>7 DEF Reread, UnlockAndReload, Return
<1> QED
  BY <1>3, <1>4, <1>5, <1>6, <1>7

\* A handler that goes on with a join has just seen the row in the table.
LEMMA JoinedStep ==
    ASSUME NodeInvariant, NEW r \in Request, Arrival(r) \/ Handle(r), ~Panic(r)
    PROVE  Joined(r)'
<1> SUFFICES ASSUME \/ pc'[r] \in {"j_token", "j_undo"}
                    \/ pc'[r] \in PartsLabel \cup {"j_publish"} /\ loc'[r].op = "join"
             PROVE  (Active(loc[r].subject) /\ loc[r].user \in ParticipantsOf(loc[r].subject))'
  BY DEF Joined
<1>0. /\ ServiceInvariant /\ Fits(r) /\ Joined(r)
      /\ SoundStep(r)
      /\ pc \in [Request -> Label] /\ loc \in [Request -> Local]
  BY ServiceStepSound DEF NodeInvariant, CreateInvariant, ServiceInvariant, TypeOK
<1>1. ASSUME Active(loc[r].subject), loc[r].user \in ParticipantsOf(loc[r].subject),
             loc'[r].subject = loc[r].subject, loc'[r].user = loc[r].user,
             UNCHANGED storeVars
      PROVE  (Active(loc[r].subject) /\ loc[r].user \in ParticipantsOf(loc[r].subject))'
  BY <1>1 DEF Active, Exists, ParticipantsOf, storeVars
<1>2. CASE JoinAdd(r) /\ pc'[r] = "j_token"
  <2>1. PICK c \in Call, u \in User : /\ c = loc[r].call /\ c = loc[r].subject
                                     /\ u = loc[r].user
    BY <1>0, <1>2 DEF JoinAdd, Fits, OpFits, LocalsSet, OnSubject
  <2>2. /\ Active(c) /\ AddCallParticipant(c, u)
        /\ loc' = [loc EXCEPT ![r].parts = ParticipantsOf(c) \cup {u},
                              ![r].added = u \notin ParticipantsOf(c)]
    BY <1>0, <1>2, <2>1 DEF JoinAdd, Return
  <2>3. loc'[r].subject = c /\ loc'[r].user = u
    BY <1>0, <2>1, <2>2 DEF Local
  <2>4. Active(c)' /\ u \in ParticipantsOf(c)'
    BY <2>1, <2>2 DEF AddCallParticipant, Active, Exists, ParticipantsOf
  <2> QED
    BY <2>3, <2>4 DEF Active, Exists, ParticipantsOf
<1>3. CASE JoinToken(r)
  <2>1. UNCHANGED <<loc, storeVars>>
    BY <1>0, <1>3 DEF JoinToken, Return, shared
  <2> QED
    BY <1>0, <1>1, <1>3, <2>1 DEF JoinToken, Joined
<1>4. CASE (ReadParts(r) \/ WriteParts(r)) /\ loc'[r].op = "join"
  <2>1. /\ UNCHANGED storeVars
        /\ loc'[r].subject = loc[r].subject
        /\ loc'[r].user = loc[r].user
        /\ loc[r].op = "join"
        /\ pc[r] \in PartsLabel
    BY <1>0, <1>4 DEF ReadParts, WriteParts, ReadPost, WritePost, shared, Local
  <2> QED
    BY <1>0, <1>1, <2>1 DEF Joined
<1>5. loc'[r].op = "join" => ~LeaveRemove(r) /\ ~WebhookAdd(r) /\ ~WebhookBackfill(r)
  BY <1>0 DEF SoundStep, SameRequest, LeaveRemove, WebhookAdd, WebhookBackfill, Fits, OpFits
<1>6. \/ JoinAdd(r) /\ pc'[r] = "j_token"
      \/ JoinToken(r)
      \/ (ReadParts(r) \/ WriteParts(r)) /\ loc'[r].op = "join"
  BY <1>0, <1>5, StepTo
<1> QED
  BY <1>2, <1>3, <1>4, <1>6

\* CreateCall publishes a call only after its row was inserted, and deletes a post
\* only for a call that has no end.
LEMMA CreatedStep ==
    ASSUME NodeInvariant, NEW r \in Request, Arrival(r) \/ Handle(r), ~Panic(r)
    PROVE  Created(r)'
<1> SUFFICES ASSUME pc'[r] \in {"c_publish", "c_deletePost"}
             PROVE  Created(r)'
  BY DEF Created
<1>0. /\ ServiceInvariant /\ Fits(r) /\ OwnsCall(r) /\ StoreTypeOK
      /\ pc \in [Request -> Label]
  BY DEF NodeInvariant, CreateInvariant, ServiceInvariant, TypeOK
<1>1. CreateInsert(r)
  BY <1>0, StepTo
<1>2. PICK c \in Call, ch \in Channel, u \in User, m \in Meeting :
          c = loc[r].call /\ ch = loc[r].channel /\ u = loc[r].user /\ m = loc[r].meeting
  BY <1>0, <1>1 DEF CreateInsert, Fits, OpFits, LocalsSet
<1>3. ~Exists(c) /\ UNCHANGED loc
  BY <1>0, <1>1, <1>2 DEF CreateInsert, Fits, OpFits, OwnsCall, Creating
<1>4. CASE CreateCallSession(c, ch, u, m)
  <2>1. sessions'[c] = NewSession(ch, u, m)
    BY <1>0, <1>4 DEF CreateCallSession, StoreTypeOK
  <2>2. Active(c)' /\ u \in ParticipantsOf(c)'
    BY <1>4, <2>1, NewSessionType, StoreAssumption
    DEF CreateCallSession, Active, Exists, NewSession, ParticipantsOf
  <2>3. ~Ended(c)'
    BY <2>2 DEF Active, Ended
  <2> QED
    BY <1>2, <1>3, <2>2, <2>3 DEF Created, Active, Ended, Exists, ParticipantsOf
<1>5. CASE UNCHANGED storeVars /\ pc'[r] = "c_deletePost"
  BY <1>2, <1>3, <1>5 DEF Created, Ended, Exists, storeVars
<1> QED
  BY <1>0, <1>1, <1>2, <1>4, <1>5 DEF CreateInsert, Goto

\* Removing the last participant stores the end under the request's stamp.
LEMMA RemoveEnds ==
    ASSUME StoreTypeOK, NEW c \in Call, NEW u, NEW t, RemoveCallParticipant(c, u, t),
           Active(c), IsLastParticipant(c, u)
    PROVE  sessions'[c].endat = t
BY DEF RemoveCallParticipant, StoreTypeOK, Active, Exists, Session

\* A handler that goes on to announce an end has just stored it.
LEMMA EndingStep ==
    ASSUME NodeInvariant, NEW r \in Request, Arrival(r) \/ Handle(r), ~Panic(r)
    PROVE  Ending(r)'
<1>0. /\ ServiceInvariant /\ Fits(r) /\ Ending(r) /\ Working(r) /\ StoreTypeOK
      /\ SoundStep(r)
      /\ pc \in [Request -> Label] /\ loc \in [Request -> Local]
  BY ServiceStepSound DEF NodeInvariant, CreateInvariant, ServiceInvariant, TypeOK
<1>1. CASE LeaveRemove(r) /\ pc'[r] = "parts_get"
  <2>1. PICK c \in Call : c = loc[r].call /\ c = loc[r].subject
    BY <1>0, <1>1 DEF LeaveRemove, Fits, OpFits, LocalsSet, OnSubject
  <2>2. PICK parts, u :
            /\ RemoveCallParticipant(c, u, r)
            /\ loc' = [loc EXCEPT ![r].parts = parts,
                                  ![r].endedNow = Active(c) /\ IsLastParticipant(c, u)]
    BY <1>0, <1>1, <2>1 DEF LeaveRemove, Return
  <2>3. /\ loc'[r].subject = c
        /\ loc'[r].endedNow <=> Active(c) /\ IsLastParticipant(c, u)
    BY <1>0, <2>1, <2>2 DEF Local
  <2> QED
    BY <1>0, <1>1, <2>2, <2>3, RemoveEnds DEF Ending
<1>2. CASE ReadParts(r) \/ WriteParts(r)
  <2>1. /\ UNCHANGED sessions
        /\ loc'[r].subject = loc[r].subject
        /\ loc'[r].op = loc[r].op
        /\ loc'[r].endedNow = loc[r].endedNow
        /\ pc[r] \in PartsLabel
    BY <1>0, <1>2 DEF ReadParts, WriteParts, ReadPost, WritePost, shared, storeVars, Local
  <2>2. pc'[r] \notin EmitLabel
    BY <1>0, <1>2, PartsFlow DEF Edge
  <2> QED
    BY <1>0, <2>1, <2>2 DEF Ending
<1>3. CASE (ReadEnd(r) \/ WriteEnd(r)) /\ pc'[r] \in EmitLabel
  <2>1. /\ UNCHANGED sessions
        /\ loc'[r].subject = loc[r].subject
        /\ pc[r] \in EmitLabel
    BY <1>0, <1>3 DEF ReadEnd, WriteEnd, ReadPost, WritePost, shared, storeVars, Local
  <2> QED
    BY <1>0, <1>3, <2>1 DEF Ending
<1>4. CASE LeavePublish(r) /\ pc'[r] = "end_getPost"
  <2>1. /\ UNCHANGED <<sessions, loc>>
        /\ loc[r].endedNow
        /\ loc[r].op \in {"leave", "partLeft"}
        /\ pc[r] = "l_publish"
    BY <1>0, <1>4 DEF LeavePublish, Return, storeVars, Fits, OpFits
  <2> QED
    BY <1>0, <1>4, <2>1 DEF Ending
<1>5. CASE JoinUndo(r) /\ pc'[r] = "end_getPost"
  <2>1. PICK c \in Call : c = loc[r].call /\ c = loc[r].subject
    BY <1>0, <1>5 DEF JoinUndo, Fits, OpFits, LocalsSet, OnSubject
  <2>2. \E u : /\ RemoveCallParticipant(c, u, r)
               /\ Active(c) /\ IsLastParticipant(c, u)
    BY <1>0, <1>5, <2>1 DEF JoinUndo, Return
  <2>3. UNCHANGED loc
    BY <1>0, <1>5 DEF JoinUndo, Return
  <2> QED
    BY <1>0, <1>5, <2>1, <2>2, <2>3, RemoveEnds DEF Ending
<1>6. CASE EndStore(r) /\ pc'[r] = "end_getPost"
  <2>1. PICK c \in Call : c = loc[r].subject /\ Active(c)
    BY <1>0, <1>6 DEF EndStore, Fits, LocalsSet, OnSubject, Working
  <2>2. EndCall(c, r) /\ UNCHANGED loc
    BY <1>0, <1>6, <2>1 DEF EndStore, AfterFailedEnd, UnlockAndReload, Return
  <2>3. sessions'[c].endat = r
    BY <1>0, <2>1, <2>2 DEF EndCall, StoreTypeOK, Active, Exists, Session
  <2> QED
    BY <1>6, <2>1, <2>2, <2>3 DEF Ending
<1>7. CASE pc'[r] \in {"parts_get", "parts_put", "l_publish"}
           /\ loc'[r].op \in {"leave", "partLeft"}
  <2>1. ~JoinToken(r) /\ ~WebhookAdd(r)
    BY <1>0, <1>7 DEF SoundStep, SameRequest, JoinToken, WebhookAdd, Fits, OpFits
  <2>2. pc'[r] # "parts_get" => ReadParts(r) \/ WriteParts(r)
    BY <1>0, <1>7, StepTo
  <2>3. pc'[r] = "parts_get" => LeaveRemove(r)
    BY <1>0, <2>1, StepTo
  <2> QED
    BY <1>1, <1>2, <1>7, <2>2, <2>3
<1>8. CASE pc'[r] \in EmitLabel
  BY <1>0, <1>3, <1>4, <1>5, <1>6, <1>8, StepTo
<1> QED
  BY <1>7, <1>8 DEF Ending

\* What was announced stays true: the end of a call is final.
LEMMA AnnouncedStays ==
    ASSUME ServiceInvariant, [Next]_vars, OnlyEnderAnnounces,
           NEW c \in Call, NEW q \in Request, Exists(c), sessions[c].endat = q
    PROVE  Exists(c)' /\ sessions'[c].endat = q
<1>1. Ended(c)
  BY StoreAssumption, ServiceAssumption DEF Ended
<1> QED
  BY <1>1, ServiceStoreStep, EndedFrozenStep DEF ServiceInvariant, TypeOK, Ended

\* Whoever is added to the announcers of a call has stored its end.
LEMMA OnlyEnderStep ==
    ASSUME NodeInvariant, NEW r \in Request, Arrival(r) \/ Handle(r)
    PROVE  OnlyEnderAnnounces'
<1> SUFFICES ASSUME NEW c \in Call, NEW q \in announced'[c]
             PROVE  Exists(c)' /\ sessions'[c].endat = q
  BY DEF OnlyEnderAnnounces
<1>0. /\ ServiceInvariant /\ [Next]_vars /\ Fits(r) /\ Ending(r) /\ OnlyEnderAnnounces
      /\ announced \in [Call -> SUBSET Request]
  BY DEF NodeInvariant, CreateInvariant, ServiceInvariant, TypeOK, Next
<1>1. \/ q \in announced[c]
      \/ EndPublish(r) /\ loc[r].subject = c /\ q = r
  BY <1>0, FeedChange DEF feedVars, CreatePublish, JoinPublish, LeavePublish, EndPublish
<1>2. q \in Request /\ Exists(c) /\ sessions[c].endat = q
  <2>1. CASE q \in announced[c]
    BY <1>0, <2>1 DEF OnlyEnderAnnounces
  <2>2. CASE EndPublish(r) /\ loc[r].subject = c /\ q = r
    BY <1>0, <2>2 DEF EndPublish, Fits, LocalsSet, OnSubject, Ending
  <2> QED
    BY <1>1, <2>1, <2>2
<1> QED
  BY <1>0, <1>2, AnnouncedStays

\* Nobody works at the start.
LEMMA NodeInit == Init => NodeInvariant
BY CreateInit
DEF Init, NodeInvariant, Working, Joined, Created, Ending, OnlyEnderAnnounces

\* Inside, a handler finds the call as it left it, and a crash leaves nobody inside.
LEMMA NodeStep ==
    ASSUME OneNode, NodeInvariant, [Next]_vars
    PROVE  NodeInvariant'
<1>0. CreateInvariant'
  BY CreateStep DEF NodeInvariant
<1>1. ASSUME NEW r \in Request, Arrival(r) \/ Handle(r), ~Panic(r)
      PROVE  NodeInvariant'
  BY <1>0, <1>1, NodeStays, WorkingStep, JoinedStep, CreatedStep, EndingStep, OnlyEnderStep
  DEF NodeInvariant
\* A process that dies, or a change of the environment.
<1>2. ASSUME UNCHANGED <<storeVars, announced>>,
             \A r \in Request : \/ pc'[r] = "crashed"
                                \/ pc'[r] = pc[r] /\ loc'[r] = loc[r]
      PROVE  NodeInvariant'
  <2>1. ASSUME NEW r \in Request
        PROVE  Working(r)' /\ Joined(r)' /\ Created(r)' /\ Ending(r)'
    <3>1. CASE pc'[r] = "crashed"
      BY <3>1 DEF Working, Joined, Created, Ending
    <3>2. CASE pc'[r] = pc[r] /\ loc'[r] = loc[r]
      <4>1. Working(r)' /\ Created(r)' /\ Ending(r)'
        BY <1>2, <3>2
        DEF NodeInvariant, Working, Created, Ending, Active, Ended, Exists,
            ParticipantsOf, storeVars
      <4>2. Joined(r)'
        BY <1>2, <3>2 DEF NodeInvariant, Joined, Active, Exists, ParticipantsOf, storeVars
      <4> QED
        BY <4>1, <4>2
    <3> QED
      BY <1>2, <3>1, <3>2
  <2>2. OnlyEnderAnnounces'
    BY <1>2 DEF NodeInvariant, OnlyEnderAnnounces, Exists, storeVars
  <2> QED
    BY <1>0, <2>1, <2>2 DEF NodeInvariant
<1>3. ASSUME NEW n \in Node, Dies(n) PROVE NodeInvariant'
  BY <1>2, <1>3
  DEF Dies, shared, feedVars, NodeInvariant, CreateInvariant, ServiceInvariant, TypeOK
<1>4. ASSUME NEW r \in Request, Panic(r) PROVE NodeInvariant'
  <2>1. loc[r].node \in Node
    BY <1>4 DEF Panic, NodeInvariant, CreateInvariant, ServiceInvariant, Fits, LocalsSet
  <2> QED
    BY <1>3, <1>4, <2>1 DEF Panic
<1>5. CASE \/ \E m \in Meeting : MeetingDeleted(m)
           \/ \E a \in App : StoreAppConfig(a)
           \/ \E n \in Node, a \in App \cup {None} : UpdateRTKClient(n, a)
           \/ UNCHANGED vars
  <2>1. UNCHANGED <<storeVars, announced, pc, loc>>
    BY <1>5 DEF MeetingDeleted, StoreAppConfig, UpdateRTKClient, vars, shared, control, feedVars
  <2> QED
    BY <1>2, <2>1
<1> QED
  BY <1>1, <1>3, <1>4, <1>5 DEF Next, Environment, Crash, Idle

\* What callMu protects on a server with one node.
THEOREM NodeInvariance ==
    ASSUME OneNode
    PROVE  Spec => []NodeInvariant
BY NodeInit, NodeStep, PTL DEF Spec

\* On one node, whatever fails or crashes, the end of a call is announced only
\* by the request that stored it: at most once, and never before.
THEOREM OnlyEnderAnnouncesAlways ==
    ASSUME OneNode
    PROVE  Spec => []OnlyEnderAnnounces
<1>1. NodeInvariant => OnlyEnderAnnounces
  BY DEF NodeInvariant
<1> QED
  BY <1>1, NodeInvariance, PTL

\* A CreateCall or JoinCall that succeeds has its user in an active call.
LEMMA SuccessMeansParticipant ==
    ASSUME NodeInvariant, [Next]_vars, NEW r \in Request, NEW c \in Call, NEW u \in User,
           loc[r].op \in {"create", "join"}, loc[r].call = c, loc[r].user = u,
           Running(r), pc'[r] = "ok"
    PROVE  Active(c) /\ u \in ParticipantsOf(c)
<1>0. /\ ServiceInvariant /\ Fits(r) /\ Joined(r) /\ Created(r)
      /\ pc \in [Request -> Label]
  BY DEF NodeInvariant, CreateInvariant, ServiceInvariant, TypeOK
<1>1. pc'[r] # pc[r]
  OBVIOUS
<1>2. ASSUME NEW n PROVE ~Dies(n)
  BY <1>0, <1>2 DEF Dies
<1>3. PICK a \in Request : (Arrival(a) \/ Handle(a)) /\ ~Panic(a)
  BY <1>1, <1>2
  DEF Next, Environment, Crash, Panic, Idle, MeetingDeleted, StoreAppConfig,
      UpdateRTKClient, control, vars
<1>4. a = r
  BY <1>0, <1>1, <1>3, ServiceStepSound DEF SoundStep, OthersWait
<1>5. Handle(r) /\ ~Panic(r)
  BY <1>3, <1>4, WhoSteps
<1>6. CreatePublish(r) \/ JoinPublish(r)
  <2>1. \/ CreatePublish(r) \/ JoinPublish(r) \/ LeaveLoad(r) \/ LeavePublish(r)
        \/ EndStore(r) \/ EndPublish(r) \/ GetLoad(r) \/ GetReload(r) \/ Reread(r)
        \/ WebhookLookup(r) \/ WebhookAdd(r)
    BY <1>0, <1>5, CreateFlow, JoinFlow, LeaveFlow, EndFlow, PartsFlow, OtherFlow
    DEF Handle, CreateCall, JoinCall, LeaveCall, EndActiveCall, GetCall, HandleWebhook,
        UpdatePostParticipants, ReadParts, WriteParts, ReadEnd, WriteEnd, Edge
  <2>2. ~LeaveLoad(r) /\ ~LeavePublish(r) /\ ~GetLoad(r) /\ ~GetReload(r) /\ ~Reread(r)
        /\ ~WebhookLookup(r) /\ ~WebhookAdd(r)
    BY <1>0
    DEF LeaveLoad, LeavePublish, GetLoad, GetReload, Reread, WebhookLookup, WebhookAdd,
        Fits, OpFits
  <2>3. ~EndStore(r) /\ ~EndPublish(r)
    BY <1>0
    DEF EndStore, EndPublish, AfterFailedEnd, AfterEnd, Goto, Return, UnlockAndReload
  <2> QED
    BY <2>1, <2>2, <2>3
<1> QED
  BY <1>0, <1>6
  DEF CreatePublish, JoinPublish, Joined, Created, Fits, OpFits, LocalsSet, OnSubject

\* On one node, whatever fails or crashes, no token reaches a client whose user
\* is not in the participants table of an active call at that moment.
THEOREM TokenMeansParticipantAlways ==
    ASSUME OneNode
    PROVE  Spec => TokenMeansParticipant
<1>1. NodeInvariant /\ [Next]_vars
      => [\A c \in Call, u \in User :
             \A r \in Request :
                /\ loc[r].op \in {"create", "join"} /\ loc[r].call = c /\ loc[r].user = u
                /\ Running(r) /\ pc'[r] = "ok"
                => Active(c) /\ u \in ParticipantsOf(c)]_vars
  BY SuccessMeansParticipant
<1> QED
  BY <1>1, NodeInvariance, PTL DEF Spec, TokenMeansParticipant

-----------------------------------------------------------------------------
(* The end that a post shows, without meeting.participantJoined.           *)

\* A handler is about to write the post that it has read.
PostRead(r) ==
    pc[r] \in {"parts_put", "end_putPost"} => loc[r].post = posts[loc[r].subject]

\* The post shows the end that is stored.
PostEndStored(c) ==
    posts[c] # None /\ posts[c].endAt # 0 => Ended(c) /\ sessions[c].endat = posts[c].endAt

PostEndInvariant ==
    /\ NodeInvariant
    /\ \A r \in Request : loc[r].op \in Ops \cup {None}
    /\ \A r \in Request : PostRead(r)
    /\ \A c \in Call : PostEndStored(c)

\* A request is one of those that may be sent.
LEMMA AskedStep ==
    ASSUME ServiceInvariant, NEW r \in Request, Arrival(r) \/ Handle(r), ~Panic(r),
           loc[r].op \in Ops \cup {None}
    PROVE  loc'[r].op \in Ops \cup {None}
<1>0. /\ SoundStep(r) /\ Fits(r)'
      /\ pc \in [Request -> Label] /\ loc \in [Request -> Local]
  BY ServiceStepSound, ServiceStep DEF ServiceInvariant, TypeOK, Next
<1>1. CASE Arrival(r)
  <2>1. PICK n \in Node : \/ RequestCreate(r, n) \/ RequestOnCall(r, n)
                          \/ ParticipantWebhook(r, n) \/ MeetingWebhook(r, n)
    BY <1>1 DEF Arrival
  <2>2. CASE RequestCreate(r, n)
    BY <1>0, <2>2 DEF RequestCreate, Arrive, Blank
  <2>3. CASE RequestOnCall(r, n)
    BY <1>0, <2>3 DEF RequestOnCall, Arrive, Blank
  <2>4. CASE ParticipantWebhook(r, n)
    BY <1>0, <2>4 DEF ParticipantWebhook, Arrive, Blank
  <2>5. CASE MeetingWebhook(r, n)
    BY <1>0, <2>5 DEF MeetingWebhook, Arrive, Blank
  <2> QED
    BY <2>1, <2>2, <2>3, <2>4, <2>5
<1>2. CASE pc'[r] \in Final
  BY <1>0, <1>2 DEF Fits, OpFits
<1>3. CASE ~Arrival(r) /\ pc'[r] \notin Final
  BY <1>0, <1>3, WhoSteps DEF SoundStep, SameRequest
<1> QED
  BY <1>1, <1>2, <1>3

\* The handler that writes a post has just read it, and nobody wrote it in between.
LEMMA PostReadStep ==
    ASSUME OneNode, "partJoined" \notin Ops, PostEndInvariant,
           NEW r \in Request, Arrival(r) \/ Handle(r), ~Panic(r), NEW s \in Request
    PROVE  PostRead(s)'
<1> SUFFICES ASSUME pc'[s] \in {"parts_put", "end_putPost"}
             PROVE  loc'[s].post = posts'[loc'[s].subject]
  BY DEF PostRead
<1>0. /\ ServiceInvariant /\ SoundStep(r) /\ Fits(s) /\ PostRead(s)
      /\ loc[r].op # "partJoined" /\ loc[s].op # "partJoined"
      /\ pc \in [Request -> Label] /\ loc \in [Request -> Local]
  BY ServiceStepSound, ServiceAssumption
  DEF PostEndInvariant, NodeInvariant, CreateInvariant, ServiceInvariant, TypeOK, Op
<1>1. CASE s # r
  <2>1. pc'[s] = pc[s] /\ loc'[s] = loc[s]
    BY <1>0, <1>1 DEF SoundStep, OthersWait
  <2>2. InCritical(s)
    BY <1>0, <2>1 DEF InCritical
  <2>3. UNCHANGED posts
    BY <1>0, <1>1, <2>2, InsideKeeps DEF shared
  <2> QED
    BY <1>0, <2>1, <2>3 DEF PostRead
<1>2. CASE s = r
  <2>1. (ReadParts(r) /\ pc'[r] = "parts_put") \/ (ReadEnd(r) /\ pc'[r] = "end_putPost")
    BY <1>0, <1>2, StepTo
  <2>2. loc' = [loc EXCEPT ![r].post = posts[loc[r].subject]] /\ UNCHANGED posts
    <3>1. CASE ReadParts(r) /\ pc'[r] = "parts_put"
      <4>1. AfterParticipants(loc[r].op) \in {"j_publish", "l_publish", "w_backfill"}
        BY <1>0, <1>2, <3>1
        DEF ReadParts, ReadPost, Fits, OpFits, AfterParticipants
      <4> QED
        BY <1>0, <3>1, <4>1 DEF ReadParts, ReadPost, Goto, shared
    <3>2. CASE ReadEnd(r) /\ pc'[r] = "end_putPost"
      BY <1>0, <3>2 DEF ReadEnd, ReadPost, Goto, shared
    <3> QED
      BY <2>1, <3>1, <3>2
  <2>3. /\ loc'[r].post = posts[loc[r].subject]
        /\ loc'[r].subject = loc[r].subject
    BY <1>0, <2>2 DEF Local
  <2> QED
    BY <1>2, <2>2, <2>3
<1> QED
  BY <1>1, <1>2

\* What a step may do to the end that a post shows.
LEMMA PostEndFate ==
    ASSUME "partJoined" \notin Ops, PostEndInvariant,
           NEW r \in Request, Arrival(r) \/ Handle(r), NEW c \in Call
    PROVE  /\ posts[c] # None /\ posts[c].endAt # 0 =>
                 posts'[c] # None /\ posts'[c].endAt = posts[c].endAt
           /\ posts'[c] # None /\ posts'[c].endAt # 0 =>
                 \/ posts[c] # None /\ posts'[c].endAt = posts[c].endAt
                 \/ Ended(c) /\ sessions[c].endat = posts'[c].endAt
<1>0. /\ ServiceInvariant /\ Fits(r) /\ PostRead(r) /\ PostEndStored(c) /\ Created(r)
      /\ Ending(r) /\ OwnsCall(r)
      /\ loc[r] \in Local
      /\ posts \in [Call -> Post \cup {None}]
  BY DEF PostEndInvariant, NodeInvariant, CreateInvariant, ServiceInvariant, TypeOK
<1>1. CASE posts'[c] = posts[c]
  BY <1>1
<1>2. CASE CreatePost(r) /\ loc[r].call = c
  <2>1. posts[c] = None
    BY <1>0, <1>2 DEF CreatePost, OwnsCall, Creating, Fits, OpFits
  <2>2. posts'[c] = posts[c] \/ posts'[c] = [parts |-> {loc[r].user}, endAt |-> 0]
    BY <1>0, <1>2 DEF CreatePost
  <2> QED
    BY <2>1, <2>2
<1>3. CASE CreateDeletePost(r) /\ loc[r].call = c
  <2>1. posts'[c] = posts[c] \/ posts'[c] = None
    BY <1>0, <1>3 DEF CreateDeletePost
  <2>2. ~Ended(c)
    BY <1>0, <1>3 DEF CreateDeletePost, Created
  <2> QED
    BY <1>0, <2>1, <2>2 DEF PostEndStored
<1>4. ASSUME WriteParts(r) \/ WriteEnd(r), loc[r].subject = c, posts[c] # None
      PROVE  \/ posts'[c] = posts[c]
             \/ posts'[c] # None /\ posts'[c].endAt = posts[c].endAt
             \/ posts'[c] # None /\ posts'[c].endAt = r /\ Ended(c) /\ sessions[c].endat = r
  <2>1. loc[r].post = posts[c] /\ posts[c] \in Post
    BY <1>0, <1>4 DEF WriteParts, WriteEnd, WritePost, PostRead
  <2>2. CASE WriteParts(r)
    <3>1. PICK p \in Post : /\ p = [loc[r].post EXCEPT !.parts = loc[r].parts]
                            /\ p.endAt = posts[c].endAt
      <4>1. [loc[r].post EXCEPT !.parts = loc[r].parts] \in Post
        BY <1>0, <2>1 DEF Post, Local
      <4> QED
        BY <2>1, <4>1 DEF Post
    <3> QED
      BY <1>0, <1>4, <2>2, <3>1, ServiceAssumption DEF WriteParts, WritePost
  <2>3. CASE WriteEnd(r)
    <3>1. PICK p \in Post : p = [loc[r].post EXCEPT !.endAt = r] /\ p.endAt = r
      <4>1. [loc[r].post EXCEPT !.endAt = r] \in Post
        BY <1>0, <2>1 DEF Post
      <4> QED
        BY <2>1, <4>1 DEF Post
    <3>2. Ended(c) /\ sessions[c].endat = r
      BY <1>0, <1>4, <2>3, StoreAssumption, ServiceAssumption
      DEF WriteEnd, WritePost, Ending, Fits, LocalsSet, OnSubject, Ended
    <3> QED
      BY <1>0, <1>4, <2>3, <3>1, <3>2, ServiceAssumption DEF WriteEnd, WritePost
  <2> QED
    BY <1>4, <2>2, <2>3
<1>5. CASE (At(r, "parts_put") \/ At(r, "end_putPost")) /\ posts'[c] # posts[c]
           /\ loc[r].subject = c /\ posts[c] # None
  <2>1. WriteParts(r) \/ WriteEnd(r)
    BY <1>5, PostsChange DEF CreatePost, CreateDeletePost, WriteParts, WriteEnd
  <2> QED
    BY <1>0, <1>4, <1>5, <2>1 DEF PostEndStored
<1> QED
  BY <1>0, <1>1, <1>2, <1>3, <1>5, PostFate

\* No post shows an end at the start.
LEMMA PostEndInit == Init => PostEndInvariant
BY NodeInit DEF Init, Blank, PostEndInvariant, PostRead, PostEndStored

\* The end that is stored does not change.
LEMMA EndedStays ==
    ASSUME ServiceInvariant, [Next]_vars, NEW c \in Call, Ended(c)
    PROVE  Ended(c)' /\ sessions'[c].endat = sessions[c].endat
BY ServiceStoreStep, EndedFrozenStep DEF ServiceInvariant, TypeOK

\* An end gets into a post from the handler that stored it, and stays there.
LEMMA PostEndStep ==
    ASSUME OneNode, "partJoined" \notin Ops, PostEndInvariant, [Next]_vars
    PROVE  PostEndInvariant'
<1>0. NodeInvariant' /\ ServiceInvariant
  BY NodeStep DEF PostEndInvariant, NodeInvariant, CreateInvariant
<1>1. ASSUME NEW r \in Request, Arrival(r) \/ Handle(r), ~Panic(r)
      PROVE  PostEndInvariant'
  <2>1. ASSUME NEW c \in Call PROVE PostEndStored(c)'
    BY <1>0, <1>1, PostEndFate, EndedStays DEF PostEndInvariant, PostEndStored
  <2>2. ASSUME NEW s \in Request PROVE loc'[s].op \in Ops \cup {None}
    BY <1>0, <1>1, AskedStep, ServiceStepSound DEF PostEndInvariant, SoundStep, OthersWait
  <2> QED
    BY <1>0, <1>1, <2>1, <2>2, PostReadStep DEF PostEndInvariant
<1>2. ASSUME UNCHANGED <<sessions, posts>>,
             \A r \in Request : \/ pc'[r] = "crashed" /\ loc'[r].op = None
                                \/ pc'[r] = pc[r] /\ loc'[r] = loc[r]
      PROVE  PostEndInvariant'
  <2>1. ASSUME NEW r \in Request PROVE PostRead(r)' /\ loc'[r].op \in Ops \cup {None}
    BY <1>2 DEF PostEndInvariant, PostRead
  <2>2. ASSUME NEW c \in Call PROVE PostEndStored(c)'
    BY <1>2 DEF PostEndInvariant, PostEndStored, Ended, Exists
  <2> QED
    BY <1>0, <2>1, <2>2 DEF PostEndInvariant
<1>3. ASSUME NEW n \in Node, Dies(n) PROVE PostEndInvariant'
  BY <1>0, <1>2, <1>3 DEF Dies, Blank, shared, storeVars, ServiceInvariant, TypeOK
<1>4. ASSUME NEW r \in Request, Panic(r) PROVE PostEndInvariant'
  <2>1. loc[r].node \in Node
    BY <1>0, <1>4 DEF Panic, ServiceInvariant, Fits, LocalsSet
  <2> QED
    BY <1>3, <1>4, <2>1 DEF Panic
<1>5. CASE \/ \E m \in Meeting : MeetingDeleted(m)
           \/ \E a \in App : StoreAppConfig(a)
           \/ \E n \in Node, a \in App \cup {None} : UpdateRTKClient(n, a)
           \/ UNCHANGED vars
  <2>1. UNCHANGED <<sessions, posts, pc, loc>>
    BY <1>5 DEF MeetingDeleted, StoreAppConfig, UpdateRTKClient, vars, shared, control, storeVars
  <2> QED
    BY <1>2, <2>1
<1> QED
  BY <1>1, <1>3, <1>4, <1>5 DEF Next, Environment, Crash, Idle

\* On one node, without meeting.participantJoined and whatever fails or
\* crashes, a post that shows the end of a call shows it for good.
THEOREM PostEndStableAlways ==
    ASSUME OneNode, "partJoined" \notin Ops
    PROVE  Spec => PostEndStable
<1>1. ASSUME PostEndInvariant, [Next]_vars, NEW c \in Call,
             posts[c] # None, posts[c].endAt # 0
      PROVE  posts'[c] # None /\ posts'[c].endAt = posts[c].endAt
  <2>1. CASE UNCHANGED posts
    BY <1>1, <2>1
  <2>2. CASE ~UNCHANGED posts
    <3>1. PICK r \in Request : Arrival(r) \/ Handle(r)
      BY <1>1, <2>2
      DEF Next, Environment, Crash, Dies, Idle, MeetingDeleted, StoreAppConfig,
          UpdateRTKClient, shared, vars
    <3> QED
      BY <1>1, <3>1, PostEndFate
  <2> QED
    BY <2>1, <2>2
<1>2. PostEndInvariant /\ [Next]_vars
      => [\A c \in Call :
             posts[c] # None /\ posts[c].endAt # 0 =>
                 posts[c]' # None /\ posts[c].endAt' = posts[c].endAt]_vars
  BY <1>1
<1> QED
  BY <1>2, PostEndInit, PostEndStep, PTL DEF Spec, PostEndStable

-----------------------------------------------------------------------------
(* The events of a call, with a database that answers and processes that   *)
(* live, and without meeting.participantJoined.                            *)

\* A call in the table was announced, or is about to be.
StartedFits(c) ==
    Exists(c) =>
        c \in started \/ \E r \in Request : loc[r].call = c /\ pc[r] = "c_publish"

\* A call whose participants or end are to be published has not been announced
\* as ended.
Unannounced(r) ==
    pc[r] \in EmitLabel \cup PartsLabel \cup {"l_publish", "j_publish"} =>
        announced[loc[r].subject] = {}

FeedInvariant ==
    /\ NodeInvariant
    /\ CauseInvariant
    /\ \A r \in Request : loc[r].op \in Ops \cup {None}
    /\ \A c \in Call : StartedFits(c)
    /\ \A r \in Request : Unannounced(r)

\* The end of an active call was not announced.
LEMMA ActiveUnannounced ==
    ASSUME NodeInvariant, NEW c \in Call, Active(c)
    PROVE  announced[c] = {}
<1>1. announced[c] \subseteq Request /\ \A q \in announced[c] : sessions[c].endat = q
  BY DEF NodeInvariant, CreateInvariant, ServiceInvariant, TypeOK, OnlyEnderAnnounces
<1>2. 0 \notin Request
  BY StoreAssumption, ServiceAssumption
<1> QED
  BY <1>1, <1>2 DEF Active

\* A handler is on its way to publish only about a call it saw active, whose end
\* nobody announced.
LEMMA UnannouncedStep ==
    ASSUME OneNode, "partJoined" \notin Ops, FeedInvariant,
           NEW r \in Request, Arrival(r) \/ Handle(r), NEW s \in Request
    PROVE  Unannounced(s)'
<1> SUFFICES ASSUME pc'[s] \in EmitLabel \cup PartsLabel \cup {"l_publish", "j_publish"}
             PROVE  announced'[loc'[s].subject] = {}
  BY DEF Unannounced
<1>0. /\ NodeInvariant /\ ServiceInvariant /\ SoundStep(r) /\ ~Panic(r)
      /\ Fits(s) /\ Unannounced(s) /\ Working(s) /\ Joined(s)
      /\ loc[r].op # "partJoined" /\ loc[s].op # "partJoined"
      /\ pc \in [Request -> Label] /\ loc \in [Request -> Local]
  BY ServiceStepSound, NobodyPanics, ServiceAssumption
  DEF FeedInvariant, NodeInvariant, CreateInvariant, ServiceInvariant, TypeOK, Op
<1>1. CASE s # r
  <2>1. pc'[s] = pc[s] /\ loc'[s] = loc[s]
    BY <1>0, <1>1 DEF SoundStep, OthersWait
  <2>2. InCritical(s)
    BY <1>0, <2>1 DEF InCritical
  <2>3. UNCHANGED announced
    BY <1>0, <1>1, <2>2, InsideKeeps
  <2> QED
    BY <1>0, <2>1, <2>3 DEF Unannounced
<1>2. CASE s = r
  <2>1. ASSUME announced[loc[r].subject] = {}, loc'[r].subject = loc[r].subject,
               UNCHANGED announced
        PROVE  announced'[loc'[r].subject] = {}
    BY <2>1
  \* It has just been seen active.
  <2>2. ASSUME JoinToken(r) \/ LeaveRemove(r) \/ JoinUndo(r) \/ EndStore(r)
        PROVE  announced[loc[r].subject] = {} /\ UNCHANGED announced
    <3>1. loc[r].subject \in Call /\ Active(loc[r].subject)
      BY <1>0, <1>2, <2>2
      DEF JoinToken, LeaveRemove, JoinUndo, EndStore, Fits, LocalsSet, OnSubject, Working,
          Joined
    <3> QED
      BY <1>0, <2>2, <3>1, ActiveUnannounced
      DEF JoinToken, LeaveRemove, JoinUndo, EndStore, shared, feedVars
  <2>3. CASE (JoinToken(r) \/ JoinUndo(r) \/ EndStore(r)) /\ pc'[r] \notin Final
    <3>1. UNCHANGED loc \/ pc'[r] \in {"g_reload"}
      BY <1>0, <2>3
      DEF JoinToken, JoinUndo, EndStore, AfterFailedEnd, UnlockAndReload, Return
    <3> QED
      BY <1>2, <2>1, <2>2, <2>3, <3>1
  <2>4. CASE LeaveRemove(r) /\ pc'[r] \notin Final
    <3>1. PICK parts, ended :
              loc' = [loc EXCEPT ![r].parts = parts, ![r].endedNow = ended]
      BY <1>0, <2>4 DEF LeaveRemove, Return
    <3>2. loc'[r].subject = loc[r].subject
      BY <1>0, <3>1 DEF Local
    <3> QED
      BY <1>2, <2>1, <2>2, <2>4, <3>2
  <2>5. CASE ReadParts(r) \/ WriteParts(r) \/ ReadEnd(r) \/ WriteEnd(r)
    <3>1. /\ loc'[r].subject = loc[r].subject
          /\ UNCHANGED announced
          /\ pc[r] \in EmitLabel \cup PartsLabel
      BY <1>0, <2>5
      DEF ReadParts, WriteParts, ReadEnd, WriteEnd, ReadPost, WritePost, Local, shared, feedVars
    <3> QED
      BY <1>0, <1>2, <2>1, <3>1 DEF Unannounced
  <2>6. CASE LeavePublish(r) /\ pc'[r] \notin Final
    <3>1. UNCHANGED <<loc, announced>> /\ pc[r] = "l_publish"
      BY <1>0, <2>6 DEF LeavePublish, Return
    <3> QED
      BY <1>0, <1>2, <2>1, <3>1 DEF Unannounced
  <2>7. ~WebhookAdd(r) /\ ~WebhookBackfill(r)
    BY <1>0, <1>2 DEF WebhookAdd, WebhookBackfill, Fits, OpFits
  <2> QED
    BY <1>0, <1>2, <2>3, <2>4, <2>5, <2>6, <2>7, StepTo
<1> QED
  BY <1>1, <1>2

\* CreateCall publishes call_started for every row it inserts.
LEMMA StartedFitsStep ==
    ASSUME ReliableDatabase, FeedInvariant,
           NEW r \in Request, Arrival(r) \/ Handle(r), NEW c \in Call
    PROVE  StartedFits(c)'
<1> SUFFICES ASSUME Exists(c)'
             PROVE  \/ c \in started'
                    \/ \E s \in Request : loc'[s].call = c /\ pc'[s] = "c_publish"
  BY DEF StartedFits
<1>0. /\ NodeInvariant /\ ServiceInvariant /\ SoundStep(r) /\ ~Panic(r) /\ [Next]_vars
      /\ StartedFits(c) /\ pc \in [Request -> Label] /\ loc \in [Request -> Local]
  BY ServiceStepSound, NobodyPanics
  DEF FeedInvariant, NodeInvariant, CreateInvariant, ServiceInvariant, TypeOK, Next
<1>1. CASE ~Exists(c)
  <2>1. PICK s \in Request : CreateInsert(s) /\ loc[s].call = c
    BY <1>0, <1>1, RowAppears
  <2>2. ~UNCHANGED storeVars
    BY <1>1 DEF Exists, storeVars
  <2>3. pc'[s] = "c_publish" /\ UNCHANGED loc
    BY <1>0, <2>1, <2>2 DEF CreateInsert, Goto, MayFail, ReliableDatabase
  <2> QED
    BY <2>1, <2>3
<1>2. CASE c \in started
  BY <1>2, FeedChange DEF feedVars, CreatePublish, JoinPublish, LeavePublish, EndPublish
<1>3. CASE Exists(c) /\ c \notin started
  <2>1. PICK s \in Request : loc[s].call = c /\ pc[s] = "c_publish"
    BY <1>0, <1>3 DEF StartedFits
  <2>2. CASE s # r
    BY <1>0, <2>1, <2>2 DEF SoundStep, OthersWait
  <2>3. CASE s = r
    <3>1. CreatePublish(r)
      BY <1>0, <2>1, <2>3, WhoSteps, StepFrom
    <3> QED
      BY <2>1, <2>3, <3>1 DEF CreatePublish
  <2> QED
    BY <2>2, <2>3
<1> QED
  BY <1>1, <1>2, <1>3

\* Nothing was published at the start.
LEMMA FeedInit == Init => FeedInvariant
BY NodeInit, CauseInit
DEF Init, StoreInit, Blank, Exists, FeedInvariant, StartedFits, Unannounced

\* The invariant of the events.
LEMMA FeedStep ==
    ASSUME OneNode, "partJoined" \notin Ops, ReliableDatabase, FeedInvariant, [Next]_vars
    PROVE  FeedInvariant'
<1>0. /\ NodeInvariant' /\ CauseInvariant' /\ ServiceInvariant
      /\ pc \in [Request -> Label] /\ loc \in [Request -> Local]
  BY NodeStep, CauseStep
  DEF FeedInvariant, NodeInvariant, CreateInvariant, ServiceInvariant, TypeOK, ReliableDatabase
<1>1. ASSUME NEW r \in Request, Arrival(r) \/ Handle(r)
      PROVE  FeedInvariant'
  <2>1. ~Panic(r)
    BY <1>1, NobodyPanics DEF FeedInvariant, ReliableDatabase
  <2>2. ASSUME NEW s \in Request PROVE loc'[s].op \in Ops \cup {None}
    BY <1>0, <1>1, <2>1, AskedStep, ServiceStepSound DEF FeedInvariant, SoundStep, OthersWait
  <2> QED
    BY <1>0, <1>1, <2>2, StartedFitsStep, UnannouncedStep DEF FeedInvariant
<1>2. CASE Environment \/ Idle \/ UNCHANGED vars
  <2>1. UNCHANGED <<sessions, started, announced, pc, loc>>
    BY <1>2
    DEF Environment, MeetingDeleted, StoreAppConfig, UpdateRTKClient, Crash, MayFail, Idle,
        ReliableDatabase, vars, shared, control, storeVars, feedVars
  <2> QED
    BY <1>0, <2>1 DEF FeedInvariant, StartedFits, Unannounced, Exists
<1> QED
  BY <1>1, <1>2 DEF Next

\* While a request is inside, nobody else is about to publish a call_started.
LEMMA InsideStarted ==
    ASSUME OneNode, FeedInvariant, NEW r \in Request, InCritical(r), pc[r] # "c_publish",
           NEW c \in Call, Exists(c)
    PROVE  c \in started
<1> SUFFICES ASSUME NEW s \in Request, pc[s] = "c_publish" PROVE FALSE
  BY DEF FeedInvariant, StartedFits
<1>1. InCritical(s) /\ ServiceInvariant
  BY DEF InCritical, FeedInvariant, NodeInvariant, CreateInvariant
<1> QED
  BY <1>1, OneInside

\* The phase of a call, in the events that were published.
Phase == [c \in Call |-> IF announced[c] # {} THEN "over"
                         ELSE IF c \in started THEN "live" ELSE "silent"]

\* call_started is the first event of a call.
LEMMA FeedStarted ==
    ASSUME FeedInvariant, NEW r \in Request, CreatePublish(r)
    PROVE  \E c \in Call : Feed!CallStarted(c)
<1>1. /\ Fits(r) /\ OwnsCall(r) /\ Created(r) /\ NodeInvariant
      /\ wsParts \in [Call -> SUBSET User] /\ pc[r] = "c_publish"
  BY DEF FeedInvariant, NodeInvariant, CreateInvariant, ServiceInvariant, TypeOK, CreatePublish
<1>2. PICK c \in Call : c = loc[r].call
  BY <1>1 DEF Fits, OpFits, LocalsSet
<1>3. PICK u \in User : u = loc[r].user
  BY <1>1 DEF Fits, OpFits, LocalsSet
<1>4. c \notin started /\ announced[c] = {}
  BY <1>1, <1>2, ActiveUnannounced DEF Fits, OpFits, OwnsCall, Creating, Created
<1>5. /\ started' = started \cup {c}
      /\ wsParts' = [wsParts EXCEPT ![c] = {u}]
      /\ announced' = announced
  BY <1>2, <1>3 DEF CreatePublish
<1>6. Phase[c] = "silent" /\ Phase' = [Phase EXCEPT ![c] = "live"]
  BY <1>2, <1>4, <1>5 DEF Phase
<1>7. Feed!CallStarted(c)
  BY <1>5, <1>6 DEF Phase, Feed!CallStarted
<1> QED
  BY <1>7

\* user_joined and user_left come after call_started and before call_ended.
LEMMA FeedParts ==
    ASSUME OneNode, "partJoined" \notin Ops, FeedInvariant, NEW r \in Request,
           JoinPublish(r) \/ LeavePublish(r)
    PROVE  \E c \in Call : Feed!UserJoinedOrLeft(c)
<1>1. /\ Fits(r) /\ Unannounced(r) /\ pc[r] \in {"j_publish", "l_publish"}
      /\ loc[r] \in Local /\ loc[r].op # "partJoined"
      /\ wsParts \in [Call -> SUBSET User]
  BY ServiceAssumption
  DEF FeedInvariant, NodeInvariant, CreateInvariant, ServiceInvariant, TypeOK, JoinPublish,
      LeavePublish, Op
<1>2. InCritical(r)
  BY <1>1 DEF InCritical
<1>3. PICK c \in Call : c = loc[r].call
  BY <1>1 DEF Fits, OpFits, LocalsSet
<1>4. loc[r].subject = c /\ Exists(c)
  BY <1>1, <1>3 DEF Fits, OpFits, LocalsSet, OnSubject
<1>5. announced[c] = {} /\ c \in started
  BY <1>1, <1>2, <1>4, InsideStarted DEF Unannounced
<1>6. /\ \E list \in SUBSET User : wsParts' = [wsParts EXCEPT ![c] = list]
      /\ UNCHANGED <<started, announced>>
  BY <1>1, <1>3 DEF JoinPublish, LeavePublish, Local
<1>7. Phase[c] = "live" /\ Phase' = Phase
  BY <1>5, <1>6 DEF Phase
<1>8. Feed!UserJoinedOrLeft(c)
  BY <1>6, <1>7 DEF Phase, Feed!UserJoinedOrLeft
<1> QED
  BY <1>8

\* call_ended comes once, after call_started.
LEMMA FeedEnded ==
    ASSUME OneNode, FeedInvariant, NEW r \in Request, EndPublish(r)
    PROVE  \E c \in Call : Feed!CallEnded(c)
<1>1. /\ Fits(r) /\ Unannounced(r) /\ pc[r] = "end_publish"
      /\ announced \in [Call -> SUBSET Request]
  BY DEF FeedInvariant, NodeInvariant, CreateInvariant, ServiceInvariant, TypeOK, EndPublish
<1>2. InCritical(r)
  BY <1>1 DEF InCritical
<1>3. PICK c \in Call : c = loc[r].subject
  BY <1>1 DEF Fits, LocalsSet, OnSubject
<1>4. Exists(c)
  BY <1>1, <1>3 DEF Fits, LocalsSet, OnSubject
<1>5. announced[c] = {} /\ c \in started
  BY <1>1, <1>2, <1>3, <1>4, InsideStarted DEF Unannounced
<1>6. /\ announced' = [announced EXCEPT ![c] = {r}]
      /\ UNCHANGED <<started, wsParts>>
  BY <1>3, <1>5 DEF EndPublish
<1>7. Phase[c] = "live" /\ Phase' = [Phase EXCEPT ![c] = "over"]
  BY <1>1, <1>5, <1>6 DEF Phase
<1>8. Feed!CallEnded(c)
  BY <1>6, <1>7 DEF Phase, Feed!CallEnded
<1> QED
  BY <1>8

\* Every step is a step of the feed or leaves it alone.
LEMMA FeedStepRefines ==
    ASSUME OneNode, "partJoined" \notin Ops, ReliableDatabase, FeedInvariant, [Next]_vars
    PROVE  [Feed!Next]_(Feed!feed)
<1>1. ASSUME UNCHANGED feedVars
      PROVE  UNCHANGED Feed!feed
  BY <1>1 DEF feedVars, Feed!feed
<1>2. ASSUME NEW r \in Request, Arrival(r) \/ Handle(r)
      PROVE  [Feed!Next]_(Feed!feed)
  <2>1. CASE CreatePublish(r)
    BY <2>1, FeedStarted DEF Feed!Next
  <2>2. CASE JoinPublish(r) \/ LeavePublish(r)
    BY <2>2, FeedParts DEF Feed!Next
  <2>3. CASE EndPublish(r)
    BY <2>3, FeedEnded DEF Feed!Next
  <2>4. \/ UNCHANGED feedVars
        \/ CreatePublish(r) \/ JoinPublish(r) \/ LeavePublish(r) \/ EndPublish(r)
    BY <1>2, FeedChange DEF feedVars
  <2> QED
    BY <1>1, <2>1, <2>2, <2>3, <2>4
<1>3. CASE Environment \/ Idle \/ UNCHANGED vars
  BY <1>1, <1>3
  DEF Environment, MeetingDeleted, StoreAppConfig, UpdateRTKClient, Crash, MayFail, Idle,
      ReliableDatabase, vars, shared, feedVars
<1> QED
  BY <1>2, <1>3 DEF Next

\* On one node, without meeting.participantJoined, with a database that
\* answers, processes that live and one app configuration: what the clients are
\* told about a call is one call_started, then lists of participants, then at
\* most one call_ended, and nothing after it.
THEOREM ImplementsFeed ==
    ASSUME OneNode, "partJoined" \notin Ops, ReliableDatabase
    PROVE  Spec => FeedSpec
<1>1. Init => Feed!Init
  BY DEF Init, Feed!Init
<1>2. FeedInvariant /\ [Next]_vars => [Feed!Next]_(Feed!feed)
  BY FeedStepRefines
<1> QED
  BY <1>1, <1>2, FeedInit, FeedStep, PTL DEF Spec, FeedSpec, Feed!Spec
=============================================================================
