---------------------- MODULE CallServiceAgreementProofs ----------------------
(***************************************************************************)
(* Proofs that, on a server with one node whose database and posts answer, *)
(* what the users are shown agrees with the store whenever no handler      *)
(* runs: the posts (PostAgrees) and the events (FeedAgrees).  In between,  *)
(* the handler that holds callMu is the only one that may have changed the *)
(* store and not yet the post or the event; the invariant says at which    *)
(* labels it may have, and what it carries to make up for it.              *)
(***************************************************************************)
EXTENDS CallServiceNodeProofs

USE DEF At, Running, Final, Label, CreateLabel, JoinLabel, LeaveLabel,
        EmitLabel, PartsLabel, SubjectLabel, MeetingLabel, CriticalLabel

-----------------------------------------------------------------------------
(* The windows.                                                            *)

\* JoinCall has added its user, and may have to take it back.
Ahead(r) ==
    \/ pc[r] = "j_undo"
    \/ pc[r] = "j_token" /\ loc[r].added

\* The participants in the table are ahead of those in the post, ...
PartsWindow(r) == pc[r] \in PartsLabel \/ Ahead(r)

\* ... of those in the last event, ...
FeedWindow(r) == PartsWindow(r) \/ pc[r] \in {"j_publish", "l_publish"}

\* ... and the stored end is ahead of the one in the post.
EndWindow(r) ==
    \/ pc[r] \in {"end_getPost", "end_putPost"}
    \/ /\ pc[r] \in PartsLabel \cup {"l_publish"}
       /\ loc[r].op \in {"leave", "partLeft"}
       /\ loc[r].endedNow

PartsShown(c) ==
    Active(c) => \/ posts[c].parts = ParticipantsOf(c)
                 \/ \E r \in Request : loc[r].subject = c /\ PartsWindow(r)

FeedShown(c) ==
    Active(c) /\ c \in started =>
        \/ wsParts[c] = ParticipantsOf(c)
        \/ \E r \in Request : loc[r].subject = c /\ FeedWindow(r)

EndShown(c) ==
    Exists(c) => \/ posts[c].endAt = sessions[c].endat
                 \/ \E r \in Request : loc[r].subject = c /\ EndWindow(r)

\* Only a call in the table has participants.
RowsFit(c) == ParticipantsOf(c) # {} => Exists(c)

\* What a handler in a window knows.  CreateCall: the post it has written, and
\* that its user is alone in the new call.
Carries(r) ==
    /\ pc[r] \in PartsLabel \cup {"j_token", "j_publish", "l_publish"}
       /\ Active(loc[r].subject)
       => loc[r].parts = ParticipantsOf(loc[r].subject)
    /\ Ahead(r) =>
          /\ posts[loc[r].subject].parts = ParticipantsOf(loc[r].subject) \ {loc[r].user}
          /\ wsParts[loc[r].subject] = ParticipantsOf(loc[r].subject) \ {loc[r].user}
    /\ pc[r] = "c_insert" => posts[loc[r].call] = [parts |-> {loc[r].user}, endAt |-> 0]
    /\ pc[r] = "c_publish" => ParticipantsOf(loc[r].call) = {loc[r].user}

AgreeInvariant ==
    /\ PostInvariant
    /\ PostEndInvariant
    /\ FeedInvariant
    /\ \A c \in Call : PartsShown(c) /\ FeedShown(c) /\ EndShown(c) /\ RowsFit(c)
    /\ \A r \in Request : Carries(r)

-----------------------------------------------------------------------------
(* What the steps do to the tables and the posts.                          *)

\* Who writes a call or its participants.
LEMMA TableChange ==
    ASSUME NEW r \in Request, Arrival(r) \/ Handle(r)
    PROVE  \/ UNCHANGED <<sessions, participants>>
           \/ CreateInsert(r) \/ JoinAdd(r) \/ JoinUndo(r) \/ LeaveRemove(r) \/ EndStore(r)
           \/ WebhookAdd(r) \/ WebhookBackfill(r)
<1>1. CASE Handle(r) /\ (CreateSaveMeeting(r) \/ UNCHANGED storeVars)
  BY <1>1 DEF CreateSaveMeeting, SaveChannelMeeting, storeVars
<1>2. CASE Arrival(r)
  BY <1>2, StoreUnchanged DEF storeVars
<1> QED
  BY <1>1, <1>2, StoreUnchanged
  DEF Handle, CreateCall, JoinCall, LeaveCall, EndActiveCall, HandleWebhook

\* A participant row is only inserted for a call in the table.
LEMMA RowsFitStep ==
    ASSUME StoreTypeOK, [StoreNext]_storeVars, NEW c \in Call, RowsFit(c)
    PROVE  RowsFit(c)'
<1>1. CASE ParticipantsOf(c)' \subseteq ParticipantsOf(c)
  BY <1>1, RowsStay DEF RowsFit
<1>2. ASSUME NEW d \in Call, NEW ch \in Channel, NEW u \in User, NEW m \in Meeting,
             CreateCallSession(d, ch, u, m)
      PROVE  RowsFit(c)'
  <2>1. CASE c = d
    BY <1>2, <2>1, StoreAssumption
    DEF CreateCallSession, RowsFit, Exists, StoreTypeOK, NewSession, Session
  <2>2. CASE c # d
    BY <1>1, <1>2, <2>2 DEF CreateCallSession, ParticipantsOf
  <2> QED
    BY <2>1, <2>2
<1>3. ASSUME NEW d \in Call, NEW u \in User, AddCallParticipant(d, u)
      PROVE  RowsFit(c)'
  BY <1>1, <1>3 DEF AddCallParticipant, RowsFit, ParticipantsOf, Active, Exists
<1>4. CASE participants' \subseteq participants
  BY <1>1, <1>4 DEF ParticipantsOf
<1> QED
  BY <1>2, <1>3, <1>4
  DEF StoreNext, RemoveCallParticipant, EndCall, UpdateCallSessionID, SaveChannelMeeting,
      storeVars

-----------------------------------------------------------------------------
(* One request inside.                                                     *)

\* What every step below may rely on.
LEMMA AgreeFacts ==
    ASSUME AgreeInvariant, ReliableStore, "partJoined" \notin Ops
    PROVE  /\ ServiceInvariant /\ TypeOK /\ StoreTypeOK
           /\ pc \in [Request -> Label] /\ loc \in [Request -> Local]
           /\ \A r \in Request : Fits(r) /\ ~Panic(r) /\ loc[r].op # "partJoined"
           /\ \A c \in Call : Exists(c) => posts[c] \in Post
           /\ ~MayFail("storeError") /\ ~MayFail("postError")
           /\ ReliableDatabase
BY NobodyPanics, ServiceAssumption
DEF AgreeInvariant, PostInvariant, PostFits, PostEndInvariant, CreateInvariant,
    ServiceInvariant, TypeOK, ReliableStore, ReliableDatabase, MayFail, Op

\* A request in a window is inside.
LEMMA WindowInside ==
    ASSUME NEW r \in Request, loc[r].op # "partJoined",
           FeedWindow(r) \/ EndWindow(r) \/ pc[r] \in {"c_insert", "c_publish"}
    PROVE  InCritical(r)
BY DEF FeedWindow, PartsWindow, EndWindow, Ahead, InCritical

\* While one request is inside, another changes nothing.
LEMMA OthersStill ==
    ASSUME OneNode, "partJoined" \notin Ops, ReliableStore, AgreeInvariant,
           NEW a \in Request, Arrival(a) \/ Handle(a), NEW s \in Request, s # a, InCritical(s)
    PROVE  UNCHANGED shared
BY AgreeFacts, InsideKeeps

\* What a request carries stays true while others run.
LEMMA CarriesStays ==
    ASSUME OneNode, "partJoined" \notin Ops, ReliableStore, AgreeInvariant,
           NEW a \in Request, Arrival(a) \/ Handle(a), NEW s \in Request, s # a
    PROVE  Carries(s)'
<1>1. pc'[s] = pc[s] /\ loc'[s] = loc[s] /\ Carries(s) /\ loc[s].op # "partJoined"
  BY AgreeFacts, ServiceStepSound DEF SoundStep, OthersWait, AgreeInvariant
<1>2. CASE InCritical(s)
  <2>1. UNCHANGED <<sessions, participants, posts, wsParts>>
    BY <1>2, OthersStill DEF shared, storeVars, feedVars
  <2> QED
    BY <1>1, <2>1 DEF Carries, Ahead, Active, Exists, ParticipantsOf
<1>3. CASE ~InCritical(s)
  BY <1>1, <1>3 DEF Carries, Ahead, InCritical
<1> QED
  BY <1>2, <1>3

\* The request that runs has the mutex, or nobody has.
Alone(r) == \A s \in Request \ {r} : ~InCritical(s)

\* What the users are shown of a call whose window is not open agrees with the
\* store.
LEMMA Settled ==
    ASSUME AgreeInvariant, ReliableStore, "partJoined" \notin Ops, NEW r \in Request, Alone(r),
           NEW c \in Call
    PROVE  /\ Active(c) /\ ~(loc[r].subject = c /\ PartsWindow(r)) =>
                 posts[c].parts = ParticipantsOf(c)
           /\ Active(c) /\ c \in started /\ ~(loc[r].subject = c /\ FeedWindow(r)) =>
                 wsParts[c] = ParticipantsOf(c)
           /\ Exists(c) /\ ~(loc[r].subject = c /\ EndWindow(r)) =>
                 posts[c].endAt = sessions[c].endat
<1>1. ASSUME NEW s \in Request, FeedWindow(s) \/ EndWindow(s)
      PROVE  s = r
  BY <1>1, AgreeFacts, WindowInside DEF Alone
<1>2. \A s \in Request : PartsWindow(s) => FeedWindow(s)
  BY DEF FeedWindow
<1> QED
  BY <1>1, <1>2 DEF AgreeInvariant, PartsShown, FeedShown, EndShown

\* What a step leaves alone is shown as before.
LEMMA ShownKept ==
    ASSUME AgreeInvariant, ReliableStore, "partJoined" \notin Ops, NEW r \in Request, Alone(r),
           NEW c \in Call,
           ~(loc[r].subject = c /\ (FeedWindow(r) \/ EndWindow(r))),
           Exists(c)' <=> Exists(c), sessions'[c].endat = sessions[c].endat,
           ParticipantsOf(c)' = ParticipantsOf(c), posts'[c] = posts[c],
           wsParts'[c] = wsParts[c], c \in started' <=> c \in started
    PROVE  PartsShown(c)' /\ FeedShown(c)' /\ EndShown(c)'
<1>1. ~(loc[r].subject = c /\ PartsWindow(r))
  BY DEF FeedWindow
<1>2. Active(c)' <=> Active(c)
  BY DEF Active
<1> QED
  BY <1>1, <1>2, Settled DEF PartsShown, FeedShown, EndShown

-----------------------------------------------------------------------------
(* What a request in a window carries.                                     *)

\* JoinCall, once it has added its user.
LEMMA JoinCarries ==
    ASSUME OneNode, "partJoined" \notin Ops, ReliableStore, AgreeInvariant, NEW r \in Request,
           JoinAdd(r), Alone(r), pc'[r] = "j_token"
    PROVE  Carries(r)'
<1>1. /\ Fits(r) /\ loc \in [Request -> Local] /\ pc[r] = "j_add" /\ Working(r) /\ StoreTypeOK
      /\ ~MayFail("storeError") /\ pc \in [Request -> Label]
  BY AgreeFacts DEF JoinAdd, AgreeInvariant, PostEndInvariant, NodeInvariant
<1>2. PICK c \in Call, u \in User : c = loc[r].call /\ u = loc[r].user
  BY <1>1 DEF Fits, OpFits, LocalsSet
<1>3. loc[r].subject = c /\ Exists(c) /\ Active(c)
  BY <1>1, <1>2 DEF Fits, OpFits, LocalsSet, OnSubject, Working
<1>4. posts[c].parts = ParticipantsOf(c)
  BY <1>1, <1>3, Settled DEF PartsWindow, Ahead
<1>5. wsParts[c] = ParticipantsOf(c)
  <2>1. c \in started
    BY <1>1, <1>3, InsideStarted DEF InCritical, AgreeInvariant
  <2> QED
    BY <1>1, <1>3, <2>1, Settled DEF FeedWindow, PartsWindow, Ahead
<1>6. /\ participants' = participants \cup {<<c, u>>}
      /\ UNCHANGED <<posts, wsParts>>
      /\ loc' = [loc EXCEPT ![r].parts = ParticipantsOf(c) \cup {u},
                            ![r].added = u \notin ParticipantsOf(c)]
  BY <1>1, <1>2, <1>3 DEF JoinAdd, AddCallParticipant, feedVars, Return
<1>7. /\ loc'[r].subject = c /\ loc'[r].user = u
      /\ loc'[r].parts = ParticipantsOf(c) \cup {u}
      /\ loc'[r].added <=> u \notin ParticipantsOf(c)
  BY <1>1, <1>2, <1>3, <1>6 DEF Local
<1>8. ParticipantsOf(c)' = ParticipantsOf(c) \cup {u}
  BY <1>6 DEF ParticipantsOf
<1>9. loc'[r].parts = ParticipantsOf(loc[r].subject)'
  BY <1>7, <1>8 DEF ParticipantsOf
<1>10. Ahead(r)' => /\ posts'[c].parts = ParticipantsOf(c)' \ {u}
                    /\ wsParts'[c] = ParticipantsOf(c)' \ {u}
  BY <1>4, <1>5, <1>6, <1>7, <1>8 DEF Ahead
<1>11. Ahead(r)' =>
          /\ posts'[c].parts = ParticipantsOf(loc[r].subject)' \ {loc'[r].user}
          /\ wsParts'[c] = ParticipantsOf(loc[r].subject)' \ {loc'[r].user}
  BY <1>7, <1>10 DEF ParticipantsOf
<1> QED
  BY <1>7, <1>9, <1>11 DEF Carries

\* LeaveCall, once it has removed its user.
LEMMA LeaveCarries ==
    ASSUME "partJoined" \notin Ops, ReliableStore, AgreeInvariant, NEW r \in Request,
           LeaveRemove(r), pc'[r] = "parts_get"
    PROVE  Carries(r)'
<1>1. /\ Fits(r) /\ loc \in [Request -> Local] /\ pc[r] = "l_remove" /\ StoreTypeOK
      /\ ~MayFail("storeError") /\ Working(r)
  BY AgreeFacts DEF LeaveRemove, AgreeInvariant, PostEndInvariant, NodeInvariant
<1>2. PICK c \in Call, u \in User : c = loc[r].call /\ u = loc[r].user
  BY <1>1 DEF Fits, OpFits, LocalsSet
<1>3. loc[r].subject = c /\ Active(c)
  BY <1>1, <1>2 DEF Fits, OpFits, LocalsSet, OnSubject, Working
<1>4. /\ participants' = participants \ {<<c, u>>}
      /\ loc' = [loc EXCEPT ![r].parts = {v \in ParticipantsOf(c) : v # u},
                            ![r].endedNow = Active(c) /\ IsLastParticipant(c, u)]
  BY <1>1, <1>2, <1>3 DEF LeaveRemove, RemoveCallParticipant
<1>5. loc'[r].subject = c /\ loc'[r].parts = {v \in ParticipantsOf(c) : v # u}
  BY <1>1, <1>3, <1>4 DEF Local
<1>6. ParticipantsOf(c)' = {v \in ParticipantsOf(c) : v # u}
  BY <1>4 DEF ParticipantsOf
<1> QED
  BY <1>5, <1>6 DEF Carries, Ahead

\* CreateCall, once it has written its post and once it has inserted its row.
LEMMA CreateCarries ==
    ASSUME "partJoined" \notin Ops, ReliableStore, AgreeInvariant, NEW r \in Request,
           \/ CreatePost(r) /\ pc'[r] = "c_insert"
           \/ CreateInsert(r) /\ pc'[r] = "c_publish"
    PROVE  Carries(r)'
<1>1. /\ Fits(r) /\ loc \in [Request -> Local] /\ pc[r] \in {"c_post", "c_insert"}
      /\ ~MayFail("storeError") /\ TypeOK /\ pc \in [Request -> Label]
  BY AgreeFacts DEF CreatePost, CreateInsert
<1>2. PICK c \in Call, u \in User : c = loc[r].call /\ u = loc[r].user
  BY <1>1 DEF Fits, OpFits, LocalsSet
<1>3. CASE CreatePost(r) /\ pc'[r] = "c_insert"
  BY <1>1, <1>2, <1>3 DEF CreatePost, Return, Carries, Ahead, TypeOK
<1>4. CASE CreateInsert(r) /\ pc'[r] = "c_publish"
  <2>1. ~Exists(c) /\ participants' = participants \cup {<<c, u>>} /\ UNCHANGED loc
    BY <1>1, <1>2, <1>4 DEF CreateInsert, CreateCallSession, Goto
  <2>2. ParticipantsOf(c) = {}
    BY <2>1 DEF AgreeInvariant, RowsFit
  <2>3. ParticipantsOf(c)' = {u}
    BY <2>1, <2>2 DEF ParticipantsOf
  <2> QED
    BY <1>2, <1>4, <2>1, <2>3 DEF Carries, Ahead
<1> QED
  BY <1>3, <1>4

\* A handler carries on what it carries.
LEMMA CarriesOn ==
    ASSUME "partJoined" \notin Ops, ReliableStore, AgreeInvariant, NEW r \in Request,
           JoinToken(r) \/ ReadParts(r) \/ WriteParts(r), pc'[r] \notin Final
    PROVE  Carries(r)'
<1>1. /\ loc \in [Request -> Local] /\ Carries(r) /\ pc \in [Request -> Label]
      /\ loc[r].op # "partJoined" /\ OpFits(pc[r], loc[r].op)
  BY AgreeFacts DEF AgreeInvariant, Fits
<1>2. CASE JoinToken(r)
  <2>1. /\ pc[r] = "j_token" /\ UNCHANGED <<loc, shared>>
        /\ pc'[r] # "parts_get" => pc'[r] = "j_undo" /\ loc[r].added
    BY <1>1, <1>2 DEF JoinToken, Return, Goto
  <2> QED
    BY <1>1, <2>1
    DEF Carries, Ahead, Active, Exists, ParticipantsOf, shared, storeVars, feedVars
<1>3. CASE ReadParts(r) \/ WriteParts(r)
  <2>1. PICK post : loc' = [loc EXCEPT ![r].post = post] \/ loc' = loc
    BY <1>3 DEF ReadParts, WriteParts, ReadPost, WritePost
  <2>2. loc'[r].subject = loc[r].subject /\ loc'[r].parts = loc[r].parts
    BY <1>1, <2>1 DEF Local
  <2>3. /\ pc[r] \in PartsLabel
        /\ pc'[r] \in {"parts_put", "j_publish", "l_publish"}
        /\ UNCHANGED storeVars
    BY <1>1, <1>3
    DEF ReadParts, WriteParts, ReadPost, WritePost, Goto, AfterParticipants, OpFits, shared
  <2> QED
    BY <1>1, <2>2, <2>3 DEF Carries, Ahead, Active, Exists, ParticipantsOf, storeVars
<1> QED
  BY <1>2, <1>3

\* A request that opens a window knows what it has to publish.
LEMMA CarriesStep ==
    ASSUME OneNode, "partJoined" \notin Ops, ReliableStore, AgreeInvariant, NEW r \in Request,
           Arrival(r) \/ Handle(r), Alone(r)
    PROVE  Carries(r)'
<1>1. /\ ServiceInvariant /\ ~Panic(r) /\ loc[r].op # "partJoined"
      /\ OpFits(pc[r], loc[r].op)
  BY AgreeFacts DEF Fits
<1>2. ~WebhookAdd(r) /\ ~WebhookBackfill(r)
  BY <1>1 DEF WebhookAdd, WebhookBackfill, OpFits
<1>3. CASE pc'[r] \in {"parts_get", "parts_put", "j_publish", "l_publish", "j_token",
                       "j_undo", "c_insert", "c_publish"}
  BY <1>1, <1>2, <1>3, StepTo, JoinCarries, LeaveCarries, CreateCarries, CarriesOn
<1>4. CASE pc'[r] \notin {"parts_get", "parts_put", "j_publish", "l_publish", "j_token",
                          "j_undo", "c_insert", "c_publish"}
  BY <1>4 DEF Carries, Ahead
<1> QED
  BY <1>3, <1>4

-----------------------------------------------------------------------------
(* What is shown, after each step that changes it or the store.            *)

\* The participants of another call stay.
LEMMA OtherRow ==
    ASSUME NEW c \in Call, NEW d \in Call, c # d, NEW u \in User,
           \/ participants' = participants \cup {<<d, u>>}
           \/ participants' = participants \ {<<d, u>>}
           \/ participants' = participants
    PROVE  ParticipantsOf(c)' = ParticipantsOf(c)
BY DEF ParticipantsOf

\* CreateCall: the post, the row, and the event.
LEMMA CreateShows ==
    ASSUME "partJoined" \notin Ops, ReliableStore, AgreeInvariant, NEW r \in Request, Alone(r),
           CreatePost(r) \/ CreateInsert(r) \/ CreateDeletePost(r) \/ CreatePublish(r),
           NEW c \in Call
    PROVE  PartsShown(c)' /\ FeedShown(c)' /\ EndShown(c)'
<1>1. /\ Fits(r) /\ Carries(r) /\ OwnsCall(r) /\ TypeOK /\ ~MayFail("storeError")
      /\ pc[r] \in {"c_post", "c_insert", "c_deletePost", "c_publish"}
      /\ pc[r] = "c_deletePost" => ~Exists(loc[r].call)
  BY AgreeFacts
  DEF AgreeInvariant, PostInvariant, CreateInvariant, CreatePost, CreateInsert,
      CreateDeletePost, CreatePublish
<1>2. PICK d \in Call, u \in User : d = loc[r].call /\ u = loc[r].user
  BY <1>1 DEF Fits, OpFits, LocalsSet
<1>3. d \notin started /\ ~FeedWindow(r) /\ ~EndWindow(r)
      /\ (pc[r] \in {"c_post", "c_insert"} => ~Exists(d))
  BY <1>1, <1>2 DEF OwnsCall, Creating, Fits, OpFits, FeedWindow, PartsWindow, Ahead, EndWindow
<1>4. CASE CreatePost(r) \/ CreateDeletePost(r)
  <2>1. UNCHANGED <<sessions, participants, started, wsParts>>
    BY <1>4 DEF CreatePost, CreateDeletePost, storeVars, feedVars
  <2>2. CASE c = d
    BY <1>1, <1>2, <1>3, <1>4, <2>1, <2>2
    DEF CreatePost, CreateDeletePost, PartsShown, FeedShown, EndShown, Active, Exists
  <2>3. CASE c # d
    <3>1. posts'[c] = posts[c]
      BY <1>1, <1>2, <1>4, <2>3 DEF CreatePost, CreateDeletePost, TypeOK
    <3> QED
      BY <1>3, <2>1, <3>1, ShownKept DEF Exists, ParticipantsOf
  <2> QED
    BY <2>2, <2>3
<1>5. CASE CreateInsert(r)
  <2>1. UNCHANGED <<posts, started, wsParts>>
    BY <1>5 DEF CreateInsert, feedVars
  <2>2. CASE UNCHANGED storeVars
    BY <1>3, <2>1, <2>2, ShownKept DEF storeVars, Exists, ParticipantsOf
  <2>3. CASE \E ch, m : /\ sessions' = [sessions EXCEPT ![d] = NewSession(ch, u, m)]
                        /\ participants' = participants \cup {<<d, u>>}
    <3>1. CASE c = d
      <4>1. ParticipantsOf(c) = {} /\ ~Exists(c)
        BY <1>3, <1>5, <3>1 DEF AgreeInvariant, RowsFit, CreateInsert
      <4>2. ParticipantsOf(c)' = {u}
        BY <2>3, <3>1, <4>1 DEF ParticipantsOf
      <4>3. sessions'[c].endat = 0
        BY <1>1, <2>3, <3>1 DEF NewSession, TypeOK, StoreTypeOK
      <4>4. posts'[c] = [parts |-> {u}, endAt |-> 0]
        BY <1>2, <1>1, <1>5, <2>1, <3>1 DEF Carries, CreateInsert
      <4> QED
        BY <1>3, <2>1, <3>1, <4>2, <4>3, <4>4 DEF PartsShown, FeedShown, EndShown
    <3>2. CASE c # d
      <4>1. sessions'[c] = sessions[c]
        BY <1>1, <2>3, <3>2 DEF TypeOK, StoreTypeOK
      <4>2. ParticipantsOf(c)' = ParticipantsOf(c)
        BY <2>3, <3>2, OtherRow
      <4> QED
        BY <1>3, <2>1, <4>1, <4>2, ShownKept DEF Exists
    <3> QED
      BY <3>1, <3>2
  <2> QED
    BY <1>1, <1>2, <1>5, <2>2, <2>3 DEF CreateInsert, CreateCallSession
<1>6. CASE CreatePublish(r)
  <2>1. /\ UNCHANGED <<sessions, participants, posts>>
        /\ started' = started \cup {d}
        /\ wsParts' = [wsParts EXCEPT ![d] = {u}]
        /\ ParticipantsOf(d) = {u}
    BY <1>1, <1>2, <1>6 DEF CreatePublish, storeVars, Carries
  <2>2. CASE c = d
    <3>1. wsParts'[c] = ParticipantsOf(c)'
      BY <1>1, <2>1, <2>2 DEF TypeOK, ParticipantsOf
    <3>2. /\ Active(c)' => posts'[c].parts = ParticipantsOf(c)'
          /\ Exists(c)' => posts'[c].endAt = sessions'[c].endat
      BY <1>3, <2>1, Settled DEF FeedWindow, Active, Exists, ParticipantsOf
    <3> QED
      BY <3>1, <3>2 DEF PartsShown, FeedShown, EndShown
  <2>3. CASE c # d
    <3>1. wsParts'[c] = wsParts[c] /\ (c \in started' <=> c \in started)
      BY <1>1, <2>1, <2>3 DEF TypeOK
    <3> QED
      BY <1>3, <2>1, <3>1, ShownKept DEF Exists, ParticipantsOf
  <2> QED
    BY <2>2, <2>3
<1> QED
  BY <1>4, <1>5, <1>6

\* The steps that work on the call of the handler.
OnCall(r) ==
    \/ JoinAdd(r) \/ JoinToken(r) \/ JoinUndo(r) \/ JoinPublish(r)
    \/ LeaveRemove(r) \/ LeavePublish(r) \/ ReadParts(r) \/ WriteParts(r)
    \/ EndStore(r) \/ ReadEnd(r) \/ WriteEnd(r) \/ EndPublish(r)

\* What they work on, and with.
LEMMA OnCallFacts ==
    ASSUME "partJoined" \notin Ops, ReliableStore, AgreeInvariant, NEW r \in Request, OnCall(r)
    PROVE  /\ TypeOK /\ Fits(r) /\ Carries(r) /\ Working(r) /\ Joined(r) /\ Ending(r)
           /\ PostRead(r) /\ Ending(r)
           /\ loc[r].op # "partJoined"
           /\ ~MayFail("storeError") /\ ~MayFail("postError")
           /\ pc[r] \in {"j_add", "j_token", "j_undo", "j_publish", "l_remove", "l_publish",
                         "parts_get", "parts_put", "end_store", "end_getPost",
                         "end_putPost", "end_publish"}
           /\ loc[r].subject \in Call /\ Exists(loc[r].subject)
           /\ posts[loc[r].subject] \in Post
           /\ sessions[loc[r].subject] \in Session
           /\ pc[r] \in {"j_add", "j_token", "j_undo", "j_publish", "l_remove", "l_publish",
                         "parts_get", "parts_put"}
              => loc[r].call = loc[r].subject /\ loc[r].user \in User
<1>1. pc[r] \in {"j_add", "j_token", "j_undo", "j_publish", "l_remove", "l_publish",
                 "parts_get", "parts_put", "end_store", "end_getPost", "end_putPost",
                 "end_publish"}
  BY DEF OnCall, JoinAdd, JoinToken, JoinUndo, JoinPublish, LeaveRemove, LeavePublish,
         ReadParts, WriteParts, EndStore, ReadEnd, WriteEnd, EndPublish, ReadPost, WritePost
<1>2. TypeOK /\ Fits(r) /\ Carries(r) /\ Working(r) /\ Joined(r) /\ Ending(r) /\ PostRead(r)
  BY AgreeFacts DEF AgreeInvariant, PostEndInvariant, NodeInvariant
<1>3. loc[r].subject \in Call /\ Exists(loc[r].subject)
  BY <1>1, <1>2 DEF Fits, LocalsSet, OnSubject
<1>4. sessions[loc[r].subject] \in Session
  BY <1>2, <1>3 DEF TypeOK, StoreTypeOK, Exists
<1>5. pc[r] \in {"j_add", "j_token", "j_undo", "j_publish", "l_remove", "l_publish",
                 "parts_get", "parts_put"}
      => loc[r].call = loc[r].subject /\ loc[r].user \in User
  BY <1>2 DEF Fits, OpFits, LocalsSet, OnSubject
<1> QED
  BY <1>1, <1>2, <1>3, <1>4, <1>5, AgreeFacts

\* They leave every other call alone.
LEMMA OtherCallShown ==
    ASSUME "partJoined" \notin Ops, ReliableStore, AgreeInvariant, NEW r \in Request, Alone(r),
           OnCall(r), NEW c \in Call, c # loc[r].subject
    PROVE  PartsShown(c)' /\ FeedShown(c)' /\ EndShown(c)'
<1>0. PICK d \in Call : d = loc[r].subject
  BY OnCallFacts
<1>1. TypeOK /\ ~MayFail("storeError") /\ c # d
  BY <1>0, OnCallFacts
<1>2. CASE JoinAdd(r) \/ JoinUndo(r) \/ LeaveRemove(r)
  <2>1. PICK u \in User : u = loc[r].user
    BY <1>2, OnCallFacts DEF JoinAdd, JoinUndo, LeaveRemove
  <2>2. loc[r].call = d
    BY <1>0, <1>2, OnCallFacts DEF JoinAdd, JoinUndo, LeaveRemove
  <2>3. /\ \/ participants' = participants \cup {<<d, u>>}
           \/ participants' = participants \ {<<d, u>>}
           \/ participants' = participants
        /\ \/ sessions' = sessions
           \/ sessions' = [sessions EXCEPT ![d].endat = r]
        /\ UNCHANGED <<posts, started, wsParts>>
    BY <1>1, <1>2, <2>1, <2>2
    DEF JoinAdd, JoinUndo, LeaveRemove, AddCallParticipant, RemoveCallParticipant, feedVars
  <2>4. ParticipantsOf(c)' = ParticipantsOf(c)
    BY <1>1, <2>3, OtherRow
  <2>5. sessions'[c] = sessions[c]
    BY <1>1, <2>3 DEF TypeOK, StoreTypeOK
  <2> QED
    BY <2>3, <2>4, <2>5, ShownKept DEF Exists
<1>3. CASE EndStore(r)
  <2>1. sessions' = sessions \/ sessions' = [sessions EXCEPT ![d].endat = r]
    BY <1>0, <1>1, <1>3 DEF EndStore, EndCall
  <2>2. sessions'[c] = sessions[c]
    BY <1>1, <2>1 DEF TypeOK, StoreTypeOK
  <2>3. UNCHANGED <<participants, posts, started, wsParts>>
    BY <1>1, <1>3 DEF EndStore, EndCall, feedVars
  <2> QED
    BY <2>2, <2>3, ShownKept DEF Exists, ParticipantsOf
<1>4. CASE JoinPublish(r) \/ LeavePublish(r)
  <2>1. loc[r].call = d
    BY <1>0, <1>4, OnCallFacts DEF JoinPublish, LeavePublish
  <2>2. /\ UNCHANGED <<sessions, participants, posts, started>>
        /\ wsParts'[c] = wsParts[c]
    BY <1>1, <1>4, <2>1 DEF JoinPublish, LeavePublish, TypeOK, storeVars
  <2> QED
    BY <2>2, ShownKept DEF Exists, ParticipantsOf
<1>5. CASE WriteParts(r) \/ WriteEnd(r)
  <2>1. UNCHANGED <<sessions, participants, started, wsParts>> /\ posts'[c] = posts[c]
    BY <1>0, <1>1, <1>5 DEF WriteParts, WriteEnd, WritePost, TypeOK, storeVars, feedVars
  <2> QED
    BY <2>1, ShownKept DEF Exists, ParticipantsOf
<1>6. CASE JoinToken(r) \/ ReadParts(r) \/ ReadEnd(r) \/ EndPublish(r)
  <2>1. UNCHANGED <<sessions, participants, posts, started, wsParts>>
    BY <1>6
    DEF JoinToken, ReadParts, ReadEnd, ReadPost, EndPublish, shared, storeVars, feedVars
  <2> QED
    BY <2>1, ShownKept DEF Exists, ParticipantsOf
<1> QED
  BY <1>2, <1>3, <1>4, <1>5, <1>6 DEF OnCall

\* JoinCall adds its user ...
LEMMA JoinAddShown ==
    ASSUME "partJoined" \notin Ops, ReliableStore, AgreeInvariant, NEW r \in Request, Alone(r),
           JoinAdd(r), NEW c \in Call, c = loc[r].subject
    PROVE  PartsShown(c)' /\ FeedShown(c)' /\ EndShown(c)'
<1>1. /\ TypeOK /\ pc[r] = "j_add" /\ Active(c) /\ ~MayFail("storeError") /\ loc[r].call = c
  BY OnCallFacts DEF OnCall, Working, JoinAdd
<1>2. PICK u \in User : u = loc[r].user
  BY <1>1, OnCallFacts DEF OnCall
<1>3. /\ participants' = participants \cup {<<c, u>>}
      /\ UNCHANGED <<sessions, posts, started, wsParts>>
      /\ pc' = [pc EXCEPT ![r] = "j_token"]
      /\ loc' = [loc EXCEPT ![r].parts = ParticipantsOf(c) \cup {u},
                            ![r].added = u \notin ParticipantsOf(c)]
  BY <1>1, <1>2 DEF JoinAdd, AddCallParticipant, feedVars, Goto
<1>4. /\ pc'[r] = "j_token" /\ loc'[r].subject = c
      /\ loc'[r].added <=> u \notin ParticipantsOf(c)
  BY <1>1, <1>3 DEF TypeOK, Local
<1>5. EndShown(c)'
  BY <1>1, <1>3, Settled DEF EndWindow, EndShown, Exists
<1>6. CASE u \in ParticipantsOf(c)
  <2>1. participants' = participants
    BY <1>3, <1>6 DEF ParticipantsOf
  <2> QED
    BY <1>1, <1>3, <1>5, <2>1, Settled
    DEF PartsShown, FeedShown, FeedWindow, PartsWindow, Ahead, Active, Exists, ParticipantsOf
<1>7. CASE u \notin ParticipantsOf(c)
  BY <1>4, <1>5, <1>7 DEF PartsShown, FeedShown, FeedWindow, PartsWindow, Ahead
<1> QED
  BY <1>6, <1>7

\* ... goes on to tell it, or to take it back, ...
LEMMA JoinTokenShown ==
    ASSUME "partJoined" \notin Ops, ReliableStore, AgreeInvariant, NEW r \in Request, Alone(r),
           JoinToken(r), NEW c \in Call, c = loc[r].subject
    PROVE  PartsShown(c)' /\ FeedShown(c)' /\ EndShown(c)'
<1>1. TypeOK /\ pc[r] = "j_token"
  BY OnCallFacts DEF OnCall, JoinToken
<1>2. UNCHANGED <<sessions, participants, posts, started, wsParts>>
  BY DEF JoinToken, shared, storeVars, feedVars
<1>3. CASE loc[r].added
  <2>1. pc'[r] \in {"parts_get", "j_undo"} /\ loc'[r].subject = c /\ loc'[r].added
    BY <1>1, <1>3 DEF JoinToken, Goto, TypeOK
  <2>2. EndShown(c)'
    BY <1>1, <1>2, Settled DEF EndWindow, EndShown, Exists
  <2> QED
    BY <2>1, <2>2 DEF PartsShown, FeedShown, FeedWindow, PartsWindow, Ahead
<1>4. CASE ~loc[r].added
  BY <1>1, <1>2, <1>4, ShownKept
  DEF FeedWindow, PartsWindow, EndWindow, Ahead, Exists, ParticipantsOf
<1> QED
  BY <1>3, <1>4

\* ... and takes it back, which may end the call.
LEMMA JoinUndoShown ==
    ASSUME "partJoined" \notin Ops, ReliableStore, AgreeInvariant, NEW r \in Request, Alone(r),
           JoinUndo(r), NEW c \in Call, c = loc[r].subject
    PROVE  PartsShown(c)' /\ FeedShown(c)' /\ EndShown(c)'
<1>1. /\ TypeOK /\ pc[r] = "j_undo" /\ Active(c) /\ Carries(r) /\ ~MayFail("storeError")
      /\ loc[r].call = c /\ sessions[c] \in Session
  BY OnCallFacts DEF OnCall, Joined, JoinUndo
<1>2. PICK u \in User : u = loc[r].user
  BY <1>1, OnCallFacts DEF OnCall
<1>3. /\ participants' = participants \ {<<c, u>>}
      /\ UNCHANGED <<posts, started, wsParts>>
  BY <1>1, <1>2 DEF JoinUndo, RemoveCallParticipant, feedVars
<1>4. CASE IsLastParticipant(c, u)
  <2>1. /\ sessions' = [sessions EXCEPT ![c].endat = r]
        /\ pc' = [pc EXCEPT ![r] = "end_getPost"] /\ loc' = loc
    BY <1>1, <1>2, <1>4 DEF JoinUndo, RemoveCallParticipant, Goto
  <2>2. sessions'[c].endat = r /\ pc'[r] = "end_getPost" /\ loc'[r].subject = c
    BY <1>1, <2>1 DEF TypeOK, StoreTypeOK, Session
  <2>3. ~Active(c)'
    BY <2>2, StoreAssumption, ServiceAssumption DEF Active
  <2> QED
    BY <2>2, <2>3 DEF PartsShown, FeedShown, EndShown, EndWindow
<1>5. CASE ~IsLastParticipant(c, u)
  <2>1. sessions' = sessions
    BY <1>1, <1>2, <1>5 DEF JoinUndo, RemoveCallParticipant
  <2>2. ParticipantsOf(c)' = ParticipantsOf(c) \ {u}
    BY <1>3 DEF ParticipantsOf
  <2>3. posts[c].parts = ParticipantsOf(c) \ {u} /\ wsParts[c] = ParticipantsOf(c) \ {u}
    BY <1>1, <1>2 DEF Carries, Ahead
  <2>4. EndShown(c)'
    BY <1>1, <1>3, <2>1, Settled DEF EndWindow, EndShown, Exists
  <2> QED
    BY <1>3, <2>2, <2>3, <2>4 DEF PartsShown, FeedShown
<1> QED
  BY <1>4, <1>5

\* LeaveCall removes its user, which may end the call.
LEMMA LeaveRemoveShown ==
    ASSUME "partJoined" \notin Ops, ReliableStore, AgreeInvariant, NEW r \in Request, Alone(r),
           LeaveRemove(r), NEW c \in Call, c = loc[r].subject
    PROVE  PartsShown(c)' /\ FeedShown(c)' /\ EndShown(c)'
<1>1. /\ TypeOK /\ Fits(r) /\ pc[r] = "l_remove" /\ Active(c) /\ ~MayFail("storeError")
      /\ loc[r].call = c /\ sessions[c] \in Session /\ loc[r].op \in {"leave", "partLeft"}
  BY OnCallFacts DEF OnCall, Working, LeaveRemove, Fits, OpFits
<1>2. PICK u \in User : u = loc[r].user
  BY <1>1, OnCallFacts DEF OnCall
<1>3. PICK parts :
         /\ loc' = [loc EXCEPT ![r].parts = parts,
                               ![r].endedNow = Active(c) /\ IsLastParticipant(c, u)]
         /\ pc' = [pc EXCEPT ![r] = "parts_get"]
         /\ UNCHANGED <<posts, started, wsParts>>
  BY <1>1, <1>2 DEF LeaveRemove, feedVars, Goto
<1>4. /\ pc'[r] = "parts_get" /\ loc'[r].subject = c /\ loc'[r].op = loc[r].op
      /\ loc'[r].endedNow <=> Active(c) /\ IsLastParticipant(c, u)
  BY <1>1, <1>3 DEF TypeOK, Local
<1>5. PartsShown(c)' /\ FeedShown(c)'
  BY <1>4 DEF PartsShown, FeedShown, FeedWindow, PartsWindow
<1>6. CASE IsLastParticipant(c, u)
  BY <1>1, <1>4, <1>5, <1>6 DEF EndShown, EndWindow
<1>7. CASE ~IsLastParticipant(c, u)
  <2>1. sessions' = sessions
    BY <1>1, <1>2, <1>7 DEF LeaveRemove, RemoveCallParticipant
  <2> QED
    BY <1>1, <1>3, <1>5, <2>1, Settled DEF EndShown, EndWindow, Exists
<1> QED
  BY <1>6, <1>7

\* EndCall stores the end.
LEMMA EndStoreShown ==
    ASSUME "partJoined" \notin Ops, ReliableStore, AgreeInvariant, NEW r \in Request, Alone(r),
           EndStore(r), NEW c \in Call, c = loc[r].subject
    PROVE  PartsShown(c)' /\ FeedShown(c)' /\ EndShown(c)'
<1>1. /\ TypeOK /\ pc[r] = "end_store" /\ Active(c) /\ ~MayFail("storeError")
      /\ sessions[c] \in Session
  BY OnCallFacts DEF OnCall, Working, EndStore
<1>2. /\ sessions' = [sessions EXCEPT ![c].endat = r]
      /\ pc' = [pc EXCEPT ![r] = "end_getPost"] /\ loc' = loc
  BY <1>1 DEF EndStore, EndCall, Goto
<1>3. sessions'[c].endat = r /\ pc'[r] = "end_getPost" /\ loc'[r].subject = c
  BY <1>1, <1>2 DEF TypeOK, StoreTypeOK, Session
<1>4. ~Active(c)'
  BY <1>3, StoreAssumption, ServiceAssumption DEF Active
<1> QED
  BY <1>3, <1>4 DEF PartsShown, FeedShown, EndShown, EndWindow

\* The post gets the participants that the handler carries ...
LEMMA PartsStepShown ==
    ASSUME "partJoined" \notin Ops, ReliableStore, AgreeInvariant, NEW r \in Request, Alone(r),
           ReadParts(r) \/ WriteParts(r), NEW c \in Call, c = loc[r].subject
    PROVE  PartsShown(c)' /\ FeedShown(c)' /\ EndShown(c)'
<1>1. /\ TypeOK /\ Fits(r) /\ Carries(r) /\ PostRead(r) /\ pc[r] \in PartsLabel
      /\ ~MayFail("postError") /\ posts[c] \in Post /\ Exists(c)
      /\ loc[r].op \in {"join", "leave", "partLeft"}
  BY OnCallFacts DEF OnCall, ReadParts, WriteParts, ReadPost, WritePost, Fits, OpFits
<1>2. posts[c] # None
  BY <1>1, ServiceAssumption
<1>3. PICK post : loc' = [loc EXCEPT ![r].post = post]
  BY <1>1, <1>2 DEF ReadParts, WriteParts, ReadPost, WritePost
<1>4. /\ loc'[r].subject = c /\ loc'[r].op = loc[r].op /\ loc'[r].endedNow = loc[r].endedNow
      /\ UNCHANGED <<sessions, participants, started, wsParts>>
  BY <1>1, <1>3
  DEF TypeOK, Local, ReadParts, WriteParts, ReadPost, WritePost, shared, storeVars, feedVars
<1>5. CASE ReadParts(r)
  <2>1. pc'[r] = "parts_put" /\ UNCHANGED posts
    BY <1>1, <1>2, <1>5 DEF ReadParts, ReadPost, Goto, TypeOK, shared
  <2>2. PartsShown(c)' /\ FeedShown(c)'
    BY <1>4, <2>1 DEF PartsShown, FeedShown, FeedWindow, PartsWindow
  <2>3. CASE EndWindow(r)
    BY <1>1, <1>4, <2>1, <2>2, <2>3 DEF EndWindow, EndShown
  <2>4. CASE ~EndWindow(r)
    BY <1>4, <2>1, <2>2, <2>4, Settled DEF EndShown, Exists
  <2> QED
    BY <2>2, <2>3, <2>4
<1>6. CASE WriteParts(r)
  <2>1. /\ pc[r] = "parts_put"
        /\ pc'[r] = AfterParticipants(loc[r].op)
        /\ posts' = [posts EXCEPT ![c] = [posts[c] EXCEPT !.parts = loc[r].parts]]
    BY <1>1, <1>2, <1>6 DEF WriteParts, WritePost, Goto, TypeOK, PostRead
  <2>2. posts'[c].parts = loc[r].parts /\ posts'[c].endAt = posts[c].endAt
    BY <1>1, <2>1 DEF TypeOK, Post
  <2>3. PartsShown(c)'
    BY <1>1, <1>4, <2>2 DEF PartsShown, Carries, Active, Exists, ParticipantsOf
  <2>4. FeedShown(c)'
    BY <1>1, <1>4, <2>1 DEF FeedShown, FeedWindow, AfterParticipants
  <2>5. CASE EndWindow(r)
    <3>1. EndWindow(r)'
      BY <1>1, <1>4, <2>1, <2>5 DEF EndWindow, AfterParticipants
    <3> QED
      BY <1>4, <2>3, <2>4, <3>1 DEF EndShown
  <2>6. CASE ~EndWindow(r)
    BY <1>4, <2>2, <2>3, <2>4, <2>6, Settled DEF EndShown, Exists
  <2> QED
    BY <2>3, <2>4, <2>5, <2>6
<1> QED
  BY <1>5, <1>6

\* ... and then the clients, and whoever ended the call goes on with it.
LEMMA PublishShown ==
    ASSUME "partJoined" \notin Ops, ReliableStore, AgreeInvariant, NEW r \in Request, Alone(r),
           JoinPublish(r) \/ LeavePublish(r), NEW c \in Call, c = loc[r].subject
    PROVE  PartsShown(c)' /\ FeedShown(c)' /\ EndShown(c)'
<1>1. /\ TypeOK /\ Fits(r) /\ Carries(r) /\ pc[r] \in {"j_publish", "l_publish"}
      /\ loc[r].call = c
  BY OnCallFacts DEF OnCall, JoinPublish, LeavePublish
<1>2. /\ wsParts' = [wsParts EXCEPT ![c] = loc[r].parts]
      /\ UNCHANGED <<sessions, participants, posts, started>>
  BY <1>1 DEF JoinPublish, LeavePublish, storeVars
<1>3. FeedShown(c)'
  BY <1>1, <1>2 DEF FeedShown, Carries, TypeOK, Active, Exists, ParticipantsOf
<1>4. PartsShown(c)'
  BY <1>1, <1>2, Settled
  DEF PartsShown, PartsWindow, Ahead, Active, Exists, ParticipantsOf
<1>5. CASE EndWindow(r)
  <2>1. /\ pc[r] = "l_publish" /\ loc[r].endedNow
        /\ pc' = [pc EXCEPT ![r] = "end_getPost"] /\ loc' = loc
    BY <1>1, <1>5 DEF EndWindow, Fits, OpFits, JoinPublish, LeavePublish, Goto
  <2>2. pc'[r] = "end_getPost" /\ loc'[r].subject = c
    BY <1>1, <2>1 DEF TypeOK
  <2> QED
    BY <1>3, <1>4, <2>2 DEF EndShown, EndWindow
<1>6. CASE ~EndWindow(r)
  BY <1>2, <1>3, <1>4, <1>6, Settled DEF EndShown, Exists
<1> QED
  BY <1>5, <1>6

\* emitCallEnded writes the end to the post.
LEMMA EmitShown ==
    ASSUME "partJoined" \notin Ops, ReliableStore, AgreeInvariant, NEW r \in Request, Alone(r),
           ReadEnd(r) \/ WriteEnd(r) \/ EndPublish(r), NEW c \in Call, c = loc[r].subject
    PROVE  PartsShown(c)' /\ FeedShown(c)' /\ EndShown(c)'
<1>1. /\ TypeOK /\ PostRead(r) /\ pc[r] \in EmitLabel /\ sessions[c].endat = r
      /\ ~MayFail("postError") /\ posts[c] \in Post
  BY OnCallFacts DEF OnCall, Ending, ReadEnd, WriteEnd, ReadPost, WritePost, EndPublish
<1>2. posts[c] # None /\ r # 0
  BY <1>1, StoreAssumption, ServiceAssumption
<1>3. UNCHANGED <<sessions, participants, started, wsParts>>
  BY DEF ReadEnd, WriteEnd, ReadPost, WritePost, EndPublish, shared, storeVars, feedVars
<1>4. ~Active(c)'
  BY <1>1, <1>2, <1>3 DEF Active
<1>5. EndShown(c)'
  <2>1. CASE ReadEnd(r)
    <3>1. pc'[r] = "end_putPost" /\ loc'[r].subject = c
      BY <1>1, <1>2, <2>1 DEF ReadEnd, ReadPost, Goto, TypeOK, Local
    <3> QED
      BY <3>1 DEF EndShown, EndWindow
  <2>2. CASE WriteEnd(r)
    <3>1. posts' = [posts EXCEPT ![c] = [posts[c] EXCEPT !.endAt = r]]
      BY <1>1, <1>2, <2>2 DEF WriteEnd, WritePost, PostRead
    <3>2. posts'[c].endAt = r
      BY <1>1, <3>1 DEF TypeOK, Post
    <3> QED
      BY <1>1, <1>3, <3>2 DEF EndShown
  <2>3. CASE EndPublish(r)
    <3>1. UNCHANGED posts /\ ~EndWindow(r)
      BY <2>3 DEF EndPublish, EndWindow
    <3> QED
      BY <1>3, <3>1, Settled DEF EndShown, Exists
  <2> QED
    BY <2>1, <2>2, <2>3
<1> QED
  BY <1>4, <1>5 DEF PartsShown, FeedShown

-----------------------------------------------------------------------------
(* The invariant.                                                          *)

\* A post or an event differs from the store only while a window is open.
LEMMA ShownStep ==
    ASSUME OneNode, "partJoined" \notin Ops, ReliableStore, AgreeInvariant, NEW r \in Request,
           Arrival(r) \/ Handle(r), NEW c \in Call
    PROVE  PartsShown(c)' /\ FeedShown(c)' /\ EndShown(c)'
<1>0. /\ ServiceInvariant /\ TypeOK /\ ~Panic(r) /\ SoundStep(r) /\ OpFits(pc[r], loc[r].op)
      /\ loc[r].op # "partJoined" /\ \A s \in Request : loc[s].op # "partJoined"
  BY AgreeFacts, ServiceStepSound DEF Fits
<1>1. CASE Alone(r)
  <2>1. CASE OnCall(r)
    <3>1. CASE c = loc[r].subject
      BY <1>1, <2>1, <3>1, JoinAddShown, JoinTokenShown, JoinUndoShown, LeaveRemoveShown,
         EndStoreShown, PartsStepShown, PublishShown, EmitShown DEF OnCall
    <3> QED
      BY <1>1, <2>1, <3>1, OtherCallShown
  <2>2. CASE CreatePost(r) \/ CreateInsert(r) \/ CreateDeletePost(r) \/ CreatePublish(r)
    BY <1>1, <2>2, CreateShows
  <2>3. CASE ~OnCall(r) /\ ~CreatePost(r) /\ ~CreateInsert(r) /\ ~CreateDeletePost(r)
             /\ ~CreatePublish(r)
    <3>1. ~WebhookAdd(r) /\ ~WebhookBackfill(r)
      BY <1>0 DEF WebhookAdd, WebhookBackfill, OpFits
    <3>2. UNCHANGED <<sessions, participants>>
      BY <2>3, <3>1, TableChange DEF OnCall
    <3>3. UNCHANGED posts
      BY <2>3, PostsChange DEF OnCall, WriteParts, WriteEnd
    <3>4. UNCHANGED <<started, wsParts>>
      BY <2>3, FeedChange DEF OnCall, feedVars
    <3>5. ~FeedWindow(r) /\ ~EndWindow(r)
      BY <1>0, <2>3, WhoSteps, StepFrom
      DEF OnCall, FeedWindow, PartsWindow, Ahead, EndWindow
    <3> QED
      BY <1>1, <3>2, <3>3, <3>4, <3>5, ShownKept DEF Exists, ParticipantsOf
  <2> QED
    BY <2>1, <2>2, <2>3
<1>2. CASE ~Alone(r)
  <2>1. PICK s \in Request : s # r /\ InCritical(s)
    BY <1>2 DEF Alone
  <2>2. UNCHANGED <<sessions, participants, posts, started, wsParts>>
    BY <2>1, OthersStill DEF shared, storeVars, feedVars
  <2>3. ASSUME NEW q \in Request, FeedWindow(q) \/ EndWindow(q)
        PROVE  pc'[q] = pc[q] /\ loc'[q] = loc[q]
    <3>1. q # r
      BY <1>0, <2>1, <2>3, WindowInside, OneInside
    <3> QED
      BY <1>0, <3>1 DEF SoundStep, OthersWait
  <2>4. ASSUME NEW q \in Request
        PROVE  /\ PartsWindow(q) => PartsWindow(q)' /\ loc'[q] = loc[q]
               /\ FeedWindow(q) => FeedWindow(q)' /\ loc'[q] = loc[q]
               /\ EndWindow(q) => EndWindow(q)' /\ loc'[q] = loc[q]
    BY <2>3 DEF FeedWindow, PartsWindow, Ahead, EndWindow
  <2> QED
    BY <2>2, <2>4
    DEF AgreeInvariant, PartsShown, FeedShown, EndShown, Active, Exists, ParticipantsOf
<1> QED
  BY <1>1, <1>2

\* A request comes to a window from inside.
LEMMA OutsideCarries ==
    ASSUME OneNode, "partJoined" \notin Ops, ReliableStore, AgreeInvariant, NEW r \in Request,
           Arrival(r) \/ Handle(r), ~Alone(r)
    PROVE  Carries(r)'
<1>1. PICK s \in Request : s # r /\ InCritical(s)
  BY DEF Alone
<1>2. /\ ServiceInvariant /\ ~Panic(r) /\ OpFits(pc[r], loc[r].op)
      /\ loc[r].op # "partJoined"
  BY AgreeFacts DEF Fits
<1>3. ~InCritical(r)
  BY <1>1, <1>2, OneInside
<1>4. ~WebhookAdd(r) /\ ~WebhookBackfill(r)
  BY <1>2 DEF WebhookAdd, WebhookBackfill, OpFits
<1>5. ~JoinAdd(r) /\ ~JoinToken(r) /\ ~LeaveRemove(r) /\ ~ReadParts(r) /\ ~WriteParts(r)
      /\ ~CreatePost(r) /\ ~CreateInsert(r)
  BY <1>2, <1>3
  DEF InCritical, JoinAdd, JoinToken, LeaveRemove, ReadParts, WriteParts, ReadPost, WritePost,
      CreatePost, CreateInsert
<1> QED
  BY <1>2, <1>4, <1>5, StepTo DEF Carries, Ahead

\* There is nothing to show at the start.
LEMMA AgreeInit == Init => AgreeInvariant
BY PostInit, PostEndInit, FeedInit, StoreAssumption, ServiceAssumption
DEF Init, StoreInit, Blank, AgreeInvariant, PartsShown, FeedShown, EndShown, RowsFit, Carries,
    Ahead, Active, Exists, ParticipantsOf

\* The invariant of what is shown.
LEMMA AgreeStep ==
    ASSUME OneNode, "partJoined" \notin Ops, ReliableStore, AgreeInvariant, [Next]_vars
    PROVE  AgreeInvariant'
<1>1. PostInvariant' /\ PostEndInvariant' /\ FeedInvariant'
  BY AgreeFacts, PostStep, PostEndStep, FeedStep DEF AgreeInvariant
<1>2. ASSUME NEW c \in Call PROVE RowsFit(c)'
  BY AgreeFacts, ServiceStoreStep, RowsFitStep DEF AgreeInvariant
<1>3. ASSUME NEW r \in Request, Arrival(r) \/ Handle(r)
      PROVE  /\ \A c \in Call : PartsShown(c)' /\ FeedShown(c)' /\ EndShown(c)'
             /\ \A s \in Request : Carries(s)'
  BY <1>3, ShownStep, CarriesStep, OutsideCarries, CarriesStays
<1>4. ASSUME UNCHANGED <<sessions, participants, posts, started, wsParts, pc, loc>>
      PROVE  /\ \A c \in Call : PartsShown(c)' /\ FeedShown(c)' /\ EndShown(c)'
             /\ \A s \in Request : Carries(s)'
  <2>1. /\ \A c \in Call : PartsShown(c)' /\ FeedShown(c)'
        /\ \A c \in Call : EndShown(c)'
    BY <1>4
    DEF AgreeInvariant, PartsShown, FeedShown, EndShown, FeedWindow, PartsWindow, EndWindow,
        Ahead, Active, Exists, ParticipantsOf
  <2>2. \A s \in Request : Carries(s)'
    BY <1>4 DEF AgreeInvariant, Carries, Ahead, Active, Exists, ParticipantsOf
  <2> QED
    BY <2>1, <2>2
<1>5. CASE Environment \/ Idle \/ UNCHANGED vars
  <2>1. UNCHANGED <<sessions, participants, posts, started, wsParts, pc, loc>>
    BY <1>5
    DEF Environment, MeetingDeleted, StoreAppConfig, UpdateRTKClient, Crash, MayFail, Idle,
        ReliableStore, vars, shared, control, storeVars, feedVars
  <2> QED
    BY <1>1, <1>2, <1>4, <2>1 DEF AgreeInvariant
<1> QED
  BY <1>1, <1>2, <1>3, <1>5 DEF AgreeInvariant, Next

\* No window is open when no handler runs.
LEMMA QuietWindows ==
    ASSUME Quiet, pc \in [Request -> Label], NEW r \in Request
    PROVE  ~PartsWindow(r) /\ ~FeedWindow(r) /\ ~EndWindow(r)
BY DEF Quiet, FeedWindow, PartsWindow, EndWindow, Ahead

\* The windows of the handler inside are the only disagreements there are.
THEOREM AgreeInvariance ==
    ASSUME OneNode, "partJoined" \notin Ops, ReliableStore
    PROVE  Spec => []AgreeInvariant
BY AgreeInit, AgreeStep, PTL DEF Spec

\* On one node whose database and posts answer, without
\* meeting.participantJoined: when no handler runs, every post shows the stored
\* end of its call and, while the call is active, the stored participants,
\* whatever RTK has failed to do.
THEOREM PostAgreesAlways ==
    ASSUME OneNode, "partJoined" \notin Ops, ReliableStore
    PROVE  Spec => []PostAgrees
<1>1. AgreeInvariant => PostAgrees
  <2> SUFFICES ASSUME AgreeInvariant, Quiet, NEW c \in Call, Exists(c)
               PROVE  /\ posts[c].endAt = sessions[c].endat
                      /\ Active(c) => posts[c].parts = ParticipantsOf(c)
    BY DEF PostAgrees
  <2> QED
    BY AgreeFacts, QuietWindows DEF AgreeInvariant, PartsShown, EndShown
<1> QED
  BY <1>1, AgreeInvariance, PTL

\* Under the same conditions the last list of participants that was published
\* about an active call is the one in the table, when no handler runs.
THEOREM FeedAgreesAlways ==
    ASSUME OneNode, "partJoined" \notin Ops, ReliableStore
    PROVE  Spec => []FeedAgrees
<1>1. AgreeInvariant => FeedAgrees
  BY AgreeFacts, QuietWindows DEF AgreeInvariant, FeedShown, FeedAgrees
<1> QED
  BY <1>1, AgreeInvariance, PTL
=============================================================================
