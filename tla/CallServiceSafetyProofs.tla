----------------------- MODULE CallServiceSafetyProofs -----------------------
(***************************************************************************)
(* Proofs of the safety properties of CallService that do not need callMu, *)
(* for any number of nodes: a call that was announced has its post, a      *)
(* CreateCall that fails leaves none behind, a call ends only for a cause, *)
(* and a reconciliation ends what it found dead.                           *)
(***************************************************************************)
EXTENDS CallServiceProofs

\* The definitions that say what a label stands for.
USE DEF At, Running, Final, Label, CreateLabel, JoinLabel, LeaveLabel,
        EmitLabel, PartsLabel, SubjectLabel, MeetingLabel, CriticalLabel

-----------------------------------------------------------------------------
(* What one step may do to one call.                                       *)

\* Only CreateCall makes a call appear in the table.
LEMMA RowAppears ==
    ASSUME ServiceInvariant, [Next]_vars, NEW c \in Call, ~Exists(c), Exists(c)'
    PROVE  \E r \in Request : CreateInsert(r) /\ loc[r].call = c
<1>1. ASSUME NEW r \in Request, CreateInsert(r)
      PROVE  loc[r].call = c
  BY <1>1 DEF CreateInsert, CreateCallSession, ServiceInvariant, TypeOK, StoreTypeOK, Exists,
              storeVars
<1>2. ASSUME NEW r \in Request,
             \/ JoinAdd(r) \/ JoinUndo(r) \/ LeaveRemove(r) \/ WebhookAdd(r)
             \/ WebhookBackfill(r) \/ EndStore(r) \/ CreateSaveMeeting(r)
      PROVE  FALSE
  BY <1>2
  DEF JoinAdd, JoinUndo, LeaveRemove, WebhookAdd, WebhookBackfill, EndStore,
      CreateSaveMeeting, AddCallParticipant, RemoveCallParticipant, EndCall,
      UpdateCallSessionID, SaveChannelMeeting, ServiceInvariant, TypeOK, StoreTypeOK, Exists,
      Active, storeVars
<1>3. ~UNCHANGED storeVars
  BY DEF Exists, storeVars
<1>4. PICK r \in Request : Arrival(r) \/ Handle(r)
  BY <1>3
  DEF Next, Environment, MeetingDeleted, StoreAppConfig, UpdateRTKClient, Crash, Dies,
      Idle, vars, shared
<1> QED
  BY <1>1, <1>2, <1>3, <1>4, StoreUnchanged
  DEF Handle, CreateCall, JoinCall, LeaveCall, EndActiveCall, HandleWebhook

\* The post of c, which CreateCall writes and may delete, is otherwise only
\* overwritten.
LEMMA PostFate ==
    ASSUME ServiceInvariant, NEW r \in Request, Arrival(r) \/ Handle(r), NEW c \in Call
    PROVE  \/ posts'[c] = posts[c]
           \/ CreatePost(r) /\ loc[r].call = c /\ posts'[c] # None
           \/ CreateDeletePost(r) /\ loc[r].call = c
           \/ /\ At(r, "parts_put") \/ At(r, "end_putPost")
              /\ loc[r].subject = c
              /\ posts[c] # None /\ posts'[c] # None
<1>0. posts \in [Call -> Post \cup {None}] /\ Fits(r) /\ loc[r] \in Local
  BY DEF ServiceInvariant, TypeOK
<1>1. CASE CreatePost(r)
  <2>1. loc[r].user \in User
    BY <1>0, <1>1 DEF CreatePost, Fits, OpFits, LocalsSet
  <2>2. [parts |-> {loc[r].user}, endAt |-> 0] \in Post
    BY <2>1 DEF Post
  <2>3. PICK p \in Post : \/ posts' = [posts EXCEPT ![loc[r].call] = p]
                          \/ UNCHANGED posts
    BY <1>1, <2>2 DEF CreatePost
  <2> QED
    BY <1>0, <1>1, <2>3, ServiceAssumption
<1>2. CASE CreateDeletePost(r)
  BY <1>0, <1>2 DEF CreateDeletePost
<1>3. ASSUME NEW p \in Post, At(r, "parts_put") \/ At(r, "end_putPost"),
             posts[loc[r].subject] # None,
             posts' = [posts EXCEPT ![loc[r].subject] = p]
      PROVE  \/ posts'[c] = posts[c]
             \/ /\ At(r, "parts_put") \/ At(r, "end_putPost")
                /\ loc[r].subject = c
                /\ posts[c] # None /\ posts'[c] # None
  BY <1>0, <1>3, ServiceAssumption
<1>4. CASE WritePost(r, "parts_put", AfterParticipants(loc[r].op),
                     [loc[r].post EXCEPT !.parts = loc[r].parts])
  <2>1. [loc[r].post EXCEPT !.parts = loc[r].parts] \in Post
    BY <1>0, <1>4 DEF WritePost, Fits, LocalsSet, Post, Local
  <2> QED
    BY <1>3, <1>4, <2>1 DEF WritePost
<1>5. CASE WritePost(r, "end_putPost", "end_publish", [loc[r].post EXCEPT !.endAt = r])
  <2>1. [loc[r].post EXCEPT !.endAt = r] \in Post
    BY <1>0, <1>5 DEF WritePost, Fits, LocalsSet, Post
  <2> QED
    BY <1>3, <1>5, <2>1 DEF WritePost
<1> QED
  BY <1>1, <1>2, <1>4, <1>5, PostsChange

Creating(r) == Running(r) /\ loc[r].op = "create"

\* From its post on, CreateCall goes on to its row or returns.
LEMMA CreateEnds ==
    ASSUME ServiceInvariant, NEW r \in Request, Arrival(r) \/ Handle(r), ~Panic(r),
           pc[r] \in {"c_post", "c_insert", "c_deletePost", "c_publish"}
    PROVE  pc'[r] \in Final \cup {"c_insert", "c_deletePost", "c_publish"}
<1>1. Handle(r)
  BY WhoSteps
<1> QED
  BY <1>1, StepFrom, CreateFlow DEF Edge

-----------------------------------------------------------------------------
(* The post of a call that was announced.                                  *)

\* A running CreateCall has its call for itself.  It has a post from
\* CreatePost on, no row before CreateInsert, and is not announced.
OwnsCall(r) ==
    Creating(r) =>
        /\ loc[r].call \notin started
        /\ pc[r] \notin {"c_insert", "c_deletePost", "c_publish"} =>
              ~Exists(loc[r].call) /\ posts[loc[r].call] = None
        /\ pc[r] = "c_insert" => ~Exists(loc[r].call)
        /\ pc[r] \in {"c_insert", "c_deletePost", "c_publish"} => posts[loc[r].call] # None

OwnCalls ==
    \A r, s \in Request :
        Creating(r) /\ Creating(s) /\ loc[r].call = loc[s].call => r = s

CreateInvariant ==
    /\ ServiceInvariant
    /\ OwnCalls
    /\ \A r \in Request : OwnsCall(r)
    /\ StartedHasPost

\* A CreateCall that runs after a step of r ran before it, or has just arrived
\* with a call that nobody has.
LEMMA CreatingBefore ==
    ASSUME CreateInvariant, NEW r \in Request, Arrival(r) \/ Handle(r), ~Panic(r),
           NEW s \in Request, Creating(s)'
    PROVE  \/ Creating(s) /\ loc'[s].call = loc[s].call
           \/ /\ s = r /\ RowUnchanged(loc'[s].call) /\ UNCHANGED <<posts, started>>
              /\ Fresh(loc'[s].call) /\ loc'[s].call \in Call
              /\ pc'[s] = "lock"
<1>0. loc \in [Request -> Local] /\ pc \in [Request -> Label]
  BY DEF CreateInvariant, ServiceInvariant, TypeOK
<1>1. SoundStep(r)
  BY ServiceStepSound DEF CreateInvariant
<1>2. CASE s # r
  BY <1>1, <1>2 DEF SoundStep, OthersWait, Creating
<1>3. CASE s = r /\ ~At(r, "idle")
  <2>1. Running(r)
    BY <1>3, WhoSteps
  <2> QED
    BY <1>0, <1>1, <1>3, <2>1 DEF SoundStep, Creating, SameRequest
<1>4. CASE s = r /\ At(r, "idle")
  <2>1. Arrival(r)
    BY <1>4, WhoSteps
  <2>2. ASSUME NEW n \in Node, RequestCreate(r, n)
        PROVE  /\ RowUnchanged(loc'[s].call) /\ UNCHANGED <<posts, started>>
               /\ Fresh(loc'[s].call) /\ loc'[s].call \in Call
               /\ pc'[s] = "lock"
    <3>1. PICK c \in Call, ch \in Channel, u \in User :
              /\ Fresh(c)
              /\ Arrive(r, "lock", [Blank EXCEPT !.op = "create", !.node = n, !.user = u,
                                                 !.call = c, !.channel = ch])
      BY <2>2 DEF RequestCreate
    <3>2. loc'[r].call = c /\ pc'[r] = "lock"
      BY <1>0, <3>1 DEF Arrive, Blank
    <3> QED
      BY <1>4, <3>1, <3>2
      DEF Arrive, shared, feedVars, storeVars, RowUnchanged
  <2>3. ASSUME NEW n \in Node,
               RequestOnCall(r, n) \/ ParticipantWebhook(r, n) \/ MeetingWebhook(r, n)
        PROVE  loc'[r].op # "create"
    <3>1. CASE RequestOnCall(r, n)
      BY <1>0, <3>1 DEF RequestOnCall, Arrive, Blank
    <3>2. CASE ParticipantWebhook(r, n)
      BY <1>0, <3>2 DEF ParticipantWebhook, Arrive, Blank
    <3>3. CASE MeetingWebhook(r, n)
      BY <1>0, <3>3 DEF MeetingWebhook, Arrive, Blank
    <3> QED
      BY <2>3, <3>1, <3>2, <3>3
  <2> QED
    BY <1>4, <2>1, <2>2, <2>3 DEF Arrival, Creating
<1> QED
  BY <1>2, <1>3, <1>4

\* No two CreateCalls get the same call.
LEMMA OwnCallsStep ==
    ASSUME CreateInvariant, NEW r \in Request, Arrival(r) \/ Handle(r), ~Panic(r)
    PROVE  OwnCalls'
<1> SUFFICES ASSUME NEW s \in Request, NEW t \in Request, Creating(s)', Creating(t)',
                    loc'[s].call = loc'[t].call, s # t
             PROVE  FALSE
  BY DEF OwnCalls
<1>1. ASSUME NEW x \in Request, NEW y \in Request, x # y, x = r, Fresh(loc'[x].call),
             Creating(y)', loc'[x].call = loc'[y].call
      PROVE  FALSE
  BY <1>1, CreatingBefore DEF Fresh
<1> QED
  BY <1>1, CreatingBefore DEF CreateInvariant, OwnCalls

\* A CreateCall stays alone with its call until it announces it.
LEMMA OwnsCallStep ==
    ASSUME CreateInvariant, NEW r \in Request, Arrival(r) \/ Handle(r), ~Panic(r),
           NEW s \in Request
    PROVE  OwnsCall(s)'
<1> SUFFICES ASSUME Creating(s)' PROVE OwnsCall(s)'
  BY DEF OwnsCall
<1>0. /\ ServiceInvariant /\ [Next]_vars /\ SoundStep(r)
      /\ pc \in [Request -> Label]
  BY ServiceStepSound DEF CreateInvariant, ServiceInvariant, TypeOK, Next
\* It has just arrived.
<1>1. ASSUME NEW c, c = loc'[s].call, s = r, RowUnchanged(c), UNCHANGED <<posts, started>>,
             Fresh(c), c \in Call, pc'[s] = "lock"
      PROVE  OwnsCall(s)'
  <2>1. c \notin started
    BY <1>1 DEF CreateInvariant, StartedHasPost, Fresh
  <2> QED
    BY <1>1, <2>1 DEF OwnsCall, Fresh, RowUnchanged, Exists
\* It was running.
<1>2. ASSUME NEW c, c = loc[s].call, c = loc'[s].call, Creating(s)
      PROVE  OwnsCall(s)'
  <2>0. c \in Call /\ OwnsCall(s)
    BY <1>0, <1>2 DEF CreateInvariant, ServiceInvariant, Fits, LocalsSet, Creating
  <2>1. c \notin started'
    <3>1. c \notin started
      BY <1>2, <2>0 DEF OwnsCall
    <3>2. CASE CreatePublish(r)
      <4>1. pc'[r] \in Final
        BY <1>0, <3>2 DEF CreatePublish, Return
      <4>2. s # r /\ Creating(r)
        BY <1>0, <3>2, <4>1
        DEF CreatePublish, Creating, ServiceInvariant, Fits, OpFits
      <4> QED
        BY <1>2, <3>1, <3>2, <4>2 DEF CreatePublish, CreateInvariant, OwnCalls
    <3>3. CASE ~CreatePublish(r)
      BY <3>1, <3>3, FeedChange DEF feedVars, JoinPublish, LeavePublish, EndPublish
    <3> QED
      BY <3>2, <3>3
  \* Nobody else inserts its row, or creates or deletes its post.
  <2>2. CreateInsert(r) /\ loc[r].call = c => s = r
    BY <1>0, <1>2
    DEF CreateInsert, Creating, CreateInvariant, OwnCalls, ServiceInvariant, Fits, OpFits
  <2>3. (CreatePost(r) \/ CreateDeletePost(r)) /\ loc[r].call = c => s = r
    <3> SUFFICES ASSUME CreatePost(r) \/ CreateDeletePost(r), loc[r].call = c PROVE s = r
      OBVIOUS
    <3>1. pc[r] \in {"c_post", "c_deletePost"} /\ Running(r)
      BY DEF CreatePost, CreateDeletePost
    <3>2. Creating(r)
      BY <1>0, <3>1 DEF Creating, ServiceInvariant, Fits, OpFits
    <3> QED
      BY <1>2, <3>2 DEF CreateInvariant, OwnCalls
  <2>4. ~Exists(c) /\ Exists(c)' => s = r /\ CreateInsert(r)
    <3> SUFFICES ASSUME ~Exists(c), Exists(c)' PROVE s = r /\ CreateInsert(r)
      OBVIOUS
    <3>1. PICK t \in Request : CreateInsert(t) /\ loc[t].call = c
      BY <1>0, <2>0, RowAppears
    <3>2. t = s
      BY <1>0, <1>2, <3>1
      DEF CreateInsert, Creating, CreateInvariant, OwnCalls, ServiceInvariant, Fits, OpFits
    <3>3. t = r
      BY <1>0, <3>1 DEF CreateInsert, Goto, SoundStep, OthersWait
    <3> QED
      BY <3>1, <3>2, <3>3
  <2>5. CASE s # r
    <3>1. pc'[s] = pc[s]
      BY <1>0, <2>5 DEF SoundStep, OthersWait
    <3>2. posts'[c] = None <=> posts[c] = None
      BY <1>0, <2>0, <2>3, <2>5, PostFate
    <3>3. ~Exists(c) => ~Exists(c)'
      BY <2>4, <2>5
    <3> QED
      BY <1>2, <2>0, <2>1, <3>1, <3>2, <3>3 DEF OwnsCall, Exists
  <2>6. CASE s = r /\ pc'[r] = "c_insert"
    <3>1. CreatePost(r) /\ pc[r] = "c_post"
      BY <1>0, <2>6, StepTo DEF CreatePost
    <3>2. ~Exists(c) /\ UNCHANGED sessions
      BY <1>2, <2>0, <2>6, <3>1 DEF OwnsCall, CreatePost, storeVars
    <3>3. posts'[c] # None
      <4>1. PICK p \in Post : p = [parts |-> {loc[r].user}, endAt |-> 0]
        <5>1. loc[r].user \in User
          BY <1>0, <3>1 DEF CreatePost, ServiceInvariant, Fits, OpFits, LocalsSet
        <5>2. [parts |-> {loc[r].user}, endAt |-> 0] \in Post
          BY <5>1 DEF Post
        <5> QED
          BY <5>2
      <4>2. posts' = [posts EXCEPT ![c] = p]
        BY <1>0, <1>2, <2>6, <3>1, <4>1 DEF CreatePost, Return
      <4> QED
        BY <1>0, <2>0, <4>2, ServiceAssumption DEF ServiceInvariant, TypeOK
    <3> QED
      BY <1>2, <2>1, <2>6, <3>2, <3>3 DEF OwnsCall, Exists
  <2>7. CASE s = r /\ pc'[r] \in {"c_deletePost", "c_publish"}
    <3>1. CreateInsert(r)
      BY <1>0, <2>7, StepTo
    <3>2. posts[c] # None /\ UNCHANGED posts
      BY <1>2, <2>0, <2>7, <3>1 DEF OwnsCall, CreateInsert
    <3> QED
      BY <1>2, <2>1, <2>7, <3>2 DEF OwnsCall
  <2>8. CASE s = r /\ pc'[r] \notin {"c_insert", "c_deletePost", "c_publish"}
    <3>1. /\ pc[r] \notin {"c_insert", "c_deletePost", "c_publish"}
          /\ ~CreateInsert(r) /\ ~CreatePost(r) /\ ~CreateDeletePost(r)
      <4>1. pc'[r] \notin Final
        BY <2>8 DEF Creating
      <4>2. pc[r] \notin {"c_post", "c_insert", "c_deletePost", "c_publish"}
        BY <1>0, <2>8, <4>1, CreateEnds
      <4> QED
        BY <4>2 DEF CreateInsert, CreatePost, CreateDeletePost
    <3>2. ~Exists(c) /\ posts[c] = None
      BY <1>2, <2>0, <2>8, <3>1 DEF OwnsCall
    <3>3. ~Exists(c)' /\ posts'[c] = None
      BY <1>0, <2>0, <2>4, <3>1, <3>2, PostFate
    <3> QED
      BY <1>2, <2>1, <2>8, <3>3 DEF OwnsCall, Exists
  <2> QED
    BY <2>5, <2>6, <2>7, <2>8
<1> QED
  BY <1>1, <1>2, CreatingBefore

\* Nothing but a failing CreateCall deletes a post, and it has announced nothing.
LEMMA StartedHasPostStep ==
    ASSUME CreateInvariant, NEW r \in Request, Arrival(r) \/ Handle(r)
    PROVE  StartedHasPost'
<1> SUFFICES ASSUME NEW c \in Call, c \in started'
             PROVE  Exists(c)' /\ posts'[c] # None
  BY DEF StartedHasPost
<1>0. /\ ServiceInvariant /\ [Next]_vars /\ OwnsCall(r) /\ Fits(r)
      /\ posts \in [Call -> Post \cup {None}]
  BY DEF CreateInvariant, ServiceInvariant, TypeOK, Next
<1>1. Exists(c) => Exists(c)'
  BY <1>0, ServiceStoreStep, RowsStay DEF ServiceInvariant, TypeOK
<1>2. CASE c \in started
  <2>1. ~(CreateDeletePost(r) /\ loc[r].call = c)
    BY <1>0, <1>2 DEF CreateDeletePost, Fits, OpFits, OwnsCall, Creating
  <2>2. CASE CreatePost(r) /\ loc[r].call = c /\ posts'[c] # None
    BY <1>1, <1>2, <2>2 DEF CreateInvariant, StartedHasPost
  <2> QED
    BY <1>0, <1>1, <1>2, <2>1, <2>2, PostFate DEF CreateInvariant, StartedHasPost
<1>3. CASE c \notin started
  <2>1. CreatePublish(r) /\ loc[r].call = c
    BY <1>3, FeedChange DEF feedVars, CreatePublish, JoinPublish, LeavePublish, EndPublish
  <2>2. Exists(c) /\ posts[c] # None
    BY <1>0, <2>1 DEF CreatePublish, Fits, OpFits, LocalsSet, OwnsCall, Creating
  <2> QED
    BY <1>1, <2>1, <2>2 DEF CreatePublish
<1> QED
  BY <1>2, <1>3

\* A process that dies takes its CreateCalls with it.
LEMMA CreateDeath ==
    ASSUME CreateInvariant, NEW n \in Node, Dies(n)
    PROVE  /\ OwnCalls'
           /\ \A r \in Request : OwnsCall(r)'
           /\ StartedHasPost'
<1>1. ASSUME NEW r \in Request, Creating(r)'
      PROVE  Creating(r) /\ pc'[r] = pc[r] /\ loc'[r] = loc[r]
  BY <1>1 DEF Creating, Dies, CreateInvariant, ServiceInvariant, TypeOK
<1>2. UNCHANGED <<sessions, posts, started>>
  BY DEF Dies, shared, storeVars, feedVars
<1>3. OwnCalls'
  BY <1>1 DEF CreateInvariant, OwnCalls
<1>4. ASSUME NEW r \in Request PROVE OwnsCall(r)'
  BY <1>1, <1>2 DEF CreateInvariant, OwnsCall, Exists
<1> QED
  BY <1>2, <1>3, <1>4 DEF CreateInvariant, StartedHasPost, Exists

\* The invariant holds at the start ...
LEMMA CreateInit == Init => CreateInvariant
BY ServiceInit DEF Init, CreateInvariant, OwnCalls, OwnsCall, Creating, StartedHasPost

\* ... and through every step, a crash at any point of CreateCall included.
LEMMA CreateStep == CreateInvariant /\ [Next]_vars => CreateInvariant'
<1> SUFFICES ASSUME CreateInvariant, [Next]_vars PROVE CreateInvariant'
  OBVIOUS
<1>0. ServiceInvariant'
  BY ServiceStep DEF CreateInvariant
<1>1. ASSUME NEW r \in Request, Arrival(r) \/ Handle(r), ~Panic(r)
      PROVE  CreateInvariant'
  BY <1>0, <1>1, OwnCallsStep, OwnsCallStep, StartedHasPostStep DEF CreateInvariant
<1>2. ASSUME NEW n \in Node, Dies(n) PROVE CreateInvariant'
  BY <1>0, <1>2, CreateDeath DEF CreateInvariant
<1>3. ASSUME NEW r \in Request, Panic(r) PROVE CreateInvariant'
  <2>1. loc[r].node \in Node
    BY <1>3 DEF Panic, CreateInvariant, ServiceInvariant, Fits, LocalsSet
  <2> QED
    BY <1>2, <1>3, <2>1 DEF Panic
<1>4. CASE \/ \E m \in Meeting : MeetingDeleted(m)
           \/ \E a \in App : StoreAppConfig(a)
           \/ \E n \in Node, a \in App \cup {None} : UpdateRTKClient(n, a)
           \/ UNCHANGED vars
  <2>1. UNCHANGED <<sessions, posts, started, pc, loc>>
    BY <1>4 DEF MeetingDeleted, StoreAppConfig, UpdateRTKClient, vars, shared, control,
                storeVars, feedVars
  <2> QED
    BY <1>0, <2>1
    DEF CreateInvariant, OwnCalls, OwnsCall, Creating, StartedHasPost, Exists
<1> QED
  BY <1>1, <1>2, <1>3, <1>4 DEF Next, Environment, Crash, Idle

\* The invariant of CreateCall's order of effects.
THEOREM CreateInvariance == Spec => []CreateInvariant
BY CreateInit, CreateStep, PTL DEF Spec

\* Whatever fails, crashes or is reconfigured, on any number of nodes, a call
\* of which call_started was published has its row and its post.
THEOREM StartedHasPostAlways == Spec => []StartedHasPost
<1>1. CreateInvariant => StartedHasPost
  BY DEF CreateInvariant
<1> QED
  BY <1>1, CreateInvariance, PTL

-----------------------------------------------------------------------------
(* Why a call ends, as long as the RTK client is not replaced.             *)

Gone(c) == rtkMeetings[sessions[c].meeting] = "gone"

\* Every meeting that the plugin knows was created by the active app, and the
\* client of every node is of that app.
MeetingsKnown ==
    /\ \A n \in Node : rtkApp[n] = activeApp
    /\ \A m \in Meeting : rtkMeetings[m] \in {None, activeApp, "gone"}
    /\ \A c \in Call : Exists(c) => rtkMeetings[sessions[c].meeting] # None
    /\ \A ch \in Channel :
          channelMeetings[ch] # None => rtkMeetings[channelMeetings[ch].meeting] # None

\* What a handler has found out about the call that it is going to end.
HasCause(r) ==
    /\ pc[r] \in MeetingLabel => rtkMeetings[loc[r].meeting] # None
    /\ pc[r] = "end_store" /\ loc[r].op \in {"create", "join", "get"} => Gone(loc[r].subject)
    /\ pc[r] \in {"lock", "reread"} /\ loc[r].op = "get" => Gone(loc[r].subject)
    /\ pc[r] = "end_store" /\ loc[r].op = "end" =>
          loc[r].user = sessions[loc[r].subject].creator
    /\ pc[r] \in {"lock", "reread", "end_store"} /\ loc[r].op = "meetingEnded" =>
          loc[r].meeting = sessions[loc[r].subject].meeting

CauseInvariant ==
    /\ ServiceInvariant
    /\ MeetingsKnown
    /\ \A r \in Request : HasCause(r)

\* A row keeps its creator and its meeting.
LEMMA RowKeeps ==
    ASSUME ServiceInvariant, [Next]_vars, NEW c \in Call, Exists(c)
    PROVE  /\ Exists(c)'
           /\ sessions'[c].meeting = sessions[c].meeting
           /\ sessions'[c].creator = sessions[c].creator
<1>1. StoreTypeOK /\ [StoreNext]_storeVars /\ sessions[c] \in Session
  BY ServiceStoreStep DEF ServiceInvariant, TypeOK, StoreTypeOK, Exists
<1>2. Exists(c)'
  BY <1>1, RowsStay
<1>3. RowUnchanged(c) \/ RowEnded(c) \/ RowBackfilled(c)
  BY <1>1, RowChange DEF RowCreated
<1> QED
  BY <1>1, <1>2, <1>3 DEF RowUnchanged, RowEnded, RowBackfilled, Session

\* RTK never forgets that it has forgotten a meeting.
LEMMA MeetingKeeps ==
    ASSUME ServiceInvariant, [Next]_vars, NEW m \in Meeting, rtkMeetings[m] # None
    PROVE  /\ rtkMeetings'[m] # None
           /\ rtkMeetings[m] = "gone" => rtkMeetings'[m] = "gone"
<1>0. rtkMeetings \in [Meeting -> App \cup {None, "gone"}]
  BY DEF ServiceInvariant, TypeOK
<1>1. ASSUME NEW r \in Request, CreateNewMeeting(r) PROVE rtkMeetings'[m] = rtkMeetings[m]
  BY <1>0, <1>1 DEF CreateNewMeeting
<1>2. ASSUME NEW d \in Meeting, MeetingDeleted(d)
      PROVE  rtkMeetings'[m] \in {rtkMeetings[m], "gone"}
  BY <1>0, <1>2 DEF MeetingDeleted
<1>3. CASE \/ \E a \in App : StoreAppConfig(a)
           \/ \E n \in Node, a \in App \cup {None} : UpdateRTKClient(n, a)
           \/ \E n \in Node : Crash(n)
           \/ UNCHANGED vars
  BY <1>3 DEF StoreAppConfig, UpdateRTKClient, Crash, Dies, vars, shared, extVars
<1> QED
  BY <1>1, <1>2, <1>3, ExternalChange, ServiceAssumption
  DEF Next, Environment, Idle, extVars

\* What a request has found out stays true.
LEMMA CauseStays ==
    ASSUME CauseInvariant, [Next]_vars, NEW s \in Request,
           pc'[s] = pc[s], loc'[s] = loc[s]
    PROVE  HasCause(s)'
<1>0. ServiceInvariant /\ HasCause(s) /\ Fits(s)
  BY DEF CauseInvariant, ServiceInvariant
<1>1. CASE pc[s] \in MeetingLabel
  <2>1. loc[s].meeting \in Meeting
    BY <1>0, <1>1 DEF Fits, LocalsSet
  <2> QED
    BY <1>0, <1>1, <2>1, MeetingKeeps DEF HasCause
<1>2. CASE OnSubject(pc[s], loc[s].op)
  <2>1. PICK c \in Call : c = loc[s].subject /\ Exists(c)
    BY <1>0, <1>2 DEF Fits, LocalsSet
  <2>2. sessions[c].meeting \in Meeting
    BY <1>0, <2>1 DEF ServiceInvariant, TypeOK, StoreTypeOK, Exists, Session
  <2>3. /\ sessions'[c].meeting = sessions[c].meeting
        /\ sessions'[c].creator = sessions[c].creator
    BY <1>0, <2>1, RowKeeps
  <2>4. Gone(c) => Gone(c)'
    BY <1>0, <2>2, <2>3, MeetingKeeps, ServiceAssumption DEF Gone
  <2>5. pc[s] \in MeetingLabel => rtkMeetings'[loc[s].meeting] # None
    BY <1>1 DEF HasCause
  <2> QED
    BY <1>0, <2>1, <2>3, <2>4, <2>5 DEF HasCause, Gone
<1>3. CASE pc[s] \notin MeetingLabel /\ ~OnSubject(pc[s], loc[s].op)
  BY <1>3 DEF HasCause, OnSubject
<1> QED
  BY <1>1, <1>2, <1>3

\* A client that does not know a meeting of the plugin is told the truth.
LEMMA NotFoundMeansGone ==
    ASSUME CauseInvariant, NEW r \in Request, Running(r), HasClient(r),
           NEW m \in Meeting, rtkMeetings[m] # None, "notFound" \in MeetingStatus(r, m)
    PROVE  rtkMeetings[m] = "gone"
<1>1. rtkApp[loc[r].node] = activeApp
  BY DEF CauseInvariant, ServiceInvariant, Fits, LocalsSet, MeetingsKnown
<1> QED
  BY <1>1 DEF MeetingStatus, CauseInvariant, MeetingsKnown

\* CreateCall takes a meeting that was saved, or makes one.
LEMMA MeetingCause ==
    ASSUME CauseInvariant, NEW r \in Request, Arrival(r) \/ Handle(r), ~Panic(r),
           pc'[r] \in MeetingLabel
    PROVE  rtkMeetings'[loc'[r].meeting] # None
<1>0. ServiceInvariant /\ [Next]_vars /\ HasCause(r) /\ Fits(r) /\ loc \in [Request -> Local]
  BY DEF CauseInvariant, ServiceInvariant, TypeOK, Next
<1>1. CASE CreateLoadMeeting(r)
  <2>1. PICK ch \in Channel : ch = loc[r].channel
    BY <1>0, <1>1 DEF CreateLoadMeeting, Fits, OpFits, LocalsSet
  <2>2. PICK m : /\ m \in {ReusableMeeting(ch), None}
                 /\ loc' = [loc EXCEPT ![r].meeting = m, ![r].app = activeApp]
                 /\ Goto(r, IF m = None THEN "c_newMeeting" ELSE "c_verify")
    BY <1>0, <1>1, <2>1, CreateFlow DEF CreateLoadMeeting, Edge, Return, ServiceInvariant, TypeOK
  <2>3. m # None /\ m = channelMeetings[ch].meeting /\ channelMeetings[ch] # None
    BY <1>0, <2>2 DEF Goto, ReusableMeeting, ServiceInvariant, TypeOK
  <2>4. loc'[r].meeting = m
    BY <1>0, <2>2 DEF Local
  <2>5. m \in Meeting /\ rtkMeetings[m] # None
    BY <1>0, <2>3
    DEF CauseInvariant, MeetingsKnown, ServiceInvariant, TypeOK, StoreTypeOK, ChannelMeeting
  <2> QED
    BY <1>0, <2>4, <2>5, MeetingKeeps
<1>2. CASE CreateNewMeeting(r)
  <2>1. PICK m \in Meeting : /\ rtkMeetings' = [rtkMeetings EXCEPT ![m] = rtkApp[loc[r].node]]
                             /\ loc' = [loc EXCEPT ![r].meeting = m]
    BY <1>0, <1>2 DEF CreateNewMeeting, Return, ServiceInvariant, TypeOK
  <2>2. loc'[r].meeting = m
    BY <1>0, <2>1 DEF Local
  <2>3. rtkApp[loc[r].node] # None
    BY <1>2 DEF CreateNewMeeting, HasClient
  <2> QED
    BY <1>0, <2>1, <2>2, <2>3 DEF ServiceInvariant, TypeOK
<1>3. CASE pc[r] \in MeetingLabel /\ UNCHANGED loc
  <2>1. loc[r].meeting \in Meeting
    BY <1>0, <1>3 DEF Fits, LocalsSet
  <2> QED
    BY <1>0, <1>3, <2>1, MeetingKeeps DEF HasCause
<1>4. \/ CreateLoadMeeting(r) \/ CreateNewMeeting(r)
      \/ pc[r] \in MeetingLabel /\ UNCHANGED loc
  <2>1. CreateCall(r)
    BY <1>0, StepTo
  <2>2. pc'[r] \notin Final \cup {"c_newMeeting", "end_store"}
    OBVIOUS
  <2>3. \/ CreateLoadMeeting(r) \/ CreateVerifyMeeting(r) \/ CreateNewMeeting(r)
        \/ CreateSaveMeeting(r) \/ CreateToken(r) \/ CreatePost(r) \/ CreateInsert(r)
    BY <1>0, <2>1, <2>2, CreateFlow DEF CreateCall, Edge
  <2>4. ASSUME NEW result \in Final PROVE ~Return(r, result)
    BY <1>0, <2>2, <2>4 DEF Return, ServiceInvariant, TypeOK
  <2> QED
    BY <1>0, <2>3, <2>4
    DEF CreateVerifyMeeting, CreateSaveMeeting, CreateToken, CreatePost, CreateInsert
<1> QED
  BY <1>1, <1>2, <1>3, <1>4

\* The probe that a handler acts on was not mistaken.
LEMMA ProbeCause ==
    ASSUME CauseInvariant, NEW r \in Request,
           \/ CreateProbeExisting(r) /\ pc'[r] = "end_store"
           \/ JoinProbe(r) /\ pc'[r] = "end_store"
           \/ GetProbe(r) /\ pc'[r] = "lock"
    PROVE  /\ Gone(loc[r].subject)' /\ loc'[r] = loc[r]
           /\ loc[r].op \in {"create", "join", "get"}
<1>0. ServiceInvariant /\ Fits(r)
  BY DEF CauseInvariant, ServiceInvariant
<1>1. /\ loc[r].subject \in Call /\ Exists(loc[r].subject) /\ Running(r) /\ HasClient(r)
      /\ loc[r].op \in {"create", "join", "get"}
      /\ loc[r].op # "create" => loc[r].call = loc[r].subject
  BY <1>0 DEF CreateProbeExisting, JoinProbe, GetProbe, Fits, OpFits, LocalsSet, OnSubject
<1>2. PICK m \in Meeting : m = sessions[loc[r].subject].meeting
  BY <1>0, <1>1 DEF ServiceInvariant, TypeOK, StoreTypeOK, Exists, Session
<1>3. /\ "notFound" \in MeetingStatus(r, m)
      /\ UNCHANGED <<shared, loc>>
  <2>1. CASE CreateProbeExisting(r) /\ pc'[r] = "end_store"
    BY <1>0, <1>2, <2>1 DEF CreateProbeExisting, Return, ServiceInvariant, TypeOK
  <2>2. CASE JoinProbe(r) /\ pc'[r] = "end_store"
    <3>1. loc[r].call = loc[r].subject
      BY <1>0, <2>2 DEF JoinProbe, Fits, OpFits, LocalsSet, OnSubject
    <3> QED
      BY <1>0, <1>2, <2>2, <3>1 DEF JoinProbe, Goto, ServiceInvariant, TypeOK
  <2>3. CASE GetProbe(r) /\ pc'[r] = "lock"
    <3>1. loc[r].call = loc[r].subject
      BY <1>0, <2>3 DEF GetProbe, Fits, OpFits, LocalsSet, OnSubject
    <3> QED
      BY <1>0, <1>2, <2>3, <3>1 DEF GetProbe, Goto, ServiceInvariant, TypeOK
  <2> QED
    BY <2>1, <2>2, <2>3
<1>4. rtkMeetings[m] = "gone"
  BY <1>1, <1>2, <1>3, NotFoundMeansGone DEF CauseInvariant, MeetingsKnown
<1> QED
  BY <1>1, <1>2, <1>3, <1>4 DEF Gone, shared, storeVars, extVars

\* Every handler that may end a call has found the reason.
LEMMA HasCauseStep ==
    ASSUME CauseInvariant, NEW r \in Request, Arrival(r) \/ Handle(r), ~Panic(r)
    PROVE  HasCause(r)'
<1>0. /\ ServiceInvariant /\ HasCause(r) /\ Fits(r)
      /\ loc \in [Request -> Local] /\ pc \in [Request -> Label]
  BY DEF CauseInvariant, ServiceInvariant, TypeOK
<1>1. CASE pc'[r] \in MeetingLabel
  BY <1>1, MeetingCause DEF HasCause
<1>2. CASE \/ CreateProbeExisting(r) /\ pc'[r] = "end_store"
           \/ JoinProbe(r) /\ pc'[r] = "end_store"
           \/ GetProbe(r) /\ pc'[r] = "lock"
  BY <1>2, ProbeCause DEF HasCause, Gone
<1>3. CASE EndLoad(r) /\ pc'[r] = "end_store"
  <2>1. loc[r].op = "end" /\ loc[r].call \in Call
    BY <1>0, <1>3 DEF EndLoad, Fits, OpFits, LocalsSet
  <2>2. /\ loc' = [loc EXCEPT ![r].subject = loc[r].call]
        /\ sessions[loc[r].call].creator = loc[r].user
        /\ UNCHANGED shared
    BY <1>0, <1>3 DEF EndLoad, Return
  <2>3. /\ loc'[r].subject = loc[r].call
        /\ loc'[r].op = "end"
        /\ loc'[r].user = loc[r].user
    BY <1>0, <2>1, <2>2 DEF Local
  <2> QED
    BY <1>3, <2>2, <2>3 DEF HasCause, shared, storeVars
<1>4. CASE Reread(r) /\ pc'[r] = "end_store"
  <2>1. UNCHANGED <<shared, loc>> /\ At(r, "reread")
    BY <1>0, <1>4 DEF Reread, UnlockAndReload, Return
  <2>2. loc[r].op \in {"get", "meetingEnded"}
    BY <1>0, <2>1 DEF Fits, OpFits
  <2> QED
    BY <1>0, <1>4, <2>1, <2>2 DEF HasCause, Gone, shared, storeVars, extVars
<1>5. CASE Lock(r)
  <2>1. UNCHANGED <<shared, loc>> /\ At(r, "lock")
    BY <1>5 DEF Lock
  <2>2. pc'[r] \notin {"lock", "end_store"} \cup MeetingLabel
    BY <1>0, <1>5, OtherFlow DEF Edge
  <2> QED
    BY <1>0, <2>1, <2>2 DEF HasCause, Gone, shared, storeVars, extVars
<1>6. CASE WebhookLookup(r) /\ pc'[r] = "lock"
  <2>1. CASE loc[r].op = "meetingEnded"
    <3>1. PICK d \in ActiveOn(loc[r].meeting) :
              loc' = [loc EXCEPT ![r].subject = d] /\ UNCHANGED shared
      BY <1>0, <1>6, <2>1 DEF WebhookLookup, Return, Goto
    <3>2. loc'[r].subject = d /\ loc'[r].op = loc[r].op /\ loc'[r].meeting = loc[r].meeting
      BY <1>0, <3>1 DEF Local
    <3> QED
      BY <1>6, <2>1, <3>1, <3>2 DEF HasCause, ActiveOn, shared, storeVars
  <2>2. CASE loc[r].op # "meetingEnded"
    <3>1. UNCHANGED loc
      BY <1>0, <1>6, <2>2 DEF WebhookLookup, Return, Goto
    <3> QED
      BY <1>0, <1>6, <2>2, <3>1 DEF HasCause, WebhookLookup, Fits, OpFits
  <2> QED
    BY <2>1, <2>2
<1>7. CASE Arrival(r) /\ pc'[r] = "lock"
  <2>1. PICK n \in Node : RequestCreate(r, n) \/ RequestOnCall(r, n)
    BY <1>0, <1>7
    DEF Arrival, ParticipantWebhook, MeetingWebhook, Arrive
  <2>2. loc'[r].op \notin {"get", "meetingEnded"}
    <3>1. CASE RequestCreate(r, n)
      BY <1>0, <3>1 DEF RequestCreate, Arrive, Blank
    <3>2. CASE RequestOnCall(r, n)
      <4>1. PICK op \in Ops \cap {"join", "leave", "end", "get"}, c \in Call, u \in User :
              Arrive(r, IF op = "get" THEN "g_load" ELSE "lock",
                     [Blank EXCEPT !.op = op, !.node = n, !.user = u, !.call = c])
        BY <3>2 DEF RequestOnCall
      <4>2. op # "get" /\ loc'[r].op = op
        BY <1>0, <1>7, <4>1 DEF Arrive, Blank
      <4> QED
        BY <4>2
    <3> QED
      BY <2>1, <3>1, <3>2
  <2> QED
    BY <1>7, <2>2 DEF HasCause
<1>8. CASE pc'[r] \notin MeetingLabel \cup {"lock", "reread", "end_store"}
  BY <1>8 DEF HasCause
<1> QED
  BY <1>0, <1>1, <1>2, <1>3, <1>4, <1>5, <1>6, <1>7, <1>8, StepTo

\* The meetings stay known.
LEMMA MeetingsKnownStep ==
    ASSUME CauseInvariant, NEW r \in Request, Arrival(r) \/ Handle(r)
    PROVE  MeetingsKnown'
<1>0. /\ ServiceInvariant /\ [Next]_vars /\ HasCause(r) /\ Fits(r)
      /\ StoreTypeOK /\ MeetingsKnown
  BY DEF CauseInvariant, ServiceInvariant, TypeOK, Next
<1>1. UNCHANGED <<activeApp, rtkApp>>
  BY ExternalChange DEF extVars, CreateNewMeeting
<1>2. \A m \in Meeting : rtkMeetings'[m] \in {None, activeApp, "gone"}
  <2>1. CASE CreateNewMeeting(r)
    <3>1. rtkApp[loc[r].node] = activeApp
      BY <1>0, <2>1 DEF CreateNewMeeting, Fits, LocalsSet, MeetingsKnown
    <3> QED
      BY <1>0, <2>1, <3>1 DEF CreateNewMeeting, MeetingsKnown, ServiceInvariant, TypeOK
  <2> QED
    BY <1>0, <2>1, ExternalChange DEF extVars, MeetingsKnown
<1>3. ASSUME NEW c \in Call, Exists(c)' PROVE rtkMeetings'[sessions'[c].meeting] # None
  <2>1. CASE Exists(c)
    <3>1. sessions[c].meeting \in Meeting
      BY <1>0, <2>1 DEF StoreTypeOK, Exists, Session
    <3> QED
      BY <1>0, <2>1, <3>1, RowKeeps, MeetingKeeps DEF MeetingsKnown
  <2>2. CASE ~Exists(c)
    <3>1. PICK s \in Request : CreateInsert(s) /\ loc[s].call = c
      BY <1>0, <1>3, <2>2, RowAppears
    <3>2. /\ loc[s].meeting \in Meeting /\ rtkMeetings[loc[s].meeting] # None
          /\ UNCHANGED rtkMeetings
      BY <3>1
      DEF CreateInsert, CauseInvariant, ServiceInvariant, Fits, LocalsSet, HasCause, extVars
    <3>3. sessions'[c].meeting = loc[s].meeting
      BY <1>0, <1>3, <2>2, <3>1
      DEF CreateInsert, CreateCallSession, NewSession, StoreTypeOK, Exists, storeVars
    <3> QED
      BY <3>2, <3>3
  <2> QED
    BY <2>1, <2>2
<1>4. ASSUME NEW ch \in Channel, channelMeetings'[ch] # None
      PROVE  rtkMeetings'[channelMeetings'[ch].meeting] # None
  <2>1. CASE CreateSaveMeeting(r)
    <3>1. loc[r].meeting \in Meeting /\ rtkMeetings[loc[r].meeting] # None
      BY <1>0, <2>1 DEF CreateSaveMeeting, Fits, LocalsSet, HasCause
    <3>2. \/ channelMeetings'[ch] = channelMeetings[ch]
          \/ channelMeetings'[ch].meeting = loc[r].meeting
      BY <1>0, <2>1 DEF CreateSaveMeeting, SaveChannelMeeting, StoreTypeOK, storeVars
    <3> QED
      BY <1>0, <1>4, <2>1, <3>1, <3>2 DEF CreateSaveMeeting, extVars, MeetingsKnown
  <2>2. CASE ~CreateSaveMeeting(r)
    <3>1. UNCHANGED channelMeetings
      <4>1. ASSUME \/ CreateInsert(r) \/ JoinAdd(r) \/ JoinUndo(r) \/ LeaveRemove(r)
                   \/ WebhookAdd(r) \/ WebhookBackfill(r) \/ EndStore(r)
            PROVE  UNCHANGED channelMeetings
        BY <4>1
        DEF CreateInsert, JoinAdd, JoinUndo, LeaveRemove, WebhookAdd, WebhookBackfill,
            EndStore, CreateCallSession, AddCallParticipant, RemoveCallParticipant, EndCall,
            UpdateCallSessionID, storeVars
      <4> QED
        BY <2>2, <4>1, StoreUnchanged
        DEF Handle, CreateCall, JoinCall, LeaveCall, EndActiveCall, HandleWebhook, storeVars
    <3>2. channelMeetings[ch].meeting \in Meeting
      BY <1>0, <1>4, <3>1 DEF StoreTypeOK, ChannelMeeting
    <3> QED
      BY <1>0, <1>4, <3>1, <3>2, MeetingKeeps DEF MeetingsKnown
  <2> QED
    BY <2>1, <2>2
<1> QED
  BY <1>0, <1>1, <1>2, <1>3, <1>4 DEF MeetingsKnown

\* No handler has a cause to end a call at the start.
LEMMA CauseInit == Init => CauseInvariant
<1> SUFFICES ASSUME Init PROVE CauseInvariant
  OBVIOUS
<1>1. ServiceInvariant
  BY ServiceInit
<1>2. MeetingsKnown
  BY ServiceAssumption DEF Init, StoreInit, MeetingsKnown, Exists
<1> QED
  BY <1>1, <1>2 DEF Init, CauseInvariant, HasCause

\* What a handler found out stays true: a row keeps its meeting, and a meeting
\* that is gone does not come back while the configuration stays.
LEMMA CauseStep ==
    ASSUME "clientChange" \notin Faults, CauseInvariant, [Next]_vars
    PROVE  CauseInvariant'
<1>0. ServiceInvariant'
  BY ServiceStep DEF CauseInvariant
<1>1. ASSUME NEW r \in Request, Arrival(r) \/ Handle(r), ~Panic(r)
      PROVE  CauseInvariant'
  <2>1. ASSUME NEW s \in Request, s # r PROVE HasCause(s)'
    <3>1. SoundStep(r)
      BY <1>1, ServiceStepSound DEF CauseInvariant
    <3> QED
      BY <2>1, <3>1, CauseStays DEF SoundStep, OthersWait
  <2> QED
    BY <1>0, <1>1, <2>1, HasCauseStep, MeetingsKnownStep DEF CauseInvariant
<1>2. ASSUME NEW n \in Node, Dies(n) PROVE CauseInvariant'
  <2>1. ASSUME NEW s \in Request PROVE HasCause(s)'
    <3>1. CASE pc'[s] = "crashed"
      BY <3>1 DEF HasCause
    <3>2. CASE pc'[s] # "crashed"
      BY <1>2, <3>2, CauseStays DEF Dies, CauseInvariant, ServiceInvariant, TypeOK
    <3> QED
      BY <3>1, <3>2
  <2>2. MeetingsKnown'
    BY <1>2 DEF Dies, shared, storeVars, extVars, MeetingsKnown, Exists, CauseInvariant
  <2> QED
    BY <1>0, <2>1, <2>2 DEF CauseInvariant
<1>3. ASSUME NEW r \in Request, Panic(r) PROVE CauseInvariant'
  <2>1. loc[r].node \in Node
    BY <1>3 DEF Panic, CauseInvariant, ServiceInvariant, Fits, LocalsSet
  <2> QED
    BY <1>2, <1>3, <2>1 DEF Panic
<1>4. CASE (\E m \in Meeting : MeetingDeleted(m)) \/ UNCHANGED vars
  <2>1. UNCHANGED <<sessions, channelMeetings, activeApp, rtkApp, pc, loc>>
    BY <1>4 DEF MeetingDeleted, vars, shared, control, storeVars, extVars
  <2>2. ASSUME NEW m \in Meeting PROVE rtkMeetings'[m] \in {rtkMeetings[m], "gone"}
    BY <1>4
    DEF MeetingDeleted, vars, shared, extVars, CauseInvariant, ServiceInvariant, TypeOK
  <2>3. MeetingsKnown'
    <3>1. ASSUME NEW c \in Call, Exists(c) PROVE sessions[c].meeting \in Meeting
      BY <3>1 DEF CauseInvariant, ServiceInvariant, TypeOK, StoreTypeOK, Exists, Session
    <3>2. ASSUME NEW ch \in Channel, channelMeetings[ch] # None
          PROVE  channelMeetings[ch].meeting \in Meeting
      BY <3>2 DEF CauseInvariant, ServiceInvariant, TypeOK, StoreTypeOK, ChannelMeeting
    <3> QED
      BY <2>1, <2>2, <3>1, <3>2, MeetingKeeps
      DEF MeetingsKnown, Exists, CauseInvariant
  <2> QED
    BY <1>0, <2>1, <2>3, CauseStays DEF CauseInvariant
<1> QED
  BY <1>1, <1>2, <1>3, <1>4
  DEF Next, Environment, Crash, Idle, MayFail, StoreAppConfig, UpdateRTKClient

\* Who may have ended a call: the request whose stamp is in the row.
LEMMA WhoEnds ==
    ASSUME ServiceInvariant, [Next]_vars, NEW c \in Call, NEW q \in Request,
           Active(c), sessions'[c].endat = q
    PROVE  \/ /\ JoinUndo(q) \/ LeaveRemove(q)
              /\ loc[q].call = c
              /\ ParticipantsOf(c)' = {}
           \/ EndStore(q) /\ loc[q].subject = c
<1>0. /\ StoreTypeOK /\ sessions[c] \in Session /\ sessions[c].endat = 0
      /\ q # 0
  BY StoreAssumption, ServiceAssumption
  DEF ServiceInvariant, TypeOK, StoreTypeOK, Active, Exists
<1>1. ASSUME NEW r \in Request, CreateInsert(r) PROVE sessions'[c] = sessions[c]
  BY <1>0, <1>1 DEF CreateInsert, CreateCallSession, StoreTypeOK, storeVars, Active
<1>2. ASSUME NEW r \in Request, JoinAdd(r) \/ WebhookAdd(r) \/ CreateSaveMeeting(r)
      PROVE  sessions'[c] = sessions[c]
  BY <1>2
  DEF JoinAdd, WebhookAdd, CreateSaveMeeting, AddCallParticipant, SaveChannelMeeting, storeVars
<1>3. ASSUME NEW r \in Request, WebhookBackfill(r)
      PROVE  sessions'[c].endat = sessions[c].endat
  BY <1>0, <1>3
  DEF WebhookBackfill, UpdateCallSessionID, StoreTypeOK, storeVars, Session
<1>4. ASSUME NEW r \in Request, EndStore(r)
      PROVE  r = q /\ loc[q].subject = c
  BY <1>0, <1>4 DEF EndStore, EndCall, StoreTypeOK, storeVars, Session
<1>5. ASSUME NEW r \in Request, JoinUndo(r) \/ LeaveRemove(r)
      PROVE  r = q /\ loc[q].call = c /\ ParticipantsOf(c)' = {}
  <2>1. RemoveCallParticipant(loc[r].call, loc[r].user, r)
    BY <1>0, <1>5 DEF JoinUndo, LeaveRemove, storeVars
  <2>2. r = q /\ loc[q].call = c /\ IsLastParticipant(c, loc[r].user)
    BY <1>0, <2>1 DEF RemoveCallParticipant, StoreTypeOK, Session
  <2>3. ParticipantsOf(c)' = ParticipantsOf(c) \ {loc[r].user}
    BY <2>1, <2>2 DEF RemoveCallParticipant, ParticipantsOf
  <2> QED
    BY <2>2, <2>3 DEF IsLastParticipant
<1>6. sessions' # sessions
  BY <1>0
<1>7. PICK r \in Request : Arrival(r) \/ Handle(r)
  BY <1>6
  DEF Next, Environment, MeetingDeleted, StoreAppConfig, UpdateRTKClient, Crash, Dies,
      Idle, vars, shared, storeVars
<1>8. \/ CreateInsert(r) \/ JoinAdd(r) \/ WebhookAdd(r) \/ CreateSaveMeeting(r)
      \/ WebhookBackfill(r) \/ EndStore(r) \/ JoinUndo(r) \/ LeaveRemove(r)
  BY <1>6, <1>7, StoreUnchanged
  DEF Handle, CreateCall, JoinCall, LeaveCall, EndActiveCall, HandleWebhook, storeVars
<1> QED
  BY <1>0, <1>1, <1>2, <1>3, <1>4, <1>5, <1>8

\* On any number of nodes, and whatever else goes wrong, no call ends without
\* a cause while the app configuration stays: a client of another app takes
\* every meeting for a missing one.
THEOREM EndsForCauseAlways ==
    ASSUME "clientChange" \notin Faults
    PROVE  Spec => EndsForCause
<1>1. ASSUME CauseInvariant, [Next]_vars, NEW c \in Call, NEW q \in Request,
             Active(c), Exists(c)', sessions'[c].endat = q
      PROVE  \/ loc[q].op = "end" /\ loc[q].user = sessions[c].creator
             \/ loc[q].op \in {"leave", "partLeft", "join"} /\ ParticipantsOf(c)' = {}
             \/ loc[q].op \in {"create", "join", "get"}
                /\ rtkMeetings[sessions[c].meeting] = "gone"
             \/ loc[q].op = "meetingEnded" /\ loc[q].meeting = sessions[c].meeting
  <2>0. ServiceInvariant /\ Fits(q) /\ HasCause(q)
    BY <1>1 DEF CauseInvariant, ServiceInvariant
  <2>1. CASE (JoinUndo(q) \/ LeaveRemove(q)) /\ ParticipantsOf(c)' = {}
    BY <2>0, <2>1 DEF JoinUndo, LeaveRemove, Fits, OpFits
  <2>2. CASE EndStore(q) /\ loc[q].subject = c
    BY <2>0, <2>2 DEF EndStore, Fits, OpFits, HasCause, Gone
  <2> QED
    BY <1>1, <2>0, <2>1, <2>2, WhoEnds
<1>2. CauseInvariant /\ [Next]_vars
      => [\A c \in Call : \A r \in Request :
             Active(c) /\ Exists(c)' /\ sessions'[c].endat = r =>
                 \/ loc[r].op = "end" /\ loc[r].user = sessions[c].creator
                 \/ loc[r].op \in {"leave", "partLeft", "join"} /\ ParticipantsOf(c)' = {}
                 \/ loc[r].op \in {"create", "join", "get"}
                    /\ rtkMeetings[sessions[c].meeting] = "gone"
                 \/ loc[r].op = "meetingEnded"
                    /\ loc[r].meeting = sessions[c].meeting]_vars
  BY <1>1
<1> QED
  BY <1>2, CauseInit, CauseStep, PTL DEF Spec, EndsForCause

-----------------------------------------------------------------------------
(* The posts of the calls, as long as the database and the post API answer *)
(* and no process dies.                                                    *)

ReliableStore == Faults \cap {"storeError", "postError", "crash", "clientChange"} = {}

\* A post without a row belongs to a CreateCall that will insert the row or
\* delete the post.
PostFits(c) ==
    /\ Exists(c) => posts[c] # None
    /\ posts[c] # None /\ ~Exists(c) =>
          \E r \in Request : loc[r].call = c /\ pc[r] \in {"c_insert", "c_deletePost"}

PostInvariant ==
    /\ CreateInvariant
    /\ CauseInvariant
    /\ \A r \in Request : pc[r] = "c_deletePost" => ~Exists(loc[r].call)
    /\ \A c \in Call : PostFits(c)

\* With the configuration it started with, no node loses its client.
LEMMA NobodyPanics ==
    ASSUME CauseInvariant, NEW r \in Request
    PROVE  ~Panic(r)
<1> SUFFICES ASSUME Panic(r) PROVE FALSE
  OBVIOUS
<1>1. rtkApp[loc[r].node] = activeApp
  BY DEF Panic, CauseInvariant, ServiceInvariant, Fits, LocalsSet, MeetingsKnown
<1> QED
  BY <1>1, ServiceAssumption
  DEF Panic, HasClient, CauseInvariant, ServiceInvariant, TypeOK

\* CreateCall only deletes the post of a call that has no row.
LEMMA DeletesOrphan ==
    ASSUME ReliableStore, PostInvariant, NEW r \in Request, Arrival(r) \/ Handle(r),
           NEW s \in Request, pc'[s] = "c_deletePost"
    PROVE  ~Exists(loc[s].call)'
<1>0. /\ ServiceInvariant /\ [Next]_vars /\ ~Panic(r) /\ SoundStep(r)
      /\ OwnsCall(s) /\ Fits(s) /\ pc \in [Request -> Label]
  BY NobodyPanics, ServiceStepSound
  DEF PostInvariant, CreateInvariant, ServiceInvariant, TypeOK, Next
<1>1. CASE s = r
  <2>1. CreateInsert(r)
    BY <1>0, <1>1, StepTo
  <2>2. UNCHANGED <<sessions, loc>>
    BY <1>0, <1>1, <2>1
    DEF CreateInsert, Goto, MayFail, ReliableStore, storeVars
  <2>3. ~Exists(loc[s].call)
    BY <1>0, <1>1, <2>1 DEF CreateInsert, OwnsCall, Creating, Fits, OpFits
  <2> QED
    BY <2>2, <2>3 DEF Exists
<1>2. CASE s # r
  <2>1. pc[s] = "c_deletePost" /\ loc'[s] = loc[s]
    BY <1>0, <1>2 DEF SoundStep, OthersWait
  <2>2. PICK c \in Call : c = loc[s].call /\ ~Exists(c)
    BY <1>0, <2>1 DEF PostInvariant, Fits, OpFits, LocalsSet
  <2>3. ASSUME Exists(c)' PROVE FALSE
    <3>1. PICK t \in Request : CreateInsert(t) /\ loc[t].call = c
      BY <1>0, <2>2, <2>3, RowAppears
    <3>2. t = s
      BY <1>0, <2>1, <2>2, <3>1
      DEF CreateInsert, Creating, PostInvariant, CreateInvariant, OwnCalls,
          ServiceInvariant, Fits, OpFits
    <3> QED
      BY <2>1, <3>1, <3>2 DEF CreateInsert
  <2> QED
    BY <2>1, <2>2, <2>3 DEF Exists
<1> QED
  BY <1>1, <1>2

\* A post comes before its row, and goes only if the row did not come.
LEMMA PostFitsStep ==
    ASSUME ReliableStore, PostInvariant, NEW r \in Request, Arrival(r) \/ Handle(r),
           NEW c \in Call
    PROVE  PostFits(c)'
<1>0. /\ ServiceInvariant /\ [Next]_vars /\ ~Panic(r) /\ SoundStep(r)
      /\ OwnsCall(r) /\ Fits(r) /\ PostFits(c)
      /\ pc \in [Request -> Label]
      /\ posts \in [Call -> Post \cup {None}]
  BY NobodyPanics, ServiceStepSound
  DEF PostInvariant, CreateInvariant, ServiceInvariant, TypeOK, Next
<1>1. ASSUME Exists(c)' PROVE posts'[c] # None
  <2>1. CASE Exists(c)
    <3>1. ~(CreateDeletePost(r) /\ loc[r].call = c)
      BY <2>1 DEF CreateDeletePost, PostInvariant
    <3> QED
      BY <1>0, <2>1, <3>1, PostFate DEF PostFits
  <2>2. CASE ~Exists(c)
    <3>1. PICK t \in Request : CreateInsert(t) /\ loc[t].call = c
      BY <1>0, <1>1, <2>2, RowAppears
    <3> QED
      BY <3>1
      DEF CreateInsert, PostInvariant, CreateInvariant, OwnsCall, Creating,
          ServiceInvariant, Fits, OpFits
  <2> QED
    BY <2>1, <2>2
<1>2. ASSUME posts'[c] # None, ~Exists(c)'
      PROVE  \E s \in Request : loc'[s].call = c /\ pc'[s] \in {"c_insert", "c_deletePost"}
  <2>1. ~Exists(c)
    BY <1>0, <1>2, RowKeeps
  <2>2. CASE posts[c] = None
    <3>1. CreatePost(r) /\ loc[r].call = c
      BY <1>0, <1>2, <2>2, PostFate DEF CreateDeletePost
    <3>2. UNCHANGED loc /\ pc'[r] = "c_insert"
      BY <1>0, <1>2, <2>2, <3>1 DEF CreatePost, Goto, MayFail, ReliableStore
    <3> QED
      BY <3>1, <3>2
  <2>3. CASE posts[c] # None
    <3>1. PICK s \in Request : loc[s].call = c /\ pc[s] \in {"c_insert", "c_deletePost"}
      BY <1>0, <2>1, <2>3 DEF PostFits
    <3>2. CASE s # r
      BY <1>0, <3>1, <3>2 DEF SoundStep, OthersWait
    <3>3. CASE s = r
      <4>1. Handle(r) /\ (CreateInsert(r) \/ CreateDeletePost(r))
        BY <1>0, <3>1, <3>3, WhoSteps, StepFrom
      <4>2. CASE CreateInsert(r)
        <5>1. ~CreateCallSession(c, loc[r].channel, loc[r].user, loc[r].meeting)
          <6>1. /\ loc[r].channel \in Channel /\ loc[r].user \in User
                /\ loc[r].meeting \in Meeting
            BY <1>0, <4>2 DEF CreateInsert, Fits, OpFits, LocalsSet
          <6> QED
            BY <1>0, <1>2, <6>1, NewSessionType, StoreAssumption
            DEF CreateCallSession, Exists, ServiceInvariant, TypeOK, StoreTypeOK
        <5>2. pc'[r] = "c_deletePost" /\ UNCHANGED loc
          BY <1>0, <3>1, <3>3, <4>2, <5>1
          DEF CreateInsert, Goto, MayFail, ReliableStore
        <5> QED
          BY <3>1, <3>3, <5>2
      <4>3. CASE CreateDeletePost(r)
        BY <1>0, <1>2, <3>1, <3>3, <4>3 DEF CreateDeletePost, MayFail, ReliableStore
      <4> QED
        BY <4>1, <4>2, <4>3
    <3> QED
      BY <3>2, <3>3
  <2> QED
    BY <2>2, <2>3
<1> QED
  BY <1>1, <1>2 DEF PostFits

\* There are no posts at the start.
LEMMA PostInit == Init => PostInvariant
BY CreateInit, CauseInit
DEF Init, StoreInit, PostInvariant, PostFits, Exists

\* Without faults of the database and the posts, a failed CreateCall cleans up.
LEMMA PostStep ==
    ASSUME ReliableStore, PostInvariant, [Next]_vars
    PROVE  PostInvariant'
<1>0. CreateInvariant' /\ CauseInvariant'
  BY CreateStep, CauseStep DEF PostInvariant, ReliableStore
<1>1. ASSUME NEW r \in Request, Arrival(r) \/ Handle(r) PROVE PostInvariant'
  BY <1>0, <1>1, DeletesOrphan, PostFitsStep DEF PostInvariant
<1>2. CASE (\E m \in Meeting : MeetingDeleted(m)) \/ UNCHANGED vars
  <2>1. UNCHANGED <<sessions, posts, pc, loc>>
    BY <1>2 DEF MeetingDeleted, vars, shared, control, storeVars
  <2> QED
    BY <1>0, <2>1 DEF PostInvariant, PostFits, Exists
<1> QED
  BY <1>1, <1>2
  DEF Next, Environment, Crash, Idle, MayFail, StoreAppConfig, UpdateRTKClient, ReliableStore

\* With a database and a post API that answer and processes that live, on any
\* number of nodes, the posts of a server at rest are those of its calls.
THEOREM PostIffSessionAlways ==
    ASSUME ReliableStore
    PROVE  Spec => []PostIffSession
<1>1. PostInvariant => PostIffSession
  BY DEF PostInvariant, PostFits, PostIffSession, Quiet
<1> QED
  BY <1>1, PostInit, PostStep, PTL DEF Spec

-----------------------------------------------------------------------------
(* What a reconciliation leaves behind.                                    *)

ReliableDatabase == Faults \cap {"storeError", "crash", "clientChange"} = {}

\* A GET announces the end of a call that is over.
Reconciled(r) ==
    pc[r] \in EmitLabel /\ loc[r].op = "get" => ~Active(loc[r].subject)

ReconcileInvariant == CauseInvariant /\ \A r \in Request : Reconciled(r)

\* An ended call is not active again.
LEMMA NotActiveStays ==
    ASSUME ServiceInvariant, [Next]_vars, NEW c \in Call, Exists(c), ~Active(c)
    PROVE  ~Active(c)'
<1>1. Ended(c)
  BY DEF Active, Ended
<1> QED
  BY <1>1, ServiceStoreStep, EndedFrozenStep DEF ServiceInvariant, TypeOK, Active, Ended

\* store.EndCall leaves no active call behind.
LEMMA EndCallEnds ==
    ASSUME ServiceInvariant, NEW c \in Call, NEW r \in Request, EndCall(c, r)
    PROVE  ~Active(c)'
<1>1. sessions \in [Call -> Session \cup {None}] /\ r # 0
  BY StoreAssumption, ServiceAssumption DEF ServiceInvariant, TypeOK, StoreTypeOK
<1>2. CASE Active(c)
  <2>1. sessions'[c].endat = r
    BY <1>1, <1>2 DEF EndCall, Active, Exists, Session
  <2> QED
    BY <1>1, <2>1 DEF Active
<1>3. CASE ~Active(c)
  BY <1>3 DEF EndCall, Active, Exists
<1> QED
  BY <1>2, <1>3

\* A reconciliation that leaves the critical section leaves an ended call.
LEMMA ReconciledStep ==
    ASSUME ReliableDatabase, ReconcileInvariant, NEW r \in Request, Arrival(r) \/ Handle(r),
           NEW s \in Request
    PROVE  Reconciled(s)'
<1> SUFFICES ASSUME pc'[s] \in EmitLabel, loc'[s].op = "get"
             PROVE  ~Active(loc[s].subject)'
  BY DEF Reconciled
<1>0. /\ ServiceInvariant /\ [Next]_vars /\ ~Panic(r) /\ SoundStep(r)
      /\ Reconciled(s) /\ Fits(s) /\ Fits(s)'
      /\ pc \in [Request -> Label] /\ loc \in [Request -> Local]
  BY NobodyPanics, ServiceStepSound, ServiceStep
  DEF ReconcileInvariant, CauseInvariant, ServiceInvariant, TypeOK, Next
\* The call was over before the step.
<1>1. ASSUME pc[s] \in EmitLabel, loc[s].op = "get", loc'[s].subject = loc[s].subject
      PROVE  ~Active(loc[s].subject)'
  <2>1. PICK c \in Call : c = loc[s].subject /\ Exists(c) /\ ~Active(c)
    BY <1>0, <1>1 DEF Fits, LocalsSet, OnSubject, Reconciled
  <2> QED
    BY <1>0, <1>1, <2>1, NotActiveStays DEF Active, Exists
<1>2. CASE s # r
  BY <1>0, <1>1, <1>2 DEF SoundStep, OthersWait
<1>3. CASE s = r /\ pc'[r] = "end_getPost"
  <2>1. EndStore(r)
    <3>1. JoinUndo(r) \/ LeavePublish(r) \/ EndStore(r)
      BY <1>0, <1>3, StepTo
    <3>2. loc[r].op = "get"
      BY <1>0, <1>3, <3>1 DEF SoundStep, SameRequest, JoinUndo, LeavePublish, EndStore
    <3> QED
      BY <1>0, <1>3, <3>1, <3>2 DEF JoinUndo, LeavePublish, Fits, OpFits
  <2>2. EndCall(loc[r].subject, r) /\ UNCHANGED loc
    BY <1>0, <1>3, <2>1 DEF EndStore, MayFail, ReliableDatabase
  <2> QED
    BY <1>0, <1>3, <2>1, <2>2, EndCallEnds DEF EndStore, Fits, LocalsSet, OnSubject
<1>4. CASE s = r /\ pc'[r] \in {"end_putPost", "end_publish"}
  <2>1. ReadEnd(r) \/ WriteEnd(r)
    BY <1>0, <1>4, StepTo
  <2>2. /\ loc'[r].subject = loc[r].subject
        /\ loc'[r].op = loc[r].op
        /\ pc[r] \in EmitLabel
    BY <1>0, <2>1 DEF ReadEnd, WriteEnd, ReadPost, WritePost, Local
  <2> QED
    BY <1>1, <1>4, <2>2
<1> QED
  BY <1>2, <1>3, <1>4

\* Nothing reopens the call behind its back.
LEMMA ReconcileStep ==
    ASSUME ReliableDatabase, ReconcileInvariant, [Next]_vars
    PROVE  ReconcileInvariant'
<1>0. CauseInvariant'
  BY CauseStep DEF ReconcileInvariant, ReliableDatabase
<1>1. ASSUME NEW r \in Request, Arrival(r) \/ Handle(r) PROVE ReconcileInvariant'
  BY <1>0, <1>1, ReconciledStep DEF ReconcileInvariant
<1>2. CASE (\E m \in Meeting : MeetingDeleted(m)) \/ UNCHANGED vars
  <2>1. UNCHANGED <<sessions, pc, loc>>
    BY <1>2 DEF MeetingDeleted, vars, shared, control, storeVars
  <2> QED
    BY <1>0, <2>1 DEF ReconcileInvariant, Reconciled, Active, Exists
<1> QED
  BY <1>1, <1>2
  DEF Next, Environment, Crash, Idle, MayFail, StoreAppConfig, UpdateRTKClient,
      ReliableDatabase

\* A GET lets go of callMu with its call ended.
LEMMA ReconcileReleases ==
    ASSUME ReliableDatabase, ReconcileInvariant, [Next]_vars, NEW r \in Request,
           loc[r].op = "get", callMu[loc[r].node] = r, callMu'[loc[r].node] # r
    PROVE  ~Active(loc[r].subject)
<1>0. ServiceInvariant /\ CauseInvariant /\ Fits(r) /\ Reconciled(r)
  BY DEF ReconcileInvariant, CauseInvariant, ServiceInvariant
<1>1. ~UNCHANGED callMu
  OBVIOUS
<1>2. PICK a \in Request : Arrival(a) \/ Handle(a)
  BY <1>1
  DEF Next, Environment, Crash, Idle, MayFail, ReliableDatabase, MeetingDeleted,
      StoreAppConfig, UpdateRTKClient, control, vars
<1>3. SoundStep(a)
  BY <1>0, <1>2, NobodyPanics, ServiceStepSound
<1>4. Running(r) /\ loc[r].node \in Node
  <2>1. Running(r)
    BY <1>0, ServiceAssumption DEF Fits, OpFits, Op
  <2> QED
    BY <1>0, <2>1 DEF Fits, LocalsSet
<1>5. a = r
  <2>1. callMu \in [Node -> Request \cup {None}] /\ r # None
    BY <1>0, ServiceAssumption DEF ServiceInvariant, TypeOK
  <2>2. CASE Releases(a)
    BY <1>4, <2>1, <2>2 DEF Releases
  <2>3. CASE TakesMutex(a)
    BY <1>4, <2>1, <2>3 DEF TakesMutex
  <2> QED
    BY <1>1, <1>3, <2>2, <2>3 DEF SoundStep, KeepsMutex
<1>6. pc[r] \in {"reread", "end_store"} \cup EmitLabel
  BY <1>0, <1>4 DEF ServiceInvariant, MutexCovers, InCritical, Fits, OpFits, TypeOK
<1>7. Handle(r) /\ ~Panic(r)
  BY <1>0, <1>2, <1>4, <1>5, WhoSteps, NobodyPanics
<1>8. CASE pc[r] = "reread"
  <2>1. Reread(r)
    BY <1>0, <1>7, <1>8, StepFrom
  <2> QED
    BY <1>1, <2>1 DEF Reread, Goto, MayFail, ReliableDatabase
<1>9. CASE pc[r] = "end_store"
  <2>1. EndStore(r)
    BY <1>0, <1>7, <1>9, StepFrom
  <2> QED
    BY <1>1, <2>1 DEF EndStore, Goto, MayFail, ReliableDatabase
<1> QED
  BY <1>0, <1>6, <1>8, <1>9 DEF Reconciled

\* On any number of nodes, with a database that answers and processes that
\* live, a GET that found the meeting of a call missing leaves the call ended.
THEOREM ReconcileEndsAlways ==
    ASSUME ReliableDatabase
    PROVE  Spec => ReconcileEnds
<1>1. ReconcileInvariant /\ [Next]_vars
      => [\A r \in Request :
             /\ loc[r].op = "get"
             /\ callMu[loc[r].node] = r
             /\ callMu'[loc[r].node] # r
             => ~Active(loc[r].subject)]_vars
  BY ReconcileReleases
<1>2. Init => ReconcileInvariant
  BY CauseInit DEF Init, ReconcileInvariant, Reconciled
<1> QED
  BY <1>1, <1>2, ReconcileStep, PTL DEF Spec, ReconcileEnds
=============================================================================
