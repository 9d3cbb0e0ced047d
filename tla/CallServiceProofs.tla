-------------------------- MODULE CallServiceProofs --------------------------
(***************************************************************************)
(* Proofs about CallService, for any number of nodes, requests, calls and  *)
(* users and any faults: its types, the mutual exclusion of callMu, that   *)
(* the handlers implement CallStore, and the control flow of the handlers, *)
(* on which the proofs of the other modules rest.                          *)
(***************************************************************************)
EXTENDS CallServiceProperties, CallStoreProofs

-----------------------------------------------------------------------------
(* What is known of a request from the label it is at.                     *)

CreateLabel == {"c_existing", "c_probe", "c_meeting", "c_verify", "c_newMeeting",
                "c_saveMeeting", "c_token", "c_post", "c_insert", "c_deletePost",
                "c_publish"}

JoinLabel == {"j_load", "j_probe", "j_add", "j_token", "j_undo"}

LeaveLabel == {"l_load", "l_remove", "l_publish"}

EmitLabel == {"end_getPost", "end_putPost", "end_publish"}

PartsLabel == {"parts_get", "parts_put"}

\* The operations whose handlers pass a label.
OpFits(label, op) ==
    /\ label \in Final \cup {"idle"} => op = None
    /\ label \in CreateLabel => op = "create"
    /\ label \in JoinLabel => op = "join"
    /\ label = "j_publish" => op \in {"join", "partJoined"}
    /\ label \in LeaveLabel => op \in {"leave", "partLeft"}
    /\ label \in PartsLabel => op \in {"join", "leave", "partLeft", "partJoined"}
    /\ label = "e_load" => op = "end"
    /\ label = "end_store" => op \in {"create", "join", "end", "get", "meetingEnded"}
    /\ label \in EmitLabel => op \in Op \ {"partJoined"}
    /\ label \in {"g_load", "g_probe", "g_reload"} => op = "get"
    /\ label = "reread" => op \in {"get", "meetingEnded"}
    /\ label = "w_lookup" => op \in {"partJoined", "partLeft", "meetingEnded"}
    /\ label \in {"w_add", "w_backfill"} => op = "partJoined"
    /\ label = "lock" => op \in Op \ {"partJoined"}

\* The labels at which the handler works on the row of a call it has read.
SubjectLabel == {"c_probe", "j_probe", "j_add", "j_token", "j_undo", "j_publish",
                 "l_remove", "l_publish", "end_store", "g_probe", "reread", "w_add",
                 "w_backfill"} \cup EmitLabel \cup PartsLabel

OnSubject(label, op) ==
    \/ label \in SubjectLabel
    \/ label = "lock" /\ op \in {"get", "meetingEnded"}

MeetingLabel == {"c_verify", "c_saveMeeting", "c_token", "c_post", "c_insert",
                 "c_deletePost", "c_publish"}

\* The local variables that are set, and the rows that exist.
LocalsSet(label, l) ==
    /\ label \notin Final \cup {"idle"} =>
          /\ l.node \in Node
          /\ l.op # "meetingEnded" => l.call \in Call /\ l.user \in User
          /\ l.op = "create" => l.channel \in Channel
    /\ OnSubject(label, l.op) =>
          /\ l.subject \in Call
          /\ Exists(l.subject)
          /\ l.op \notin {"create", "meetingEnded"} => l.call = l.subject
    /\ label \in MeetingLabel => l.meeting \in Meeting
    /\ label \in {"c_verify", "c_newMeeting", "c_saveMeeting"} => l.app \in App
    /\ label \in {"parts_put", "end_putPost"} => l.post \in Post
    /\ label = "c_publish" => Exists(l.call)

Fits(r) == OpFits(pc[r], loc[r].op) /\ LocalsSet(pc[r], loc[r])

TokensExist == \A cu \in tokens : Exists(cu[1])

ServiceInvariant ==
    /\ TypeOK
    /\ TokensExist
    /\ \A r \in Request : Fits(r)
    /\ MutexCovers

-----------------------------------------------------------------------------
(* The handlers use the store through its transactions only.               *)

\* The steps that leave the tables alone.
LEMMA StoreUnchanged ==
    ASSUME NEW r \in Request,
           \/ Arrival(r) \/ Lock(r) \/ Panic(r)
           \/ CreateCheckExisting(r) \/ CreateProbeExisting(r) \/ CreateLoadMeeting(r)
           \/ CreateVerifyMeeting(r) \/ CreateNewMeeting(r) \/ CreateToken(r)
           \/ CreatePost(r) \/ CreateDeletePost(r) \/ CreatePublish(r)
           \/ JoinLoad(r) \/ JoinProbe(r) \/ JoinToken(r) \/ JoinPublish(r)
           \/ LeaveLoad(r) \/ LeavePublish(r)
           \/ EndLoad(r) \/ EndPublish(r)
           \/ GetCall(r) \/ WebhookLookup(r)
           \/ UpdatePostParticipants(r)
           \/ \E here, next, skip : ReadPost(r, here, next, skip)
           \/ \E here, next, post : WritePost(r, here, next, post)
    PROVE  UNCHANGED storeVars
<1> USE DEF shared
<1>1. CASE Arrival(r) \/ Lock(r) \/ Panic(r)
  BY <1>1 DEF Arrival, RequestCreate, RequestOnCall, ParticipantWebhook,
              MeetingWebhook, Arrive, Lock, Panic, Dies
<1>2. CASE \/ CreateCheckExisting(r) \/ CreateProbeExisting(r) \/ CreateLoadMeeting(r)
           \/ CreateVerifyMeeting(r) \/ CreateNewMeeting(r) \/ CreateToken(r)
           \/ CreatePost(r) \/ CreateDeletePost(r) \/ CreatePublish(r)
  BY <1>2 DEF CreateCheckExisting, CreateProbeExisting, CreateLoadMeeting,
              CreateVerifyMeeting, CreateNewMeeting, CreateToken, CreatePost,
              CreateDeletePost, CreatePublish
<1>3. CASE JoinLoad(r) \/ JoinProbe(r) \/ JoinToken(r) \/ JoinPublish(r)
  BY <1>3 DEF JoinLoad, JoinProbe, JoinToken, JoinPublish
<1>4. CASE LeaveLoad(r) \/ LeavePublish(r) \/ EndLoad(r) \/ EndPublish(r)
  BY <1>4 DEF LeaveLoad, LeavePublish, EndLoad, EndPublish
<1>5. CASE GetCall(r) \/ WebhookLookup(r)
  BY <1>5 DEF GetCall, GetLoad, GetProbe, GetReload, Reread, WebhookLookup
<1>6. CASE \/ UpdatePostParticipants(r)
           \/ \E here, next, skip : ReadPost(r, here, next, skip)
           \/ \E here, next, post : WritePost(r, here, next, post)
  BY <1>6 DEF UpdatePostParticipants, ReadPost, WritePost
<1> QED
  BY <1>1, <1>2, <1>3, <1>4, <1>5, <1>6

\* Every other step is one transaction of the store, or one that failed.
LEMMA ServiceStoreStep ==
    ASSUME ServiceInvariant, [Next]_vars
    PROVE  [StoreNext]_storeVars
<1> USE ServiceAssumption DEF ServiceInvariant
<1>1. ASSUME NEW r \in Request, CreateInsert(r)
      PROVE  [StoreNext]_storeVars
  <2>1. /\ loc[r].call \in Call /\ loc[r].channel \in Channel
        /\ loc[r].user \in User /\ loc[r].meeting \in Meeting
    BY <1>1 DEF CreateInsert, At, Fits, OpFits, LocalsSet, CreateLabel, MeetingLabel,
                Running, Final
  <2> QED
    BY <1>1, <2>1 DEF CreateInsert, StoreNext
<1>2. ASSUME NEW r \in Request, CreateSaveMeeting(r)
      PROVE  [StoreNext]_storeVars
  <2>1. loc[r].channel \in Channel /\ loc[r].meeting \in Meeting /\ loc[r].app \in App
    BY <1>2 DEF CreateSaveMeeting, At, Fits, OpFits, LocalsSet, CreateLabel, MeetingLabel,
                Running, Final
  <2> QED
    BY <1>2, <2>1 DEF CreateSaveMeeting, StoreNext
<1>3. ASSUME NEW r \in Request,
             JoinAdd(r) \/ JoinUndo(r) \/ LeaveRemove(r) \/ WebhookAdd(r) \/ WebhookBackfill(r)
      PROVE  [StoreNext]_storeVars
  <2>1. loc[r].call \in Call /\ loc[r].user \in User
    BY <1>3 DEF JoinAdd, JoinUndo, LeaveRemove, WebhookAdd, WebhookBackfill, At, Fits, OpFits,
                LocalsSet, JoinLabel, LeaveLabel, Running, Final
  <2>2. loc[r].rtkSession # None => loc[r].rtkSession \in RtkSession
    BY DEF TypeOK, Local
  <2>3. CASE JoinAdd(r) \/ WebhookAdd(r)
    BY <2>1, <2>3 DEF JoinAdd, WebhookAdd, StoreNext
  <2>4. CASE JoinUndo(r) \/ LeaveRemove(r)
    BY <2>1, <2>4 DEF JoinUndo, LeaveRemove, StoreNext
  <2>5. CASE WebhookBackfill(r)
    BY <2>1, <2>2, <2>5 DEF WebhookBackfill, StoreNext
  <2> QED
    BY <1>3, <2>3, <2>4, <2>5
<1>4. ASSUME NEW r \in Request, EndStore(r)
      PROVE  [StoreNext]_storeVars
  <2>1. loc[r].subject \in Call
    BY <1>4 DEF EndStore, At, Fits, LocalsSet, OnSubject, SubjectLabel
  <2> QED
    BY <1>4, <2>1 DEF EndStore, StoreNext
<1>5. CASE Environment \/ UNCHANGED vars
  BY <1>5 DEF Environment, MeetingDeleted, StoreAppConfig, UpdateRTKClient, Crash,
              Dies, vars, shared, storeVars
<1>6. ASSUME NEW r \in Request, Arrival(r) \/ Handle(r)
      PROVE  [StoreNext]_storeVars
  <2>1. \/ CreateInsert(r) \/ CreateSaveMeeting(r) \/ JoinAdd(r) \/ JoinUndo(r)
        \/ LeaveRemove(r) \/ WebhookAdd(r) \/ WebhookBackfill(r) \/ EndStore(r)
        \/ UNCHANGED storeVars
    BY <1>6, StoreUnchanged
    DEF Handle, CreateCall, JoinCall, LeaveCall, EndActiveCall, HandleWebhook
  <2> QED
    BY <1>1, <1>2, <1>3, <1>4, <2>1
<1> QED
  BY <1>5, <1>6 DEF Next, Idle

\* No transaction removes the row of a call.
LEMMA RowsStay ==
    ASSUME StoreTypeOK, [StoreNext]_storeVars
    PROVE  \A c \in Call : Exists(c) => Exists(c)'
<1> SUFFICES ASSUME NEW c \in Call, Exists(c) PROVE Exists(c)'
  OBVIOUS
<1>1. sessions[c] \in Session
  BY DEF StoreTypeOK, Exists
<1>2. CASE RowUnchanged(c)
  BY <1>2 DEF RowUnchanged, Exists
<1>3. CASE RowEnded(c)
  BY <1>1, <1>3, StoreAssumption DEF RowEnded, Exists, Session
<1>4. CASE RowBackfilled(c)
  BY <1>1, <1>4, StoreAssumption DEF RowBackfilled, Exists, Session
<1> QED
  BY <1>2, <1>3, <1>4, RowChange DEF RowCreated

-----------------------------------------------------------------------------
(* One step of one handler: where it goes, what it sets, whether it keeps   *)
(* callMu.                                                                  *)

ControlType ==
    /\ callMu \in [Node -> Request \cup {None}]
    /\ pc \in [Request -> Label]
    /\ loc \in [Request -> Local]

OthersWait(r) == \A s \in Request \ {r} : pc'[s] = pc[s] /\ loc'[s] = loc[s]

\* The handler keeps the operation and the arguments of its request.
SameRequest(l, k) ==
    /\ l.op = k.op
    /\ l.node = k.node
    /\ l.user = k.user
    /\ l.call = k.call
    /\ l.channel = k.channel

\* InCritical, of a label and an operation.
Inside(label, op) ==
    /\ label \in CriticalLabel
    /\ label \in {"parts_get", "parts_put", "j_publish"} => op # "partJoined"

\* r lets go of callMu if it had it, and is outside of the critical section.
Releases(r) ==
    /\ callMu' = [n \in Node |-> IF callMu[n] = r THEN None ELSE callMu[n]]
    /\ ~Inside(pc[r], loc[r].op)'

\* r stays on its side of the mutex.
KeepsMutex(r) ==
    /\ callMu' = callMu
    /\ Inside(pc[r], loc[r].op)' <=> Inside(pc[r], loc[r].op)
    /\ Inside(pc[r], loc[r].op) => loc'[r].node = loc[r].node

\* r enters the critical section of its node.
TakesMutex(r) ==
    /\ callMu[loc[r].node] = None
    /\ callMu' = [callMu EXCEPT ![loc[r].node] = r]
    /\ ~Inside(pc[r], loc[r].op) /\ Inside(pc[r], loc[r].op)'
    /\ loc'[r].node = loc[r].node /\ loc[r].node \in Node

\* A step of r that respects the invariant.
SoundStep(r) ==
    /\ ControlType'
    /\ OthersWait(r)
    /\ Fits(r)'
    /\ At(r, "idle") \/ pc'[r] \in Final \/ SameRequest(loc'[r], loc[r])
    /\ Releases(r) \/ KeepsMutex(r) \/ TakesMutex(r)

\* What the steps of a handler may rely on.
Before(r) ==
    /\ TypeOK
    /\ TokensExist
    /\ Fits(r)
    /\ \A c \in Call : Exists(c) => Exists(c)'

\* The step sets the local variables of r to l.
Sets(r, l) ==
    /\ loc' = [loc EXCEPT ![r] = l]
    /\ l \in Local
    /\ SameRequest(l, loc[r])

\* A handler that returns is answered, whatever its result.
LEMMA ReturnSound ==
    ASSUME NEW r \in Request, Before(r), NEW result \in Final, Return(r, result)
    PROVE  SoundStep(r)
<1>1. pc' = [pc EXCEPT ![r] = result] /\ pc'[r] = result
  BY DEF Return, Before, TypeOK
<1>2. ControlType' /\ OthersWait(r)
  BY <1>1 DEF Return, Before, TypeOK, ControlType, OthersWait, Label, Blank, Local, Final
<1>3. Fits(r)'
  <2>1. loc'[r].op = None
    BY DEF Return, Blank, Before, TypeOK
  <2> QED
    BY <1>1, <2>1
    DEF Fits, OpFits, LocalsSet, OnSubject, SubjectLabel, MeetingLabel,
        CreateLabel, JoinLabel, LeaveLabel, EmitLabel, PartsLabel, Final
<1>4. Releases(r)
  BY <1>1 DEF Releases, Return, Inside, CriticalLabel, Final
<1> QED
  BY <1>1, <1>2, <1>3, <1>4 DEF SoundStep

\* A handler that goes on to another label with other local variables.
LEMMA SetSound ==
    ASSUME NEW r \in Request, Before(r), NEW label \in Label, NEW l,
           Goto(r, label), Sets(r, l),
           OpFits(label, l.op), LocalsSet(label, l)',
           Inside(label, l.op) <=> Inside(pc[r], l.op)
    PROVE  SoundStep(r)
<1>1. pc'[r] = label /\ loc'[r] = l
  BY DEF Before, TypeOK, Goto, Sets
<1>2. ControlType' /\ OthersWait(r)
  BY DEF Before, TypeOK, Goto, Sets, ControlType, OthersWait
<1>3. Fits(r)'
  BY <1>1 DEF Fits, OpFits
<1>4. KeepsMutex(r)
  BY <1>1 DEF KeepsMutex, Goto, Sets, SameRequest, Inside
<1> QED
  BY <1>1, <1>2, <1>3, <1>4 DEF SoundStep, Sets

\* A handler that only goes on to another label.
LEMMA GotoSound ==
    ASSUME NEW r \in Request, Before(r), NEW label \in Label,
           Goto(r, label), UNCHANGED loc,
           OpFits(label, loc[r].op), LocalsSet(label, loc[r])',
           Inside(label, loc[r].op) <=> Inside(pc[r], loc[r].op)
    PROVE  SoundStep(r)
<1>1. PICK l \in Local : l = loc[r]
  BY DEF Before, TypeOK
<1>2. Sets(r, l)
  BY <1>1 DEF Sets, SameRequest, Before, TypeOK
<1>3. LocalsSet(label, l)'
  BY <1>1 DEF LocalsSet, OnSubject, Exists
<1> QED
  BY <1>1, <1>2, <1>3, SetSound

\* The definitions that say what a label stands for.
USE DEF At, Running, Final, Label, CreateLabel, JoinLabel, LeaveLabel,
        EmitLabel, PartsLabel, SubjectLabel, MeetingLabel, CriticalLabel

\* A handler that has found the row it works on.
LEMMA SubjectSound ==
    ASSUME NEW r \in Request, Before(r), NEW label \in Label, NEW d \in Call,
           Goto(r, label), loc' = [loc EXCEPT ![r].subject = d],
           Exists(d), ~At(r, "idle"), pc[r] \notin Final,
           loc[r].op \notin {"create", "meetingEnded"} => loc[r].call = d,
           label \notin MeetingLabel \cup {"c_newMeeting", "parts_put", "end_putPost"},
           OpFits(label, loc[r].op),
           Inside(label, loc[r].op) <=> Inside(pc[r], loc[r].op)
    PROVE  SoundStep(r)
<1>0. loc[r] \in Local
  BY DEF Before, TypeOK
<1>1. PICK l \in Local : l = [loc[r] EXCEPT !.subject = d]
  <2>1. [loc[r] EXCEPT !.subject = d] \in Local
    BY <1>0 DEF Local
  <2> QED
    BY <2>1
<1>2. Sets(r, l) /\ l.subject = d
  BY <1>1 DEF Sets, SameRequest, Before, TypeOK, Local
<1>3. LocalsSet(label, l)'
  BY <1>2 DEF Before, Exists, Sets, SameRequest, Fits, LocalsSet, OnSubject
<1> QED
  BY <1>2, <1>3, SetSound DEF Sets, SameRequest

\* A handler that reads or forgets a post.
LEMMA PostSound ==
    ASSUME NEW r \in Request, Before(r), NEW label \in Label, NEW p \in Post \cup {None},
           Goto(r, label), loc' = [loc EXCEPT ![r].post = p],
           OnSubject(pc[r], loc[r].op),
           label \notin MeetingLabel \cup {"c_newMeeting"},
           label \in {"parts_put", "end_putPost"} => p \in Post,
           OpFits(label, loc[r].op),
           Inside(label, loc[r].op) <=> Inside(pc[r], loc[r].op)
    PROVE  SoundStep(r)
<1>0. loc[r] \in Local
  BY DEF Before, TypeOK
<1>1. PICK l \in Local : l = [loc[r] EXCEPT !.post = p]
  <2>1. [loc[r] EXCEPT !.post = p] \in Local
    BY <1>0 DEF Local
  <2> QED
    BY <2>1
<1>2. Sets(r, l) /\ l.subject = loc[r].subject /\ l.post = p
  BY <1>0, <1>1 DEF Sets, SameRequest, Local
<1>3. LocalsSet(label, l)'
  BY <1>2 DEF Before, Exists, Sets, SameRequest, Fits, LocalsSet, OnSubject
<1> QED
  BY <1>2, <1>3, SetSound DEF Sets, SameRequest

\* Every step of CreateCall leaves its request well formed and on its side of callMu.
LEMMA CreateSound ==
    ASSUME NEW r \in Request, Before(r), CreateCall(r)
    PROVE  SoundStep(r)
<1>0. /\ loc[r] \in Local /\ loc[r].op = "create" /\ loc[r].node \in Node
      /\ loc[r].call \in Call /\ loc[r].user \in User /\ loc[r].channel \in Channel
  BY DEF Before, TypeOK, CreateCall, CreateCheckExisting, CreateProbeExisting,
         CreateLoadMeeting, CreateVerifyMeeting, CreateNewMeeting, CreateSaveMeeting,
         CreateToken, CreatePost, CreateInsert, CreateDeletePost, CreatePublish,
         Fits, OpFits, LocalsSet
<1>1. CASE CreateCheckExisting(r)
  <2>1. CASE Goto(r, "c_meeting") /\ UNCHANGED loc
    BY <1>0, <1>1, <2>1, GotoSound
    DEF CreateCheckExisting, OpFits, LocalsSet, OnSubject, Inside
  <2>2. ASSUME NEW d \in ActiveIn(loc[r].channel),
               loc' = [loc EXCEPT ![r].subject = d], Goto(r, "c_probe")
        PROVE  SoundStep(r)
    BY <1>0, <1>1, <2>2, SubjectSound
    DEF CreateCheckExisting, ActiveIn, Active, OpFits, Inside
  <2> QED
    BY <1>1, <2>1, <2>2, ReturnSound DEF CreateCheckExisting
<1>2. CASE CreateProbeExisting(r)
  <2>1. CASE Goto(r, "end_store") /\ UNCHANGED loc
    BY <1>0, <1>2, <2>1, GotoSound
    DEF CreateProbeExisting, Before, Fits, OpFits, LocalsSet, OnSubject, Inside, Exists
  <2> QED
    BY <1>2, <2>1, ReturnSound DEF CreateProbeExisting
<1>3. CASE CreateLoadMeeting(r)
  <2>1. ReusableMeeting(loc[r].channel) \in Meeting \cup {None}
    BY <1>0 DEF Before, TypeOK, ReusableMeeting, StoreTypeOK, ChannelMeeting
  <2>2. ASSUME NEW m \in Meeting \cup {None}, activeApp # None,
               loc' = [loc EXCEPT ![r].meeting = m, ![r].app = activeApp],
               Goto(r, IF m = None THEN "c_newMeeting" ELSE "c_verify")
        PROVE  SoundStep(r)
    <3>1. [loc[r] EXCEPT !.meeting = m, !.app = activeApp] \in Local
      BY <1>0 DEF Local, Before, TypeOK
    <3>2. PICK l \in Local : l = [loc[r] EXCEPT !.meeting = m, !.app = activeApp]
      BY <3>1
    <3>3. Sets(r, l) /\ l.meeting = m /\ l.app \in App
      BY <1>0, <2>2, <3>2 DEF Sets, SameRequest, Local, Before, TypeOK
    <3>4. PICK label \in {"c_newMeeting", "c_verify"} : 
              Goto(r, label) /\ (label = "c_verify" => m \in Meeting)
      BY <2>2
    <3>5. LocalsSet(label, l)'
      BY <1>0, <3>3, <3>4 DEF LocalsSet, OnSubject, Sets, SameRequest
    <3> QED
      BY <1>0, <1>3, <3>3, <3>4, <3>5, SetSound
      DEF CreateLoadMeeting, Sets, SameRequest, OpFits, Inside
  <2> QED
    BY <1>3, <2>1, <2>2, ReturnSound DEF CreateLoadMeeting
<1>4. CASE CreateVerifyMeeting(r)
  <2>1. PICK label \in {"c_newMeeting", "c_token"} : Goto(r, label)
    BY <1>4 DEF CreateVerifyMeeting
  <2> QED
    BY <1>0, <1>4, <2>1, GotoSound
    DEF CreateVerifyMeeting, Before, Fits, OpFits, LocalsSet, OnSubject, Inside
<1>5. CASE CreateNewMeeting(r)
  <2>1. ASSUME NEW m \in Meeting, loc' = [loc EXCEPT ![r].meeting = m],
               Goto(r, "c_saveMeeting")
        PROVE  SoundStep(r)
    <3>1. [loc[r] EXCEPT !.meeting = m] \in Local
      BY <1>0 DEF Local
    <3>2. PICK l \in Local : l = [loc[r] EXCEPT !.meeting = m]
      BY <3>1
    <3>3. Sets(r, l) /\ l.meeting = m /\ l.app = loc[r].app
      BY <1>0, <2>1, <3>2 DEF Sets, SameRequest, Local
    <3>4. LocalsSet("c_saveMeeting", l)'
      BY <1>0, <1>5, <3>3
      DEF CreateNewMeeting, Before, Fits, LocalsSet, OnSubject, Sets, SameRequest
    <3> QED
      BY <1>0, <1>5, <2>1, <3>3, <3>4, SetSound
      DEF CreateNewMeeting, Sets, SameRequest, OpFits, Inside
  <2> QED
    BY <1>5, <2>1, ReturnSound DEF CreateNewMeeting
<1>6. CASE CreateSaveMeeting(r)
  BY <1>0, <1>6, GotoSound
  DEF CreateSaveMeeting, Before, Fits, OpFits, LocalsSet, OnSubject, Inside
<1>7. CASE CreateToken(r)
  BY <1>0, <1>7, GotoSound, ReturnSound
  DEF CreateToken, Before, Fits, OpFits, LocalsSet, OnSubject, Inside
<1>8. CASE CreatePost(r)
  BY <1>0, <1>8, GotoSound, ReturnSound
  DEF CreatePost, Before, Fits, OpFits, LocalsSet, OnSubject, Inside
<1>9. CASE CreateInsert(r)
  <2>1. CASE /\ CreateCallSession(loc[r].call, loc[r].channel, loc[r].user, loc[r].meeting)
             /\ Goto(r, "c_publish")
    <3>1. loc[r].meeting \in Meeting
      BY <1>9 DEF CreateInsert, Before, Fits, LocalsSet
    <3>2. (sessions[loc[r].call] # None)'
      BY <1>0, <1>9, <2>1, <3>1, NewSessionType, StoreAssumption
      DEF CreateInsert, CreateCallSession, Before, TypeOK, StoreTypeOK
    <3> QED
      BY <1>0, <1>9, <2>1, <3>1, <3>2, GotoSound
      DEF CreateInsert, OpFits, LocalsSet, OnSubject, Inside, Exists
  <2>2. CASE Goto(r, "c_deletePost")
    BY <1>0, <1>9, <2>2, GotoSound
    DEF CreateInsert, Before, Fits, OpFits, LocalsSet, OnSubject, Inside
  <2> QED
    BY <1>9, <2>1, <2>2 DEF CreateInsert
<1>10. CASE CreateDeletePost(r)
  BY <1>10, ReturnSound DEF CreateDeletePost
<1>11. CASE CreatePublish(r)
  BY <1>11, ReturnSound DEF CreatePublish
<1> QED
  BY <1>1, <1>2, <1>3, <1>4, <1>5, <1>6, <1>7, <1>8, <1>9, <1>10, <1>11 DEF CreateCall

\* So does every step of JoinCall, ...
LEMMA JoinSound ==
    ASSUME NEW r \in Request, Before(r), JoinCall(r)
    PROVE  SoundStep(r)
<1>0. /\ loc[r] \in Local /\ loc[r].node \in Node
      /\ loc[r].call \in Call /\ loc[r].user \in User
  BY DEF Before, TypeOK, JoinCall, JoinLoad, JoinProbe, JoinAdd, JoinToken, JoinUndo,
         JoinPublish, Fits, OpFits, LocalsSet
<1>1. CASE JoinLoad(r)
  BY <1>0, <1>1, SubjectSound, ReturnSound
  DEF JoinLoad, Active, Before, Fits, OpFits, Inside
<1>2. CASE JoinProbe(r)
  <2>1. PICK label \in {"end_store", "j_add"} : Goto(r, label) /\ UNCHANGED loc
    BY <1>2 DEF JoinProbe
  <2> QED
    BY <1>2, <2>1, GotoSound
    DEF JoinProbe, Before, Fits, OpFits, LocalsSet, OnSubject, Inside, Exists
<1>3. CASE JoinAdd(r)
  <2>1. ASSUME NEW parts \in SUBSET User, NEW added \in BOOLEAN,
               loc' = [loc EXCEPT ![r].parts = parts, ![r].added = added],
               Goto(r, "j_token")
        PROVE  SoundStep(r)
    <3>1. [loc[r] EXCEPT !.parts = parts, !.added = added] \in Local
      BY <1>0 DEF Local
    <3>2. PICK l \in Local : l = [loc[r] EXCEPT !.parts = parts, !.added = added]
      BY <3>1
    <3>3. Sets(r, l) /\ l.subject = loc[r].subject
      BY <1>0, <2>1, <3>2 DEF Sets, SameRequest, Local
    <3>4. LocalsSet("j_token", l)'
      BY <1>0, <1>3, <3>3
      DEF JoinAdd, Before, Fits, LocalsSet, OnSubject, Sets, SameRequest, Exists
    <3> QED
      BY <1>0, <1>3, <2>1, <3>3, <3>4, SetSound
      DEF JoinAdd, Before, Fits, Sets, SameRequest, OpFits, Inside
  <2>2. ParticipantsOf(loc[r].call) \cup {loc[r].user} \in SUBSET User
    BY <1>0 DEF ParticipantsOf
  <2> QED
    BY <1>3, <2>1, <2>2, ReturnSound DEF JoinAdd
<1>4. CASE JoinToken(r)
  <2>1. PICK label \in {"parts_get", "j_undo"} :
            Return(r, "error") \/ (Goto(r, label) /\ UNCHANGED loc)
    BY <1>4 DEF JoinToken
  <2> QED
    BY <1>4, <2>1, GotoSound, ReturnSound
    DEF JoinToken, Before, Fits, OpFits, LocalsSet, OnSubject, Inside, Exists
<1>5. CASE JoinUndo(r)
  BY <1>5, GotoSound, ReturnSound
  DEF JoinUndo, Before, Fits, OpFits, LocalsSet, OnSubject, Inside, Exists, Op
<1>6. CASE JoinPublish(r)
  BY <1>6, ReturnSound DEF JoinPublish
<1> QED
  BY <1>1, <1>2, <1>3, <1>4, <1>5, <1>6 DEF JoinCall

\* ... of updatePostParticipants, ...
LEMMA PartsSound ==
    ASSUME NEW r \in Request, Before(r), UpdatePostParticipants(r)
    PROVE  SoundStep(r)
<1>0. /\ loc[r] \in Local
      /\ loc[r].op \in {"join", "leave", "partLeft", "partJoined"}
      /\ pc[r] \in {"parts_get", "parts_put"}
      /\ loc[r].subject \in Call
  BY DEF UpdatePostParticipants, ReadPost, WritePost, Before, TypeOK, Fits, OpFits,
         LocalsSet, OnSubject
<1>1. PICK label \in {"j_publish", "l_publish", "w_backfill"} :
          /\ label = AfterParticipants(loc[r].op)
          /\ OpFits(label, loc[r].op)
          /\ Inside(label, loc[r].op) <=> loc[r].op # "partJoined"
  BY <1>0 DEF AfterParticipants, OpFits, Inside
<1>2. CASE ReadPost(r, "parts_get", "parts_put", label)
  <2>1. CASE /\ loc' = [loc EXCEPT ![r].post = posts[loc[r].subject]]
             /\ posts[loc[r].subject] # None
             /\ Goto(r, "parts_put")
    <3>1. posts[loc[r].subject] \in Post
      BY <1>0, <2>1 DEF Before, TypeOK
    <3> QED
      BY <1>0, <1>2, <2>1, <3>1, PostSound DEF ReadPost, OnSubject, OpFits, Inside
  <2>2. CASE Goto(r, label) /\ UNCHANGED loc
    BY <1>0, <1>1, <1>2, <2>2, GotoSound
    DEF ReadPost, Before, Fits, LocalsSet, OnSubject, Inside, Exists
  <2> QED
    BY <1>2, <2>1, <2>2 DEF ReadPost
<1>3. CASE WritePost(r, "parts_put", label, [loc[r].post EXCEPT !.parts = loc[r].parts])
  BY <1>0, <1>1, <1>3, PostSound DEF WritePost, OnSubject, Inside
<1> QED
  BY <1>1, <1>2, <1>3 DEF UpdatePostParticipants

\* ... of LeaveCall, ...
LEMMA LeaveSound ==
    ASSUME NEW r \in Request, Before(r), LeaveCall(r)
    PROVE  SoundStep(r)
<1>0. /\ loc[r] \in Local /\ loc[r].op \in {"leave", "partLeft"}
      /\ loc[r].call \in Call /\ loc[r].user \in User
  BY DEF Before, TypeOK, LeaveCall, LeaveLoad, LeaveRemove, LeavePublish, Fits, OpFits,
         LocalsSet
<1>1. CASE LeaveLoad(r)
  BY <1>0, <1>1, SubjectSound, ReturnSound
  DEF LeaveLoad, Active, OpFits, Inside
<1>2. CASE LeaveRemove(r)
  <2>1. ASSUME NEW parts \in SUBSET User, NEW endedNow \in BOOLEAN,
               loc' = [loc EXCEPT ![r].parts = parts, ![r].endedNow = endedNow],
               Goto(r, "parts_get")
        PROVE  SoundStep(r)
    <3>1. [loc[r] EXCEPT !.parts = parts, !.endedNow = endedNow] \in Local
      BY <1>0 DEF Local
    <3>2. PICK l \in Local : l = [loc[r] EXCEPT !.parts = parts, !.endedNow = endedNow]
      BY <3>1
    <3>3. Sets(r, l) /\ l.subject = loc[r].subject
      <4>1. SameRequest(l, loc[r]) /\ l.subject = loc[r].subject
        BY <1>0, <3>2 DEF SameRequest, Local
      <4> QED
        BY <2>1, <3>2, <4>1 DEF Sets
    <3>4. LocalsSet("parts_get", l)'
      BY <1>0, <1>2, <3>3
      DEF LeaveRemove, Before, Fits, LocalsSet, OnSubject, Sets, SameRequest, Exists
    <3> QED
      BY <1>0, <1>2, <2>1, <3>3, <3>4, SetSound
      DEF LeaveRemove, Sets, SameRequest, OpFits, Inside
  <2>2. {v \in ParticipantsOf(loc[r].call) : Active(loc[r].call) => v # loc[r].user}
            \in SUBSET User
    BY DEF ParticipantsOf
  <2>3. (Active(loc[r].call) /\ IsLastParticipant(loc[r].call, loc[r].user)) \in BOOLEAN
    BY DEF Active, IsLastParticipant
  <2> QED
    BY <1>2, <2>1, <2>2, <2>3, ReturnSound DEF LeaveRemove
<1>3. CASE LeavePublish(r)
  BY <1>0, <1>3, GotoSound, ReturnSound
  DEF LeavePublish, Before, Fits, OpFits, LocalsSet, OnSubject, Inside, Exists, Op
<1> QED
  BY <1>1, <1>2, <1>3 DEF LeaveCall

\* ... the return of ReconcileCallOnDemand to its GET, ...
LEMMA UnlockSound ==
    ASSUME NEW r \in Request, Before(r), loc[r].op = "get", ~At(r, "idle"),
           pc[r] \notin Final, UnlockAndReload(r)
    PROVE  SoundStep(r)
<1>1. pc'[r] = "g_reload" /\ loc'[r] = loc[r]
  BY DEF UnlockAndReload, Before, TypeOK
<1>2. ControlType' /\ OthersWait(r)
  BY DEF UnlockAndReload, Before, TypeOK, ControlType, OthersWait
<1>3. Fits(r)'
  BY <1>1 DEF Before, Fits, OpFits, LocalsSet, OnSubject
<1>4. Releases(r)
  BY <1>1 DEF UnlockAndReload, Releases, Inside
<1> QED
  BY <1>1, <1>2, <1>3, <1>4 DEF SoundStep, SameRequest

\* ... every step of endCallInternal and emitCallEnded, ...
LEMMA EndSound ==
    ASSUME NEW r \in Request, Before(r), EndActiveCall(r)
    PROVE  SoundStep(r)
<1>0. /\ loc[r] \in Local /\ ~At(r, "idle") /\ pc[r] \notin Final
      /\ loc[r].op \in Op \ {"partJoined"}
      /\ ~At(r, "e_load") => loc[r].subject \in Call
      /\ At(r, "e_load") => loc[r].op = "end" /\ loc[r].call \in Call
  BY DEF EndActiveCall, EndLoad, EndStore, EndPublish, ReadPost, WritePost, Before,
         TypeOK, Fits, OpFits, LocalsSet, OnSubject, Op
<1>1. CASE EndLoad(r)
  BY <1>0, <1>1, SubjectSound, ReturnSound DEF EndLoad, Active, OpFits, Inside
<1>2. CASE EndStore(r)
  <2>1. CASE Goto(r, "end_getPost") /\ UNCHANGED loc
    BY <1>0, <1>2, <2>1, GotoSound
    DEF EndStore, Before, Fits, OpFits, LocalsSet, OnSubject, Inside, Exists
  <2>2. CASE AfterFailedEnd(r)
    BY <1>0, <2>2, ReturnSound, UnlockSound DEF AfterFailedEnd
  <2> QED
    BY <1>2, <2>1, <2>2 DEF EndStore
<1>3. CASE ReadPost(r, "end_getPost", "end_putPost", "end_publish")
  <2>1. CASE /\ loc' = [loc EXCEPT ![r].post = posts[loc[r].subject]]
             /\ posts[loc[r].subject] # None
             /\ Goto(r, "end_putPost")
    BY <1>0, <1>3, <2>1, PostSound
    DEF ReadPost, Before, TypeOK, OnSubject, OpFits, Inside
  <2>2. CASE Goto(r, "end_publish") /\ UNCHANGED loc
    BY <1>0, <1>3, <2>2, GotoSound
    DEF ReadPost, Before, Fits, OpFits, LocalsSet, OnSubject, Inside, Exists
  <2> QED
    BY <1>3, <2>1, <2>2 DEF ReadPost
<1>4. CASE WritePost(r, "end_putPost", "end_publish", [loc[r].post EXCEPT !.endAt = r])
  BY <1>0, <1>4, PostSound DEF WritePost, OnSubject, OpFits, Inside
<1>5. CASE EndPublish(r)
  <2>1. CASE Goto(r, "c_meeting") /\ UNCHANGED loc /\ loc[r].op = "create"
    BY <1>0, <1>5, <2>1, GotoSound
    DEF EndPublish, Before, Fits, OpFits, LocalsSet, OnSubject, Inside
  <2> QED
    BY <1>0, <1>5, <2>1, ReturnSound, UnlockSound DEF EndPublish, AfterEnd
<1> QED
  BY <1>1, <1>2, <1>3, <1>4, <1>5 DEF EndActiveCall

\* ... of the GET handler and of the second read under callMu, ...
LEMMA GetSound ==
    ASSUME NEW r \in Request, Before(r), GetCall(r)
    PROVE  SoundStep(r)
<1>1. CASE GetLoad(r)
  <2>1. loc[r].call \in Call /\ loc[r].op = "get"
    BY <1>1 DEF GetLoad, Before, Fits, OpFits, LocalsSet
  <2>2. PICK label \in {"g_probe", "g_reload"} :
            \/ \E result \in {"ok", "error"} : Return(r, result)
            \/ /\ Active(loc[r].call)
               /\ loc' = [loc EXCEPT ![r].subject = loc[r].call]
               /\ Goto(r, label)
    BY <1>1 DEF GetLoad
  <2> QED
    BY <1>1, <2>1, <2>2, SubjectSound, ReturnSound
    DEF GetLoad, Active, OpFits, Inside
<1>2. CASE GetProbe(r)
  <2>1. PICK label \in {"lock", "g_reload"} : Goto(r, label) /\ UNCHANGED loc
    BY <1>2 DEF GetProbe
  <2> QED
    BY <1>2, <2>1, GotoSound
    DEF GetProbe, Before, Fits, OpFits, LocalsSet, OnSubject, Inside, Exists, Op
<1>3. CASE GetReload(r)
  BY <1>3, ReturnSound DEF GetReload
<1>4. CASE Reread(r)
  <2>1. CASE Goto(r, "end_store") /\ UNCHANGED loc
    BY <1>4, <2>1, GotoSound
    DEF Reread, Before, Fits, OpFits, LocalsSet, OnSubject, Inside, Exists
  <2> QED
    BY <1>4, <2>1, UnlockSound, ReturnSound DEF Reread
<1> QED
  BY <1>1, <1>2, <1>3, <1>4 DEF GetCall

\* ... of the webhook handlers, ...
LEMMA WebhookSound ==
    ASSUME NEW r \in Request, Before(r), HandleWebhook(r)
    PROVE  SoundStep(r)
<1>0. loc[r] \in Local
  BY DEF Before, TypeOK
<1>1. CASE WebhookLookup(r)
  <2>1. ASSUME NEW d \in ActiveOn(loc[r].meeting), loc[r].op = "meetingEnded",
               loc' = [loc EXCEPT ![r].subject = d], Goto(r, "lock")
        PROVE  SoundStep(r)
    BY <1>1, <2>1, SubjectSound
    DEF WebhookLookup, ActiveOn, Active, OpFits, Inside, Op
  <2>2. CASE loc[r].op = "partLeft" /\ Goto(r, "lock") /\ UNCHANGED loc
    BY <1>1, <2>2, GotoSound
    DEF WebhookLookup, Before, Fits, OpFits, LocalsSet, OnSubject, Inside, Op
  <2>3. ASSUME NEW d \in ActiveOn(loc[r].meeting), NEW s \in RtkSession \cup {None},
               loc[r].op = "partJoined", d = loc[r].call,
               loc' = [loc EXCEPT ![r].subject = d, ![r].rtkSession = s],
               Goto(r, "w_add")
        PROVE  SoundStep(r)
    <3>1. [loc[r] EXCEPT !.subject = d, !.rtkSession = s] \in Local
      <4>1. PICK k \in Local : k = loc[r]
        BY <1>0
      <4>2. d \in Call
        BY DEF ActiveOn
      <4>3. PICK l \in Local : l = [k EXCEPT !.subject = d]
        <5>1. [k EXCEPT !.subject = d] \in Local
          BY <4>2 DEF Local
        <5> QED
          BY <5>1
      <4>4. [l EXCEPT !.rtkSession = s] \in Local
        BY DEF Local
      <4>5. [l EXCEPT !.rtkSession = s] = [k EXCEPT !.subject = d, !.rtkSession = s]
        BY <4>3
      <4> QED
        BY <4>1, <4>4, <4>5
    <3>2. PICK l \in Local : l = [loc[r] EXCEPT !.subject = d, !.rtkSession = s]
      BY <3>1
    <3>3. Sets(r, l) /\ l.subject = d
      <4>1. SameRequest(l, loc[r]) /\ l.subject = d
        BY <1>0, <3>2 DEF SameRequest, Local
      <4> QED
        BY <2>3, <3>2, <4>1 DEF Sets
    <3>4. LocalsSet("w_add", l)'
      BY <1>1, <2>3, <3>3
      DEF WebhookLookup, ActiveOn, Active, Before, Fits, LocalsSet, OnSubject, Sets,
          SameRequest, Exists
    <3> QED
      BY <1>1, <2>3, <3>3, <3>4, SetSound
      DEF WebhookLookup, Sets, SameRequest, OpFits, Inside
  <2>4. loc[r].rtkSession \in RtkSession \cup {None}
    BY <1>0 DEF Local
  <2> QED
    BY <1>1, <2>1, <2>2, <2>3, <2>4, ReturnSound DEF WebhookLookup
<1>2. CASE WebhookAdd(r)
  <2>1. ASSUME NEW parts \in SUBSET User, loc' = [loc EXCEPT ![r].parts = parts],
               Goto(r, "parts_get")
        PROVE  SoundStep(r)
    <3>1. [loc[r] EXCEPT !.parts = parts] \in Local
      BY <1>0 DEF Local
    <3>2. PICK l \in Local : l = [loc[r] EXCEPT !.parts = parts]
      BY <3>1
    <3>3. Sets(r, l) /\ l.subject = loc[r].subject
      BY <1>0, <2>1, <3>2 DEF Sets, SameRequest, Local
    <3>4. LocalsSet("parts_get", l)'
      BY <1>2, <3>3
      DEF WebhookAdd, Before, Fits, LocalsSet, OnSubject, Sets, SameRequest, Exists
    <3> QED
      BY <1>2, <2>1, <3>3, <3>4, SetSound
      DEF WebhookAdd, Before, Fits, Sets, SameRequest, OpFits, Inside
  <2>2. loc[r].user \in User
    BY <1>2 DEF WebhookAdd, Before, Fits, OpFits, LocalsSet
  <2>3. ParticipantsOf(loc[r].call) \cup {loc[r].user} \in SUBSET User
    BY <2>2 DEF ParticipantsOf
  <2> QED
    BY <1>2, <2>1, <2>3, ReturnSound DEF WebhookAdd
<1>3. CASE WebhookBackfill(r)
  BY <1>3, GotoSound
  DEF WebhookBackfill, Before, Fits, OpFits, LocalsSet, OnSubject, Inside, Exists
<1> QED
  BY <1>1, <1>2, <1>3 DEF HandleWebhook

\* ... the Lock, ...
LEMMA LockSound ==
    ASSUME NEW r \in Request, Before(r), Lock(r)
    PROVE  SoundStep(r)
<1>0. /\ loc[r] \in Local /\ loc[r].op \in Op \ {"partJoined"} /\ loc[r].node \in Node
      /\ pc[r] = "lock"
  BY DEF Before, TypeOK, Lock, Fits, OpFits, LocalsSet
<1>1. PICK label \in {"c_existing", "j_load", "l_load", "e_load", "reread"} :
          /\ label = Entry(loc[r].op)
          /\ OpFits(label, loc[r].op)
          /\ label = "reread" => OnSubject("lock", loc[r].op)
  BY <1>0 DEF Entry, Op, OpFits, OnSubject
<1>2. pc' = [pc EXCEPT ![r] = label] /\ pc'[r] = label /\ loc' = loc
  BY <1>1 DEF Lock, Before, TypeOK
<1>3. ControlType' /\ OthersWait(r)
  BY <1>0, <1>2 DEF Lock, Before, TypeOK, ControlType, OthersWait
<1>4. LocalsSet(label, loc[r])'
  BY <1>0, <1>1, <1>2 DEF Before, Fits, LocalsSet, OnSubject, Exists
<1>5. TakesMutex(r)
  BY <1>0, <1>2 DEF Lock, TakesMutex, Inside
<1> QED
  BY <1>1, <1>2, <1>3, <1>4, <1>5 DEF SoundStep, Fits, SameRequest

\* A request arrives at its first label, with its arguments and nothing else.
LEMMA ArriveSound ==
    ASSUME NEW r \in Request, Before(r), At(r, "idle"), NEW args \in Local,
           NEW label \in {"lock", "g_load", "w_lookup"}, Arrive(r, label, args),
           OpFits(label, args.op), LocalsSet(label, args)'
    PROVE  SoundStep(r)
<1>1. pc'[r] = label /\ loc'[r] = args
  BY DEF Arrive, Before, TypeOK
<1>2. ControlType' /\ OthersWait(r)
  BY DEF Arrive, Before, TypeOK, ControlType, OthersWait
<1>3. Fits(r)'
  BY <1>1 DEF Fits, OpFits
<1>4. KeepsMutex(r)
  BY <1>1 DEF KeepsMutex, Arrive, Inside
<1> QED
  BY <1>2, <1>3, <1>4 DEF SoundStep

\* ... and the arrival of a request.
LEMMA ArrivalSound ==
    ASSUME NEW r \in Request, Before(r), Arrival(r)
    PROVE  SoundStep(r)
<1>0. Blank \in Local
  BY DEF Blank, Local
<1>1. ASSUME NEW n \in Node, RequestCreate(r, n) PROVE SoundStep(r)
  <2>1. PICK c \in Call, ch \in Channel, u \in User :
            Arrive(r, "lock", [Blank EXCEPT !.op = "create", !.node = n, !.user = u,
                                            !.call = c, !.channel = ch])
    BY <1>1 DEF RequestCreate
  <2>2. PICK args \in Local :
            args = [Blank EXCEPT !.op = "create", !.node = n, !.user = u,
                                 !.call = c, !.channel = ch]
    <3>1. [Blank EXCEPT !.op = "create", !.node = n, !.user = u,
                        !.call = c, !.channel = ch] \in Local
      BY DEF Blank, Local, Op
    <3> QED
      BY <3>1
  <2>3. /\ args.op = "create" /\ args.node = n /\ args.user = u
        /\ args.call = c /\ args.channel = ch
    BY <2>2 DEF Blank
  <2> QED
    BY <1>1, <2>1, <2>2, <2>3, ArriveSound
    DEF RequestCreate, OpFits, LocalsSet, OnSubject, Op
<1>2. ASSUME NEW n \in Node, RequestOnCall(r, n) PROVE SoundStep(r)
  <2>1. PICK op \in {"join", "leave", "end", "get"}, c \in Call, u \in User :
            Arrive(r, IF op = "get" THEN "g_load" ELSE "lock",
                   [Blank EXCEPT !.op = op, !.node = n, !.user = u, !.call = c])
    BY <1>2 DEF RequestOnCall
  <2>2. PICK args \in Local :
            args = [Blank EXCEPT !.op = op, !.node = n, !.user = u, !.call = c]
    <3>1. [Blank EXCEPT !.op = op, !.node = n, !.user = u, !.call = c] \in Local
      BY DEF Blank, Local, Op
    <3> QED
      BY <3>1
  <2>3. args.op = op /\ args.node = n /\ args.user = u /\ args.call = c
    BY <2>2 DEF Blank
  <2>4. PICK label \in {"lock", "g_load"} :
            Arrive(r, label, args) /\ (label = "g_load" <=> op = "get")
    BY <2>1, <2>2
  <2> QED
    BY <1>2, <2>3, <2>4, ArriveSound
    DEF RequestOnCall, OpFits, LocalsSet, OnSubject, Op
<1>3. ASSUME NEW n \in Node, ParticipantWebhook(r, n) PROVE SoundStep(r)
  <2>1. PICK op \in {"partJoined", "partLeft"}, cu \in tokens, s \in RtkSession \cup {None} :
            Arrive(r, "w_lookup",
                   [Blank EXCEPT !.op = op, !.node = n, !.user = cu[2], !.call = cu[1],
                                 !.meeting = sessions[cu[1]].meeting, !.rtkSession = s])
    BY <1>3 DEF ParticipantWebhook
  <2>2. cu[1] \in Call /\ cu[2] \in User /\ sessions[cu[1]].meeting \in Meeting
    BY DEF Before, TypeOK, TokensExist, Exists, StoreTypeOK, Session
  <2>3. PICK m \in Meeting, c \in Call, u \in User :
            m = sessions[cu[1]].meeting /\ c = cu[1] /\ u = cu[2]
    BY <2>2
  <2>4. PICK args \in Local :
            args = [Blank EXCEPT !.op = op, !.node = n, !.user = u, !.call = c,
                                 !.meeting = m, !.rtkSession = s]
    <3>1. [Blank EXCEPT !.op = op, !.node = n, !.user = u, !.call = c,
                        !.meeting = m, !.rtkSession = s] \in Local
      BY DEF Blank, Local, Op
    <3> QED
      BY <3>1
  <2>5. args.op = op /\ args.node = n /\ args.user = u /\ args.call = c
    BY <2>4 DEF Blank
  <2>6. Arrive(r, "w_lookup", args)
    BY <2>1, <2>3, <2>4
  <2>7. At(r, "idle")
    BY <1>3 DEF ParticipantWebhook
  <2> QED
    BY <2>5, <2>6, <2>7, ArriveSound DEF OpFits, LocalsSet, OnSubject
<1>4. ASSUME NEW n \in Node, MeetingWebhook(r, n) PROVE SoundStep(r)
  <2>1. PICK cu \in tokens :
            Arrive(r, "w_lookup", [Blank EXCEPT !.op = "meetingEnded", !.node = n,
                                                !.meeting = sessions[cu[1]].meeting])
    BY <1>4 DEF MeetingWebhook
  <2>2. PICK m \in Meeting : m = sessions[cu[1]].meeting
    BY DEF Before, TypeOK, TokensExist, Exists, StoreTypeOK, Session
  <2>3. PICK args \in Local :
            args = [Blank EXCEPT !.op = "meetingEnded", !.node = n, !.meeting = m]
    <3>1. [Blank EXCEPT !.op = "meetingEnded", !.node = n, !.meeting = m] \in Local
      BY DEF Blank, Local, Op
    <3> QED
      BY <3>1
  <2>4. args.op = "meetingEnded" /\ args.node = n
    BY <2>3 DEF Blank
  <2> QED
    BY <1>4, <2>1, <2>2, <2>3, <2>4, ArriveSound
    DEF MeetingWebhook, OpFits, LocalsSet, OnSubject
<1> QED
  BY <1>1, <1>2, <1>3, <1>4 DEF Arrival

\* Only a request that has arrived makes the steps of a handler.
LEMMA WhoSteps ==
    ASSUME NEW r \in Request
    PROVE  /\ Arrival(r) => At(r, "idle")
           /\ Handle(r) => Running(r)
<1>1. Arrival(r) => At(r, "idle")
  BY DEF Arrival, RequestCreate, RequestOnCall, ParticipantWebhook, MeetingWebhook
<1>2. CreateCall(r) \/ JoinCall(r) \/ LeaveCall(r) => Running(r)
  BY DEF CreateCall, CreateCheckExisting, CreateProbeExisting, CreateLoadMeeting,
         CreateVerifyMeeting, CreateNewMeeting, CreateSaveMeeting, CreateToken,
         CreatePost, CreateInsert, CreateDeletePost, CreatePublish, JoinCall, JoinLoad,
         JoinProbe, JoinAdd, JoinToken, JoinUndo, JoinPublish, LeaveCall, LeaveLoad,
         LeaveRemove, LeavePublish
<1>3. EndActiveCall(r) \/ UpdatePostParticipants(r) => Running(r)
  BY DEF EndActiveCall, EndLoad, EndStore, EndPublish, UpdatePostParticipants, ReadPost,
         WritePost
<1>4. GetCall(r) \/ HandleWebhook(r) \/ Lock(r) \/ Panic(r) => Running(r)
  BY DEF GetCall, GetLoad, GetProbe, GetReload, Reread, HandleWebhook, WebhookLookup,
         WebhookAdd, WebhookBackfill, Lock, Panic
<1> QED
  BY <1>1, <1>2, <1>3, <1>4 DEF Handle

\* Every step of a request but the death of its process.
LEMMA RequestSound ==
    ASSUME NEW r \in Request, Before(r), Arrival(r) \/ Handle(r), ~Panic(r)
    PROVE  SoundStep(r)
BY ArrivalSound, LockSound, CreateSound, JoinSound, LeaveSound, EndSound, GetSound,
   WebhookSound, PartsSound DEF Handle

-----------------------------------------------------------------------------
(* Mutual exclusion.                                                       *)

\* It does not matter how a step was made: the mutex is where r left it.
LEMMA MutexStep ==
    ASSUME NEW r \in Request, TypeOK, MutexCovers, SoundStep(r)
    PROVE  MutexCovers'
<1> SUFFICES ASSUME NEW s \in Request, NEW n \in Node
             PROVE  (callMu[n] = s <=> InCritical(s) /\ loc[s].node = n)'
  BY DEF MutexCovers
<1>0. InCritical(s) <=> Inside(pc[s], loc[s].op)
  BY DEF InCritical, Inside
<1>1. InCritical(s)' <=> Inside(pc[s], loc[s].op)'
  BY DEF InCritical, Inside
<1>2. callMu[n] = s <=> Inside(pc[s], loc[s].op) /\ loc[s].node = n
  BY <1>0 DEF MutexCovers
<1>3. CASE s # r
  <2>1. /\ Inside(pc[s], loc[s].op)' <=> Inside(pc[s], loc[s].op)
        /\ loc'[s].node = loc[s].node
    BY <1>3 DEF SoundStep, OthersWait, Inside
  <2>2. callMu'[n] = s <=> callMu[n] = s
    <3>1. s # None
      BY ServiceAssumption
    <3>2. CASE Releases(r)
      BY <1>3, <3>1, <3>2 DEF Releases
    <3>3. CASE KeepsMutex(r)
      BY <3>3 DEF KeepsMutex
    <3>4. CASE TakesMutex(r)
      BY <1>3, <3>1, <3>4 DEF TakesMutex, TypeOK
    <3> QED
      BY <3>2, <3>3, <3>4 DEF SoundStep
  <2> QED
    BY <1>1, <1>2, <2>1, <2>2
<1>4. CASE s = r
  <2>1. CASE Releases(r)
    BY <1>1, <1>4, <2>1, ServiceAssumption DEF Releases
  <2>2. CASE KeepsMutex(r)
    BY <1>1, <1>2, <1>4, <2>2 DEF KeepsMutex
  <2>3. CASE TakesMutex(r)
    BY <1>1, <1>2, <1>4, <2>3 DEF TakesMutex, TypeOK
  <2> QED
    BY <2>1, <2>2, <2>3 DEF SoundStep
<1> QED
  BY <1>3, <1>4

\* A process that dies takes its critical section with it.
LEMMA DeathSound ==
    ASSUME NEW n \in Node, TypeOK, MutexCovers, \A r \in Request : Fits(r), Dies(n)
    PROVE  /\ ControlType'
           /\ \A r \in Request : Fits(r)'
           /\ MutexCovers'
<1>1. ControlType'
  BY DEF Dies, TypeOK, ControlType, Blank, Local
<1>2. ASSUME NEW r \in Request
      PROVE  \/ /\ pc'[r] = "crashed" /\ loc'[r].op = None
                /\ Running(r) /\ loc[r].node = n
             \/ /\ pc'[r] = pc[r] /\ loc'[r] = loc[r]
                /\ ~(Running(r) /\ loc[r].node = n)
  BY DEF Dies, TypeOK, Blank
<1>3. UNCHANGED sessions
  BY DEF Dies, shared, storeVars
<1>4. ASSUME NEW r \in Request PROVE Fits(r)'
  BY <1>2, <1>3 DEF Fits, OpFits, LocalsSet, OnSubject, Exists
<1>5. MutexCovers'
  <2> SUFFICES ASSUME NEW r \in Request, NEW m \in Node
               PROVE  (callMu[m] = r <=> InCritical(r) /\ loc[r].node = m)'
    BY DEF MutexCovers
  <2>1. callMu[m] = r <=> InCritical(r) /\ loc[r].node = m
    BY DEF MutexCovers
  <2>2. callMu'[m] = IF m = n THEN None ELSE callMu[m]
    BY DEF Dies, TypeOK
  <2>3. CASE pc'[r] = "crashed" /\ Running(r) /\ loc[r].node = n
    BY <2>1, <2>2, <2>3, ServiceAssumption DEF InCritical
  <2>4. CASE /\ pc'[r] = pc[r] /\ loc'[r] = loc[r]
             /\ ~(Running(r) /\ loc[r].node = n)
    BY <2>1, <2>2, <2>4, ServiceAssumption DEF InCritical
  <2> QED
    BY <1>2, <2>3, <2>4
<1> QED
  BY <1>1, <1>4, <1>5

-----------------------------------------------------------------------------
(* Types.                                                                  *)

\* Who writes the posts.
LEMMA PostsChange ==
    ASSUME NEW r \in Request, Arrival(r) \/ Handle(r)
    PROVE  \/ UNCHANGED posts
           \/ CreatePost(r) \/ CreateDeletePost(r)
           \/ WritePost(r, "parts_put", AfterParticipants(loc[r].op),
                        [loc[r].post EXCEPT !.parts = loc[r].parts])
           \/ WritePost(r, "end_putPost", "end_publish", [loc[r].post EXCEPT !.endAt = r])
<1>1. CASE Arrival(r) \/ Lock(r) \/ Panic(r)
  BY <1>1 DEF Arrival, RequestCreate, RequestOnCall, ParticipantWebhook,
              MeetingWebhook, Arrive, Lock, Panic, Dies, shared
<1>2. CASE CreateCall(r)
  BY <1>2 DEF CreateCall, CreateCheckExisting, CreateProbeExisting, CreateLoadMeeting,
              CreateVerifyMeeting, CreateNewMeeting, CreateSaveMeeting, CreateToken,
              CreateInsert, CreatePublish, shared
<1>3. CASE JoinCall(r) \/ LeaveCall(r)
  BY <1>3 DEF JoinCall, JoinLoad, JoinProbe, JoinAdd, JoinToken, JoinUndo, JoinPublish,
              LeaveCall, LeaveLoad, LeaveRemove, LeavePublish, shared
<1>4. CASE EndActiveCall(r) \/ UpdatePostParticipants(r)
  BY <1>4 DEF EndActiveCall, EndLoad, EndStore, ReadPost, EndPublish,
              UpdatePostParticipants, shared
<1>5. CASE GetCall(r) \/ HandleWebhook(r)
  BY <1>5 DEF GetCall, GetLoad, GetProbe, GetReload, Reread, HandleWebhook,
              WebhookLookup, WebhookAdd, WebhookBackfill, shared
<1> QED
  BY <1>1, <1>2, <1>3, <1>4, <1>5 DEF Handle

\* Who publishes, and who hands out tokens.
LEMMA FeedChange ==
    ASSUME NEW r \in Request, Arrival(r) \/ Handle(r)
    PROVE  \/ UNCHANGED <<feedVars, tokens>>
           \/ CreatePublish(r) \/ JoinPublish(r) \/ LeavePublish(r) \/ EndPublish(r)
<1>1. CASE Arrival(r) \/ Lock(r) \/ Panic(r)
  BY <1>1 DEF Arrival, RequestCreate, RequestOnCall, ParticipantWebhook,
              MeetingWebhook, Arrive, Lock, Panic, Dies, shared
<1>2. CASE CreateCall(r)
  BY <1>2 DEF CreateCall, CreateCheckExisting, CreateProbeExisting, CreateLoadMeeting,
              CreateVerifyMeeting, CreateNewMeeting, CreateSaveMeeting, CreateToken,
              CreatePost, CreateInsert, CreateDeletePost, shared
<1>3. CASE JoinCall(r) \/ LeaveCall(r)
  BY <1>3 DEF JoinCall, JoinLoad, JoinProbe, JoinAdd, JoinToken, JoinUndo,
              LeaveCall, LeaveLoad, LeaveRemove, shared
<1>4. CASE EndActiveCall(r) \/ UpdatePostParticipants(r)
  BY <1>4 DEF EndActiveCall, EndLoad, EndStore, ReadPost, WritePost,
              UpdatePostParticipants, shared
<1>5. CASE GetCall(r) \/ HandleWebhook(r)
  BY <1>5 DEF GetCall, GetLoad, GetProbe, GetReload, Reread, HandleWebhook,
              WebhookLookup, WebhookAdd, WebhookBackfill, shared
<1> QED
  BY <1>1, <1>2, <1>3, <1>4, <1>5 DEF Handle

\* The only thing that a request does to the rest of the world.
LEMMA ExternalChange ==
    ASSUME NEW r \in Request, Arrival(r) \/ Handle(r)
    PROVE  \/ UNCHANGED extVars
           \/ CreateNewMeeting(r)
<1>1. CASE Arrival(r) \/ Lock(r) \/ Panic(r)
  BY <1>1 DEF Arrival, RequestCreate, RequestOnCall, ParticipantWebhook,
              MeetingWebhook, Arrive, Lock, Panic, Dies, shared
<1>2. CASE CreateCall(r)
  BY <1>2 DEF CreateCall, CreateCheckExisting, CreateProbeExisting, CreateLoadMeeting,
              CreateVerifyMeeting, CreateSaveMeeting, CreateToken, CreatePost,
              CreateInsert, CreateDeletePost, CreatePublish, shared
<1>3. CASE JoinCall(r) \/ LeaveCall(r)
  BY <1>3 DEF JoinCall, JoinLoad, JoinProbe, JoinAdd, JoinToken, JoinUndo, JoinPublish,
              LeaveCall, LeaveLoad, LeaveRemove, LeavePublish, shared
<1>4. CASE EndActiveCall(r) \/ UpdatePostParticipants(r)
  BY <1>4 DEF EndActiveCall, EndLoad, EndStore, ReadPost, WritePost, EndPublish,
              UpdatePostParticipants, shared
<1>5. CASE GetCall(r) \/ HandleWebhook(r)
  BY <1>5 DEF GetCall, GetLoad, GetProbe, GetReload, Reread, HandleWebhook,
              WebhookLookup, WebhookAdd, WebhookBackfill, shared
<1> QED
  BY <1>1, <1>2, <1>3, <1>4, <1>5 DEF Handle

\* Whoever is named in an event or gets a token is in the tables.
LEMMA RestTyped ==
    ASSUME ServiceInvariant, NEW r \in Request, Arrival(r) \/ Handle(r),
           \A c \in Call : Exists(c) => Exists(c)'
    PROVE  /\ posts' \in [Call -> Post \cup {None}]
           /\ started' \subseteq Call
           /\ announced' \in [Call -> SUBSET Request]
           /\ wsParts' \in [Call -> SUBSET User]
           /\ tokens' \subseteq Call \X User
           /\ TokensExist'
           /\ activeApp' \in App
           /\ rtkApp' \in [Node -> App \cup {None}]
           /\ rtkMeetings' \in [Meeting -> App \cup {None, "gone"}]
<1> USE DEF ServiceInvariant, TypeOK
<1>0. Fits(r) /\ loc[r] \in Local
  OBVIOUS
<1>1. posts' \in [Call -> Post \cup {None}]
  <2>1. CASE CreatePost(r)
    <3>1. loc[r].call \in Call /\ loc[r].user \in User
      BY <1>0, <2>1 DEF CreatePost, Fits, OpFits, LocalsSet
    <3>2. [parts |-> {loc[r].user}, endAt |-> 0] \in Post
      BY <3>1 DEF Post
    <3> QED
      BY <2>1, <3>2 DEF CreatePost
  <2>2. CASE CreateDeletePost(r)
    BY <2>2 DEF CreateDeletePost
  <2>3. ASSUME NEW here \in {"parts_put", "end_putPost"}, NEW next, NEW post \in Post,
               WritePost(r, here, next, post)
        PROVE  posts' \in [Call -> Post \cup {None}]
    BY <2>3 DEF WritePost
  <2>4. At(r, "parts_put") => [loc[r].post EXCEPT !.parts = loc[r].parts] \in Post
    BY <1>0 DEF Fits, LocalsSet, Post, Local
  <2>5. At(r, "end_putPost") => [loc[r].post EXCEPT !.endAt = r] \in Post
    BY <1>0 DEF Fits, LocalsSet, Post
  <2>6. CASE WritePost(r, "parts_put", AfterParticipants(loc[r].op),
                       [loc[r].post EXCEPT !.parts = loc[r].parts])
    BY <2>3, <2>4, <2>6 DEF WritePost
  <2>7. CASE WritePost(r, "end_putPost", "end_publish", [loc[r].post EXCEPT !.endAt = r])
    BY <2>3, <2>5, <2>7 DEF WritePost
  <2> QED
    BY <2>1, <2>2, <2>6, <2>7, PostsChange
<1>2. /\ started' \subseteq Call
      /\ announced' \in [Call -> SUBSET Request]
      /\ wsParts' \in [Call -> SUBSET User]
      /\ tokens' \subseteq Call \X User
      /\ TokensExist'
  <2>1. CASE UNCHANGED <<feedVars, tokens>>
    BY <2>1 DEF feedVars, TokensExist, Exists
  <2>2. CASE CreatePublish(r)
    <3>1. loc[r].call \in Call /\ loc[r].user \in User /\ Exists(loc[r].call)
      BY <1>0, <2>2 DEF CreatePublish, Fits, OpFits, LocalsSet
    <3> QED
      BY <2>2, <3>1 DEF CreatePublish, TokensExist, Exists
  <2>3. CASE JoinPublish(r)
    <3>1. loc[r].call \in Call /\ loc[r].user \in User /\ Exists(loc[r].call)
      BY <1>0, <2>3 DEF JoinPublish, Fits, OpFits, LocalsSet, OnSubject
    <3>2. loc[r].parts \in SUBSET User
      BY <1>0 DEF Local
    <3> QED
      BY <2>3, <3>1, <3>2 DEF JoinPublish, TokensExist, Exists
  <2>4. CASE LeavePublish(r)
    <3>1. loc[r].parts \in SUBSET User
      BY <1>0 DEF Local
    <3> QED
      BY <2>4, <3>1 DEF LeavePublish, TokensExist, Exists
  <2>5. CASE EndPublish(r)
    BY <2>5 DEF EndPublish, TokensExist, Exists
  <2> QED
    BY <2>1, <2>2, <2>3, <2>4, <2>5, FeedChange
<1>3. /\ activeApp' \in App
      /\ rtkApp' \in [Node -> App \cup {None}]
      /\ rtkMeetings' \in [Meeting -> App \cup {None, "gone"}]
  <2>1. CASE UNCHANGED extVars
    BY <2>1 DEF extVars
  <2>2. CASE CreateNewMeeting(r)
    <3>1. loc[r].node \in Node
      BY <1>0, <2>2 DEF CreateNewMeeting, Fits, LocalsSet
    <3> QED
      BY <2>2, <3>1 DEF CreateNewMeeting
  <2> QED
    BY <2>1, <2>2, ExternalChange
<1> QED
  BY <1>1, <1>2, <1>3

-----------------------------------------------------------------------------
(* The control flow of the handlers.                                       *)

ReadParts(r)  == ReadPost(r, "parts_get", "parts_put", AfterParticipants(loc[r].op))
WriteParts(r) == WritePost(r, "parts_put", AfterParticipants(loc[r].op),
                           [loc[r].post EXCEPT !.parts = loc[r].parts])
ReadEnd(r)    == ReadPost(r, "end_getPost", "end_putPost", "end_publish")
WriteEnd(r)   == WritePost(r, "end_putPost", "end_publish", [loc[r].post EXCEPT !.endAt = r])

\* The step of r goes from a label to one of some labels.
Edge(r, from, to) == pc[r] = from /\ pc'[r] \in to

\* Where each step of CreateCall and of JoinCall starts and ends.
LEMMA CreateFlow ==
    ASSUME ServiceInvariant, NEW r \in Request
    PROVE  /\ CreateCheckExisting(r) => Edge(r, "c_existing", {"error", "c_meeting", "c_probe"})
           /\ CreateProbeExisting(r) => Edge(r, "c_probe", {"error", "end_store"})
           /\ CreateLoadMeeting(r) => Edge(r, "c_meeting", {"error", "c_newMeeting", "c_verify"})
           /\ CreateVerifyMeeting(r) => Edge(r, "c_verify", {"c_newMeeting", "c_token"})
           /\ CreateNewMeeting(r) => Edge(r, "c_newMeeting", {"error", "c_saveMeeting"})
           /\ CreateSaveMeeting(r) => Edge(r, "c_saveMeeting", {"c_token"})
           /\ CreateToken(r) => Edge(r, "c_token", {"error", "c_post"})
           /\ CreatePost(r) => Edge(r, "c_post", {"error", "c_insert"})
           /\ CreateInsert(r) => Edge(r, "c_insert", {"c_publish", "c_deletePost"})
           /\ CreateDeletePost(r) => Edge(r, "c_deletePost", {"error"})
           /\ CreatePublish(r) => Edge(r, "c_publish", {"ok"})
<1> USE DEF ServiceInvariant, TypeOK, Edge, Goto, Return
<1>1. /\ CreateCheckExisting(r) => Edge(r, "c_existing", {"error", "c_meeting", "c_probe"})
      /\ CreateProbeExisting(r) => Edge(r, "c_probe", {"error", "end_store"})
      /\ CreateLoadMeeting(r) => Edge(r, "c_meeting", {"error", "c_newMeeting", "c_verify"})
      /\ CreateVerifyMeeting(r) => Edge(r, "c_verify", {"c_newMeeting", "c_token"})
  BY DEF CreateCheckExisting, CreateProbeExisting, CreateLoadMeeting, CreateVerifyMeeting
<1>2. /\ CreateNewMeeting(r) => Edge(r, "c_newMeeting", {"error", "c_saveMeeting"})
      /\ CreateSaveMeeting(r) => Edge(r, "c_saveMeeting", {"c_token"})
      /\ CreateToken(r) => Edge(r, "c_token", {"error", "c_post"})
      /\ CreatePost(r) => Edge(r, "c_post", {"error", "c_insert"})
  BY DEF CreateNewMeeting, CreateSaveMeeting, CreateToken, CreatePost
<1>3. /\ CreateInsert(r) => Edge(r, "c_insert", {"c_publish", "c_deletePost"})
      /\ CreateDeletePost(r) => Edge(r, "c_deletePost", {"error"})
      /\ CreatePublish(r) => Edge(r, "c_publish", {"ok"})
  BY DEF CreateInsert, CreateDeletePost, CreatePublish
<1> QED
  BY <1>1, <1>2, <1>3

\* JoinCall.
LEMMA JoinFlow ==
    ASSUME ServiceInvariant, NEW r \in Request
    PROVE  /\ JoinLoad(r) => Edge(r, "j_load", {"error", "j_probe"})
           /\ JoinProbe(r) => Edge(r, "j_probe", {"end_store", "j_add"})
           /\ JoinAdd(r) => Edge(r, "j_add", {"error", "j_token"})
           /\ JoinToken(r) => Edge(r, "j_token", {"error", "j_undo", "parts_get"})
           /\ JoinUndo(r) => Edge(r, "j_undo", {"error", "end_getPost"})
           /\ JoinPublish(r) => Edge(r, "j_publish", {"ok"})
BY DEF ServiceInvariant, TypeOK, Edge, Goto, Return, JoinLoad, JoinProbe, JoinAdd,
       JoinToken, JoinUndo, JoinPublish

\* The same for the removal of a participant and the end of a call.
LEMMA LeaveFlow ==
    ASSUME ServiceInvariant, NEW r \in Request
    PROVE  /\ LeaveLoad(r) => Edge(r, "l_load", {"error", "ok", "l_remove"})
           /\ LeaveRemove(r) => Edge(r, "l_remove", {"error", "parts_get"})
           /\ LeavePublish(r) => Edge(r, "l_publish", {"ok", "end_getPost"})
BY DEF ServiceInvariant, TypeOK, Edge, Goto, Return, LeaveLoad, LeaveRemove, LeavePublish

\* The ending of a call.
LEMMA EndFlow ==
    ASSUME ServiceInvariant, NEW r \in Request
    PROVE  /\ EndLoad(r) => Edge(r, "e_load", {"error", "end_store"})
           /\ EndStore(r) => Edge(r, "end_store", {"error", "ok", "g_reload", "end_getPost"})
           /\ ReadEnd(r) => Edge(r, "end_getPost", {"end_putPost", "end_publish"})
           /\ WriteEnd(r) => Edge(r, "end_putPost", {"end_publish"})
           /\ EndPublish(r) =>
                 Edge(r, "end_publish", {"error", "ok", "g_reload", "c_meeting"})
<1> USE DEF ServiceInvariant, TypeOK, Edge, Goto, Return
<1>1. /\ EndLoad(r) => Edge(r, "e_load", {"error", "end_store"})
      /\ EndStore(r) => Edge(r, "end_store", {"error", "ok", "g_reload", "end_getPost"})
  BY DEF EndLoad, EndStore, AfterFailedEnd, UnlockAndReload
<1>2. /\ ReadEnd(r) => Edge(r, "end_getPost", {"end_putPost", "end_publish"})
      /\ WriteEnd(r) => Edge(r, "end_putPost", {"end_publish"})
      /\ EndPublish(r) => Edge(r, "end_publish", {"error", "ok", "g_reload", "c_meeting"})
  BY DEF ReadEnd, WriteEnd, ReadPost, WritePost, EndPublish, AfterEnd, UnlockAndReload
<1> QED
  BY <1>1, <1>2

\* The same for the participants of the post, the GET, the webhooks, the mutex
\* and the arrival of a request.
LEMMA PartsFlow ==
    ASSUME ServiceInvariant, NEW r \in Request
    PROVE  /\ ReadParts(r) =>
                 Edge(r, "parts_get", {"parts_put", "j_publish", "l_publish", "w_backfill"})
           /\ WriteParts(r) =>
                 Edge(r, "parts_put", {"j_publish", "l_publish", "w_backfill"})
<1>1. At(r, "parts_get") \/ At(r, "parts_put") =>
          AfterParticipants(loc[r].op) \in {"j_publish", "l_publish", "w_backfill"}
  BY DEF ServiceInvariant, Fits, OpFits, AfterParticipants
<1> QED
  BY <1>1 DEF ServiceInvariant, TypeOK, Edge, Goto, ReadParts, WriteParts, ReadPost, WritePost

\* The lock, the GET handler and the webhook handlers.
LEMMA OtherFlow ==
    ASSUME ServiceInvariant, NEW r \in Request
    PROVE  /\ GetLoad(r) => Edge(r, "g_load", {"error", "ok", "g_probe", "g_reload"})
           /\ GetProbe(r) => Edge(r, "g_probe", {"lock", "g_reload"})
           /\ GetReload(r) => Edge(r, "g_reload", {"error", "ok"})
           /\ Reread(r) => Edge(r, "reread", {"end_store", "g_reload", "ok"})
           /\ WebhookLookup(r) => Edge(r, "w_lookup", {"ok", "lock", "w_add"})
           /\ WebhookAdd(r) => Edge(r, "w_add", {"ok", "parts_get"})
           /\ WebhookBackfill(r) => Edge(r, "w_backfill", {"j_publish"})
           /\ Lock(r) => Edge(r, "lock", {"c_existing", "j_load", "l_load", "e_load", "reread"})
           /\ Arrival(r) => Edge(r, "idle", {"lock", "g_load", "w_lookup"})
<1> USE DEF ServiceInvariant, TypeOK, Edge, Goto, Return
<1>1. /\ GetLoad(r) => Edge(r, "g_load", {"error", "ok", "g_probe", "g_reload"})
      /\ GetProbe(r) => Edge(r, "g_probe", {"lock", "g_reload"})
      /\ GetReload(r) => Edge(r, "g_reload", {"error", "ok"})
      /\ Reread(r) => Edge(r, "reread", {"end_store", "g_reload", "ok"})
  BY DEF GetLoad, GetProbe, GetReload, Reread, UnlockAndReload
<1>2. /\ WebhookLookup(r) => Edge(r, "w_lookup", {"ok", "lock", "w_add"})
      /\ WebhookAdd(r) => Edge(r, "w_add", {"ok", "parts_get"})
      /\ WebhookBackfill(r) => Edge(r, "w_backfill", {"j_publish"})
  BY DEF WebhookLookup, WebhookAdd, WebhookBackfill
<1>3. Lock(r) => Edge(r, "lock", {"c_existing", "j_load", "l_load", "e_load", "reread"})
  <2>1. At(r, "lock") =>
            Entry(loc[r].op) \in {"c_existing", "j_load", "l_load", "e_load", "reread"}
    BY DEF Fits, OpFits, Op, Entry
  <2> QED
    BY <2>1 DEF Lock
<1>4. Arrival(r) => Edge(r, "idle", {"lock", "g_load", "w_lookup"})
  <2> SUFFICES ASSUME Arrival(r) PROVE Edge(r, "idle", {"lock", "g_load", "w_lookup"})
    OBVIOUS
  <2>1. PICK label \in {"lock", "g_load", "w_lookup"} : \E args : Arrive(r, label, args)
    BY DEF Arrival, RequestCreate, RequestOnCall, ParticipantWebhook, MeetingWebhook
  <2> QED
    BY <2>1, WhoSteps DEF Arrive
<1> QED
  BY <1>1, <1>2, <1>3, <1>4

\* The step that a handler takes from a label ...
LEMMA StepFrom ==
    ASSUME ServiceInvariant, NEW r \in Request, Handle(r), ~Panic(r)
    PROVE  /\ At(r, "c_existing") => CreateCheckExisting(r)
           /\ At(r, "c_probe") => CreateProbeExisting(r)
           /\ At(r, "c_meeting") => CreateLoadMeeting(r)
           /\ At(r, "c_verify") => CreateVerifyMeeting(r)
           /\ At(r, "c_newMeeting") => CreateNewMeeting(r)
           /\ At(r, "c_saveMeeting") => CreateSaveMeeting(r)
           /\ At(r, "c_token") => CreateToken(r)
           /\ At(r, "c_post") => CreatePost(r)
           /\ At(r, "c_insert") => CreateInsert(r)
           /\ At(r, "c_deletePost") => CreateDeletePost(r)
           /\ At(r, "c_publish") => CreatePublish(r)
           /\ At(r, "j_load") => JoinLoad(r)
           /\ At(r, "j_probe") => JoinProbe(r)
           /\ At(r, "j_add") => JoinAdd(r)
           /\ At(r, "j_token") => JoinToken(r)
           /\ At(r, "j_undo") => JoinUndo(r)
           /\ At(r, "j_publish") => JoinPublish(r)
           /\ At(r, "parts_get") => ReadParts(r)
           /\ At(r, "parts_put") => WriteParts(r)
           /\ At(r, "l_load") => LeaveLoad(r)
           /\ At(r, "l_remove") => LeaveRemove(r)
           /\ At(r, "l_publish") => LeavePublish(r)
           /\ At(r, "e_load") => EndLoad(r)
           /\ At(r, "end_store") => EndStore(r)
           /\ At(r, "end_getPost") => ReadEnd(r)
           /\ At(r, "end_putPost") => WriteEnd(r)
           /\ At(r, "end_publish") => EndPublish(r)
           /\ At(r, "lock") => Lock(r)
           /\ At(r, "g_load") => GetLoad(r)
           /\ At(r, "g_probe") => GetProbe(r)
           /\ At(r, "g_reload") => GetReload(r)
           /\ At(r, "reread") => Reread(r)
           /\ At(r, "w_lookup") => WebhookLookup(r)
           /\ At(r, "w_add") => WebhookAdd(r)
           /\ At(r, "w_backfill") => WebhookBackfill(r)
<1>1. \/ Lock(r) \/ CreateCall(r) \/ JoinCall(r) \/ LeaveCall(r) \/ EndActiveCall(r)
      \/ GetCall(r) \/ HandleWebhook(r) \/ UpdatePostParticipants(r)
  BY DEF Handle
<1> QED
  BY <1>1, CreateFlow, JoinFlow, LeaveFlow, EndFlow, PartsFlow, OtherFlow
  DEF CreateCall, JoinCall, LeaveCall, EndActiveCall, GetCall, HandleWebhook,
      UpdatePostParticipants, ReadParts, WriteParts, ReadEnd, WriteEnd, Edge

\* ... and the one with which it comes to a label.
LEMMA StepTo ==
    ASSUME ServiceInvariant, NEW r \in Request, Arrival(r) \/ Handle(r), ~Panic(r)
    PROVE  /\ pc'[r] = "lock" => Arrival(r) \/ GetProbe(r) \/ WebhookLookup(r)
           /\ pc'[r] = "reread" => Lock(r)
           /\ pc'[r] \in MeetingLabel => CreateCall(r)
           /\ pc'[r] = "c_probe" => CreateCheckExisting(r)
           /\ pc'[r] = "c_verify" => CreateLoadMeeting(r)
           /\ pc'[r] = "c_saveMeeting" => CreateNewMeeting(r)
           /\ pc'[r] = "c_token" => CreateVerifyMeeting(r) \/ CreateSaveMeeting(r)
           /\ pc'[r] = "c_post" => CreateToken(r)
           /\ pc'[r] = "c_insert" => CreatePost(r)
           /\ pc'[r] \in {"c_deletePost", "c_publish"} => CreateInsert(r)
           /\ pc'[r] = "j_probe" => JoinLoad(r)
           /\ pc'[r] = "j_add" => JoinProbe(r)
           /\ pc'[r] = "j_token" => JoinAdd(r)
           /\ pc'[r] = "j_undo" => JoinToken(r)
           /\ pc'[r] = "j_publish" => ReadParts(r) \/ WriteParts(r) \/ WebhookBackfill(r)
           /\ pc'[r] = "parts_get" => JoinToken(r) \/ LeaveRemove(r) \/ WebhookAdd(r)
           /\ pc'[r] = "parts_put" => ReadParts(r)
           /\ pc'[r] = "l_remove" => LeaveLoad(r)
           /\ pc'[r] = "l_publish" => ReadParts(r) \/ WriteParts(r)
           /\ pc'[r] = "end_store" =>
                 CreateProbeExisting(r) \/ JoinProbe(r) \/ EndLoad(r) \/ Reread(r)
           /\ pc'[r] = "end_getPost" => JoinUndo(r) \/ LeavePublish(r) \/ EndStore(r)
           /\ pc'[r] = "end_putPost" => ReadEnd(r)
           /\ pc'[r] = "end_publish" => ReadEnd(r) \/ WriteEnd(r)
<1>1. \/ Arrival(r) \/ Lock(r) \/ CreateCall(r) \/ JoinCall(r) \/ LeaveCall(r)
      \/ EndActiveCall(r) \/ GetCall(r) \/ HandleWebhook(r) \/ UpdatePostParticipants(r)
  BY DEF Handle
<1> QED
  BY <1>1, CreateFlow, JoinFlow, LeaveFlow, EndFlow, PartsFlow, OtherFlow
  DEF CreateCall, JoinCall, LeaveCall, EndActiveCall, GetCall, HandleWebhook,
      UpdatePostParticipants, ReadParts, WriteParts, ReadEnd, WriteEnd, Edge

-----------------------------------------------------------------------------
(* The invariant.                                                          *)

\* The server starts with the invariant, ...
LEMMA ServiceInit == Init => ServiceInvariant
<1> SUFFICES ASSUME Init PROVE ServiceInvariant
  OBVIOUS
<1>1. StoreTypeOK
  BY DEF Init, StoreInit, StoreTypeOK
<1>2. Blank \in Local
  BY DEF Blank, Local
<1>3. TypeOK
  BY <1>1, <1>2 DEF Init, TypeOK
<1>4. ASSUME NEW r \in Request PROVE Fits(r)
  BY DEF Init, Blank, Fits, OpFits, LocalsSet, OnSubject
<1>5. MutexCovers
  BY ServiceAssumption DEF Init, MutexCovers, InCritical
<1> QED
  BY <1>3, <1>4, <1>5 DEF Init, ServiceInvariant, TokensExist

\* The step of a request whose process lives respects the invariant.
LEMMA ServiceStepSound ==
    ASSUME ServiceInvariant, NEW r \in Request, Arrival(r) \/ Handle(r), ~Panic(r)
    PROVE  SoundStep(r)
<1>1. [Next]_vars
  BY DEF Next
<1>2. \A c \in Call : Exists(c) => Exists(c)'
  BY <1>1, ServiceStoreStep, RowsStay DEF ServiceInvariant, TypeOK
<1> QED
  BY <1>2, RequestSound DEF ServiceInvariant, Before

\* ... and no step of a request, no death of a process and no event outside breaks it.
LEMMA ServiceStep == ServiceInvariant /\ [Next]_vars => ServiceInvariant'
<1> SUFFICES ASSUME ServiceInvariant, [Next]_vars PROVE ServiceInvariant'
  OBVIOUS
<1>1. StoreTypeOK' /\ \A c \in Call : Exists(c) => Exists(c)'
  BY ServiceStoreStep, StoreTypeStep, RowsStay DEF ServiceInvariant, TypeOK
\* A step of a request whose process lives.
<1>2. ASSUME NEW r \in Request, Arrival(r) \/ Handle(r), ~Panic(r)
      PROVE  ServiceInvariant'
  <2>1. SoundStep(r)
    BY <1>2, ServiceStepSound
  <2>2. TypeOK'
    BY <1>1, <1>2, <2>1, RestTyped DEF SoundStep, ControlType, TypeOK
  <2>3. ASSUME NEW s \in Request, s # r PROVE Fits(s)'
    BY <1>1, <2>1, <2>3
    DEF ServiceInvariant, SoundStep, OthersWait, Fits, OpFits, LocalsSet, OnSubject, Exists
  <2>4. MutexCovers'
    BY <2>1, MutexStep DEF ServiceInvariant
  <2> QED
    BY <1>1, <1>2, <2>1, <2>2, <2>3, <2>4, RestTyped DEF ServiceInvariant, SoundStep
\* The death of a process.
<1>3. ASSUME NEW n \in Node, Dies(n) PROVE ServiceInvariant'
  <2>1. ControlType' /\ MutexCovers' /\ \A r \in Request : Fits(r)'
    BY <1>3, DeathSound DEF ServiceInvariant
  <2> QED
    BY <1>1, <1>3, <2>1
    DEF Dies, ServiceInvariant, TypeOK, ControlType, TokensExist, Exists, shared,
        storeVars, extVars, feedVars
<1>4. ASSUME NEW r \in Request, Panic(r) PROVE ServiceInvariant'
  <2>1. loc[r].node \in Node
    BY <1>4 DEF Panic, ServiceInvariant, Fits, LocalsSet
  <2> QED
    BY <1>3, <1>4, <2>1 DEF Panic
\* What the environment and an idle server leave alone.
<1>5. CASE \/ \E m \in Meeting : MeetingDeleted(m)
           \/ \E a \in App : StoreAppConfig(a)
           \/ \E n \in Node, a \in App \cup {None} : UpdateRTKClient(n, a)
           \/ UNCHANGED vars
  <2>1. UNCHANGED <<storeVars, posts, feedVars, tokens, control>>
    BY <1>5 DEF MeetingDeleted, StoreAppConfig, UpdateRTKClient, vars, shared
  <2>2. /\ activeApp' \in App
        /\ rtkApp' \in [Node -> App \cup {None}]
        /\ rtkMeetings' \in [Meeting -> App \cup {None, "gone"}]
    BY <1>5
    DEF MeetingDeleted, StoreAppConfig, UpdateRTKClient, vars, shared, extVars,
        ServiceInvariant, TypeOK
  <2>3. TypeOK' /\ TokensExist' /\ MutexCovers'
    BY <1>1, <2>1, <2>2
    DEF ServiceInvariant, TypeOK, TokensExist, MutexCovers, InCritical, Exists,
        storeVars, feedVars, control
  <2>4. ASSUME NEW r \in Request PROVE Fits(r)'
    BY <2>1 DEF ServiceInvariant, Fits, OpFits, LocalsSet, OnSubject, Exists, storeVars, control
  <2> QED
    BY <2>3, <2>4 DEF ServiceInvariant
<1> QED
  BY <1>2, <1>3, <1>4, <1>5 DEF Next, Environment, Crash, Idle

\* The inductive invariant of every server, whatever its nodes, requests and faults.
THEOREM ServiceInvariance == Spec => []ServiceInvariant
BY ServiceInit, ServiceStep, PTL DEF Spec

\* Every variable keeps its type: no handler uses a row, a post or a meeting that
\* it has not read, and every label is reached with its local variables set.
THEOREM TypeOKAlways == Spec => []TypeOK
<1>1. ServiceInvariant => TypeOK
  BY DEF ServiceInvariant
<1> QED
  BY <1>1, ServiceInvariance, PTL

\* callMu of a node is held exactly by the handler that is in its critical
\* section, on any number of nodes and whatever fails, panics or crashes.
THEOREM MutexCoversAlways == Spec => []MutexCovers
<1>1. ServiceInvariant => MutexCovers
  BY DEF ServiceInvariant
<1> QED
  BY <1>1, ServiceInvariance, PTL

\* step simulation
THEOREM ImplementsStore == Spec => StoreSpec
<1>1. Init => StoreInit
  BY DEF Init
<1>2. ServiceInvariant /\ [Next]_vars => [StoreNext]_storeVars
  BY ServiceStoreStep
<1> QED
  BY <1>1, <1>2, ServiceInvariance, PTL DEF Spec, StoreSpec

\* Hence, on any number of nodes and whatever fails or crashes, the handlers
\* never leave two calls active in a channel or on a meeting, an active call
\* without participants, or two calls with one RTK session id ...
THEOREM ServiceStoreSafety == Spec => []StoreInvariant
BY ImplementsStore, StoreSafety, PTL

\* ... and never change the end or the participants of an ended call.
THEOREM ServiceEndedFrozen == Spec => EndedStaysFrozen
BY ImplementsStore, EndedFrozen, PTL

=============================================================================
