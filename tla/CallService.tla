----------------------------- MODULE CallService -----------------------------
(***************************************************************************)
(* The call handlers of the server plugin on every node of a cluster:      *)
(* CreateCall, JoinCall, LeaveCall, EndCall, the GET handler with its      *)
(* on-demand reconciliation, and the three RTK webhook handlers.           *)
(*                                                                         *)
(* A request is one HTTP request.  It runs on one node, takes that node's  *)
(* callMu where the code does, and makes one step per call that leaves the *)
(* process: a store transaction, an RTK API call, a post read or write, a  *)
(* WebSocket publication.  The steps of requests on different nodes, and   *)
(* of requests that do not hold callMu, interleave freely.                 *)
(*                                                                         *)
(* nowMs() read by request r is the stamp r: every request writes endat at *)
(* most once, and two requests never read the same time.  Push             *)
(* notifications, logging and display names are left out.                  *)
(***************************************************************************)
EXTENDS CallStore, FiniteSets

CONSTANTS Node,     \* plugin instances of the cluster
          Request,  \* HTTP requests; each one is handled once
          Ops,      \* the operations the requests may be
          Faults    \* what may go wrong, see FaultKind

Op == {"create", "join", "leave", "end", "get",
       "partJoined", "partLeft", "meetingEnded"}

\* storeError: a transaction fails, applied or not.  rtkError: an RTK call
\* fails without saying that the meeting is missing.  postError: the post API
\* fails.  meetingDeleted: RTK forgets a meeting.  crash: a node restarts.
\* clientChange: OnConfigurationChange swaps a node's RTK client.
FaultKind == {"storeError", "rtkError", "postError", "meetingDeleted", "crash",
              "clientChange"}

\* The call post's props: the participants shown, and 0 or the end.
Post == [parts : SUBSET User, endAt : Request \cup {0}]

ASSUME ServiceAssumption ==
    /\ Time = Request
    /\ Ops \subseteq Op
    /\ Faults \subseteq FaultKind
    /\ None \notin Op \cup Request \cup App \cup Post
    /\ "gone" \notin App \cup {None}

VARIABLES activeApp,    \* the active row of rtk_app_config
          rtkApp,       \* per node, the app of a.rtk, or None for a nil client
          rtkMeetings,  \* at RTK: the app that owns a meeting, None, or "gone"
          posts,        \* the call post of a call, as stored by Mattermost
          started,      \* calls whose call_started was published
          announced,    \* per call, the requests that published call_ended
          wsParts,      \* per call, the participants of the last event about it
          tokens,       \* <<call, user>> pairs whose token reached the client
          callMu,       \* per node, the holder of the mutex
          pc,           \* where a request is
          loc           \* its arguments and local variables

extVars  == <<activeApp, rtkApp, rtkMeetings>>
feedVars == <<started, announced, wsParts>>
shared   == <<storeVars, extVars, posts, feedVars, tokens>>
control  == <<callMu, pc, loc>>
vars == <<shared, control>>

Final == {"ok", "error", "crashed"}

\* Local variables of a handler that is not running.
Blank == [op |-> None, node |-> None, user |-> None, call |-> None,
          channel |-> None, subject |-> None, meeting |-> None, app |-> None,
          parts |-> {}, post |-> None, added |-> FALSE, endedNow |-> FALSE, rtkSession |-> None]

Init ==
    /\ StoreInit
    /\ activeApp \in App
    /\ rtkApp = [n \in Node |-> activeApp]
    /\ rtkMeetings = [m \in Meeting |-> None]
    /\ posts = [c \in Call |-> None]
    /\ started = {}
    /\ announced = [c \in Call |-> {}]
    /\ wsParts = [c \in Call |-> {}]
    /\ tokens = {}
    /\ callMu = [n \in Node |-> None]
    /\ pc = [r \in Request |-> "idle"]
    /\ loc = [r \in Request |-> Blank]

-----------------------------------------------------------------------------
(* Control.                                                                *)

At(r, label) == pc[r] = label

Goto(r, label) == pc' = [pc EXCEPT ![r] = label] /\ UNCHANGED callMu

\* Mutant: an error path that does not unlock.
MutReturnLocked(r, result) ==
    /\ pc' = [pc EXCEPT ![r] = result]
    /\ callMu' = [n \in Node |-> IF callMu[n] = r /\ result # "error" THEN None ELSE callMu[n]]
    /\ loc' = [loc EXCEPT ![r] = Blank]

\* The handler returns; its deferred Unlock runs.  A minted id stays used.
Return(r, result) ==
    /\ pc' = [pc EXCEPT ![r] = result]
    /\ callMu' = [n \in Node |-> IF callMu[n] = r THEN None ELSE callMu[n]]
    /\ loc' = [loc EXCEPT ![r] =
                  [Blank EXCEPT !.call = IF loc[r].op = "create" THEN loc[r].call ELSE None]]

HasClient(r) == rtkApp[loc[r].node] # None

\* Mutant: every error of GetMeeting is taken for a 404.
MutMeetingStatus(r, m) ==
    (IF rtkMeetings[m] = rtkApp[loc[r].node] THEN {"alive"} ELSE {"notFound"})
    \cup {"notFound" : x \in Faults \cap {"rtkError"}}

\* Outcomes of GetMeeting(m) for the client that the request uses.
MeetingStatus(r, m) ==
    (IF rtkMeetings[m] = rtkApp[loc[r].node] THEN {"alive"} ELSE {"notFound"})
    \cup {"transient" : x \in Faults \cap {"rtkError"}}

MayFail(fault) == fault \in Faults

\* What the critical section of an operation starts with.
Entry(op) ==
    CASE op = "create" -> "c_existing"
      [] op = "join" -> "j_load"
      [] op \in {"leave", "partLeft"} -> "l_load"
      [] op = "end" -> "e_load"
      [] op \in {"get", "meetingEnded"} -> "reread"

\* Mutant: a mutex per request instead of one per node.
MutLock(r) ==
    /\ At(r, "lock")
    /\ callMu' = [callMu EXCEPT ![loc[r].node] = r]
    /\ pc' = [pc EXCEPT ![r] = Entry(loc[r].op)]
    /\ UNCHANGED <<shared, loc>>

Lock(r) ==
    /\ At(r, "lock")
    /\ callMu[loc[r].node] = None
    /\ callMu' = [callMu EXCEPT ![loc[r].node] = r]
    /\ pc' = [pc EXCEPT ![r] = Entry(loc[r].op)]
    /\ UNCHANGED <<shared, loc>>

-----------------------------------------------------------------------------
(* The arrival of requests.  A client knows a call once its post exists;   *)
(* RTK sends events only about participants who hold a token, and as often *)
(* and as late as it likes.                                                *)

Arrive(r, label, args) ==
    /\ pc' = [pc EXCEPT ![r] = label]
    /\ loc' = [loc EXCEPT ![r] = args]
    /\ UNCHANGED <<shared, callMu>>

Fresh(c) == ~Exists(c) /\ posts[c] = None /\ \A r \in Request : loc[r].call # c

Known(c) == Exists(c) \/ posts[c] # None

\* The call's id, minted inside the handler, is reserved on arrival.
RequestCreate(r, n) ==
    /\ At(r, "idle") /\ "create" \in Ops
    /\ \E c \in Call, ch \in Channel, u \in User :
         /\ Fresh(c)
         /\ Arrive(r, "lock", [Blank EXCEPT !.op = "create", !.node = n, !.user = u,
                                            !.call = c, !.channel = ch])

RequestOnCall(r, n) ==
    /\ At(r, "idle")
    /\ \E op \in Ops \cap {"join", "leave", "end", "get"}, c \in Call, u \in User :
         /\ Known(c)
         /\ Arrive(r, IF op = "get" THEN "g_load" ELSE "lock",
                   [Blank EXCEPT !.op = op, !.node = n, !.user = u, !.call = c])

\* meeting.participantJoined and meeting.participantLeft, with the call and
\* user of their customParticipantId.
ParticipantWebhook(r, n) ==
    /\ At(r, "idle")
    /\ \E op \in Ops \cap {"partJoined", "partLeft"}, cu \in tokens, s \in RtkSession :
         Arrive(r, "w_lookup",
                [Blank EXCEPT !.op = op, !.node = n, !.user = cu[2], !.call = cu[1],
                              !.meeting = sessions[cu[1]].meeting,
                              !.rtkSession = IF op = "partJoined" THEN s ELSE None])

\* meeting.ended names the meeting only.
MeetingWebhook(r, n) ==
    /\ At(r, "idle") /\ "meetingEnded" \in Ops
    /\ \E cu \in tokens :
         Arrive(r, "w_lookup", [Blank EXCEPT !.op = "meetingEnded", !.node = n,
                                             !.meeting = sessions[cu[1]].meeting])

-----------------------------------------------------------------------------
(* CreateCall.  Its subject is the stale call it ends, its call the new one. *)

ActiveIn(ch) == {d \in Call : Active(d) /\ sessions[d].channel = ch}

\* The nil check, the disabled check and GetCallByChannel.
CreateCheckExisting(r) ==
    /\ At(r, "c_existing")
    /\ \/ Return(r, "error")   \* not a member, no client, disabled, store error
       \/ /\ HasClient(r)
          /\ ActiveIn(loc[r].channel) = {}
          /\ Goto(r, "c_meeting")
          /\ UNCHANGED loc
       \/ /\ HasClient(r)
          /\ \E d \in ActiveIn(loc[r].channel) :
               loc' = [loc EXCEPT ![r].subject = d]
          /\ Goto(r, "c_probe")
    /\ UNCHANGED shared

\* Only a definitive 404 makes the existing call stale.
CreateProbeExisting(r) ==
    /\ At(r, "c_probe") /\ HasClient(r)
    /\ \E status \in MeetingStatus(r, sessions[loc[r].subject].meeting) :
         IF status = "notFound" THEN Goto(r, "end_store") /\ UNCHANGED loc
                                ELSE Return(r, "error")
    /\ UNCHANGED shared

\* Mutant: the row is taken for its meeting id.
MutReusableMeeting(ch) == channelMeetings[ch]

\* The meeting saved for the channel, unless it belongs to another app.
ReusableMeeting(ch) ==
    IF channelMeetings[ch] # None /\ channelMeetings[ch].app = activeApp
    THEN channelMeetings[ch].meeting
    ELSE None

\* GetChannelMeeting, whose failure only means "none", and GetActiveAppConfigID.
CreateLoadMeeting(r) ==
    /\ At(r, "c_meeting")
    /\ \/ /\ activeApp = None \/ MayFail("storeError")
          /\ Return(r, "error")
       \/ /\ activeApp # None
          /\ \E m \in {ReusableMeeting(loc[r].channel)}
                      \cup {None : x \in Faults \cap {"storeError"}} :
               /\ loc' = [loc EXCEPT ![r].meeting = m, ![r].app = activeApp]
               /\ Goto(r, IF m = None THEN "c_newMeeting" ELSE "c_verify")
    /\ UNCHANGED shared

CreateVerifyMeeting(r) ==
    /\ At(r, "c_verify") /\ HasClient(r)
    /\ \E status \in MeetingStatus(r, loc[r].meeting) :
         Goto(r, IF status = "notFound" THEN "c_newMeeting" ELSE "c_token")
    /\ UNCHANGED <<shared, loc>>

CreateNewMeeting(r) ==
    /\ At(r, "c_newMeeting") /\ HasClient(r)
    /\ \/ /\ MayFail("rtkError")
          /\ Return(r, "error")
          /\ UNCHANGED rtkMeetings
       \/ \E m \in Meeting :
            /\ rtkMeetings[m] = None
            /\ rtkMeetings' = [rtkMeetings EXCEPT ![m] = rtkApp[loc[r].node]]
            /\ loc' = [loc EXCEPT ![r].meeting = m]
            /\ Goto(r, "c_saveMeeting")
    /\ UNCHANGED <<storeVars, activeApp, rtkApp, posts, feedVars, tokens>>

\* Best effort, under the app configuration read before.
CreateSaveMeeting(r) ==
    /\ At(r, "c_saveMeeting")
    /\ \/ SaveChannelMeeting(loc[r].channel, loc[r].meeting, loc[r].app)
       \/ MayFail("storeError") /\ UNCHANGED storeVars
    /\ Goto(r, "c_token")
    /\ UNCHANGED <<extVars, posts, feedVars, tokens, loc>>

\* Mutant: the session is inserted before the post exists.
MutCreateToken(r) == At(r, "c_token") /\ Goto(r, "c_insert") /\ UNCHANGED <<shared, loc>>

CreateToken(r) ==
    /\ At(r, "c_token") /\ HasClient(r)
    /\ \/ /\ MayFail("rtkError") \/ rtkMeetings[loc[r].meeting] # rtkApp[loc[r].node]
          /\ Return(r, "error")
       \/ /\ rtkMeetings[loc[r].meeting] = rtkApp[loc[r].node]
          /\ Goto(r, "c_post")
          /\ UNCHANGED loc
    /\ UNCHANGED shared

\* The post exists before the session does.
CreatePost(r) ==
    /\ At(r, "c_post")
    /\ \/ /\ posts' = [posts EXCEPT ![loc[r].call] = [parts |-> {loc[r].user}, endAt |-> 0]]
          /\ Goto(r, "c_insert")
          /\ UNCHANGED loc
       \/ MayFail("postError") /\ Return(r, "error") /\ UNCHANGED posts
    /\ UNCHANGED <<storeVars, extVars, feedVars, tokens>>

\* The unique indexes decide between the nodes.
CreateInsert(r) ==
    LET insert == CreateCallSession(loc[r].call, loc[r].channel, loc[r].user, loc[r].meeting)
    IN  /\ At(r, "c_insert")
        /\ \/ insert /\ Goto(r, "c_publish")
           \/ ActiveConflict(loc[r].channel, loc[r].meeting)
              /\ UNCHANGED storeVars /\ Goto(r, "c_deletePost")
           \/ MayFail("storeError")
              /\ (insert \/ UNCHANGED storeVars) /\ Goto(r, "c_deletePost")
        /\ UNCHANGED <<extVars, posts, feedVars, tokens, loc>>

\* Mutant: the post of the call that lost the race stays.
MutCreateDeletePost(r) == At(r, "c_deletePost") /\ Return(r, "error") /\ UNCHANGED shared

CreateDeletePost(r) ==
    /\ At(r, "c_deletePost")
    /\ \/ posts' = [posts EXCEPT ![loc[r].call] = None]
       \/ MayFail("postError") /\ UNCHANGED posts
    /\ Return(r, "error")
    /\ UNCHANGED <<storeVars, extVars, feedVars, tokens>>

CreatePublish(r) ==
    /\ At(r, "c_publish")
    /\ started' = started \cup {loc[r].call}
    /\ wsParts' = [wsParts EXCEPT ![loc[r].call] = {loc[r].user}]
    /\ tokens' = tokens \cup {<<loc[r].call, loc[r].user>>}
    /\ Return(r, "ok")
    /\ UNCHANGED <<storeVars, extVars, posts, announced>>

CreateCall(r) ==
    \/ CreateCheckExisting(r) \/ CreateProbeExisting(r) \/ CreateLoadMeeting(r)
    \/ CreateVerifyMeeting(r) \/ CreateNewMeeting(r)    \/ CreateSaveMeeting(r)
    \/ CreateToken(r)         \/ CreatePost(r)          \/ CreateInsert(r)
    \/ CreateDeletePost(r)    \/ CreatePublish(r)

-----------------------------------------------------------------------------
(* JoinCall.                                                               *)

\* The nil check, GetCallByID and the membership check.
JoinLoad(r) ==
    /\ At(r, "j_load")
    /\ \/ Return(r, "error")
       \/ /\ HasClient(r) /\ Active(loc[r].call)
          /\ loc' = [loc EXCEPT ![r].subject = loc[r].call]
          /\ Goto(r, "j_probe")
    /\ UNCHANGED shared

JoinProbe(r) ==
    /\ At(r, "j_probe") /\ HasClient(r)
    /\ \E status \in MeetingStatus(r, sessions[loc[r].call].meeting) :
         Goto(r, IF status = "notFound" THEN "end_store" ELSE "j_add")
    /\ UNCHANGED <<shared, loc>>

JoinAdd(r) ==
    LET c == loc[r].call  u == loc[r].user
    IN  /\ At(r, "j_add")
        /\ \/ /\ AddCallParticipant(c, u)
              /\ \/ ~Active(c) /\ Return(r, "error")
                 \/ /\ Active(c)
                    /\ loc' = [loc EXCEPT ![r].parts = ParticipantsOf(c) \cup {u},
                                          ![r].added = u \notin ParticipantsOf(c)]
                    /\ Goto(r, "j_token")
           \/ /\ MayFail("storeError")
              /\ AddCallParticipant(c, u) \/ UNCHANGED storeVars
              /\ Return(r, "error")
        /\ UNCHANGED <<extVars, posts, feedVars, tokens>>

JoinToken(r) ==
    LET meeting == sessions[loc[r].call].meeting
    IN  /\ At(r, "j_token") /\ HasClient(r)
        /\ \/ /\ rtkMeetings[meeting] = rtkApp[loc[r].node]
              /\ Goto(r, "parts_get")
              /\ UNCHANGED loc
           \/ /\ MayFail("rtkError") \/ rtkMeetings[meeting] # rtkApp[loc[r].node]
              /\ \/ loc[r].added /\ Goto(r, "j_undo") /\ UNCHANGED loc
                 \/ ~loc[r].added /\ Return(r, "error")
        /\ UNCHANGED shared

\* The compensation, in a transaction of its own.
JoinUndo(r) ==
    LET c == loc[r].call  u == loc[r].user
    IN  /\ At(r, "j_undo")
        /\ \/ /\ RemoveCallParticipant(c, u, r)
              /\ \/ /\ Active(c) /\ IsLastParticipant(c, u)
                    /\ Goto(r, "end_getPost")
                    /\ UNCHANGED loc
                 \/ /\ ~(Active(c) /\ IsLastParticipant(c, u))
                    /\ Return(r, "error")
           \/ /\ MayFail("storeError")
              /\ RemoveCallParticipant(c, u, r) \/ UNCHANGED storeVars
              /\ Return(r, "error")
        /\ UNCHANGED <<extVars, posts, feedVars, tokens>>

\* user_joined, of JoinCall and of HandleWebhookParticipantJoined.  Only
\* JoinCall answers with a token.
JoinPublish(r) ==
    /\ At(r, "j_publish")
    /\ wsParts' = [wsParts EXCEPT ![loc[r].call] = loc[r].parts]
    /\ tokens' = IF loc[r].op = "join" THEN tokens \cup {<<loc[r].call, loc[r].user>>}
                                       ELSE tokens
    /\ Return(r, "ok")
    /\ UNCHANGED <<storeVars, extVars, posts, started, announced>>

JoinCall(r) ==
    \/ JoinLoad(r) \/ JoinProbe(r) \/ JoinAdd(r) \/ JoinToken(r) \/ JoinUndo(r)
    \/ JoinPublish(r)

-----------------------------------------------------------------------------
(* updatePostParticipants: a read and a write of the whole post, best      *)
(* effort, on behalf of three handlers.                                    *)

AfterParticipants(op) ==
    CASE op = "join" -> "j_publish"
      [] op \in {"leave", "partLeft"} -> "l_publish"
      [] op = "partJoined" -> "w_backfill"

\* GetPost, and UpdatePost of the whole post that was read.
ReadPost(r, here, next, skip) ==
    /\ At(r, here)
    /\ \/ /\ posts[loc[r].subject] # None
          /\ loc' = [loc EXCEPT ![r].post = posts[loc[r].subject]]
          /\ Goto(r, next)
       \/ /\ MayFail("postError") \/ posts[loc[r].subject] = None
          /\ Goto(r, skip)
          /\ UNCHANGED loc
    /\ UNCHANGED shared

WritePost(r, here, next, post) ==
    /\ At(r, here)
    /\ \/ /\ posts[loc[r].subject] # None
          /\ posts' = [posts EXCEPT ![loc[r].subject] = post]
       \/ /\ MayFail("postError") \/ posts[loc[r].subject] = None
          /\ UNCHANGED posts
    /\ loc' = [loc EXCEPT ![r].post = None]
    /\ Goto(r, next)
    /\ UNCHANGED <<storeVars, extVars, feedVars, tokens>>

UpdatePostParticipants(r) ==
    \/ ReadPost(r, "parts_get", "parts_put", AfterParticipants(loc[r].op))
    \/ WritePost(r, "parts_put", AfterParticipants(loc[r].op),
                 [loc[r].post EXCEPT !.parts = loc[r].parts])

-----------------------------------------------------------------------------
(* LeaveCall, of the leave request and of meeting.participantLeft.         *)

LeaveLoad(r) ==
    /\ At(r, "l_load")
    /\ \/ MayFail("storeError") /\ Return(r, "error")
       \/ ~Active(loc[r].call) /\ Return(r, "ok")
       \/ /\ Active(loc[r].call)
          /\ loc' = [loc EXCEPT ![r].subject = loc[r].call]
          /\ Goto(r, "l_remove")
    /\ UNCHANGED shared

LeaveRemove(r) ==
    LET c == loc[r].call  u == loc[r].user
    IN  /\ At(r, "l_remove")
        /\ \/ /\ RemoveCallParticipant(c, u, r)
              /\ loc' = [loc EXCEPT ![r].parts = {v \in ParticipantsOf(c) : Active(c) => v # u},
                                    ![r].endedNow = Active(c) /\ IsLastParticipant(c, u)]
              /\ Goto(r, "parts_get")
           \/ /\ MayFail("storeError")
              /\ RemoveCallParticipant(c, u, r) \/ UNCHANGED storeVars
              /\ Return(r, "error")
        /\ UNCHANGED <<extVars, posts, feedVars, tokens>>

\* Mutant: no user_left unless the call ends.
MutLeavePublish(r) ==
    /\ At(r, "l_publish")
    /\ \/ loc[r].endedNow /\ Goto(r, "end_getPost") /\ UNCHANGED loc
       \/ ~loc[r].endedNow /\ Return(r, "ok")
    /\ UNCHANGED shared

\* Mutant: the store's auto-end goes unnoticed.
MutLeaveNoEnd(r) ==
    /\ At(r, "l_publish")
    /\ wsParts' = [wsParts EXCEPT ![loc[r].call] = loc[r].parts]
    /\ Return(r, "ok")
    /\ UNCHANGED <<storeVars, extVars, posts, started, announced, tokens>>

\* user_left; call_ended follows only if this removal ended the call.
LeavePublish(r) ==
    /\ At(r, "l_publish")
    /\ wsParts' = [wsParts EXCEPT ![loc[r].call] = loc[r].parts]
    /\ \/ loc[r].endedNow /\ Goto(r, "end_getPost") /\ UNCHANGED loc
       \/ ~loc[r].endedNow /\ Return(r, "ok")
    /\ UNCHANGED <<storeVars, extVars, posts, started, announced, tokens>>

LeaveCall(r) == LeaveLoad(r) \/ LeaveRemove(r) \/ LeavePublish(r)

-----------------------------------------------------------------------------
(* EndCall, and endCallInternal and emitCallEnded on behalf of every path  *)
(* that ends a call.                                                       *)

\* Mutant: EndCall does not look at endat.
MutEndLoad(r) ==
    /\ At(r, "e_load")
    /\ Exists(loc[r].call) /\ sessions[loc[r].call].creator = loc[r].user
    /\ loc' = [loc EXCEPT ![r].subject = loc[r].call]
    /\ Goto(r, "end_store")
    /\ UNCHANGED shared

EndLoad(r) ==
    LET c == loc[r].call
    IN  /\ At(r, "e_load")
        /\ \/ /\ MayFail("storeError") \/ (Active(c) => sessions[c].creator # loc[r].user)
              /\ Return(r, "error")
           \/ /\ Active(c) /\ sessions[c].creator = loc[r].user
              /\ loc' = [loc EXCEPT ![r].subject = c]
              /\ Goto(r, "end_store")
        /\ UNCHANGED shared

\* ReconcileCallOnDemand returns: its Unlock runs and the GET goes on.
UnlockAndReload(r) ==
    /\ pc' = [pc EXCEPT ![r] = "g_reload"]
    /\ callMu' = [n \in Node |-> IF callMu[n] = r THEN None ELSE callMu[n]]
    /\ UNCHANGED loc

\* Where the handler goes on when endCallInternal fails in the store ...
AfterFailedEnd(r) ==
    \/ loc[r].op \in {"create", "join", "end"} /\ Return(r, "error")
    \/ loc[r].op = "meetingEnded" /\ Return(r, "ok")
    \/ loc[r].op = "get" /\ UnlockAndReload(r)

\* ... and when it succeeds.  CreateCall goes on to create the new call.
AfterEnd(r) ==
    \/ loc[r].op \in {"leave", "partLeft", "end", "meetingEnded"} /\ Return(r, "ok")
    \/ loc[r].op = "join" /\ Return(r, "error")
    \/ loc[r].op = "get" /\ UnlockAndReload(r)
    \/ loc[r].op = "create" /\ Goto(r, "c_meeting") /\ UNCHANGED loc

\* Mutant: the post is not updated when a call ends.
MutEndStore(r) ==
    /\ At(r, "end_store")
    /\ EndCall(loc[r].subject, r) /\ Goto(r, "end_publish") /\ UNCHANGED loc
    /\ UNCHANGED <<extVars, posts, feedVars, tokens>>

\* store.EndCall: whether it changed the row is not looked at.
EndStore(r) ==
    /\ At(r, "end_store")
    /\ \/ EndCall(loc[r].subject, r) /\ Goto(r, "end_getPost") /\ UNCHANGED loc
       \/ /\ MayFail("storeError")
          /\ EndCall(loc[r].subject, r) \/ UNCHANGED storeVars
          /\ AfterFailedEnd(r)
    /\ UNCHANGED <<extVars, posts, feedVars, tokens>>

EndPublish(r) ==
    /\ At(r, "end_publish")
    /\ announced' = [announced EXCEPT ![loc[r].subject] = @ \cup {r}]
    /\ AfterEnd(r)
    /\ UNCHANGED <<storeVars, extVars, posts, started, wsParts, tokens>>

EndActiveCall(r) ==
    \/ EndLoad(r) \/ EndStore(r)
    \/ ReadPost(r, "end_getPost", "end_putPost", "end_publish")
    \/ WritePost(r, "end_putPost", "end_publish", [loc[r].post EXCEPT !.endAt = r])
    \/ EndPublish(r)

-----------------------------------------------------------------------------
(* GET /calls/{id} with ReconcileCallOnDemand, whose probe of RTK runs     *)
(* before callMu is taken.                                                 *)

GetLoad(r) ==
    LET c == loc[r].call
    IN  /\ At(r, "g_load")
        /\ \/ /\ MayFail("storeError") \/ ~Exists(c)
              /\ Return(r, "error")
           \/ Ended(c) /\ Return(r, "ok")
           \/ /\ Active(c)
              /\ loc' = [loc EXCEPT ![r].subject = c]
              /\ Goto(r, IF HasClient(r) THEN "g_probe" ELSE "g_reload")
        /\ UNCHANGED shared

GetProbe(r) ==
    /\ At(r, "g_probe") /\ HasClient(r)
    /\ \E status \in MeetingStatus(r, sessions[loc[r].call].meeting) :
         Goto(r, IF status = "notFound" THEN "lock" ELSE "g_reload")
    /\ UNCHANGED <<shared, loc>>

GetReload(r) ==
    /\ At(r, "g_reload")
    /\ Return(r, "ok") \/ (MayFail("storeError") /\ Return(r, "error"))
    /\ UNCHANGED shared

\* Mutant: ReconcileCallOnDemand gives up after taking the lock.
MutReread(r) == At(r, "reread") /\ UnlockAndReload(r) /\ UNCHANGED shared

\* The second read of the call, under the lock, of ReconcileCallOnDemand and
\* of HandleWebhookMeetingEnded.
Reread(r) ==
    /\ At(r, "reread")
    /\ \/ Active(loc[r].subject) /\ Goto(r, "end_store") /\ UNCHANGED loc
       \/ /\ MayFail("storeError") \/ ~Active(loc[r].subject)
          /\ \/ loc[r].op = "get" /\ UnlockAndReload(r)
             \/ loc[r].op = "meetingEnded" /\ Return(r, "ok")
    /\ UNCHANGED shared

GetCall(r) == GetLoad(r) \/ GetProbe(r) \/ GetReload(r) \/ Reread(r)

-----------------------------------------------------------------------------
(* The webhook handlers.  None holds callMu while it looks the call up, and *)
(* HandleWebhookParticipantJoined never takes it.                          *)

ActiveOn(m) == {d \in Call : Active(d) /\ sessions[d].meeting = m}

WebhookLookup(r) ==
    /\ At(r, "w_lookup")
    /\ \/ MayFail("storeError") /\ Return(r, "ok")
       \/ ActiveOn(loc[r].meeting) = {} /\ Return(r, "ok")
       \/ \E d \in ActiveOn(loc[r].meeting) :
            \/ /\ loc[r].op = "meetingEnded"
               /\ loc' = [loc EXCEPT ![r].subject = d]
               /\ Goto(r, "lock")
            \/ loc[r].op # "meetingEnded" /\ d # loc[r].call /\ Return(r, "ok")
            \/ /\ loc[r].op = "partLeft" /\ d = loc[r].call
               /\ Goto(r, "lock") /\ UNCHANGED loc
            \/ /\ loc[r].op = "partJoined" /\ d = loc[r].call
               \* The user may have lost access to the channel.
               /\ \/ Return(r, "ok")
                  \/ /\ loc' = [loc EXCEPT ![r].subject = d,
                                   ![r].rtkSession = IF sessions[d].sessionId = None
                                                     THEN @ ELSE None]
                     /\ Goto(r, "w_add")
    /\ UNCHANGED shared

\* The rescue of a participant who is in the room but not in the table.
WebhookAdd(r) ==
    LET c == loc[r].call  u == loc[r].user
    IN  /\ At(r, "w_add")
        /\ \/ /\ AddCallParticipant(c, u)
              /\ \/ ~Active(c) /\ Return(r, "ok")
                 \/ /\ Active(c)
                    /\ loc' = [loc EXCEPT ![r].parts = ParticipantsOf(c) \cup {u}]
                    /\ Goto(r, "parts_get")
           \/ /\ MayFail("storeError")
              /\ AddCallParticipant(c, u) \/ UNCHANGED storeVars
              /\ Return(r, "ok")
        /\ UNCHANGED <<extVars, posts, feedVars, tokens>>

\* Only if the lookup saw no session id; a failure is ignored.
WebhookBackfill(r) ==
    LET c == loc[r].call  s == loc[r].rtkSession
    IN  /\ At(r, "w_backfill")
        /\ \/ s # None /\ UpdateCallSessionID(c, s)
           \/ /\ s = None \/ SessionIdTaken(c, s) \/ MayFail("storeError")
              /\ UNCHANGED storeVars
        /\ Goto(r, "j_publish")
        /\ UNCHANGED <<extVars, posts, feedVars, tokens, loc>>

HandleWebhook(r) == WebhookLookup(r) \/ WebhookAdd(r) \/ WebhookBackfill(r)

-----------------------------------------------------------------------------
(* The environment.                                                        *)

Running(r) == pc[r] \notin Final \cup {"idle"}

\* The plugin process of node n ends and the server starts it again.
Dies(n) ==
    /\ pc' = [r \in Request |-> IF Running(r) /\ loc[r].node = n THEN "crashed" ELSE pc[r]]
    /\ loc' = [r \in Request |-> IF Running(r) /\ loc[r].node = n THEN Blank ELSE loc[r]]
    /\ callMu' = [callMu EXCEPT ![n] = None]
    /\ UNCHANGED shared

Crash(n) ==
    /\ MayFail("crash")
    /\ \E r \in Request : Running(r) /\ loc[r].node = n
    /\ Dies(n)

\* a.rtk became nil between the check and the use.  Nothing in the plugin
\* recovers from the panic, which ends the process and all its handlers.
Panic(r) ==
    /\ pc[r] \in {"c_probe", "c_verify", "c_newMeeting", "c_token", "j_probe",
                  "j_token", "g_probe"}
    /\ ~HasClient(r)
    /\ Dies(loc[r].node)

\* RTK forgets a meeting: GetMeeting answers 404 from now on.
MeetingDeleted(m) ==
    /\ MayFail("meetingDeleted")
    /\ rtkMeetings[m] \in App
    /\ rtkMeetings' = [rtkMeetings EXCEPT ![m] = "gone"]
    /\ UNCHANGED <<storeVars, activeApp, rtkApp, posts, feedVars, tokens, control>>

\* OnConfigurationChange on node n, which does not take callMu: first the
\* configuration is stored, then the client replaced.
StoreAppConfig(a) ==
    /\ MayFail("clientChange")
    /\ activeApp' = a
    /\ UNCHANGED <<storeVars, rtkApp, rtkMeetings, posts, feedVars, tokens, control>>

UpdateRTKClient(n, a) ==
    /\ MayFail("clientChange")
    /\ rtkApp' = [rtkApp EXCEPT ![n] = a]
    /\ UNCHANGED <<storeVars, activeApp, rtkMeetings, posts, feedVars, tokens, control>>

-----------------------------------------------------------------------------

Arrival(r) ==
    \E n \in Node : \/ RequestCreate(r, n)      \/ RequestOnCall(r, n)
                    \/ ParticipantWebhook(r, n) \/ MeetingWebhook(r, n)

\* A handler's next step.
Handle(r) ==
    \/ Lock(r) \/ CreateCall(r) \/ JoinCall(r) \/ LeaveCall(r) \/ EndActiveCall(r)
    \/ GetCall(r) \/ HandleWebhook(r) \/ UpdatePostParticipants(r) \/ Panic(r)

Environment ==
    \/ \E m \in Meeting : MeetingDeleted(m)
    \/ \E a \in App : StoreAppConfig(a)
    \/ \E n \in Node, a \in App \cup {None} : UpdateRTKClient(n, a)
    \/ \E n \in Node : Crash(n)

Quiet == \A r \in Request : ~Running(r)

\* The server waits for requests.
Idle == Quiet /\ UNCHANGED vars

Next ==
    \/ \E r \in Request : Arrival(r) \/ Handle(r)
    \/ Environment
    \/ Idle

\* Requests keep running; sync.Mutex does not starve a waiter, and the number
\* of requests is finite here.  Nobody has to send a request.
Fairness == \A r \in Request : WF_vars(Handle(r))

Spec == Init /\ [][Next]_vars /\ Fairness
=============================================================================
