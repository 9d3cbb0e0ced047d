------------------------ MODULE CallServiceProperties ------------------------
(***************************************************************************)
(* What CallService has to guarantee.  Some of it holds on one node only,  *)
(* or only without meeting.participantJoined, whose handler does not take  *)
(* callMu; the runs say which.                                             *)
(***************************************************************************)
EXTENDS CallService

Label == Final \cup
    {"idle", "lock", "c_existing", "c_probe", "c_meeting", "c_verify",
     "c_newMeeting", "c_saveMeeting", "c_token", "c_post", "c_insert",
     "c_deletePost", "c_publish", "j_load", "j_probe", "j_add", "j_token",
     "j_undo", "j_publish", "parts_get", "parts_put", "l_load", "l_remove",
     "l_publish", "e_load", "end_store", "end_getPost", "end_putPost",
     "end_publish", "g_load", "g_probe", "g_reload", "reread", "w_lookup",
     "w_add", "w_backfill"}

Local == [op : Op \cup {None}, node : Node \cup {None}, user : User \cup {None},
          call : Call \cup {None}, channel : Channel \cup {None},
          subject : Call \cup {None}, meeting : Meeting \cup {None},
          app : App \cup {None}, parts : SUBSET User, post : Post \cup {None},
          added : BOOLEAN, endedNow : BOOLEAN, rtkSession : RtkSession \cup {None}]

TypeOK ==
    /\ StoreTypeOK
    /\ activeApp \in App
    /\ rtkApp \in [Node -> App \cup {None}]
    /\ rtkMeetings \in [Meeting -> App \cup {None, "gone"}]
    /\ posts \in [Call -> Post \cup {None}]
    /\ started \subseteq Call
    /\ announced \in [Call -> SUBSET Request]
    /\ wsParts \in [Call -> SUBSET User]
    /\ tokens \subseteq Call \X User
    /\ callMu \in [Node -> Request \cup {None}]
    /\ pc \in [Request -> Label]
    /\ loc \in [Request -> Local]

-----------------------------------------------------------------------------
(* Ending a call.                                                          *)

\* A request that publishes call_ended is the one whose endat is in the row:
\* the end is announced once, with the stored time, and never before it is
\* stored (calls.go, "only emit when endedNow=true to avoid double-emission").
OnlyEnderAnnounces ==
    \A c \in Call : \A r \in announced[c] : Exists(c) /\ sessions[c].endat = r

\* Once the post shows that the call has ended, no later write of the post by
\* a handler changes or clears that end (emitCallEnded is "idempotent at the
\* post layer", and updatePostParticipants preserves the other props).
PostEndStable ==
    [][\A c \in Call :
          posts[c] # None /\ posts[c].endAt # 0 =>
              posts[c]' # None /\ posts[c].endAt' = posts[c].endAt]_vars

\* A call ends only for a reason: its creator asked, its last participant was
\* removed, RTK does not know its meeting any more, or RTK said that the
\* meeting ended.  A transient RTK error never ends a live call.
EndsForCause ==
    [][\A c \in Call : \A r \in Request :
          Active(c) /\ Exists(c)' /\ sessions'[c].endat = r =>
              \/ loc[r].op = "end" /\ loc[r].user = sessions[c].creator
              \/ loc[r].op \in {"leave", "partLeft", "join"} /\ ParticipantsOf(c)' = {}
              \/ loc[r].op \in {"create", "join", "get"}
                 /\ rtkMeetings[sessions[c].meeting] = "gone"
              \/ loc[r].op = "meetingEnded" /\ loc[r].meeting = sessions[c].meeting]_vars

\* When the reconciliation of a GET releases callMu, the call whose meeting it
\* found missing is over, so the response never shows it as active.
ReconcileEnds ==
    [][\A r \in Request :
          /\ loc[r].op = "get"
          /\ callMu[loc[r].node] = r
          /\ callMu'[loc[r].node] # r
          => ~Active(loc[r].subject)]_vars

-----------------------------------------------------------------------------
(* What the users are shown.                                               *)

\* When no handler is running, the post of every call shows what the store
\* holds: the end of an ended call, the participants of an active one.
PostAgrees ==
    Quiet => \A c \in Call :
        Exists(c) /\ posts[c] # None =>
            /\ posts[c].endAt = sessions[c].endat
            /\ Active(c) => posts[c].parts = ParticipantsOf(c)

\* When no handler is running, the last list of participants that was
\* published about an active call is the one in the store.
FeedAgrees ==
    Quiet => \A c \in Call :
        Active(c) /\ c \in started => wsParts[c] = ParticipantsOf(c)

\* When no handler is running, the posts are exactly those of the calls: a
\* CreateCall that failed, or lost to another node, left no post behind.
PostIffSession ==
    Quiet => \A c \in Call : posts[c] # None <=> Exists(c)

\* A call that anybody was told about has its post, whatever crashed or failed:
\* the post is created before the session is inserted, and deleted only when
\* CreateCall fails (calls.go, "create the post BEFORE inserting").
StartedHasPost ==
    \A c \in Call : c \in started => Exists(c) /\ posts[c] # None

\* The events of a call arrive in the order a client can make sense of.
Feed == INSTANCE CallFeed WITH
    phase <- [c \in Call |-> IF announced[c] # {} THEN "over"
                             ELSE IF c \in started THEN "live" ELSE "silent"],
    shown <- wsParts

FeedSpec == Feed!Spec

-----------------------------------------------------------------------------
(* Joining.                                                                *)

\* A token reaches a client only while its user is in the participants table
\* of an active call (JoinCall: "no token is ever returned for a user who is
\* not in the DB").
TokenMeansParticipant ==
    [][\A c \in Call, u \in User :
          \A r \in Request :
             /\ loc[r].op \in {"create", "join"} /\ loc[r].call = c /\ loc[r].user = u
             /\ Running(r) /\ pc'[r] = "ok"
             => Active(c) /\ u \in ParticipantsOf(c)]_vars

\* The labels of a critical section.  updatePostParticipants and the publication
\* of user_joined also run for meeting.participantJoined, without the mutex.
CriticalLabel == Label \ (Final \cup
    {"idle", "lock", "g_load", "g_probe", "g_reload", "w_lookup", "w_add", "w_backfill"})

InCritical(r) ==
    /\ pc[r] \in CriticalLabel
    /\ pc[r] \in {"parts_get", "parts_put", "j_publish"} => loc[r].op # "partJoined"

\* The handlers that need callMu hold their node's from their first read of the
\* call to their last effect, hence exclude each other, and nothing else holds
\* it: neither an error return, nor a process that died of a nil client, nor
\* the hand-over of ReconcileCallOnDemand leaves it locked.
MutexCovers ==
    \A r \in Request, n \in Node :
        callMu[n] = r <=> InCritical(r) /\ loc[r].node = n

-----------------------------------------------------------------------------
(* Progress.                                                               *)

\* Every request is answered: no path returns with callMu locked, and none
\* locks it twice.
HandlersReturn == \A r \in Request : Running(r) ~> pc[r] \in Final

\* The end of a call is announced, whichever path stored it.
EndIsAnnounced == \A c \in Call : Ended(c) ~> announced[c] # {}
=============================================================================
