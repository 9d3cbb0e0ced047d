------------------------------ MODULE CallFeed ------------------------------
(***************************************************************************)
(* What the WebSocket events of a call promise to a client that receives   *)
(* them in the order of publication: call_started comes first, then any    *)
(* number of participant lists (user_joined, user_left), then call_ended,  *)
(* and nothing after it.                                                   *)
(***************************************************************************)
CONSTANTS Call, User

VARIABLES phase,   \* per call: "silent", "live" or "over"
          shown    \* per call: the participants the client shows

feed == <<phase, shown>>

Init ==
    /\ phase \in [Call -> {"silent", "live"}]
    /\ shown \in [Call -> SUBSET User]

CallStarted(c) ==
    /\ phase[c] = "silent"
    /\ phase' = [phase EXCEPT ![c] = "live"]
    /\ \E u \in User : shown' = [shown EXCEPT ![c] = {u}]

UserJoinedOrLeft(c) ==
    /\ phase[c] = "live"
    /\ \E list \in SUBSET User : shown' = [shown EXCEPT ![c] = list]
    /\ UNCHANGED phase

CallEnded(c) ==
    /\ phase[c] = "live"
    /\ phase' = [phase EXCEPT ![c] = "over"]
    /\ UNCHANGED shown

Next == \E c \in Call : CallStarted(c) \/ UserJoinedOrLeft(c) \/ CallEnded(c)

Spec == Init /\ [][Next]_feed
=============================================================================
