---------------------------- MODULE MCCallService ----------------------------
(***************************************************************************)
(* Instances of CallService for TLC.  LiveSpec starts with a call in       *)
(* progress, any of whose former or present participants may hold a token, *)
(* so that few requests reach the races; AnySpec also with empty tables.   *)
(***************************************************************************)
EXTENDS CallServiceProperties, TLC

CONSTANTS liveCall, liveChannel, liveMeeting, creator

LiveInit ==
    \E parts \in SUBSET User \ {{}} : \E holders \in SUBSET User :
      \E app \in App :
        /\ parts \cup {creator} \subseteq holders
        /\ sessions = [c \in Call |-> IF c = liveCall
                         THEN NewSession(liveChannel, creator, liveMeeting) ELSE None]
        /\ participants = {liveCall} \X parts
        /\ channelMeetings = [ch \in Channel |-> IF ch = liveChannel
                                THEN [meeting |-> liveMeeting, app |-> app] ELSE None]
        /\ activeApp = app
        /\ rtkApp = [n \in Node |-> app]
        /\ rtkMeetings = [m \in Meeting |-> IF m = liveMeeting THEN app ELSE None]
        /\ posts = [c \in Call |-> IF c = liveCall
                                   THEN [parts |-> parts, endAt |-> 0] ELSE None]
        /\ started = {liveCall}
        /\ announced = [c \in Call |-> {}]
        /\ wsParts = [c \in Call |-> IF c = liveCall THEN parts ELSE {}]
        /\ tokens = {liveCall} \X holders
        /\ callMu = [n \in Node |-> None]
        /\ pc = [r \in Request |-> "idle"]
        /\ loc = [r \in Request |-> Blank]

LiveSpec == LiveInit /\ [][Next]_vars /\ Fairness

AnySpec == (Init \/ LiveInit) /\ [][Next]_vars /\ Fairness

Symmetry == Permutations(Request) \cup Permutations(Node) \cup Permutations(App)
=============================================================================
