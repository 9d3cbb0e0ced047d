---------------------------- MODULE MCWebClient -----------------------------
(***************************************************************************)
(* Instances of WebClient for TLC: two calls of a direct channel, one      *)
(* after the other, and one call of an open channel.                       *)
(***************************************************************************)
EXTENDS WebClientProperties

CONSTANTS direct, open, c1, c2, c3

\* The page was loaded while others are in calls of both channels, or the user has
\* joined the call c3 and nobody is in another one.
Loaded == WebInit /\ Live(c1) /\ Live(c3) /\ ~Live(c2) /\ \A c \in Call : me \notin shown[c]

InCall ==
    /\ Feed!Init
    /\ phase = [c \in Call |-> IF c = c3 THEN "live" ELSE "silent"]
    /\ shown[c3] \in {{me}, User} /\ shown[c1] = {} /\ shown[c2] = {}
    /\ rescues = {} /\ inbox = <<>> /\ online = TRUE
    /\ slice = setMyActiveCall(upsertCall(setPluginEnabled(initialState, TRUE),
                                          open, c3, shown[c3]), open, c3)
    /\ ui = FreshUi
    /\ http = <<>> /\ stale = {} /\ budget = [clicks |-> 0, moves |-> 0]

MCSpec == (Loaded \/ InCall) /\ [][WebNext]_webVars /\ WebFairness

MCChannelOf == [c \in Call |-> IF c = c3 THEN open ELSE direct]
=============================================================================
