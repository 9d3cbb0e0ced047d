-------------------------- MODULE MCFloatingWidget --------------------------
(***************************************************************************)
(* An instance of FloatingWidget for TLC: one call in each of two          *)
(* channels; the page was loaded while both go on, or the user has joined  *)
(* c1, which had no answer from the SDK yet.                               *)
(***************************************************************************)
EXTENDS FloatingWidgetProperties, TLC

CONSTANTS first, second, c1, c2

MCChannelOf == (c1 :> first) @@ (c2 :> second)

Joining ==
    /\ phase = [c \in Call |-> "live"]
    /\ shown = (c1 :> User) @@ (c2 :> User \ {me})
    /\ rescues = {} /\ inbox = <<>> /\ online = TRUE
    /\ slice = setMyActiveCall(
                   upsertCall(upsertCall(setPluginEnabled(initialState, TRUE),
                                         first, c1, User),
                              second, c2, User \ {me}),
                   first, c1)
    /\ ui = FreshUi
    /\ http = <<>> /\ stale = {} /\ budget = [clicks |-> 0, moves |-> 0]
    /\ widget = NoWidget

MCSpec == Joining /\ [][RoomNext]_roomVars /\ RoomFairness
=============================================================================
