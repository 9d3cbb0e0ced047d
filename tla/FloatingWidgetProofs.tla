------------------------ MODULE FloatingWidgetProofs ------------------------
(***************************************************************************)
(* Proofs about FloatingWidget, for any number of calls, retries, requests *)
(* and clicks: the meeting of the widget of a tab that is in no call is    *)
(* left, the meeting shown is that of the call in the title, and a tab at  *)
(* rest is in no call that is over.                                        *)
(***************************************************************************)
EXTENDS FloatingWidgetProperties, WebClientProofs, FiniteSetTheorems

\* The fields of a widget's record.
HasFields(w) ==
    DOMAIN w = {"seen", "init", "meeting", "retryCount", "retryTimeout", "strays",
                "joinError", "isJoining", "display", "closing", "abandoned", "crossed"}

\* The shape of the widget's record, and of the meeting in it.
WidgetShape ==
    /\ HasFields(widget)
    /\ widget.meeting # None => DOMAIN widget.meeting = {"call", "room"}

\* The inductive form of NoCallNoRoom: what counts is the call that the effects
\* have last seen, because the room is left by an effect.
RoomInvariant ==
    /\ WidgetShape
    /\ widget.seen = None => ~InRoom

-----------------------------------------------------------------------------

\* A step that touches neither the meeting nor what the effects have seen.
LEMMA SameRoom ==
    ASSUME RoomInvariant, WidgetShape',
           widget'.meeting = widget.meeting, widget'.seen = widget.seen
    PROVE  RoomInvariant'
BY DEF RoomInvariant, InRoom, Entering

\* An attempt to initialise the SDK leaves the meeting to its answer.
LEMMA AttemptKeepsRoom ==
    ASSUME NEW w, NEW c,
           HasFields(w)
    PROVE  /\ DOMAIN attemptInit(w, c) = DOMAIN w
           /\ attemptInit(w, c).meeting = w.meeting
           /\ attemptInit(w, c).seen = w.seen
BY DEF attemptInit, HasFields

\* A new token starts another attempt, in the room that was shown until the SDK
\* is initialised.
LEMMA NewTokenKeepsRoom ==
    ASSUME NEW w, NEW mine, HasFields(w)
    PROVE  /\ DOMAIN InitEffect(w, mine) = DOMAIN w
           /\ InitEffect(w, mine).meeting = w.meeting
<1> DEFINE v == [w EXCEPT !.retryTimeout = IF w.seen = None THEN @ ELSE None]
           u == [v EXCEPT !.retryCount = 0, !.crossed = FALSE]
<1>1. HasFields(v) /\ v.meeting = w.meeting
  BY DEF HasFields
<1> HIDE DEF v
<1>2. HasFields(u) /\ u.meeting = w.meeting
  BY <1>1 DEF HasFields
<1> HIDE DEF u
<1>3. InitEffect(w, mine) = IF mine = None THEN v ELSE attemptInit(u, mine.callId)
  BY DEF InitEffect, u, v
<1> QED
  BY <1>1, <1>2, <1>3, AttemptKeepsRoom DEF HasFields

\* A failed attempt, retried or given up, leaves the meeting as it is.
LEMMA FailureKeepsRoom ==
    ASSUME WidgetShape
    PROVE  /\ DOMAIN AfterFailure(widget) = DOMAIN widget
           /\ AfterFailure(widget).meeting = widget.meeting
           /\ AfterFailure(widget).seen = widget.seen
BY DEF AfterFailure, WidgetShape, HasFields

\* Leaving the room is the end of being in it.
LEMMA LeaveLeaves ==
    ASSUME NEW w, w.meeting # None => DOMAIN w.meeting = {"call", "room"},
           HasFields(w)
    PROVE  /\ DOMAIN leaveRoom(w) = DOMAIN w
           /\ leaveRoom(w).seen = w.seen
           /\ leaveRoom(w).meeting # None =>
                 DOMAIN leaveRoom(w).meeting = {"call", "room"}
           /\ ~Entering(leaveRoom(w).meeting)
<1>1. CASE w.meeting = None
  BY <1>1 DEF leaveRoom, Entering
<1>2. CASE w.meeting # None
  <2>1. PICK m : m = [w.meeting EXCEPT !.room = "leaving"]
    OBVIOUS
  <2>2. DOMAIN m = {"call", "room"} /\ ~Entering(m)
    BY <1>2, <2>1 DEF Entering
  <2>3. leaveRoom(w) = [w EXCEPT !.meeting = m]
    BY <1>2, <2>1 DEF leaveRoom, HasFields
  <2>4. leaveRoom(w).meeting = m /\ leaveRoom(w).seen = w.seen
        /\ DOMAIN leaveRoom(w) = DOMAIN w
    BY <2>3 DEF HasFields
  <2> QED
    BY <2>2, <2>4
<1> QED
  BY <1>1, <1>2

\* When the effects see that the tab is in no call, they leave the room.
LEMMA EffectsLeave ==
    ASSUME RoomInvariant, Effects
    PROVE  RoomInvariant'
<1> DEFINE mine == slice.myActiveCall
           v == ResetDisplay(widget, mine)
           w == InitEffect(v, mine)
<1>1. /\ DOMAIN v = DOMAIN widget
      /\ v.meeting = widget.meeting
      /\ v.seen = widget.seen
  BY DEF ResetDisplay, RoomInvariant, WidgetShape, HasFields
<1>2. /\ DOMAIN w = DOMAIN widget
      /\ w.meeting = widget.meeting
  <2> HIDE DEF v
  <2>1. HasFields(v)
    BY <1>1 DEF RoomInvariant, WidgetShape, HasFields
  <2> QED
    BY <1>1, <2>1, NewTokenKeepsRoom
<1> HIDE DEF w
<1>3. widget' = [HangUpEffect(w, mine) EXCEPT !.seen = mine]
  BY DEF Effects, w
<1>4. CASE mine = None
  <2>1. widget' = [leaveRoom(w) EXCEPT !.seen = mine]
    BY <1>3, <1>4 DEF HangUpEffect
  <2> QED
    BY <1>2, <2>1, LeaveLeaves DEF RoomInvariant, WidgetShape, HasFields, InRoom, Entering
<1>5. CASE mine # None
  <2>1. widget' = [w EXCEPT !.seen = mine]
    BY <1>3, <1>5 DEF HangUpEffect
  <2> QED
    BY <1>2, <1>5, <2>1 DEF RoomInvariant, WidgetShape, HasFields, InRoom, Entering
<1> QED
  BY <1>4, <1>5

\* A room is joined only while the widget shows a call; every other step
\* brings a new meeting, leaves the room, or keeps it.
LEMMA WidgetStepKeeps ==
    ASSUME RoomInvariant, Settled, WidgetStep
    PROVE  RoomInvariant'
<1> USE DEF RoomInvariant, WidgetShape, HasFields
<1>1. CASE InitSucceeds
  BY <1>1 DEF InitSucceeds, InRoom, Entering
<1>2. CASE InitFails
  BY <1>2, FailureKeepsRoom DEF InitFails, InRoom, Entering
<1>3. CASE RetryFires
  <2>1. PICK w, c : widget' = attemptInit(w, c) /\ HasFields(w)
                    /\ w.meeting = widget.meeting /\ w.seen = widget.seen
    <3>1. CASE widget' = attemptInit([widget EXCEPT !.retryTimeout = None],
                                     widget.retryTimeout)
      <4> WITNESS [widget EXCEPT !.retryTimeout = None], widget.retryTimeout
      <4> QED
        BY <3>1
    <3>2. ASSUME NEW c \in widget.strays,
                 widget' = attemptInit([widget EXCEPT !.strays = @ \ {c}], c)
          PROVE  \E w, d : widget' = attemptInit(w, d) /\ HasFields(w)
                           /\ w.meeting = widget.meeting /\ w.seen = widget.seen
      <4> WITNESS [widget EXCEPT !.strays = @ \ {c}], c
      <4> QED
        BY <3>2
    <3> QED
      BY <1>3, <3>1, <3>2 DEF RetryFires
  <2> QED
    BY <2>1, AttemptKeepsRoom DEF InRoom, Entering
<1>4. CASE RoomJoins
  <2>1. widget.seen # None
    BY <1>4 DEF RoomJoins, MeetingShown, Rendered, Settled
  <2> QED
    BY <1>4, <2>1 DEF RoomJoins, MeetingShown, InRoom, Entering
<1>5. ASSUME NEW room, RoomLeft(room) PROVE RoomInvariant'
  BY <1>5 DEF RoomLeft, InRoom, Entering
<1>6. CASE RoomDrops
  <2>1. ASSUME NEW c, widget' = [widget EXCEPT !.abandoned = @ \ {c}]
        PROVE  RoomInvariant'
    BY <2>1 DEF InRoom, Entering
  <2> QED
    BY <1>5, <1>6, <2>1 DEF RoomDrops
<1>14. CASE RoomJoined
  BY <1>14 DEF RoomJoined, InRoom, Entering
<1>7. CASE ReconcileAnswer
  BY <1>7 DEF ReconcileAnswer, InRoom, Entering
<1>8. CASE CloseClick
  BY <1>8, LeaveLeaves DEF CloseClick, InRoom, Entering
<1>9. CASE CloseContinues
  BY <1>9 DEF CloseContinues, InRoom, Entering
<1>10. CASE CloseAnswer
  BY <1>10 DEF CloseAnswer, InRoom, Entering
<1>11. CASE RetryClick
  <2> DEFINE w == [widget EXCEPT !.retryCount = 0]
  <2>1. HasFields(w) /\ w.meeting = widget.meeting /\ w.seen = widget.seen
    OBVIOUS
  <2>2. widget' = attemptInit(w, MyCall)
    BY <1>11 DEF RetryClick
  <2> HIDE DEF w
  <2> QED
    BY <2>1, <2>2, AttemptKeepsRoom DEF InRoom, Entering
<1>12. CASE ResizeClick
  BY <1>12 DEF ResizeClick, InRoom, Entering
<1>13. CASE Unload
  BY <1>13 DEF Unload, NoWidget, InRoom, Entering
<1> QED
  BY <1>1, <1>2, <1>3, <1>4, <1>5, <1>6, <1>7, <1>8, <1>9, <1>10, <1>11, <1>12, <1>13,
     <1>14
     DEF WidgetStep

\* The invariant of the widget's room.
LEMMA RoomInvariance == RoomSpec => []RoomInvariant
<1>1. widget = NoWidget => RoomInvariant
  BY DEF NoWidget, RoomInvariant, WidgetShape, HasFields, InRoom, Entering
<1>2. RoomInvariant /\ [RoomNext]_roomVars => RoomInvariant'
  <2> SUFFICES ASSUME RoomInvariant, [RoomNext]_roomVars PROVE RoomInvariant'
    OBVIOUS
  <2>1. CASE Effects
    BY <2>1, EffectsLeave
  <2>2. CASE UNCHANGED widget
    BY <2>2 DEF RoomInvariant, WidgetShape, HasFields, InRoom, Entering
  <2>3. CASE Settled /\ WidgetStep
    BY <2>3, WidgetStepKeeps
  <2> QED
    BY <2>1, <2>2, <2>3 DEF RoomNext, roomVars
<1> QED
  BY <1>1, <1>2, PTL DEF RoomSpec

\* Whoever ended the call, and however many joins, retries and lost rooms came
\* before: once its effects have run, a tab in no call is neither in the room of the
\* meeting that the widget holds nor entering it (floating_widget/index.tsx:145).
\* The theorem says nothing of the rooms of meetings that others have replaced.
THEOREM NoCallNoRoomAlways == RoomSpec => []NoCallNoRoom
<1>1. RoomInvariant => NoCallNoRoom
  BY DEF RoomInvariant, NoCallNoRoom, Settled
<1> QED
  BY <1>1, RoomInvariance, PTL
-----------------------------------------------------------------------------
(* Requests that are taken out of those in flight.                         *)

\* SetToSeq lists every element of a finite set.
LEMMA SetToSeqSound ==
    ASSUME NEW S, IsFiniteSet(S)
    PROVE  /\ Cardinality(S) \in Nat
           /\ SetToSeq(S) \in [1..Cardinality(S) -> S]
           /\ \A x \in S : \E k \in 1..Cardinality(S) : SetToSeq(S)[k] = x
<1>1. Cardinality(S) \in Nat /\ ExistsBijection(1..Cardinality(S), S)
  BY FS_CardinalityType
<1>2. PICK n \in Nat : n = Cardinality(S)
  BY <1>1
<1>3. \E f \in [1..n -> S] : IsInjective(f)
  BY <1>1, <1>2 DEF ExistsBijection, Bijection, Injection
<1>4. SetToSeq(S) \in [1..n -> S] /\ IsInjective(SetToSeq(S))
  BY <1>2, <1>3 DEF SetToSeq
<1>5. PICK f \in Injection(1..n, S) : f = SetToSeq(S)
  BY <1>4 DEF Injection
<1>6. Cardinality(1..n) = n
  <2>1. 1 \in Int /\ n \in Int
    OBVIOUS
  <2>2. Cardinality(1..n) = IF 1 > n THEN 0 ELSE n - 1 + 1
    BY <2>1, FS_Interval
  <2> QED
    BY <2>2
<1>7. f \in Surjection(1..n, S)
  BY <1>2, <1>5, <1>6, FS_Injection
<1> QED
  BY <1>1, <1>2, <1>4, <1>5, <1>7 DEF Surjection

\* InFlight keeps the requests that it is asked for, and no other.
LEMMA InFlightSound ==
    ASSUME NEW S, http \in Seq(S), NEW I \in SUBSET DOMAIN http
    PROVE  /\ InFlight(I) \in Seq(S)
           /\ \A k \in DOMAIN InFlight(I) : \E i \in I : InFlight(I)[k] = http[i]
           /\ \A i \in I : \E k \in DOMAIN InFlight(I) : InFlight(I)[k] = http[i]
<1>1. Len(http) \in Nat /\ DOMAIN http = 1..Len(http)
  BY LenProperties
<1>2. IsFiniteSet(I)
  <2>1. \A i \in I : i \in Nat /\ i <= Len(http)
    BY <1>1
  <2>2. I \in SUBSET Nat
    BY <2>1
  <2> QED
    BY <1>1, <2>1, <2>2, FS_BoundedSetOfNaturals
<1>3. PICK n \in Nat : n = Cardinality(I)
  BY <1>2, SetToSeqSound
<1>4. PICK order \in [1..n -> I] :
         order = SetToSeq(I) /\ \A i \in I : \E k \in 1..n : order[k] = i
  BY <1>2, <1>3, SetToSeqSound
<1>5. InFlight(I) = [k \in 1..n |-> http[order[k]]]
  BY <1>4 DEF InFlight
<1>6. \A i \in I : http[i] \in S
  BY <1>1, ElementOfSeq
<1>7. InFlight(I) \in [1..n -> S] /\ DOMAIN InFlight(I) = 1..n
  BY <1>4, <1>5, <1>6
<1>8. InFlight(I) \in Seq(S)
  BY <1>7
<1>9. \A k \in 1..n : InFlight(I)[k] = http[order[k]] /\ order[k] \in I
  BY <1>4, <1>5
<1>10. ASSUME NEW i \in I
       PROVE  \E k \in 1..n : InFlight(I)[k] = http[i]
  <2>1. PICK k \in 1..n : order[k] = i
    BY <1>4
  <2> QED
    BY <1>9, <2>1
<1> QED
  BY <1>7, <1>8, <1>9, <1>10

-----------------------------------------------------------------------------
(* The widget's types, and whose meeting it shows.                         *)

\* Unless the tokens crossed, the SDK initialises the call of the token or nothing,
\* and the widget is joining, or has an error or the meeting of the token.
MeetingOf(w) ==
    w.seen # None /\ ~w.crossed =>
        /\ w.init \in {None, w.seen.callId}
        /\ \/ w.isJoining \/ w.joinError
           \/ w.meeting # None /\ w.meeting.call = w.seen.callId

GoodWidget(w) == w \in WidgetState /\ MeetingOf(w)

\* The inductive invariant of the tab with its widget.
TabInvariant ==
    /\ RingInvariant
    /\ SpinnerStops
    /\ GoodWidget(widget)

-----------------------------------------------------------------------------
(* What the widget does by itself.                                         *)

\* An attempt that starts is waited for; one that is ignored, or is not for the
\* call of the tab, is recorded.
LEMMA AttemptSound ==
    ASSUME NEW w \in WidgetState, NEW c \in Call, NEW v, v = attemptInit(w, c)
    PROVE  /\ v \in WidgetState
           /\ v.seen = w.seen
           /\ v.crossed \/ (v.isJoining /\ v.init = MyCall)
<1>1. CASE w.init = None
  <2>1. PICK crossed \in BOOLEAN : crossed = (w.crossed \/ c # MyCall)
    <3>1. (w.crossed \/ c # MyCall) \in BOOLEAN
      OBVIOUS
    <3> QED
      BY <3>1
  <2>2. v = [w EXCEPT !.joinError = FALSE, !.isJoining = TRUE, !.init = c,
                      !.crossed = crossed]
    BY <1>1, <2>1 DEF attemptInit, WidgetState
  <2>3. v \in WidgetState /\ v.isJoining /\ v.seen = w.seen /\ v.init = c
        /\ v.crossed = crossed
    BY <2>2 DEF WidgetState
  <2>4. crossed \/ c = MyCall
    BY <2>1
  <2> QED
    BY <2>3, <2>4
<1>2. CASE w.init # None
  <2>1. v = [w EXCEPT !.joinError = FALSE, !.isJoining = FALSE, !.crossed = TRUE]
    BY <1>2 DEF attemptInit
  <2>2. v \in WidgetState /\ v.crossed /\ v.seen = w.seen
    BY <2>1 DEF WidgetState
  <2> QED
    BY <2>2
<1> QED
  BY <1>1, <1>2

\* Between the effects, the token is that of the call of the tab.
LEMMA AttemptGood ==
    ASSUME NEW w \in WidgetState, NEW c \in Call, w.seen = slice.myActiveCall
    PROVE  GoodWidget(attemptInit(w, c))
<1>1. PICK v : v = attemptInit(w, c)
  OBVIOUS
<1>2. v \in WidgetState /\ v.seen = w.seen /\ (v.crossed \/ (v.isJoining /\ v.init = MyCall))
  BY <1>1, AttemptSound
<1>3. v.seen # None => MyCall = v.seen.callId
  BY <1>2 DEF MyCall, CallIdOf
<1> QED
  BY <1>1, <1>2, <1>3 DEF GoodWidget, MeetingOf

\* A failed attempt is retried, which is still joining, or given up with an error.
LEMMA FailureSound ==
    ASSUME NEW w, GoodWidget(w), w.init # None, NEW v, v = AfterFailure(w)
    PROVE  GoodWidget(v)
<1>1. /\ w \in WidgetState /\ w.init \in Call /\ w.retryCount \in Nat
      /\ w.strays \in SUBSET Call
      /\ MAX_RETRIES \in Nat
  BY WidgetAssumption DEF GoodWidget, WidgetState, WidgetAssumption
<1>2. CASE w.retryCount < MAX_RETRIES
  <2>1. PICK strays : strays = IF w.retryTimeout = None THEN w.strays
                               ELSE w.strays \cup {w.retryTimeout}
    OBVIOUS
  <2>2. strays \in SUBSET Call
    BY <1>1, <2>1 DEF WidgetState
  <2>3. w.retryCount + 1 \in 0..MAX_RETRIES
    BY <1>1, <1>2
  <2>4. v = [w EXCEPT !.init = None, !.retryCount = w.retryCount + 1, !.retryTimeout = w.init,
                      !.strays = strays]
    BY <1>2, <2>1 DEF AfterFailure
  <2>5. v \in WidgetState
    BY <1>1, <2>2, <2>3, <2>4 DEF WidgetState
  <2>6. /\ v.init = None /\ v.seen = w.seen /\ v.crossed = w.crossed
        /\ v.isJoining = w.isJoining /\ v.joinError = w.joinError /\ v.meeting = w.meeting
    BY <1>1, <2>4 DEF WidgetState
  <2> QED
    BY <2>5, <2>6 DEF GoodWidget, MeetingOf
<1>3. CASE ~(w.retryCount < MAX_RETRIES)
  <2>1. v = [w EXCEPT !.init = None, !.isJoining = FALSE, !.joinError = TRUE]
    BY <1>3 DEF AfterFailure
  <2>2. v \in WidgetState /\ v.init = None /\ v.joinError
    BY <1>1, <2>1 DEF WidgetState
  <2> QED
    BY <2>2 DEF GoodWidget, MeetingOf
<1> QED
  BY <1>2, <1>3

\* The room changes, and not whose meeting it is.
LEMMA RoomSound ==
    ASSUME NEW w, GoodWidget(w), w.meeting # None,
           NEW room \in {"new", "joining", "in", "leaving", "out"},
           NEW v, v = [w EXCEPT !.meeting.room = room]
    PROVE  GoodWidget(v) /\ v.seen = w.seen
<1>1. w \in WidgetState /\ w.meeting \in Meeting
  BY DEF GoodWidget, WidgetState
<1>2. PICK m : m = [w.meeting EXCEPT !.room = room]
  OBVIOUS
<1>3. m \in Meeting /\ m.call = w.meeting.call /\ m # None
  <2>1. m \in Meeting /\ m.call = w.meeting.call
    BY <1>1, <1>2 DEF Meeting
  <2> QED
    BY <2>1, WidgetAssumption DEF WidgetAssumption
<1>4. v = [w EXCEPT !.meeting = m]
  BY <1>1, <1>2 DEF WidgetState
<1>5. /\ v \in WidgetState /\ v.meeting = m /\ v.init = w.init /\ v.seen = w.seen
      /\ v.crossed = w.crossed /\ v.isJoining = w.isJoining /\ v.joinError = w.joinError
  BY <1>1, <1>4, <1>3 DEF WidgetState
<1> QED
  BY <1>5, <1>3 DEF GoodWidget, MeetingOf

LEMMA LeaveRoomSound ==
    ASSUME NEW w, GoodWidget(w)
    PROVE  GoodWidget(leaveRoom(w)) /\ leaveRoom(w).seen = w.seen
<1>1. CASE w.meeting # None
  <2>1. PICK v : v = [w EXCEPT !.meeting.room = "leaving"]
    OBVIOUS
  <2>2. GoodWidget(v) /\ v.seen = w.seen
    BY <1>1, <2>1, RoomSound
  <2>3. leaveRoom(w) = v
    BY <1>1, <2>1 DEF leaveRoom
  <2> QED
    BY <2>2, <2>3
<1>2. CASE w.meeting = None
  BY <1>2 DEF leaveRoom
<1> QED
  BY <1>1, <1>2

\* Fields that say nothing of the meeting.
LEMMA AsideSound ==
    ASSUME NEW w, GoodWidget(w), NEW closing \in Call \cup {None},
           NEW display \in {"normal", "minimized", "fullscreen"}
    PROVE  /\ GoodWidget([w EXCEPT !.closing = closing])
           /\ GoodWidget([w EXCEPT !.display = display])
<1>1. w \in WidgetState
  BY DEF GoodWidget
<1>2. PICK v : v = [w EXCEPT !.closing = closing]
  OBVIOUS
<1>3. /\ v \in WidgetState /\ v.meeting = w.meeting /\ v.init = w.init /\ v.seen = w.seen
      /\ v.crossed = w.crossed /\ v.isJoining = w.isJoining /\ v.joinError = w.joinError
  BY <1>1, <1>2 DEF WidgetState
<1>4. PICK u : u = [w EXCEPT !.display = display]
  OBVIOUS
<1>5. /\ u \in WidgetState /\ u.meeting = w.meeting /\ u.init = w.init /\ u.seen = w.seen
      /\ u.crossed = w.crossed /\ u.isJoining = w.isJoining /\ u.joinError = w.joinError
  BY <1>1, <1>4 DEF WidgetState
<1>6. GoodWidget(v) /\ GoodWidget(u)
  BY <1>3, <1>5 DEF GoodWidget, MeetingOf
<1> QED
  BY <1>2, <1>4, <1>6

\* A new token starts an attempt, and nothing of the old one counts.
LEMMA TokenSound ==
    ASSUME NEW w \in WidgetState, NEW mine \in MyActiveCall \cup {None},
           mine = slice.myActiveCall,
           NEW v, v = [HangUpEffect(InitEffect(ResetDisplay(w, mine), mine), mine)
                          EXCEPT !.seen = mine]
    PROVE  GoodWidget(v) /\ v.seen = mine
<1>1. PICK a : a = ResetDisplay(w, mine)
  OBVIOUS
<1>2. a \in WidgetState
  BY <1>1 DEF ResetDisplay, WidgetState
<1>3. PICK b : b = [a EXCEPT !.retryTimeout = IF a.seen = None THEN @ ELSE None]
  OBVIOUS
<1>4. b \in WidgetState
  BY <1>2, <1>3 DEF WidgetState
<1>5. CASE mine = None
  <2>1. InitEffect(a, mine) = b
    BY <1>3, <1>5 DEF InitEffect
  <2>2. v = [leaveRoom(b) EXCEPT !.seen = mine]
    BY <1>1, <1>5, <2>1 DEF HangUpEffect
  <2>3. leaveRoom(b) \in WidgetState
    <3>1. CASE b.meeting = None
      BY <1>4, <3>1 DEF leaveRoom
    <3>2. CASE b.meeting # None
      <4>1. PICK m : m = [b.meeting EXCEPT !.room = "leaving"]
        OBVIOUS
      <4>2. m \in Meeting
        BY <1>4, <3>2, <4>1 DEF WidgetState, Meeting
      <4>3. leaveRoom(b) = [b EXCEPT !.meeting = m]
        BY <1>4, <3>2, <4>1 DEF leaveRoom, WidgetState
      <4> QED
        BY <1>4, <4>2, <4>3 DEF WidgetState
    <3> QED
      BY <3>1, <3>2
  <2>4. v \in WidgetState /\ v.seen = None
    BY <1>5, <2>2, <2>3 DEF WidgetState
  <2> QED
    BY <1>5, <2>4 DEF GoodWidget, MeetingOf
<1>6. CASE mine # None
  <2>1. mine \in MyActiveCall /\ mine.callId \in Call
    BY <1>6 DEF MyActiveCall
  <2>2. PICK d : d = [b EXCEPT !.retryCount = 0, !.crossed = FALSE]
    OBVIOUS
  <2>3. d \in WidgetState
    <3>1. 0 \in 0..MAX_RETRIES
      BY WidgetAssumption DEF WidgetAssumption
    <3> QED
      BY <1>4, <2>2, <3>1 DEF WidgetState
  <2>4. PICK e : e = attemptInit(d, mine.callId)
    OBVIOUS
  <2>5. e \in WidgetState /\ (e.crossed \/ (e.isJoining /\ e.init = MyCall))
    BY <2>1, <2>3, <2>4, AttemptSound
  <2>6. v = [e EXCEPT !.seen = mine]
    BY <1>1, <1>3, <1>6, <2>2, <2>4 DEF InitEffect, HangUpEffect
  <2>7. v \in WidgetState /\ v.seen = mine /\ (v.crossed \/ (v.isJoining /\ v.init = MyCall))
    BY <2>5, <2>6 DEF WidgetState
  <2>8. MyCall = mine.callId
    BY <1>6 DEF MyCall, CallIdOf
  <2> QED
    BY <2>7, <2>8 DEF GoodWidget, MeetingOf
<1> QED
  BY <1>5, <1>6

-----------------------------------------------------------------------------
(* What the widget does to the tab.                                        *)

\* A step that leaves the server and the wire alone, rings no phone, starts no
\* spinner and drops no request of the header.
WebSide ==
    /\ UNCHANGED <<server, inbox, online>>
    /\ slice' \in CallsPluginState /\ ui' \in LocalState
    /\ http' \in Seq(KnownRequest)
    /\ budget' \in [clicks : 0..MaxClicks, moves : 0..MaxMoves]
    /\ (\A c \in stale \ stale' : Live(c)) /\ stale' \subseteq Call
    /\ slice'.incomingCall = slice.incomingCall
    /\ slice'.callLoading = slice.callLoading
    /\ HeaderWaits => HeaderWaits'

LEMMA WebSideKeeps ==
    ASSUME TabInvariant, WebSide
    PROVE  RingInvariant' /\ SpinnerStops'
<1>1. RingInvariant /\ SpinnerStops
  BY DEF TabInvariant
<1>2. Told'
  BY <1>1, QuietTells DEF WebSide, RingInvariant, server
<1>3. WebInvariant'
  BY <1>1 DEF WebSide, RingInvariant, WebInvariant, ServerTyped, WireTyped, TabTyped, server
<1>4. SpinnerStops'
  BY <1>1, SpinnerKept DEF WebSide
<1> QED
  BY <1>2, <1>3, <1>4 DEF Told, RingInvariant

\* What the invariant says of the types, for reference.
LEMMA TabTypes ==
    ASSUME TabInvariant
    PROVE  /\ slice \in CallsPluginState /\ ui \in LocalState /\ http \in Seq(KnownRequest)
           /\ budget \in [clicks : 0..MaxClicks, moves : 0..MaxMoves] /\ stale \subseteq Call
           /\ slice.myActiveCall \in MyActiveCall \cup {None}
           /\ MyCall \in Call \cup {None}
           /\ slice.myActiveCall # None => MyCall \in Call
<1>1. /\ slice \in CallsPluginState /\ ui \in LocalState /\ http \in Seq(KnownRequest)
      /\ budget \in [clicks : 0..MaxClicks, moves : 0..MaxMoves] /\ stale \subseteq Call
  BY DEF TabInvariant, RingInvariant, WebInvariant, WireTyped, TabTyped
<1>2. slice.myActiveCall \in MyActiveCall \cup {None}
  BY <1>1 DEF CallsPluginState
<1>3. MyCall \in Call \cup {None} /\ (slice.myActiveCall # None => MyCall \in Call)
  BY <1>2 DEF MyCall, CallIdOf, MyActiveCall
<1> QED
  BY <1>1, <1>2, <1>3

\* More requests in flight do not stop the header's.
LEMMA MoreRequests ==
    ASSUME NEW s \in Seq(KnownRequest), NEW t \in Seq(KnownRequest), http' = s \o t,
           \A i \in DOMAIN http :
              http[i].part = "header" => \E k \in DOMAIN s : s[k] = http[i]
    PROVE  http' \in Seq(KnownRequest) /\ (HeaderWaits => HeaderWaits')
<1>1. /\ s \o t \in Seq(KnownRequest) /\ DOMAIN s \subseteq DOMAIN (s \o t)
      /\ \A k \in DOMAIN s : (s \o t)[k] = s[k]
  BY ConcatSound
<1>2. ASSUME HeaderWaits PROVE HeaderWaits'
  <2>1. PICK i \in DOMAIN http : http[i].part = "header"
    BY <1>2 DEF HeaderWaits
  <2>2. PICK k \in DOMAIN s : s[k] = http[i]
    BY <2>1
  <2> QED
    BY <1>1, <2>1, <2>2 DEF HeaderWaits
<1> QED
  BY <1>1, <1>2

\* An answer to the widget leaves the header's requests alone.
LEMMA AnswerTaken ==
    ASSUME http \in Seq(KnownRequest), NEW i \in DOMAIN http, http[i].part = "widget",
           http' = RemoveAt(http, i)
    PROVE  http' \in Seq(KnownRequest) /\ (HeaderWaits => HeaderWaits')
<1>1. /\ http' \in Seq(KnownRequest)
      /\ \A k \in DOMAIN http \ {i} : \E j \in DOMAIN http' : http'[j] = http[k]
  BY RemoveAtSound
<1>2. ASSUME HeaderWaits PROVE HeaderWaits'
  <2>1. PICK k \in DOMAIN http : http[k].part = "header"
    BY <1>2 DEF HeaderWaits
  <2>2. k # i
    BY <2>1
  <2> QED
    BY <1>1, <2>1, <2>2 DEF HeaderWaits
<1> QED
  BY <1>1, <1>2

LEMMA EffectsSound ==
    ASSUME TabInvariant, Effects
    PROVE  TabInvariant'
<1>1. /\ slice \in CallsPluginState /\ ui \in LocalState /\ http \in Seq(KnownRequest)
      /\ budget \in [clicks : 0..MaxClicks, moves : 0..MaxMoves] /\ stale \subseteq Call
      /\ slice.myActiveCall \in MyActiveCall \cup {None}
  BY TabTypes
<1>2. PICK mine \in MyActiveCall \cup {None} : mine = slice.myActiveCall
  BY <1>1
<1>3. UNCHANGED <<server, wire, slice, ui, stale, budget>>
  BY DEF Effects
<1>4. GoodWidget(widget')
  <2>1. widget \in WidgetState
    BY DEF TabInvariant, GoodWidget
  <2>2. widget' = [HangUpEffect(InitEffect(ResetDisplay(widget, mine), mine), mine)
                      EXCEPT !.seen = mine]
    BY <1>2 DEF Effects
  <2> QED
    BY <1>2, <2>1, <2>2, TokenSound
<1>5. http' \in Seq(KnownRequest) /\ (HeaderWaits => HeaderWaits')
  <2>1. CASE http' = http
    BY <1>1, <2>1 DEF HeaderWaits
  <2>2. CASE http' = NotReconcile \o ReconcileEffect(mine)
    <3>1. ReconcileEffect(mine) \in Seq(KnownRequest)
      <4>1. CASE ReconcileEffect(mine) = <<>>
        BY <4>1, EmptySeq
      <4>2. CASE ReconcileEffect(mine) # <<>>
        <5>1. mine \in MyActiveCall /\ mine.callId \in Call /\ mine.channelId \in Channel
          BY <4>2 DEF ReconcileEffect, MyActiveCall
        <5>2. PICK r : r = Ask("widget", "get", mine.callId, mine.channelId)
          OBVIOUS
        <5>3. r \in KnownRequest
          BY <5>1, <5>2, AskSound DEF Part
        <5>4. ReconcileEffect(mine) = <<r>>
          BY <4>2, <5>2 DEF ReconcileEffect
        <5> QED
          BY <5>3, <5>4
      <4> QED
        BY <4>1, <4>2
    <3>2. PICK I \in SUBSET DOMAIN http : I = {i \in DOMAIN http : ~IsReconcile(http[i])}
      OBVIOUS
    <3>3. PICK s \in Seq(KnownRequest) :
             s = NotReconcile /\ \A i \in I : \E k \in DOMAIN s : s[k] = http[i]
      <4>1. NotReconcile = InFlight(I)
        BY <3>2 DEF NotReconcile
      <4>2. /\ InFlight(I) \in Seq(KnownRequest)
            /\ \A i \in I : \E k \in DOMAIN InFlight(I) : InFlight(I)[k] = http[i]
        BY <1>1, InFlightSound
      <4> QED
        BY <4>1, <4>2
    <3>4. \A i \in DOMAIN http : http[i].part = "header" => \E k \in DOMAIN s : s[k] = http[i]
      BY <3>2, <3>3 DEF IsReconcile
    <3> QED
      BY <2>2, <3>1, <3>3, <3>4, MoreRequests
  <2> QED
    BY <1>2, <2>1, <2>2 DEF Effects
<1>6. WebSide
  BY <1>1, <1>3, <1>5 DEF WebSide, wire
<1> QED
  BY <1>4, <1>6, WebSideKeeps DEF TabInvariant

\* The SDK, its timers and the buttons of the widget, which send nothing.
LEMMA SdkSound ==
    ASSUME TabInvariant, GoodWidget(widget'), UNCHANGED <<server, wire, slice, ui, http, stale>>,
           budget' \in [clicks : 0..MaxClicks, moves : 0..MaxMoves]
    PROVE  TabInvariant'
<1>1. WebSide
  BY TabTypes DEF WebSide, wire, HeaderWaits
<1> QED
  BY <1>1, WebSideKeeps DEF TabInvariant

\* Clicks are counted.
LEMMA ClickCounted ==
    ASSUME TabInvariant, budget.clicks < MaxClicks,
           budget' = [budget EXCEPT !.clicks = @ + 1]
    PROVE  budget' \in [clicks : 0..MaxClicks, moves : 0..MaxMoves]
<1>1. budget \in [clicks : 0..MaxClicks, moves : 0..MaxMoves]
  BY TabTypes
<1>2. budget.clicks + 1 \in 0..MaxClicks
  BY <1>1, WebAssumption DEF WebAssumption
<1> QED
  BY <1>1, <1>2

\* A room is left: the leave is sent for the call that the tab is in by now.
LEMMA RoomLeftSound ==
    ASSUME TabInvariant, NEW room \in {"in", "leaving"}, RoomLeft(room)
    PROVE  TabInvariant'
<1>1. /\ slice \in CallsPluginState /\ ui \in LocalState /\ http \in Seq(KnownRequest)
      /\ budget \in [clicks : 0..MaxClicks, moves : 0..MaxMoves] /\ stale \subseteq Call
  BY TabTypes
<1>2. GoodWidget(widget')
  <2>1. /\ widget.meeting # None /\ GoodWidget(widget)
        /\ widget' = [widget EXCEPT !.meeting.room = "out"]
        /\ "out" \in {"new", "joining", "in", "leaving", "out"}
    BY DEF RoomLeft, TabInvariant
  <2> QED
    BY <2>1, RoomSound
<1>3. http' \in Seq(KnownRequest) /\ (HeaderWaits => HeaderWaits')
  <2>1. "beacon" \in Part \ {"header"}
    BY DEF Part
  <2>2. PICK t \in Seq(KnownRequest) : t = LeaveMine("beacon")
    BY <1>1, <2>1, LeaveMineSound
  <2>3. http' = http \o t
    BY <2>2 DEF RoomLeft
  <2>4. \A i \in DOMAIN http : http[i].part = "header" => \E k \in DOMAIN http : http[k] = http[i]
    OBVIOUS
  <2> QED
    BY <1>1, <2>2, <2>3, <2>4, MoreRequests
<1>4. WebSide
  <2>1. slice' = clearMyActiveCall(slice) /\ UNCHANGED <<server, wire, ui, stale, budget>>
    BY DEF RoomLeft
  <2> QED
    BY <1>1, <1>3, <2>1, ClearSound DEF WebSide, wire
<1> QED
  BY <1>2, <1>4, WebSideKeeps DEF TabInvariant

\* The check of a missing call is answered.
LEMMA ReconcileSound ==
    ASSUME TabInvariant, ReconcileAnswer
    PROVE  TabInvariant'
<1>1. /\ slice \in CallsPluginState /\ ui \in LocalState /\ http \in Seq(KnownRequest)
      /\ budget \in [clicks : 0..MaxClicks, moves : 0..MaxMoves] /\ stale \subseteq Call
  BY TabTypes
<1>2. PICK i \in DOMAIN http :
         /\ IsReconcile(http[i])
         /\ slice' = IF ~http[i].ok THEN slice
                     ELSE IF http[i].ended THEN clearMyActiveCall(slice)
                     ELSE upsertCall(slice, http[i].channel, http[i].call, http[i].participants)
         /\ stale' = IF http[i].ok THEN StaleAfter(http[i]) ELSE stale \cup {http[i].call}
         /\ http' = RemoveAt(http, i)
  BY DEF ReconcileAnswer
<1>3. UNCHANGED <<server, wire, ui, budget, widget>>
  BY DEF ReconcileAnswer
<1>4. http[i] \in KnownRequest /\ http[i].part = "widget" /\ http[i].kind = "get"
  BY <1>1, <1>2, ElementOfSeq, LenProperties DEF IsReconcile
<1>5. PICK r \in KnownRequest : r = http[i] /\ r.call \in Call /\ r.channel \in Channel
                                /\ r.participants \in SUBSET User
  BY <1>4 DEF KnownRequest, Known, Request
<1>6. http' \in Seq(KnownRequest) /\ (HeaderWaits => HeaderWaits')
  BY <1>1, <1>2, <1>4, AnswerTaken
<1>7. slice' = slice \/ slice' = clearMyActiveCall(slice)
      \/ slice' = upsertCall(slice, r.channel, r.call, r.participants)
  BY <1>2, <1>5
<1>8. /\ slice' \in CallsPluginState /\ slice'.incomingCall = slice.incomingCall
      /\ slice'.callLoading = slice.callLoading
  BY <1>1, <1>5, <1>7, ClearSound, UpsertSound
<1>9. stale' \in {stale, stale \cup {r.call}} \/ (stale' = stale \ {r.call} /\ Live(r.call))
  BY <1>2, <1>5 DEF StaleAfter
<1>10. WebSide
  BY <1>1, <1>3, <1>5, <1>6, <1>8, <1>9 DEF WebSide, wire
<1> QED
  BY <1>3, <1>10, WebSideKeeps DEF TabInvariant

\* leaveRoom has resolved, and the leave is sent.
LEMMA CloseContinuesSound ==
    ASSUME TabInvariant, CloseContinues
    PROVE  TabInvariant'
<1>1. /\ slice \in CallsPluginState /\ ui \in LocalState /\ http \in Seq(KnownRequest)
      /\ budget \in [clicks : 0..MaxClicks, moves : 0..MaxMoves] /\ stale \subseteq Call
  BY TabTypes
<1>2. /\ widget.closing # None /\ widget' = [widget EXCEPT !.closing = None]
      /\ http' = Append(http, Ask("widget", "leave", widget.closing, ChannelOf[widget.closing]))
      /\ UNCHANGED <<server, wire, slice, ui, stale, budget>>
  BY DEF CloseContinues
<1>3. GoodWidget(widget')
  BY <1>2, AsideSound DEF TabInvariant
<1>4. PICK c \in Call : c = widget.closing
  BY <1>2 DEF TabInvariant, GoodWidget, WidgetState
<1>5. PICK r : r = Ask("widget", "leave", c, ChannelOf[c])
  OBVIOUS
<1>6. r \in KnownRequest
  <2>1. ChannelOf[c] \in Channel
    BY WebAssumption DEF WebAssumption
  <2> QED
    BY <1>5, <2>1, AskSound DEF Part
<1>7. <<r>> \in Seq(KnownRequest) /\ http' = http \o <<r>>
  <2>1. <<r>> \in Seq(KnownRequest)
    BY <1>6
  <2>2. http' = Append(http, r)
    BY <1>2, <1>4, <1>5
  <2> QED
    BY <1>1, <1>6, <2>1, <2>2
<1>8. \A i \in DOMAIN http : http[i].part = "header" => \E k \in DOMAIN http : http[k] = http[i]
  OBVIOUS
<1>9. http' \in Seq(KnownRequest) /\ (HeaderWaits => HeaderWaits')
  BY <1>1, <1>7, <1>8, MoreRequests
<1>10. WebSide
  BY <1>1, <1>2, <1>9 DEF WebSide, wire
<1> QED
  BY <1>3, <1>10, WebSideKeeps DEF TabInvariant

\* Its answer clears the call that the tab is in.
LEMMA CloseAnswerSound ==
    ASSUME TabInvariant, CloseAnswer
    PROVE  TabInvariant'
<1>1. /\ slice \in CallsPluginState /\ ui \in LocalState /\ http \in Seq(KnownRequest)
      /\ budget \in [clicks : 0..MaxClicks, moves : 0..MaxMoves] /\ stale \subseteq Call
  BY TabTypes
<1>2. PICK i \in DOMAIN http : http[i].part = "widget" /\ http' = RemoveAt(http, i)
  BY DEF CloseAnswer
<1>3. slice' = clearMyActiveCall(slice) /\ UNCHANGED <<server, wire, ui, stale, budget, widget>>
  BY DEF CloseAnswer, AfterClose
<1>4. http' \in Seq(KnownRequest) /\ (HeaderWaits => HeaderWaits')
  BY <1>1, <1>2, AnswerTaken
<1>5. WebSide
  BY <1>1, <1>3, <1>4, ClearSound DEF WebSide, wire
<1> QED
  BY <1>3, <1>5, WebSideKeeps DEF TabInvariant

\* The page is reloaded: nothing is left of the tab but requests that nobody
\* waits for.
LEMMA UnloadSound ==
    ASSUME TabInvariant, Unload
    PROVE  TabInvariant'
<1>1. /\ slice \in CallsPluginState /\ ui \in LocalState /\ http \in Seq(KnownRequest)
      /\ budget \in [clicks : 0..MaxClicks, moves : 0..MaxMoves]
  BY TabTypes
<1>2. budget' \in [clicks : 0..MaxClicks, moves : 0..MaxMoves]
  BY ClickCounted DEF Unload
<1>3. PICK I \in SUBSET DOMAIN http :
         I = {i \in DOMAIN http : http[i].stage = "sent" /\ http[i].kind # "get"}
  OBVIOUS
<1>4. PICK s \in Seq(KnownRequest) :
         s = InFlight(I) /\ \A k \in DOMAIN s : \E i \in I : s[k] = http[i]
  <2>1. /\ InFlight(I) \in Seq(KnownRequest)
        /\ \A k \in DOMAIN InFlight(I) : \E i \in I : InFlight(I)[k] = http[i]
    BY <1>1, InFlightSound
  <2> QED
    BY <2>1
<1>5. PICK t : t = [k \in DOMAIN s |-> [s[k] EXCEPT !.part = "beacon"]]
  OBVIOUS
<1>6. t \in Seq(KnownRequest)
  <2>1. PICK n \in Nat : n = Len(s) /\ DOMAIN s = 1..n
    BY LenProperties
  <2>2. ASSUME NEW k \in 1..n PROVE [s[k] EXCEPT !.part = "beacon"] \in KnownRequest
    <3>0. s[k] \in KnownRequest /\ k \in DOMAIN s
      BY <2>1, <2>2, ElementOfSeq
    <3>1. PICK r \in KnownRequest : r = s[k] /\ r.stage = "sent" /\ r.kind # "get"
      <4>1. PICK i \in I : s[k] = http[i]
        BY <1>4, <3>0
      <4>2. http[i].stage = "sent" /\ http[i].kind # "get"
        BY <1>3, <4>1
      <4> QED
        BY <3>0, <4>1, <4>2
    <3>2. PICK q : q = [r EXCEPT !.part = "beacon"]
      OBVIOUS
    <3>3. r \in Request /\ Known(r) /\ "beacon" \in Part
      BY <3>1 DEF KnownRequest, Part
    <3>4. /\ q \in Request /\ q.part = "beacon" /\ q.kind = r.kind /\ q.call = r.call
          /\ q.ok = r.ok /\ q.stage = "sent"
      BY <3>1, <3>2, <3>3 DEF Request
    <3>5. Known(q)
      BY <3>1, <3>3, <3>4 DEF Known
    <3> QED
      BY <3>1, <3>2, <3>4, <3>5 DEF KnownRequest
  <2>3. t \in [1..n -> KnownRequest]
    BY <1>5, <2>1, <2>2
  <2> QED
    BY <2>3
<1>7. http' \in Seq(KnownRequest)
  <2>1. "beacon" \in Part \ {"header"}
    BY DEF Part
  <2>2. LeaveMine("beacon") \in Seq(KnownRequest)
    BY <1>1, <2>1, LeaveMineSound
  <2>3. http' = t \o LeaveMine("beacon")
    BY <1>3, <1>4, <1>5 DEF Unload
  <2> QED
    BY <1>6, <2>2, <2>3, ConcatSound
<1>8. /\ slice' \in CallsPluginState /\ slice'.incomingCall = None /\ ~slice'.callLoading
      /\ ui' \in LocalState
  <2>1. slice' = setPluginEnabled(initialState, TRUE) /\ ui' = FreshUi
    BY DEF Unload
  <2>2. slice' \in CallsPluginState /\ slice'.incomingCall = None /\ ~slice'.callLoading
    BY <2>1 DEF setPluginEnabled, initialState, CallsPluginState
  <2>3. ui' \in LocalState
    BY <2>1 DEF FreshUi, LocalState, Closed, Modal
  <2> QED
    BY <2>2, <2>3
<1>9. inbox' = <<>> /\ online' = TRUE /\ stale' = {} /\ UNCHANGED server
  BY DEF Unload
<1>10. RingInvariant'
  <2>1. inbox' \in Seq(Event) /\ DOMAIN inbox' = {}
    BY <1>9, EmptySeq
  <2>2. WebInvariant'
    BY <1>2, <1>7, <1>8, <1>9, <2>1
       DEF TabInvariant, RingInvariant, WebInvariant, ServerTyped, WireTyped, TabTyped, server
  <2>3. \A c \in Call : Tells(c)' /\ RingTells(c)'
    BY <1>8, <2>1 DEF Tells, RingTells, IsIncomingCall
  <2> QED
    BY <1>9, <2>2, <2>3 DEF RingInvariant
<1>11. SpinnerStops'
  BY <1>8 DEF SpinnerStops
<1>12. GoodWidget(widget')
  <2>1. widget' = NoWidget
    BY DEF Unload
  <2> QED
    BY <2>1, WidgetAssumption DEF NoWidget, GoodWidget, WidgetState, MeetingOf, WidgetAssumption
<1> QED
  BY <1>10, <1>11, <1>12 DEF TabInvariant

-----------------------------------------------------------------------------
(* All steps, and the theorems.                                            *)

\* The SDK answers with the meeting of the token, or the tokens crossed; the meeting
\* that it replaces is forgotten.
LEMMA InitSound ==
    ASSUME TabInvariant, InitSucceeds
    PROVE  TabInvariant'
<1>1. widget \in WidgetState /\ GoodWidget(widget) /\ widget.init \in Call
  BY DEF TabInvariant, GoodWidget, InitSucceeds, WidgetState
<1>2. PICK m : m = [call |-> widget.init, room |-> "new"]
  OBVIOUS
<1>3. PICK abandoned \in SUBSET Call :
         abandoned = IF InRoom THEN widget.abandoned \cup {widget.meeting.call}
                     ELSE widget.abandoned
  <2>1. InRoom => widget.meeting.call \in Call
    BY <1>1 DEF InRoom, Entering, WidgetState, Meeting
  <2>2. widget.abandoned \in SUBSET Call
    BY <1>1 DEF WidgetState
  <2> QED
    BY <2>1, <2>2
<1>4. widget' = [widget EXCEPT !.init = None, !.isJoining = FALSE, !.meeting = m,
                               !.abandoned = abandoned]
  BY <1>1, <1>2, <1>3 DEF InitSucceeds, WidgetState
<1>5. m \in Meeting /\ m.call = widget.init /\ m # None
  <2>1. m \in Meeting /\ m.call = widget.init
    BY <1>1, <1>2 DEF Meeting
  <2> QED
    BY <2>1, WidgetAssumption DEF WidgetAssumption
<1>6. /\ widget' \in WidgetState /\ widget'.init = None /\ widget'.seen = widget.seen
      /\ widget'.meeting = m /\ widget'.crossed = widget.crossed
  BY <1>1, <1>4, <1>5 DEF WidgetState
<1>7. widget.seen # None /\ ~widget.crossed => widget.init = widget.seen.callId
  BY <1>1, WidgetAssumption DEF GoodWidget, MeetingOf, WidgetAssumption
<1>8. GoodWidget(widget')
  BY <1>5, <1>6, <1>7 DEF GoodWidget, MeetingOf
<1>9. UNCHANGED <<server, wire, slice, ui, http, stale, budget>>
  BY DEF InitSucceeds, webVars
<1> QED
  BY <1>8, <1>9, SdkSound, TabTypes

\* A timer fires, whether or not a ref still holds it.
LEMMA RetrySound ==
    ASSUME TabInvariant, Settled, RetryFires
    PROVE  TabInvariant'
<1>1. widget \in WidgetState
  BY DEF TabInvariant, GoodWidget
<1>2. UNCHANGED <<server, wire, slice, ui, http, stale, budget>>
  BY DEF RetryFires, webVars
<1>3. ASSUME widget.retryTimeout # None,
             widget' = attemptInit([widget EXCEPT !.retryTimeout = None], widget.retryTimeout)
      PROVE  GoodWidget(widget')
  <2>1. PICK w : w = [widget EXCEPT !.retryTimeout = None]
    OBVIOUS
  <2>2. PICK c \in Call : c = widget.retryTimeout
    BY <1>1, <1>3 DEF WidgetState
  <2>3. w \in WidgetState /\ w.seen = slice.myActiveCall
    BY <1>1, <2>1 DEF WidgetState, Settled
  <2>4. widget' = attemptInit(w, c)
    BY <1>3, <2>1, <2>2
  <2> QED
    BY <2>3, <2>4, AttemptGood
<1>4. ASSUME NEW c \in widget.strays,
             widget' = attemptInit([widget EXCEPT !.strays = @ \ {c}], c)
      PROVE  GoodWidget(widget')
  <2>1. PICK w : w = [widget EXCEPT !.strays = widget.strays \ {c}]
    OBVIOUS
  <2>2. c \in Call
    BY <1>1 DEF WidgetState
  <2>3. w \in WidgetState /\ w.seen = slice.myActiveCall
    BY <1>1, <2>1 DEF WidgetState, Settled
  <2>4. widget' = attemptInit(w, c)
    BY <1>4, <2>1
  <2> QED
    BY <2>2, <2>3, <2>4, AttemptGood
<1>5. GoodWidget(widget')
  BY <1>3, <1>4 DEF RetryFires, GoodWidget
<1> QED
  BY <1>2, <1>5, SdkSound, TabTypes

\* The meeting is mounted, and joins its room.
LEMMA JoinsSound ==
    ASSUME TabInvariant, RoomJoins
    PROVE  TabInvariant'
<1>1. /\ GoodWidget(widget) /\ widget.meeting # None
      /\ "joining" \in {"new", "joining", "in", "leaving", "out"}
      /\ widget' = [widget EXCEPT !.meeting.room = "joining"]
  BY DEF TabInvariant, RoomJoins, MeetingShown
<1>2. GoodWidget(widget')
  BY <1>1, RoomSound
<1>3. UNCHANGED <<server, wire, slice, ui, http, stale, budget>>
  BY DEF RoomJoins, webVars
<1> QED
  BY <1>2, <1>3, SdkSound, TabTypes

\* The room has been joined: that of the tab's call, or the tokens crossed.
LEMMA JoinedSound ==
    ASSUME TabInvariant, Settled, RoomJoined
    PROVE  TabInvariant'
<1>1. /\ GoodWidget(widget) /\ widget \in WidgetState
      /\ widget.meeting # None /\ widget.meeting \in Meeting
  BY DEF TabInvariant, RoomJoined, GoodWidget, WidgetState
<1>2. PICK m : m = [widget.meeting EXCEPT !.room = "in"]
  OBVIOUS
<1>3. m \in Meeting /\ m.call = widget.meeting.call /\ m # None
  <2>1. m \in Meeting /\ m.call = widget.meeting.call
    BY <1>1, <1>2 DEF Meeting
  <2> QED
    BY <2>1, WidgetAssumption DEF WidgetAssumption
<1>4. PICK crossed \in BOOLEAN : crossed = (widget.crossed \/ m.call # MyCall)
  <2>1. (widget.crossed \/ m.call # MyCall) \in BOOLEAN
    OBVIOUS
  <2> QED
    BY <2>1
<1>5. widget' = [widget EXCEPT !.meeting = m, !.joinError = FALSE, !.isJoining = FALSE,
                               !.crossed = crossed]
  BY <1>1, <1>2, <1>3, <1>4 DEF RoomJoined, WidgetState
<1>6. /\ widget' \in WidgetState /\ widget'.init = widget.init /\ widget'.seen = widget.seen
      /\ widget'.meeting = m /\ widget'.crossed = crossed
  BY <1>1, <1>3, <1>5 DEF WidgetState
<1>7. ASSUME ~crossed, widget.seen # None
      PROVE  ~widget.crossed /\ m.call = widget.seen.callId
  BY <1>4, <1>7 DEF Settled, MyCall, CallIdOf
<1>8. GoodWidget(widget')
  BY <1>1, <1>3, <1>6, <1>7 DEF GoodWidget, MeetingOf
<1>9. UNCHANGED <<server, wire, slice, ui, http, stale, budget>>
  BY DEF RoomJoined, webVars
<1> QED
  BY <1>8, <1>9, SdkSound, TabTypes

\* A room that the widget has forgotten is lost.
LEMMA AbandonedSound ==
    ASSUME TabInvariant, NEW c, widget' = [widget EXCEPT !.abandoned = @ \ {c}],
           UNCHANGED webVars
    PROVE  TabInvariant'
<1>1. GoodWidget(widget) /\ widget \in WidgetState
  BY DEF TabInvariant, GoodWidget
<1>2. /\ widget' \in WidgetState /\ widget'.meeting = widget.meeting
      /\ widget'.init = widget.init /\ widget'.seen = widget.seen
      /\ widget'.crossed = widget.crossed /\ widget'.isJoining = widget.isJoining
      /\ widget'.joinError = widget.joinError
  BY <1>1 DEF WidgetState
<1>3. GoodWidget(widget')
  BY <1>1, <1>2 DEF GoodWidget, MeetingOf
<1>4. UNCHANGED <<server, wire, slice, ui, http, stale, budget>>
  BY DEF webVars
<1> QED
  BY <1>3, <1>4, SdkSound, TabTypes

\* The buttons of the widget.
LEMMA ButtonSound ==
    ASSUME TabInvariant, Settled, CloseClick \/ RetryClick \/ ResizeClick
    PROVE  TabInvariant'
<1>1. widget \in WidgetState /\ GoodWidget(widget)
  BY DEF TabInvariant, GoodWidget
<1>2. MyCall \in Call
  BY TabTypes DEF CloseClick, RetryClick, ResizeClick, Rendered
<1>3. UNCHANGED <<server, wire, slice, ui, http, stale>>
  BY DEF CloseClick, RetryClick, ResizeClick, Click
<1>4. budget' \in [clicks : 0..MaxClicks, moves : 0..MaxMoves]
  BY ClickCounted DEF CloseClick, RetryClick, ResizeClick, Click
<1>5. ASSUME CloseClick PROVE GoodWidget(widget')
  <2>1. PICK w : w = leaveRoom(widget)
    OBVIOUS
  <2>2. GoodWidget(w)
    BY <1>1, <2>1, LeaveRoomSound
  <2>3. widget' = [w EXCEPT !.closing = MyCall]
    BY <1>5, <2>1 DEF CloseClick
  <2> QED
    BY <1>2, <2>2, <2>3, AsideSound
<1>6. ASSUME RetryClick PROVE GoodWidget(widget')
  <2>1. PICK w : w = [widget EXCEPT !.retryCount = 0]
    OBVIOUS
  <2>2. w \in WidgetState /\ w.seen = slice.myActiveCall
    <3>1. 0 \in 0..MAX_RETRIES
      BY WidgetAssumption DEF WidgetAssumption
    <3> QED
      BY <1>1, <2>1, <3>1 DEF WidgetState, Settled
  <2>3. widget' = attemptInit(w, MyCall)
    BY <1>6, <2>1 DEF RetryClick
  <2> QED
    BY <1>2, <2>2, <2>3, AttemptGood
<1>7. ASSUME ResizeClick PROVE GoodWidget(widget')
  <2>1. PICK display \in {"normal", "minimized", "fullscreen"} :
           widget' = [widget EXCEPT !.display = display]
    BY <1>7 DEF ResizeClick
  <2> QED
    BY <1>1, <2>1, AsideSound
<1> QED
  BY <1>3, <1>4, <1>5, <1>6, <1>7, SdkSound

LEMMA TabStep ==
    ASSUME TabInvariant, [RoomNext]_roomVars
    PROVE  TabInvariant'
<1>1. CASE Effects
  BY <1>1, EffectsSound
<1>2. CASE [WebNext]_webVars /\ UNCHANGED widget
  BY <1>2, WebStep DEF TabInvariant
<1>3. CASE Settled /\ WidgetStep
  <2>1. CASE InitSucceeds
    BY <2>1, InitSound
  <2>2. CASE InitFails
    <3>1. GoodWidget(widget')
      BY <2>2, FailureSound DEF InitFails, TabInvariant
    <3>2. UNCHANGED <<server, wire, slice, ui, http, stale, budget>>
      BY <2>2 DEF InitFails, webVars
    <3> QED
      BY <3>1, <3>2, SdkSound, TabTypes
  <2>3. CASE RetryFires
    BY <1>3, <2>3, RetrySound
  <2>4. CASE RoomJoins
    BY <2>4, JoinsSound
  <2>5. ASSUME NEW room \in {"in", "leaving"}, RoomLeft(room) PROVE TabInvariant'
    BY <2>5, RoomLeftSound
  <2>6. CASE RoomDrops
    BY <2>5, <2>6, AbandonedSound DEF RoomDrops
  <2>7. CASE CloseClick \/ RetryClick \/ ResizeClick
    BY <1>3, <2>7, ButtonSound
  <2>8. CASE RoomJoined
    BY <1>3, <2>8, JoinedSound
  <2> QED
    BY <1>3, <2>1, <2>2, <2>3, <2>4, <2>5, <2>6, <2>7, <2>8, ReconcileSound, CloseContinuesSound,
       CloseAnswerSound, UnloadSound DEF WidgetStep
<1> QED
  BY <1>1, <1>2, <1>3 DEF RoomNext, roomVars

\* The inductive invariant of the tab with its widget.
THEOREM TabInvariance == RoomSpec => []TabInvariant
<1>1. WebInit /\ widget = NoWidget => TabInvariant
  BY WebInitial, WidgetAssumption
     DEF TabInvariant, NoWidget, GoodWidget, WidgetState, MeetingOf, WidgetAssumption
<1>2. TabInvariant /\ [RoomNext]_roomVars => TabInvariant'
  BY TabStep
<1> QED
  BY <1>1, <1>2, PTL DEF RoomSpec

\* The widget, the slice and the requests keep their types: no retry is counted
\* beyond MAX_RETRIES, and no answer reaches the widget without its call.
THEOREM RoomTypeOKAlways == RoomSpec => []RoomTypeOK
<1>1. TabInvariant => RoomTypeOK
  <2> SUFFICES ASSUME TabInvariant PROVE RoomTypeOK
    OBVIOUS
  <2>1. \A i \in DOMAIN http : http[i] \in Request
    BY TabTypes, LenProperties, ElementOfSeq DEF KnownRequest
  <2> QED
    BY <2>1, TabTypes DEF RoomTypeOK, TabInvariant, GoodWidget
<1> QED
  BY <1>1, TabInvariance, PTL

\* The meeting on the screen is that of the call in the title, however the user
\* switches while the SDK is initialising, failing and retrying; except when, since
\* the token came, the SDK ignored an attempt, a timer left over from another call
\* started one, or the room of an earlier meeting was joined.
THEOREM MeetingIsMineAlways == RoomSpec => []MeetingIsMine
<1>1. TabInvariant => MeetingIsMine
  BY DEF TabInvariant, GoodWidget, MeetingOf, MeetingIsMine, MeetingShown, Rendered,
     Settled, MyCall, CallIdOf
<1> QED
  BY <1>1, TabInvariance, PTL

\* With the widget in the tab, which sends requests and clears calls of its own,
\* the header's spinner still stops.
THEOREM SpinnerStopsWithWidget == RoomSpec => []SpinnerStops
<1>1. TabInvariant => SpinnerStops
  BY DEF TabInvariant
<1> QED
  BY <1>1, TabInvariance, PTL

-----------------------------------------------------------------------------
(* Why the tab does not believe to be in a call that is over.              *)

Begun(c) == phase[c] # "silent"

\* The answer takes the tab into its call.
Enters(r) == r.ok /\ r.kind \in {"create", "join"}

EndSent(c) == \E i \in DOMAIN inbox : inbox[i] = Ended(c)

\* The call goes on, or the tab will be told of its end, or has missed that.
Reported(c) == Live(c) \/ EndSent(c) \/ c \in stale

\* The widget's check of the call, which says that it is over if it is answered.
Checks(r, c) == IsReconcile(r) /\ r.call = c /\ (r.ok => r.ended)

Checked(c) == \E i \in DOMAIN http : Checks(http[i], c)

\* The tab has just entered the call, and its slice does not have it: the effects
\* will check it.
ToCheck(c) ==
    CallIdOf(widget.seen) # c
    /\ selectCallByChannel(slice, slice.myActiveCall.channelId) = None

MineKnown(c) ==
    IsMyActiveCall(slice, c) =>
        /\ Begun(c)
        /\ Reported(c) \/ ToCheck(c) \/ (CallIdOf(widget.seen) = c /\ Checked(c))

LiveRest ==
    /\ \A i \in DOMAIN http : Enters(http[i]) => Begun(http[i].call)
    /\ \A c \in Call : MineKnown(c)

\* The inductive invariant of MineIsLive.
LiveInvariant == TabInvariant /\ LiveRest

\* A step after which the tab is in no other call, and knows as much of its own.
LEMMA StaysKnown ==
    ASSUME LiveInvariant, Settled, NEW c \in Call,
           IsMyActiveCall(slice', c) =>
              /\ IsMyActiveCall(slice, c)
              /\ widget'.seen = widget.seen
              /\ Begun(c) => Begun(c)'
              /\ Reported(c) => Reported(c)'
              /\ Over(c) /\ Checked(c) => Reported(c)' \/ Checked(c)'
    PROVE  MineKnown(c)'
<1> SUFFICES ASSUME IsMyActiveCall(slice', c)
             PROVE  Begun(c)' /\ (Reported(c)' \/ (CallIdOf(widget.seen) = c /\ Checked(c)'))
  BY DEF MineKnown
<1>1. /\ IsMyActiveCall(slice, c) /\ CallIdOf(widget.seen) = c
      /\ Begun(c) /\ (Reported(c) \/ Checked(c))
  BY DEF LiveInvariant, LiveRest, MineKnown, Settled, IsMyActiveCall, CallIdOf, ToCheck
<1>2. Over(c) \/ Live(c)
  <2>1. phase[c] \in {"silent", "live", "over"}
    BY DEF LiveInvariant, TabInvariant, RingInvariant, WebInvariant, ServerTyped
  <2> QED
    BY <1>1, <2>1 DEF Begun, Over, Live
<1>3. Reported(c) \/ (Over(c) /\ Checked(c))
  BY <1>1, <1>2 DEF Reported
<1> QED
  BY <1>1, <1>3

\* A tab that is in no call has nothing to know.
LEMMA NoneKnown ==
    ASSUME slice'.myActiveCall = None, NEW c \in Call
    PROVE  MineKnown(c)'
BY DEF MineKnown, IsMyActiveCall

\* The server forgets no call, and tells of the end of each.
LEMMA ServerReports ==
    ASSUME RingInvariant, ServerStep, NEW c \in Call
    PROVE  (Begun(c) => Begun(c)') /\ (Reported(c) => Reported(c)')
<1>0. WireTyped
  BY DEF RingInvariant, WebInvariant
<1>1. ASSUME NEW d \in Call, NEW events, Move(d, events)
      PROVE  (Begun(c) => Begun(c)') /\ (Reported(c) => Reported(c)')
  <2>1. /\ stale \subseteq stale'
        /\ \A i \in DOMAIN inbox : i \in DOMAIN inbox' /\ inbox'[i] = inbox[i]
        /\ d \in stale' \/ \E i \in DOMAIN inbox' : inbox'[i] = events[Len(events)]
    BY <1>1, MoveArrives
  <2>2. EndSent(c) => EndSent(c)'
    BY <2>1 DEF EndSent, Ended
  <2>3. \/ phase'[c] = phase[c] \/ phase'[c] = "live"
        \/ c = d /\ phase'[c] = "over" /\ events[Len(events)] = Ended(c)
    BY <1>1 DEF Move, GoesOn
  <2>4. CASE phase'[c] = phase[c] \/ phase'[c] = "live"
    BY <2>1, <2>2, <2>4 DEF Begun, Reported, Live
  <2>5. CASE c = d /\ phase'[c] = "over" /\ events[Len(events)] = Ended(c)
    BY <2>1, <2>5 DEF Begun, Reported, EndSent, Ended
  <2> QED
    BY <2>3, <2>4, <2>5
<1>2. CASE Unmoved \/ \E d \in Call : Added(d)
  BY <1>2 DEF Unmoved, Added, server, wire, Begun, Reported, EndSent, Live, Ended
<1>3. ASSUME NEW e \in Event, UNCHANGED phase, Publish(<<e>>)
      PROVE  (Begun(c) => Begun(c)') /\ (Reported(c) => Reported(c)')
  <2>1. /\ stale \subseteq stale'
        /\ \A i \in DOMAIN inbox : i \in DOMAIN inbox' /\ inbox'[i] = inbox[i]
    BY <1>0, <1>3, OneAppended
  <2> QED
    BY <1>3, <2>1 DEF Begun, Reported, EndSent, Live, Ended
<1>4. ASSUME NEW e \in Rescue, Rescued(e)
      PROVE  (Begun(c) => Begun(c)') /\ (Reported(c) => Reported(c)')
  <2>1. e \in Event /\ UNCHANGED phase /\ Publish(<<e>>)
    BY <1>4 DEF Rescue, Event, Rescued
  <2> QED
    BY <2>1, <1>3
<1>5. ASSUME NEW d \in Call, UNCHANGED server, Publish(<<DismissedEvent(d)>>)
      PROVE  (Begun(c) => Begun(c)') /\ (Reported(c) => Reported(c)')
  <2>1. DismissedEvent(d) \in Event /\ UNCHANGED phase
    BY <1>5, DismissedSound DEF server
  <2> QED
    BY <1>3, <1>5, <2>1
<1> QED
  BY <1>1, <1>2, <1>4, <1>5 DEF ServerStep

\* One request gets its answer, the others stay as they are.
LEMMA ReplyKept ==
    ASSUME http \in Seq(KnownRequest), NEW i \in DOMAIN http, NEW ok, NEW c, NEW list,
           Reply(i, ok, c, list)
    PROVE  /\ \A k \in DOMAIN http \ {i} : \E j \in DOMAIN http' : http'[j] = http[k]
           /\ \A j \in DOMAIN http' :
                 \/ \E k \in DOMAIN http : http'[j] = http[k]
                 \/ http'[j].ok = ok /\ http'[j].kind = http[i].kind /\ http'[j].call = c
           /\ ~Forgotten(http[i]) =>
                 i \in DOMAIN http' /\ http'[i] = Answered(http[i], ok, c, list)
<1>1. CASE Forgotten(http[i])
  <2>1. http' = RemoveAt(http, i)
    BY <1>1 DEF Reply
  <2> QED
    BY <1>1, <2>1, RemoveAtSound, RemoveAtFrom
<1>2. CASE ~Forgotten(http[i])
  <2>1. PICK a : a = Answered(http[i], ok, c, list)
    OBVIOUS
  <2>2. http[i] \in Request
    BY LenProperties, ElementOfSeq DEF KnownRequest
  <2>3. a.ok = ok /\ a.kind = http[i].kind /\ a.call = c
    BY <2>1, <2>2 DEF Answered, Request
  <2>4. http' = [http EXCEPT ![i] = a]
    BY <1>2, <2>1 DEF Reply, ReplaceAt
  <2>5. DOMAIN http' = DOMAIN http /\ \A j \in DOMAIN http : http'[j] = IF j = i THEN a ELSE http[j]
    BY <2>4
  <2>6. http'[i] = a
    BY <2>5
  <2> QED
    BY <1>2, <2>1, <2>3, <2>5, <2>6
<1> QED
  BY <1>1, <1>2

\* A request that is served takes the tab into no call that has not begun, and the
\* check of a call that is over says so.
LEMMA ServeChecks ==
    ASSUME WebInvariant, Serve \/ FetchFails
    PROVE  /\ \A j \in DOMAIN http' :
                 \/ \E k \in DOMAIN http : http'[j] = http[k]
                 \/ Enters(http'[j]) => phase'[http'[j].call] # "silent"
           /\ \A c \in Call : Over(c) /\ Checked(c) => Checked(c)'
<1>0. http \in Seq(KnownRequest) /\ ServerTyped
  BY DEF WebInvariant, TabTyped
<1>1. ASSUME NEW i \in DOMAIN http, NEW ok, NEW c, NEW list, Reply(i, ok, c, list),
             ok /\ http[i].kind \in {"create", "join"} => phase'[c] # "silent",
             IsReconcile(http[i]) =>
                c = http[i].call /\ ok \in BOOLEAN /\ (ok => http[i].kind = "get")
      PROVE  /\ \A j \in DOMAIN http' :
                   \/ \E k \in DOMAIN http : http'[j] = http[k]
                   \/ Enters(http'[j]) => phase'[http'[j].call] # "silent"
             /\ \A d \in Call : Over(d) /\ Checked(d) => Checked(d)'
  <2>1. \A j \in DOMAIN http' :
           \/ \E k \in DOMAIN http : http'[j] = http[k]
           \/ Enters(http'[j]) => phase'[http'[j].call] # "silent"
    BY <1>0, <1>1, ReplyKept DEF Enters
  <2>2. ASSUME NEW d \in Call, Over(d), Checked(d) PROVE Checked(d)'
    <3>1. PICK k \in DOMAIN http : Checks(http[k], d)
      BY <2>2 DEF Checked
    <3>2. CASE k # i
      <4>1. PICK j \in DOMAIN http' : http'[j] = http[k]
        BY <1>0, <1>1, <3>2, ReplyKept
      <4> QED
        BY <3>1, <4>1 DEF Checked, Checks, IsReconcile
    <3>3. CASE k = i
      <4>1. /\ http[i] \in Request /\ http[i].part = "widget" /\ http[i].kind = "get"
            /\ http[i].call = d /\ c = d /\ ok \in BOOLEAN /\ ~Forgotten(http[i])
        BY <1>0, <1>1, <3>1, <3>3, LenProperties, ElementOfSeq
           DEF Checks, IsReconcile, KnownRequest, Forgotten
      <4>2. PICK a : a = Answered(http[i], ok, c, list)
        OBVIOUS
      <4>3. /\ a.part = "widget" /\ a.kind = "get" /\ a.call = d
            /\ a.ok = ok /\ (ok => a.ended)
        BY <2>2, <4>1, <4>2 DEF Answered, Request
      <4>4. i \in DOMAIN http' /\ http'[i] = a
        BY <1>0, <1>1, <4>1, <4>2, ReplyKept
      <4> QED
        BY <4>3, <4>4 DEF Checked, Checks, IsReconcile
    <3> QED
      BY <3>2, <3>3
  <2> QED
    BY <2>1, <2>2
<1>2. CASE FetchFails
  <2>1. PICK i \in DOMAIN http : Reply(i, FALSE, http[i].call, {})
    BY <1>2 DEF FetchFails
  <2> QED
    BY <1>1, <2>1
<1>3. CASE Serve
  <2>1. PICK i \in DOMAIN http :
          CASE http[i].kind = "create" -> ServeCreate(i)
            [] http[i].kind = "join" -> ServeJoin(i)
            [] http[i].kind = "leave" -> ServeLeave(i)
            [] http[i].kind = "get" -> ServeGet(i)
            [] http[i].kind = "dismiss" -> ServeDismiss(i)
    BY <1>3 DEF Serve
  <2>2. http[i] \in Request /\ (http[i].kind # "create" => http[i].call \in Call)
    BY <1>0, LenProperties, ElementOfSeq DEF KnownRequest, Known
  <2>3. ASSUME NEW c \in Call, Start(c, me) \/ Join(c, me) PROVE phase'[c] # "silent"
    <3>1. PICK events : Move(c, events)
      BY <1>0, <2>3, StartSound, JoinSound, WebAssumption DEF WebAssumption
    <3> QED
      BY <3>1 DEF Move, GoesOn
  <2>4. CASE http[i].kind = "create" /\ ServeCreate(i)
    <3>1. ~IsReconcile(http[i])
      BY <2>4 DEF IsReconcile
    <3>2. \/ \E c \in Call : Start(c, me) /\ Reply(i, TRUE, c, {me})
          \/ Reply(i, FALSE, None, {})
      BY <2>4 DEF ServeCreate
    <3> QED
      BY <1>1, <2>3, <3>1, <3>2
  <2>5. CASE http[i].kind = "join" /\ ServeJoin(i)
    <3>1. ~IsReconcile(http[i])
      BY <2>5 DEF IsReconcile
    <3>2. \/ Join(http[i].call, me) /\ \E list : Reply(i, TRUE, http[i].call, list)
          \/ Reply(i, FALSE, http[i].call, {})
      BY <2>5 DEF ServeJoin
    <3> QED
      BY <1>1, <2>2, <2>3, <2>5, <3>1, <3>2
  <2>6. CASE http[i].kind \in {"leave", "dismiss"} /\ (ServeLeave(i) \/ ServeDismiss(i))
    <3>1. /\ ~IsReconcile(http[i])
          /\ Reply(i, TRUE, http[i].call, {}) \/ Reply(i, FALSE, http[i].call, {})
      BY <2>6 DEF IsReconcile, ServeLeave, ServeDismiss
    <3> QED
      BY <1>1, <2>6, <3>1
  <2>7. CASE http[i].kind = "get" /\ ServeGet(i)
    <3>1. \E list : Reply(i, TRUE, http[i].call, list)
      BY <2>7 DEF ServeGet
    <3> QED
      BY <1>1, <2>7, <3>1
  <2> QED
    BY <2>1, <2>2, <2>4, <2>5, <2>6, <2>7 DEF Request
<1> QED
  BY <1>2, <1>3

\* Requests are sent, and those in flight stay.
Asked ==
    /\ \A k \in DOMAIN http : k \in DOMAIN http' /\ http'[k] = http[k]
    /\ \A j \in DOMAIN http' : (\E k \in DOMAIN http : http'[j] = http[k]) \/ ~Enters(http'[j])

LEMMA AsksAdded ==
    ASSUME http \in Seq(KnownRequest), NEW requests \in Seq(KnownRequest),
           http' = http \o requests, \A i \in DOMAIN requests : ~Enters(requests[i])
    PROVE  Asked
BY ConcatSound DEF Asked

\* A click sends requests.
LEMMA ClickAsks ==
    ASSUME WebInvariant, UserClicks
    PROVE  Asked
<1>0. /\ slice \in CallsPluginState /\ ui \in LocalState /\ http \in Seq(KnownRequest)
      /\ \A c \in Call : ChannelOf[c] \in Channel
  BY WebAssumption DEF WebInvariant, TabTyped, WebAssumption
<1>1. ASSUME UNCHANGED http PROVE Asked
  BY <1>1 DEF Asked
<1>2. ASSUME NEW r \in KnownRequest, ~r.ok, Send(<<r>>) PROVE Asked
  <2>1. PICK one : one = <<r>>
    OBVIOUS
  <2>2. one \in Seq(KnownRequest) /\ http' = http \o one /\ \A i \in DOMAIN one : ~Enters(one[i])
    BY <1>2, <2>1 DEF Send, Enters
  <2> QED
    BY <1>0, <2>2, AsksAdded
<1>3. ASSUME NEW part \in Part, NEW c \in Call
      PROVE  AskJoin(part, c) \in KnownRequest /\ ~AskJoin(part, c).ok
  <2>1. "switch" \in Part \ {"header"}
    BY DEF Part
  <2>2. AskJoin(part, c) \in KnownRequest
    BY <1>0, <2>1, JoinAsked
  <2> QED
    BY <2>2 DEF AskJoin, Ask
<1>4. ASSUME NEW part \in Part, NEW c \in Call, NEW from \in Part \ {"header"},
             Send(LeaveMine(from) \o <<AskJoin(part, c)>>)
      PROVE  Asked
  <2>1. PICK r \in KnownRequest : r = AskJoin(part, c) /\ ~r.ok
    BY <1>3
  <2>2. PICK first : first = LeaveMine(from)
    OBVIOUS
  <2>3. first \in Seq(KnownRequest) /\ \A i \in DOMAIN first : ~Enters(first[i])
    BY <1>0, <2>2, LeaveMineSound DEF LeaveMine, Ask, Enters
  <2>4. PICK last : last = <<r>>
    OBVIOUS
  <2>5. last \in Seq(KnownRequest) /\ \A i \in DOMAIN last : ~Enters(last[i])
    BY <2>1, <2>4 DEF Enters
  <2>6. PICK requests : requests = first \o last
    OBVIOUS
  <2>7. requests \in Seq(KnownRequest) /\ \A i \in DOMAIN requests : ~Enters(requests[i])
    BY <2>3, <2>5, <2>6, ConcatSound
  <2>8. http' = http \o requests
    BY <1>4, <2>1, <2>2, <2>4, <2>6 DEF Send
  <2> QED
    BY <1>0, <2>7, <2>8, AsksAdded
<1>5. /\ {"header", "switch", "post", "postSwitch", "toast", "toastSwitch", "incoming",
          "mount"} \subseteq Part
      /\ {"switch", "post", "toast", "incoming"} \subseteq Part \ {"header"}
  BY DEF Part
<1>6. ASSUME NEW ch \in Channel, HeaderStart(ch) \/ HeaderJoin(ch) PROVE Asked
  <2>1. CASE HeaderStart(ch)
    <3>1. PICK r : r = Ask("header", "create", None, ch)
      OBVIOUS
    <3>2. "create" \in {"create", "join", "leave", "dismiss", "get"} /\ None \in Call \cup {None}
      OBVIOUS
    <3>3. r \in KnownRequest
      BY <1>5, <3>1, <3>2, AskSound
    <3>4. ~r.ok /\ Send(<<r>>)
      BY <2>1, <3>1 DEF HeaderStart, Ask
    <3> QED
      BY <1>2, <3>3, <3>4
  <2>2. CASE HeaderJoin(ch)
    <3>1. PICK call : call = selectCallByChannel(slice, ch)
      OBVIOUS
    <3>2. call.id \in Call
      BY <1>0, <2>2, <3>1 DEF HeaderJoin, selectCallByChannel, CallsPluginState, ActiveCall
    <3>3. UNCHANGED http \/ Send(<<AskJoin("header", call.id)>>)
      BY <2>2, <3>1 DEF HeaderJoin
    <3> QED
      BY <1>1, <1>2, <1>3, <1>5, <3>2, <3>3
  <2> QED
    BY <1>6, <2>1, <2>2
<1>7. CASE SwitchConfirm
  <2>1. PICK c \in Call : Send(LeaveMine("switch") \o <<AskJoin("switch", c)>>)
    BY <1>0, <1>7 DEF SwitchConfirm, CallsPluginState
  <2> QED
    BY <1>4, <1>5, <2>1
<1>8. ASSUME NEW ch \in Channel, ToastJoin(ch) \/ ToastConfirm(ch) PROVE Asked
  <2>1. CASE ToastJoin(ch)
    <3>1. PICK c : c = selectCallByChannel(slice, ch).id
      OBVIOUS
    <3>2. c \in Call
      BY <1>0, <2>1, <3>1
         DEF ToastJoin, ToastVisible, selectCallByChannel, CallsPluginState, ActiveCall
    <3>3. UNCHANGED http \/ Send(<<AskJoin("toast", c)>>)
      BY <2>1, <3>1 DEF ToastJoin
    <3> QED
      BY <1>1, <1>2, <1>3, <1>5, <3>2, <3>3
  <2>2. CASE ToastConfirm(ch)
    <3>1. PICK c : c = ui.toast.pending
      OBVIOUS
    <3>2. \/ UNCHANGED http
          \/ c \in Call /\ Send(LeaveMine("toast") \o <<AskJoin("toastSwitch", c)>>)
      BY <1>0, <2>2, <3>1 DEF ToastConfirm, LocalState, Modal
    <3> QED
      BY <1>1, <1>4, <1>5, <3>2
  <2> QED
    BY <1>8, <2>1, <2>2
<1>9. ASSUME NEW c \in Call, PostMount(c) \/ PostJoin(c) \/ PostConfirm(c) PROVE Asked
  <2>1. CASE PostMount(c)
    <3>1. PICK r : r = Ask("mount", "get", c, ChannelOf[c])
      OBVIOUS
    <3>2. "get" \in {"create", "join", "leave", "dismiss", "get"} /\ c \in Call \cup {None}
      OBVIOUS
    <3>3. r \in KnownRequest
      BY <1>0, <1>5, <3>1, <3>2, AskSound
    <3>4. ~r.ok /\ Send(<<r>>)
      BY <2>1, <3>1 DEF PostMount, Ask
    <3> QED
      BY <1>2, <3>3, <3>4
  <2>2. CASE UNCHANGED http \/ Send(<<AskJoin("post", c)>>)
             \/ Send(LeaveMine("post") \o <<AskJoin("postSwitch", c)>>)
    BY <1>1, <1>2, <1>3, <1>4, <1>5, <2>2
  <2> QED
    BY <1>9, <2>1, <2>2 DEF PostJoin, PostConfirm
<1>10. CASE IncomingIgnore \/ IncomingJoin \/ IncomingConfirm
  <2>1. PICK c, ch : c = slice.incomingCall.callId /\ ch = slice.incomingCall.channelId
    OBVIOUS
  <2>2. Ringing
    BY <1>10 DEF IncomingIgnore, IncomingJoin, IncomingConfirm
  <2>3. c \in Call /\ ch \in Channel
    BY <1>0, <2>1, <2>2 DEF Ringing, CallsPluginState, IncomingCall
  <2>4. CASE IncomingIgnore
    <3>1. PICK r : r = Ask("incoming", "dismiss", c, ch)
      OBVIOUS
    <3>2. r \in KnownRequest
      BY <1>5, <2>3, <3>1, AskSound
    <3>3. ~r.ok /\ Send(<<r>>)
      BY <2>1, <2>4, <3>1 DEF IncomingIgnore, Ask
    <3> QED
      BY <1>2, <3>2, <3>3
  <2>5. CASE UNCHANGED http \/ Send(<<AskJoin("incoming", c)>>)
             \/ Send(LeaveMine("incoming") \o <<AskJoin("incoming", c)>>)
    BY <1>1, <1>2, <1>3, <1>4, <1>5, <2>3, <2>5
  <2> QED
    BY <1>10, <2>1, <2>4, <2>5 DEF IncomingJoin, IncomingConfirm
<1>11. CASE \/ CloseGlobalModal \/ IncomingCancel
            \/ \E ch \in Channel : ToastClose(ch)
            \/ \E c \in Call : PostClose(c)
  BY <1>1, <1>11 DEF CloseGlobalModal, IncomingCancel, ToastClose, PostClose
<1> QED
  BY <1>6, <1>7, <1>8, <1>9, <1>10, <1>11 DEF UserClicks

\* What a step needs to leave: no request takes the tab into a call that has not
\* begun, and the tab knows of its call.
LEMMA RestKept ==
    ASSUME LiveInvariant, \A c \in Call : Begun(c) => Begun(c)',
           \A j \in DOMAIN http' :
              \/ \E k \in DOMAIN http : http'[j] = http[k]
              \/ Enters(http'[j]) => phase'[http'[j].call] # "silent",
           \A c \in Call : MineKnown(c)'
    PROVE  LiveRest'
<1>1. http \in Seq(KnownRequest)
  BY TabTypes DEF LiveInvariant
<1>2. ASSUME NEW j \in DOMAIN http', Enters(http'[j]) PROVE phase'[http'[j].call] # "silent"
  <2>1. CASE \E k \in DOMAIN http : http'[j] = http[k]
    <3>1. PICK k \in DOMAIN http : http'[j] = http[k]
      BY <2>1
    <3>2. http[k] \in KnownRequest
      BY <1>1, LenProperties, ElementOfSeq
    <3>3. http[k].call \in Call
      BY <1>2, <3>1, <3>2 DEF KnownRequest, Known, Enters
    <3>4. Begun(http[k].call)
      BY <1>2, <3>1 DEF LiveInvariant, LiveRest
    <3> QED
      BY <3>1, <3>3, <3>4 DEF Begun
  <2> QED
    BY <1>2, <2>1
<1> QED
  BY <1>2 DEF LiveRest, Begun

\* An answer takes the tab into a call that has begun.  If that is over by now, the
\* slice shows it, which is stale, or nothing, which the effects will notice.
LEMMA AnswerKnown ==
    ASSUME LiveInvariant, Settled, DeliverAnswer, UNCHANGED widget
    PROVE  LiveRest'
<1>0. /\ WebInvariant /\ slice \in CallsPluginState /\ http \in Seq(KnownRequest)
      /\ inbox' = inbox /\ phase' = phase /\ shown' = shown
  BY DEF LiveInvariant, TabInvariant, RingInvariant, WebInvariant, TabTyped, DeliverAnswer,
         wire, server
<1>1. PICK i \in DOMAIN http :
        /\ http[i].stage = "answered" /\ http[i].part # "widget"
        /\ slice' = AnswerTo(slice, http[i])
        /\ stale' = StaleAfter(http[i])
        /\ http' = RemoveAt(http, i)
  BY DEF DeliverAnswer
<1>2. PICK r \in KnownRequest : r = http[i]
  BY <1>0, LenProperties, ElementOfSeq
<1>3. \/ slice'.myActiveCall = slice.myActiveCall
      \/ r.ok /\ r.part # "mount" /\ slice'.myActiveCall = Entered(r)
  BY <1>0, <1>1, <1>2, AnswerEntry
<1>4. \A j \in DOMAIN http' : \E k \in DOMAIN http : http'[j] = http[k]
  BY <1>0, <1>1, RemoveAtFrom
<1>5. \A k \in DOMAIN http \ {i} : \E j \in DOMAIN http' : http'[j] = http[k]
  BY <1>0, <1>1, RemoveAtSound
<1>6. \A c \in stale \ stale' : Live(c)
  BY <1>0, AnswerSound
<1>7. ASSUME NEW c \in Call PROVE MineKnown(c)'
  <2>1. CASE IsMyActiveCall(slice', c) => IsMyActiveCall(slice, c)
    <3>1. Reported(c) => Reported(c)'
      BY <1>0, <1>6 DEF Reported, EndSent, Live, Ended
    <3>2. ASSUME Checked(c) PROVE Checked(c)'
      <4>1. PICK k \in DOMAIN http : Checks(http[k], c)
        BY <3>2 DEF Checked
      <4>2. k # i
        BY <1>1, <4>1 DEF Checks, IsReconcile
      <4>3. PICK j \in DOMAIN http' : http'[j] = http[k]
        BY <1>5, <4>2
      <4> QED
        BY <4>1, <4>3 DEF Checked, Checks, IsReconcile
    <3>3. Begun(c) => Begun(c)'
      BY <1>0 DEF Begun
    <3> QED
      BY <2>1, <3>1, <3>2, <3>3, StaysKnown
  <2>2. CASE IsMyActiveCall(slice', c) /\ ~IsMyActiveCall(slice, c)
    <3>1. /\ r.ok /\ r.part # "mount" /\ slice'.myActiveCall = Entered(r)
          /\ c = r.call /\ slice'.myActiveCall.channelId = ChannelOf[c]
      BY <1>3, <2>2 DEF IsMyActiveCall, Entered
    <3>2. Enters(r)
      BY <1>1, <1>2, <3>1 DEF KnownRequest, Known, Request, Forgotten, Enters
    <3>3. Begun(c)
      BY <1>2, <3>1, <3>2 DEF LiveInvariant, LiveRest
    <3>4. CallIdOf(widget'.seen) # c
      BY <2>2, WidgetAssumption DEF Settled, CallIdOf, IsMyActiveCall, WidgetAssumption
    <3>5. CASE Live(c)
      BY <1>0, <3>3, <3>5 DEF MineKnown, Begun, Reported, Live
    <3>6. CASE ~Live(c)
      <4>1. Overtaken(r)
        BY <3>1, <3>6 DEF Overtaken
      <4>2. c \in stale' \/ selectCallByChannel(slice', ChannelOf[c]) = None
        BY <1>1, <1>2, <3>1, <4>1 DEF StaleAfter
      <4>3. Begun(c)'
        BY <1>0, <3>3 DEF Begun
      <4>4. Reported(c)' \/ ToCheck(c)'
        BY <3>1, <3>4, <4>2 DEF Reported, ToCheck
      <4> QED
        BY <4>3, <4>4 DEF MineKnown
    <3> QED
      BY <3>5, <3>6
  <2> QED
    BY <2>1, <2>2
<1>8. \A c \in Call : Begun(c) => Begun(c)'
  BY <1>0 DEF Begun
<1> QED
  BY <1>4, <1>7, <1>8, RestKept

\* call_ended takes the tab out of its call, and any other news of a call that is
\* over is followed by it.
LEMMA EventKnown ==
    ASSUME LiveInvariant, Settled, DeliverEvent, UNCHANGED widget
    PROVE  LiveRest'
<1>1. /\ RingInvariant /\ WireTyped /\ inbox # <<>> /\ slice \in CallsPluginState
      /\ phase' = phase /\ http' = http /\ widget' = widget
  BY DEF LiveInvariant, TabInvariant, RingInvariant, WebInvariant, TabTyped, DeliverEvent, server
<1>2. PICK e \in Event : e = inbox[1] /\ e = Head(inbox) /\ 1 \in DOMAIN inbox
  BY <1>1, Consumed DEF DeliverEvent
<1>3. inbox' = Tail(inbox) /\ slice' = HandleEvent(slice, e) /\ stale' = StaleAfterEvent(e)
  BY <1>2 DEF DeliverEvent
<1>9. \A c \in stale \ stale' : c = e.call_id /\ (e.type # "call_ended" => Live(c))
  <2>1. slice' \in CallsPluginState
    BY <1>1, <1>3, HandlerSound
  <2> QED
    BY <1>3, <2>1, StaleSound
<1>4. \A i \in DOMAIN inbox \ {1} : i - 1 \in DOMAIN inbox' /\ inbox'[i - 1] = inbox[i]
  BY <1>1, <1>3, Consumed
<1>5. /\ slice'.myActiveCall \in {slice.myActiveCall, None}
      /\ e.type = "call_ended" => ~IsMyActiveCall(slice', e.call_id)
  BY <1>1, <1>3, HandlerEntry
<1>6. ASSUME NEW c \in Call PROVE MineKnown(c)'
  <2>1. ASSUME IsMyActiveCall(slice', c), EndSent(c) PROVE EndSent(c)'
    <3>1. PICK i \in DOMAIN inbox : inbox[i] = Ended(c)
      BY <2>1 DEF EndSent
    <3>2. i # 1
      BY <1>2, <1>5, <2>1, <3>1 DEF Ended
    <3> QED
      BY <1>4, <3>1, <3>2 DEF EndSent, Ended
  <2>2. ASSUME IsMyActiveCall(slice', c), c \in stale, c \notin stale' PROVE Live(c)
    BY <1>5, <1>9, <2>2
  <2>3. IsMyActiveCall(slice', c) /\ Reported(c) => Reported(c)'
    BY <1>1, <2>1, <2>2 DEF Reported, Live
  <2>4. IsMyActiveCall(slice', c) => IsMyActiveCall(slice, c)
    BY <1>5 DEF IsMyActiveCall
  <2>5. (Begun(c) => Begun(c)') /\ (Checked(c) => Checked(c)')
    BY <1>1 DEF Begun, Checked, Checks, IsReconcile
  <2> QED
    BY <1>1, <2>3, <2>4, <2>5, StaysKnown
<1>7. \A c \in Call : Begun(c) => Begun(c)'
  BY <1>1 DEF Begun
<1>8. \A j \in DOMAIN http' : \E k \in DOMAIN http : http'[j] = http[k]
  BY <1>1
<1> QED
  BY <1>6, <1>7, <1>8, RestKept

\* A step that leaves the tab in its call, or in none.
LEMMA SameMine ==
    ASSUME LiveInvariant, Settled, slice'.myActiveCall = slice.myActiveCall,
           widget'.seen = widget.seen,
           \A c \in Call : (Begun(c) => Begun(c)') /\ (Reported(c) => Reported(c)')
                           /\ (Over(c) /\ Checked(c) => Checked(c)'),
           \A j \in DOMAIN http' :
              \/ \E k \in DOMAIN http : http'[j] = http[k]
              \/ Enters(http'[j]) => phase'[http'[j].call] # "silent"
    PROVE  LiveRest'
<1>1. ASSUME NEW c \in Call PROVE MineKnown(c)'
  <2>1. IsMyActiveCall(slice', c) => IsMyActiveCall(slice, c)
    BY DEF IsMyActiveCall
  <2> QED
    BY <2>1, StaysKnown
<1> QED
  BY <1>1, RestKept

\* The steps of the tab without its widget.
LEMMA WebKnown ==
    ASSUME LiveInvariant, Settled, [WebNext]_webVars, UNCHANGED widget
    PROVE  LiveRest'
<1>1. /\ RingInvariant /\ WebInvariant /\ ServerTyped /\ slice \in CallsPluginState
  BY DEF LiveInvariant, TabInvariant, RingInvariant, WebInvariant, TabTyped
<1>2. http' = http => /\ \A c \in Call : Checked(c) => Checked(c)'
                      /\ \A j \in DOMAIN http' : \E k \in DOMAIN http : http'[j] = http[k]
  BY DEF Checked, Checks, IsReconcile
<1>3. UNCHANGED <<server, inbox>> /\ stale \subseteq stale' =>
         \A c \in Call : (Begun(c) => Begun(c)') /\ (Reported(c) => Reported(c)')
  BY DEF server, Begun, Reported, EndSent, Live, Ended
<1>4. CASE OthersMove \/ PublishRescue
  <2>1. ServerStep /\ slice' = slice /\ http' = http
    BY <1>1, <1>4, OthersSound
  <2> QED
    BY <1>1, <1>2, <2>1, SameMine, ServerReports
<1>5. CASE Serve
  <2>1. ServerStep /\ slice' = slice
    BY <1>1, <1>5, ServeSound DEF Serve
  <2> QED
    BY <1>1, <1>5, <2>1, SameMine, ServerReports, ServeChecks
<1>6. CASE FetchFails
  <2>1. UNCHANGED <<server, inbox>> /\ stale' = stale /\ slice' = slice
    BY <1>6 DEF FetchFails, wire
  <2> QED
    BY <1>1, <1>3, <1>6, <2>1, SameMine, ServeChecks
<1>7. CASE RingTimeout
  <2>1. UNCHANGED <<server, inbox>> /\ stale' = stale /\ http' = http
        /\ slice'.myActiveCall = slice.myActiveCall
    BY <1>1, <1>7, ClearEntry DEF RingTimeout, wire
  <2> QED
    BY <1>2, <1>3, <2>1, SameMine
<1>8. CASE Reconnect \/ UNCHANGED webVars
  <2>1. UNCHANGED <<server, inbox>> /\ stale' = stale /\ http' = http /\ slice' = slice
    BY <1>8 DEF Reconnect, webVars, wire
  <2> QED
    BY <1>2, <1>3, <2>1, SameMine
<1>9. CASE UserClicks
  <2>1. UNCHANGED <<server, inbox>> /\ stale' = stale
        /\ slice'.myActiveCall = slice.myActiveCall
    BY <1>1, <1>9, UserSound, ClickEntry DEF wire
  <2>2. Asked
    BY <1>1, <1>9, ClickAsks
  <2>3. \A c \in Call : Checked(c) => Checked(c)'
    BY <2>2 DEF Asked, Checked, Checks, IsReconcile
  <2>4. \A j \in DOMAIN http' : (\E k \in DOMAIN http : http'[j] = http[k]) \/ ~Enters(http'[j])
    BY <2>2 DEF Asked
  <2> QED
    BY <1>3, <2>1, <2>3, <2>4, SameMine
<1>10. CASE Disconnect
  <2>1. /\ phase' = phase /\ slice' = slice /\ http' = http
        /\ stale' = stale \cup {inbox[i].call_id : i \in DOMAIN inbox}
    BY <1>10 DEF Disconnect, server
  <2>2. ASSUME NEW c \in Call PROVE (Begun(c) => Begun(c)') /\ (Reported(c) => Reported(c)')
    <3>1. EndSent(c) => c \in stale'
      BY <2>1 DEF EndSent, Ended
    <3> QED
      BY <2>1, <3>1 DEF Begun, Reported, Live
  <2> QED
    BY <1>2, <2>1, <2>2, SameMine
<1> QED
  BY <1>4, <1>5, <1>6, <1>7, <1>8, <1>9, <1>10, AnswerKnown, EventKnown DEF WebNext

\* The effects check a call that the tab has just entered, and keep the check of the
\* call that it stays in.
LEMMA EffectsKnown ==
    ASSUME LiveInvariant, Effects
    PROVE  LiveRest'
<1>1. /\ slice \in CallsPluginState /\ http \in Seq(KnownRequest) /\ widget \in WidgetState
      /\ slice.myActiveCall \in MyActiveCall \cup {None}
  BY TabTypes DEF LiveInvariant, TabInvariant, GoodWidget
<1>2. PICK mine \in MyActiveCall \cup {None} : mine = slice.myActiveCall
  BY <1>1
<1>3. /\ phase' = phase /\ inbox' = inbox /\ stale' = stale /\ slice' = slice
  BY DEF Effects, server, wire
<1>4. widget'.seen = mine
  <2>1. widget' = [HangUpEffect(InitEffect(ResetDisplay(widget, mine), mine), mine)
                      EXCEPT !.seen = mine]
    BY <1>2 DEF Effects
  <2> QED
    BY <1>1, <1>2, <2>1, TokenSound
<1>5. CallIdOf(mine) = CallIdOf(widget.seen) => http' = http
  BY <1>2 DEF Effects
<1>6. ASSUME CallIdOf(mine) # CallIdOf(widget.seen)
      PROVE  /\ \A j \in DOMAIN http' :
                   (\E k \in DOMAIN http : http'[j] = http[k]) \/ ~Enters(http'[j])
             /\ mine # None /\ selectCallByChannel(slice, mine.channelId) = None =>
                   Checked(mine.callId)'
  <2>1. PICK t : t = ReconcileEffect(mine)
    OBVIOUS
  <2>2. PICK I \in SUBSET DOMAIN http : I = {i \in DOMAIN http : ~IsReconcile(http[i])}
    OBVIOUS
  <2>3. PICK s \in Seq(KnownRequest) :
           s = NotReconcile /\ \A k \in DOMAIN s : \E i \in I : s[k] = http[i]
    <3>1. NotReconcile = InFlight(I)
      BY <2>2 DEF NotReconcile
    <3>2. /\ InFlight(I) \in Seq(KnownRequest)
          /\ \A k \in DOMAIN InFlight(I) : \E i \in I : InFlight(I)[k] = http[i]
      BY <1>1, InFlightSound
    <3> QED
      BY <3>1, <3>2
  <2>4. http' = s \o t
    BY <1>2, <1>6, <2>1, <2>3 DEF Effects
  <2>5. CASE mine # None /\ selectCallByChannel(slice, mine.channelId) = None
    <3>1. mine.callId \in Call /\ mine.channelId \in Channel
      BY <2>5 DEF MyActiveCall
    <3>2. PICK r : r = Ask("widget", "get", mine.callId, mine.channelId)
      OBVIOUS
    <3>3. r \in KnownRequest
      BY <3>1, <3>2, AskSound DEF Part
    <3>4. t = <<r>> /\ ~Enters(r) /\ Checks(r, mine.callId)
      BY <2>1, <2>5, <3>2 DEF ReconcileEffect, Ask, Enters, Checks, IsReconcile
    <3>5. t \in Seq(KnownRequest) /\ DOMAIN t = {1} /\ t[1] = r
      BY <3>3, <3>4
    <3>6. /\ \A i \in DOMAIN s : i \in DOMAIN http' /\ http'[i] = s[i]
          /\ \A i \in DOMAIN t : Len(s) + i \in DOMAIN http' /\ http'[Len(s) + i] = t[i]
          /\ \A i \in DOMAIN http' : i \in DOMAIN s \/ \E j \in DOMAIN t : i = Len(s) + j
      BY <2>4, <3>5, ConcatSound
    <3>7. Checked(mine.callId)'
      BY <3>4, <3>5, <3>6 DEF Checked, Checks, IsReconcile
    <3>8. \A j \in DOMAIN http' :
             (\E k \in DOMAIN http : http'[j] = http[k]) \/ ~Enters(http'[j])
      BY <2>3, <3>4, <3>5, <3>6
    <3> QED
      BY <3>7, <3>8
  <2>6. CASE ~(mine # None /\ selectCallByChannel(slice, mine.channelId) = None)
    <3>1. t = <<>>
      BY <2>1, <2>6 DEF ReconcileEffect
    <3>2. http' = s
      BY <2>4, <3>1
    <3> QED
      BY <2>3, <2>6, <3>2
  <2> QED
    BY <2>5, <2>6
<1>7. ASSUME NEW c \in Call, IsMyActiveCall(slice', c) PROVE MineKnown(c)'
  <2>1. /\ IsMyActiveCall(slice, c) /\ mine # None /\ mine.callId = c
        /\ CallIdOf(mine) = c /\ CallIdOf(widget'.seen) = c
    BY <1>2, <1>3, <1>4, <1>7 DEF IsMyActiveCall, CallIdOf
  <2>2. /\ Begun(c)
        /\ Reported(c) \/ ToCheck(c) \/ (CallIdOf(widget.seen) = c /\ Checked(c))
    BY <2>1 DEF LiveInvariant, LiveRest, MineKnown
  <2>3. Begun(c)' /\ (Reported(c) => Reported(c)')
    BY <1>3, <2>2 DEF Begun, Reported, EndSent, Live, Ended
  <2>4. ToCheck(c) => Checked(c)'
    BY <1>2, <1>6, <2>1 DEF ToCheck
  <2>5. CallIdOf(widget.seen) = c /\ Checked(c) => Checked(c)'
    BY <1>5, <2>1 DEF Checked, Checks, IsReconcile
  <2> QED
    BY <2>1, <2>2, <2>3, <2>4, <2>5 DEF MineKnown
<1>8. \A c \in Call : MineKnown(c)'
  BY <1>7 DEF MineKnown
<1>9. \A j \in DOMAIN http' : (\E k \in DOMAIN http : http'[j] = http[k]) \/ ~Enters(http'[j])
  BY <1>5, <1>6
<1>10. \A c \in Call : Begun(c) => Begun(c)'
  BY <1>3 DEF Begun
<1> QED
  BY <1>8, <1>9, <1>10, RestKept

\* The SDK, its timers and the buttons of the widget change nothing of this, and
\* handleClose only sends a leave.
LEMMA SdkKnown ==
    ASSUME LiveInvariant, Settled,
           \/ InitSucceeds \/ InitFails \/ RetryFires \/ RoomJoins \/ RoomJoined
           \/ CloseClick \/ CloseContinues \/ RetryClick \/ ResizeClick
    PROVE  LiveRest'
<1>1. widget \in WidgetState /\ GoodWidget(widget) /\ http \in Seq(KnownRequest)
  BY TabTypes DEF LiveInvariant, TabInvariant, GoodWidget
<1>2. /\ phase' = phase /\ inbox' = inbox /\ stale' = stale /\ slice' = slice
  BY DEF InitSucceeds, InitFails, RetryFires, RoomJoins, RoomJoined, CloseClick,
         CloseContinues, RetryClick, ResizeClick, Click, webVars, server, wire
<1>3. widget'.seen = widget.seen
  <2>1. CASE InitSucceeds \/ RoomJoins \/ RoomJoined \/ CloseContinues \/ ResizeClick
    BY <1>1, <2>1
       DEF InitSucceeds, RoomJoins, RoomJoined, CloseContinues, ResizeClick, WidgetState
  <2>2. CASE InitFails
    BY <1>1, <2>2 DEF InitFails, AfterFailure, WidgetState
  <2>3. CASE RetryFires \/ RetryClick
    BY <1>1, <2>3 DEF RetryFires, RetryClick, attemptInit, WidgetState
  <2>4. CASE CloseClick
    <3>1. PICK w : w = leaveRoom(widget)
      OBVIOUS
    <3>2. w \in WidgetState /\ w.seen = widget.seen
      BY <1>1, <3>1, LeaveRoomSound DEF GoodWidget
    <3>3. widget' = [w EXCEPT !.closing = MyCall]
      BY <2>4, <3>1 DEF CloseClick
    <3> QED
      BY <3>2, <3>3 DEF WidgetState
  <2> QED
    BY <2>1, <2>2, <2>3, <2>4
<1>4. Asked
  <2>1. CASE CloseContinues
    <3>1. PICK c \in Call : c = widget.closing
      BY <1>1, <2>1 DEF CloseContinues, WidgetState
    <3>2. PICK r : r = Ask("widget", "leave", c, ChannelOf[c])
      OBVIOUS
    <3>3. r \in KnownRequest /\ ~Enters(r)
      <4>1. ChannelOf[c] \in Channel
        BY WebAssumption DEF WebAssumption
      <4>2. r \in KnownRequest
        BY <3>2, <4>1, AskSound DEF Part
      <4> QED
        BY <3>2, <4>2 DEF Ask, Enters
    <3>4. PICK one : one = <<r>>
      OBVIOUS
    <3>5. one \in Seq(KnownRequest) /\ \A i \in DOMAIN one : ~Enters(one[i])
      BY <3>3, <3>4
    <3>6. http' = Append(http, r)
      BY <2>1, <3>1, <3>2 DEF CloseContinues
    <3>7. http' = http \o one
      BY <1>1, <3>3, <3>4, <3>6
    <3> QED
      BY <1>1, <3>5, <3>7, AsksAdded
  <2>2. CASE http' = http
    BY <2>2 DEF Asked
  <2> QED
    BY <2>1, <2>2 DEF InitSucceeds, InitFails, RetryFires, RoomJoins, RoomJoined, CloseClick,
       RetryClick, ResizeClick, webVars
<1>5. ASSUME NEW c \in Call
      PROVE  /\ Begun(c) => Begun(c)'
             /\ Reported(c) => Reported(c)'
             /\ Checked(c) => Checked(c)'
  BY <1>2, <1>4 DEF Begun, Reported, EndSent, Live, Ended, Asked, Checked, Checks, IsReconcile
<1>6. \A j \in DOMAIN http' : (\E k \in DOMAIN http : http'[j] = http[k]) \/ ~Enters(http'[j])
  BY <1>4 DEF Asked
<1> QED
  BY <1>2, <1>3, <1>5, <1>6, SameMine

\* The answer to a check clears a call that is over; one that fails leaves it stale.
LEMMA ReconcileKnown ==
    ASSUME LiveInvariant, Settled, ReconcileAnswer
    PROVE  LiveRest'
<1>1. slice \in CallsPluginState /\ http \in Seq(KnownRequest)
  BY TabTypes DEF LiveInvariant
<1>2. PICK i \in DOMAIN http :
         /\ IsReconcile(http[i])
         /\ slice' = IF ~http[i].ok THEN slice
                     ELSE IF http[i].ended THEN clearMyActiveCall(slice)
                     ELSE upsertCall(slice, http[i].channel, http[i].call, http[i].participants)
         /\ stale' = IF http[i].ok THEN StaleAfter(http[i]) ELSE stale \cup {http[i].call}
         /\ http' = RemoveAt(http, i)
  BY DEF ReconcileAnswer
<1>3. phase' = phase /\ inbox' = inbox /\ widget' = widget
  BY DEF ReconcileAnswer, server, wire
<1>4. PICK r \in KnownRequest : r = http[i] /\ r.call \in Call /\ r.channel \in Channel
                                /\ r.participants \in SUBSET User
  <2>1. http[i] \in KnownRequest
    BY <1>1, LenProperties, ElementOfSeq
  <2> QED
    BY <1>2, <2>1 DEF KnownRequest, Known, Request, IsReconcile
<1>5. /\ slice'.myActiveCall \in {slice.myActiveCall, None}
      /\ r.ok /\ r.ended => slice'.myActiveCall = None
  <2>1. clearMyActiveCall(slice).myActiveCall = None
    BY <1>1, ClearEntry
  <2>2. slice' = IF ~r.ok THEN slice
                 ELSE IF r.ended THEN clearMyActiveCall(slice)
                 ELSE upsertCall(slice, r.channel, r.call, r.participants)
    BY <1>2, <1>4
  <2>3. upsertCall(slice, r.channel, r.call, r.participants).myActiveCall = slice.myActiveCall
    BY <1>1, <1>4 DEF upsertCall, CallsPluginState
  <2> QED
    BY <2>1, <2>2, <2>3
<1>6. \A c \in stale \ stale' : Live(c)
  BY <1>2 DEF StaleAfter
<1>7. \A k \in DOMAIN http \ {i} : \E j \in DOMAIN http' : http'[j] = http[k]
  BY <1>1, <1>2, RemoveAtSound
<1>8. \A j \in DOMAIN http' : \E k \in DOMAIN http : http'[j] = http[k]
  BY <1>1, <1>2, RemoveAtFrom
<1>9. ASSUME NEW c \in Call PROVE MineKnown(c)'
  <2>1. IsMyActiveCall(slice', c) => IsMyActiveCall(slice, c)
    BY <1>5 DEF IsMyActiveCall
  <2>2. (Begun(c) => Begun(c)') /\ (Reported(c) => Reported(c)')
    BY <1>3, <1>6 DEF Begun, Reported, EndSent, Live, Ended
  <2>3. ASSUME IsMyActiveCall(slice', c), Checked(c) PROVE Reported(c)' \/ Checked(c)'
    <3>1. PICK k \in DOMAIN http : Checks(http[k], c)
      BY <2>3 DEF Checked
    <3>2. CASE k # i
      <4>1. PICK j \in DOMAIN http' : http'[j] = http[k]
        BY <1>7, <3>2
      <4> QED
        BY <3>1, <4>1 DEF Checked, Checks, IsReconcile
    <3>3. CASE k = i
      <4>1. r.call = c /\ ~r.ok
        BY <1>4, <1>5, <2>3, <3>1, <3>3 DEF Checks, IsMyActiveCall
      <4>2. c \in stale'
        BY <1>2, <1>4, <4>1
      <4> QED
        BY <4>2 DEF Reported
    <3> QED
      BY <3>2, <3>3
  <2> QED
    BY <1>3, <2>1, <2>2, <2>3, StaysKnown
<1>10. \A c \in Call : Begun(c) => Begun(c)'
  BY <1>3 DEF Begun
<1> QED
  BY <1>8, <1>9, <1>10, RestKept

\* The tab leaves its call, or is reloaded.
LEMMA ClearedKnown ==
    ASSUME LiveInvariant,
           (\E room \in {"in", "leaving"} : RoomLeft(room)) \/ CloseAnswer \/ Unload
    PROVE  LiveRest'
<1>1. slice \in CallsPluginState /\ http \in Seq(KnownRequest)
  BY TabTypes DEF LiveInvariant
<1>2. phase' = phase
  BY DEF RoomLeft, CloseAnswer, Unload, server
<1>3. slice'.myActiveCall = None
  <2>1. slice' = clearMyActiveCall(slice) \/ slice' = setPluginEnabled(initialState, TRUE)
    BY DEF RoomLeft, CloseAnswer, AfterClose, Unload
  <2>2. setPluginEnabled(initialState, TRUE).myActiveCall = None
    BY DEF setPluginEnabled, initialState
  <2> QED
    BY <1>1, <2>1, <2>2, ClearEntry
<1>4. PICK t \in Seq(KnownRequest) :
         t = LeaveMine("beacon") /\ \A i \in DOMAIN t : ~Enters(t[i])
  <2>1. "beacon" \in Part \ {"header"}
    BY DEF Part
  <2>2. LeaveMine("beacon") \in Seq(KnownRequest)
    BY <1>1, <2>1, LeaveMineSound
  <2>3. \A i \in DOMAIN LeaveMine("beacon") : ~Enters(LeaveMine("beacon")[i])
    BY DEF LeaveMine, Ask, Enters
  <2> QED
    BY <2>2, <2>3
<1>5. ASSUME NEW j \in DOMAIN http'
      PROVE  \/ \E k \in DOMAIN http : http'[j] = http[k]
             \/ Enters(http'[j]) => phase'[http'[j].call] # "silent"
  <2>1. CASE \E room \in {"in", "leaving"} : RoomLeft(room)
    <3>1. http' = http \o t
      BY <1>4, <2>1 DEF RoomLeft
    <3>2. Asked
      BY <1>1, <1>4, <3>1, AsksAdded
    <3> QED
      BY <1>5, <3>2 DEF Asked
  <2>2. CASE CloseAnswer
    <3>1. PICK i \in DOMAIN http : http' = RemoveAt(http, i)
      BY <2>2 DEF CloseAnswer
    <3> QED
      BY <1>1, <1>5, <3>1, RemoveAtFrom
  <2>3. CASE Unload
    <3>1. PICK I \in SUBSET DOMAIN http :
             I = {i \in DOMAIN http : http[i].stage = "sent" /\ http[i].kind # "get"}
      OBVIOUS
    <3>2. PICK s \in Seq(KnownRequest) :
             s = InFlight(I) /\ \A k \in DOMAIN s : \E i \in I : s[k] = http[i]
      <4>1. /\ InFlight(I) \in Seq(KnownRequest)
            /\ \A k \in DOMAIN InFlight(I) : \E i \in I : InFlight(I)[k] = http[i]
        BY <1>1, InFlightSound
      <4> QED
        BY <4>1
    <3>3. PICK q : q = [k \in DOMAIN s |-> [s[k] EXCEPT !.part = "beacon"]]
      OBVIOUS
    <3>4. http' = q \o t
      BY <1>4, <2>3, <3>1, <3>2, <3>3 DEF Unload
    <3>5. ASSUME NEW k \in DOMAIN s
          PROVE  /\ q[k] \in Request
                 /\ Enters(q[k]) => phase[q[k].call] # "silent"
      <4>1. PICK i \in DOMAIN http : s[k] = http[i]
        BY <3>1, <3>2
      <4>2. PICK r \in KnownRequest : r = http[i]
        BY <1>1, LenProperties, ElementOfSeq
      <4>3. q[k] = [r EXCEPT !.part = "beacon"]
        BY <3>3, <4>1, <4>2
      <4>4. /\ q[k] \in Request /\ q[k].ok = r.ok /\ q[k].kind = r.kind /\ q[k].call = r.call
        BY <4>2, <4>3 DEF KnownRequest, Request, Part
      <4>5. Enters(r) => Begun(r.call)
        BY <4>2 DEF LiveInvariant, LiveRest
      <4> QED
        BY <4>4, <4>5 DEF Enters, Begun
    <3>6. q \in Seq(Request) /\ DOMAIN q = DOMAIN s
      <4>1. PICK n \in Nat : DOMAIN s = 1..n
        BY LenProperties
      <4>2. q \in [1..n -> Request]
        BY <3>3, <3>5, <4>1
      <4> QED
        BY <3>3, <4>2
    <3>7. t \in Seq(Request)
      <4>1. KnownRequest \subseteq Request
        BY DEF KnownRequest
      <4> QED
        BY <4>1
    <3>8. /\ \A k \in DOMAIN q : http'[k] = q[k]
          /\ \A i \in DOMAIN t : http'[Len(q) + i] = t[i]
          /\ j \in DOMAIN q \/ \E i \in DOMAIN t : j = Len(q) + i
      BY <1>5, <3>4, <3>6, <3>7, ConcatSound
    <3> QED
      BY <1>2, <1>4, <3>5, <3>6, <3>8
  <2> QED
    BY <2>1, <2>2, <2>3
<1>6. \A c \in Call : Begun(c) => Begun(c)'
  BY <1>2 DEF Begun
<1>7. \A c \in Call : MineKnown(c)'
  BY <1>3, NoneKnown
<1> QED
  BY <1>5, <1>6, <1>7, RestKept

\* All steps.
LEMMA LiveStep ==
    ASSUME LiveInvariant, [RoomNext]_roomVars
    PROVE  LiveInvariant'
<1>1. TabInvariant'
  BY TabStep DEF LiveInvariant
<1> SUFFICES LiveRest'
  BY <1>1 DEF LiveInvariant
<1>2. CASE Effects
  BY <1>2, EffectsKnown
<1>3. CASE Settled /\ [WebNext]_webVars /\ UNCHANGED widget
  BY <1>3, WebKnown
<1>4. CASE Settled /\ WidgetStep
  <2>1. CASE RoomDrops
    <3>1. CASE RoomLeft("in")
      BY <3>1, ClearedKnown
    <3>2. CASE widget'.seen = widget.seen /\ UNCHANGED webVars
      <4>1. UNCHANGED <<phase, inbox, stale, slice, http>>
        BY <3>2 DEF webVars, server, wire
      <4>2. \A c \in Call : /\ Begun(c) => Begun(c)'
                            /\ Reported(c) => Reported(c)'
                            /\ Checked(c) => Checked(c)'
        BY <4>1 DEF Begun, Reported, Live, EndSent, Ended, Checked, Checks, IsReconcile
      <4>3. \A j \in DOMAIN http' : \E k \in DOMAIN http : http'[j] = http[k]
        BY <4>1
      <4> QED
        BY <1>4, <3>2, <4>1, <4>2, <4>3, SameMine
    <3> QED
      <4>1. widget \in WidgetState
        BY DEF LiveInvariant, TabInvariant, GoodWidget
      <4> QED
        BY <2>1, <3>1, <3>2, <4>1 DEF RoomDrops, WidgetState
  <2> QED
    BY <1>4, <2>1, SdkKnown, ReconcileKnown, ClearedKnown DEF WidgetStep
<1>5. CASE UNCHANGED roomVars
  <2>1. UNCHANGED <<phase, inbox, stale, slice, http, widget>>
    BY <1>5 DEF roomVars, webVars, server, wire
  <2>2. ASSUME NEW c \in Call PROVE MineKnown(c)'
    <3>1. MineKnown(c)
      BY DEF LiveInvariant, LiveRest
    <3> QED
      BY <2>1, <3>1 DEF MineKnown, Begun, Reported, Live, EndSent, Ended, ToCheck, Checked,
         Checks, IsReconcile
  <2>3. \A i \in DOMAIN http : Enters(http[i]) => Begun(http[i].call)
    BY DEF LiveInvariant, LiveRest
  <2> QED
    BY <2>1, <2>2, <2>3 DEF LiveRest, Begun
<1> QED
  BY <1>2, <1>3, <1>4, <1>5 DEF RoomNext

\* The inductive invariant of MineIsLive: the call that the tab is in has begun, and
\* goes on; or its call_ended is on its way; or it is stale; or the widget is about
\* to check it, or is checking it.
THEOREM LiveInvariance == RoomSpec => []LiveInvariant
<1>1. WebInit /\ widget = NoWidget => LiveInvariant
  <2> SUFFICES ASSUME WebInit, widget = NoWidget PROVE LiveInvariant
    OBVIOUS
  <2>1. TabInvariant
    BY WebInitial, WidgetAssumption
       DEF TabInvariant, NoWidget, GoodWidget, WidgetState, MeetingOf, WidgetAssumption
  <2>2. DOMAIN http = {} /\ slice.myActiveCall = None
    BY DEF WebInit, setPluginEnabled, initialState
  <2> QED
    BY <2>1, <2>2 DEF LiveInvariant, LiveRest, MineKnown, IsMyActiveCall
<1>2. LiveInvariant /\ [RoomNext]_roomVars => LiveInvariant'
  BY LiveStep
<1> QED
  BY <1>1, <1>2, PTL DEF RoomSpec

\* A tab at rest is in no call that is over, unless it has missed the end: whichever
\* of an answer and the events of its call came first, call_ended, or the widget's
\* check of a call that the slice lacks, has cleared it.
THEOREM MineIsLiveAlways == RoomSpec => []MineIsLive
<1>1. LiveInvariant => MineIsLive
  <2> SUFFICES ASSUME LiveInvariant, TabAtRest, NEW c \in Call, c \notin stale, MyCall = c
               PROVE  Live(c)
    BY DEF MineIsLive
  <2>1. DOMAIN inbox = {} /\ DOMAIN http = {} /\ Settled
    BY DEF TabAtRest, AtRest
  <2>2. IsMyActiveCall(slice, c) /\ CallIdOf(widget.seen) = c
    BY <2>1, WidgetAssumption
       DEF MyCall, CallIdOf, IsMyActiveCall, Settled, WidgetAssumption
  <2> QED
    BY <2>1, <2>2 DEF LiveInvariant, LiveRest, MineKnown, Reported, EndSent, ToCheck, Checked
<1> QED
  BY <1>1, LiveInvariance, PTL
=============================================================================
