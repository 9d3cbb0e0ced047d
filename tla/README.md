# Verification of the RTK calls plugin

TLA+ models, TLC runs and TLAPS proofs about the Mattermost plugin in `src/`:
a Go server plugin that keeps calls in PostgreSQL and drives Cloudflare
RealtimeKit (RTK), and a React web app.

## 1. The system

| Part | State | Operations | Talks to |
|---|---|---|---|
| SQL store (`server/store/sqlstore/calls.go`, migrations) | `rtk_call_sessions`, `rtk_call_participants`, `rtk_channel_meetings` | CreateCallSession, AddCallParticipant, RemoveCallParticipant, EndCall, UpdateCallSessionID, SaveChannelMeeting, reads | the call handlers of every node |
| Call handlers (`server/app/calls.go`) | `callMu`, the RTK client pointer | CreateCall, JoinCall, LeaveCall, EndCall, ReconcileCallOnDemand | store, RTK, posts, WebSocket |
| RTK webhooks (`server/app/webhook.go`, `server/api/webhook.go`) | none | participantJoined, participantLeft, meeting.ended | store, posts, WebSocket, LeaveCall |
| HTTP API (`server/api`) | none | create, get, join (token), leave, end, dismiss, channels, config | the call handlers |
| App configuration (`configuration.go`, `plugin.go`, `app/app.go`, `sqlstore/config.go`) | the plugin configuration, `rtk_app_config`, an advisory lock | OnActivate, OnConfigurationChange, EnsureApp, ResolveAppByID | RTK account API, the call handlers' client |
| Webhook registration (`app/webhook_manager.go`) | `rtk_webhook_config` | RegisterWebhookIfNeeded, ReRegisterWebhook | RTK |
| Calls channels (`app/channels.go`, `sqlstore/calls_channels.go`) | `rtk_calls_channels` | enable, disable, list, import | CreateCall's disabled check |
| Push (`app/push.go`) | none | replaces the server's notification for DM and GM calls | CreateCall, emitCallEnded |
| RTK client (`server/rtkclient`) | none | GetMeeting, CreateMeeting, GenerateToken, webhooks, apps | Cloudflare |
| Web client: slice and handlers (`webapp/src/redux`, `index.tsx`) | the redux slice: calls by channel, my call, incoming call, pending switch, enabled channels | five WebSocket handlers, boot, reconnect | HTTP API, WebSocket |
| Web client: components (`webapp/src/components`) | open modals, errors, the dismissed toast | start, join, switch, ignore, the post's fetch on mount | HTTP API, the slice |
| Floating widget (`components/floating_widget`) | the meeting, retries and their timer, errors, size | initialise the SDK, join and leave the room, close, check a missing call | RTK SDK, HTTP API, the slice |

A call starts with `POST /calls` (a post in the channel, a row, a
`call_started` event, a token), changes with joins and leaves from the HTTP API
and from RTK's webhooks (row, post, event), and ends on one of many paths: the
creator's `DELETE`, the removal of the last participant, `meeting.ended`, or the
discovery by a create, a join or a get that RTK does not know the meeting any
more.

What is hard in it:

* Several server nodes share the tables. `callMu` is a mutex of one process, so
  between nodes only the transactions of the store exclude each other.
* `HandleWebhookParticipantJoined` does not take `callMu` at all.
* A handler is a sequence of calls to four systems (store, RTK, posts,
  WebSocket), each of which may fail, and the state read at its start may be old
  at its end.
* An RTK meeting is reused by the calls of a channel; `meeting.ended` names the
  meeting only.
* A configuration change replaces the RTK client while handlers use it.
* In the browser the answer of a request and the events of the same call come
  on different connections, in any order; several components join calls on
  their own; a call is switched or ended while an earlier await, timer or SDK
  callback is still to come.
* The settings of channels are imported by every node that is activated, chosen
  by admins, and cached by every tab.

What makes each part correct: the store never has two active calls in a channel
or an active call nobody is in, and never changes an ended call; the handlers
announce each end once, and leave post, events and table in agreement; a token
implies a row; every request is answered; a live call does not end because RTK
had a bad moment; a tab stops ringing for, showing and sitting in a call that is
over, and its room is left; connecting ends in a meeting or an error; an admin's
choice is never undone by an import. For the parts that are not modelled yet the plan below names
the properties. `PROJECT.json` lists every hazard at its source line with the
properties that guard it.

## 2. The modules

| Module | What it is |
|---|---|
| `CallStore` | The three tables; one action per public method that changes them. |
| `CallStoreProofs` | Theorems about `CallStore`, for every value of the constants. |
| `CallService` | The handlers on all nodes, `EXTENDS CallStore`. |
| `CallServiceProperties` | What `CallService` has to guarantee; the refinement of `CallFeed`. |
| `CallFeed` | The abstract promise to a WebSocket client: started, then participant lists, then ended, then nothing. |
| `CallServiceProofs` | Types, mutual exclusion, the control flow of the handlers, and that `CallService` implements `CallStore`. |
| `CallServiceSafetyProofs` | Theorems for any number of nodes: posts, the causes of ends. |
| `CallServiceNodeProofs`, `CallServiceAgreementProofs` | Theorems about one node: announcements, tokens, the refinement of `CallFeed`, and the agreement of posts and events with the store. |
| `MCCallService` | The initial states and the symmetry of the `CallService` runs. |
| `CallsSlice` | The Redux slice: one operator per case of the reducer, and the selectors. |
| `WebSocketHandlers` | The five event handlers, as functions of the slice. `EXTENDS CallsSlice`. |
| `WebClient` | One tab: components, requests, events, and a server of one node: `CallFeed`, and participantJoined beside it. `EXTENDS WebSocketHandlers`. |
| `WebClientProperties`, `WebClientProofs`, `MCWebClient` | What the tab guarantees; theorems; instances for TLC. |
| `FloatingWidget` | The widget and the RTK SDK in that tab. `EXTENDS WebClient`. |
| `FloatingWidgetProperties`, `FloatingWidgetProofs`, `MCFloatingWidget` | What the widget guarantees; theorems; an instance. |
| `ChannelSettings` | Enabled channels: table, import, handlers, the tab's cache and boot, the admin console. `EXTENDS CallsSlice`. |
| `ChannelSettingsProperties`, `ChannelSettingsProofs`, `MCChannelSettings` | What holds of the settings; theorems; an instance. |

**CallStore.** `sessions[c]` is the row of call `c` or `None`; `participants` is
the set of rows `<<call, user>>`; `channelMeetings[ch]` the saved meeting. The
partial unique indexes of migration 000001 are the guards `ActiveConflict` and
`SessionIdTaken`. Each method is one transaction whose first statement locks the
row of its call, or a single statement, hence one atomic action. Times are opaque
stamps, `0` is the column's default; `joined_at`, `updateat` and `post_id` are left out.

**CallService.** A request `r` runs on `loc[r].node`; `pc[r]` is its next step and
`loc[r]` its arguments and local variables. The labels follow the code: `c_*`
CreateCall, `j_*` JoinCall, `l_*` LeaveCall, `e_load` EndCall, `end_*`
endCallInternal and emitCallEnded, `parts_*` updatePostParticipants, `g_*` the GET
handler, `reread` the second read under the lock, `w_*` the webhooks. A step is
one call that leaves the process: a transaction, an RTK call, GetPost,
UpdatePost, a publication. `Lock` waits for the node's `callMu`, `Return` runs the
deferred unlock. The time a request writes into `endat` is the request itself,
so `sessions[c].endat = r` says who ended `c`; the post's `endAt` is likewise.
`announced[c]` holds the requests that published `call_ended`, `wsParts[c]` the
list of participants of the last event, `tokens` the tokens handed out.
External systems are modelled from their use: RTK as the owner app of each meeting,
`"gone"` once it has forgotten it (404), posts as a map. Which faults occur is
the constant `Faults`: a transaction that fails, *applied or not*; an RTK error that is not a 404; a failing post
call; a meeting forgotten by RTK; a crash of a node; a configuration change. The
configuration change is its two visible effects, in any order. Webhooks come at
any time, repeatedly, about anybody who got a token.

Left out of the handlers: push notifications, display names, logging, and that
PostgreSQL may order the participants.

**CallsSlice, WebSocketHandlers.** A slice is a record with the fields of
`CallsPluginState`. A call keeps its id and its participants; a token is one bit that
differs from the one it replaces, because the code only compares tokens. The
handlers keep the names and the order of the code's dispatches.

**WebClient.** The server is one node; two nodes may publish in other orders, which
`double_end` shows and the tab's model does not have. The handlers under `callMu` are
moves of `CallFeed` (`phase`, `shown`), whose state and events change in one step, as
`CallService` without participantJoined was shown to implement it (`ImplementsFeed`).
`HandleWebhookParticipantJoined` takes no lock, so it is two steps: `ParticipantJoined`
commits the row and remembers the `user_joined` event in `rescues`, and `PublishRescue`
publishes it at any later time, after the call's end and the next call's start included.
Its commit may also fall between the commit and the publication of a handler under the
lock; `PublishList` has that order, in which the handler's list is the older one although it
comes last. Bound: two participantJoined that would publish the same event count as one.
Users who connect are not tied to the tokens they got; RTK admits a user who has left.

A request in `http` is sent, served and answered in three steps; `part` names the component
that waits. `/leave` answers a status without a body, which `pluginFetch` takes for an
error, so the widget's leave is answered by an error also when it was served. The rest of an
async click handler, after its `await`, is the operator `...Answer` that
`DeliverAnswer` applies. `inbox` holds the events on their way, in order.
`ui` has the modals, errors and the dismissed toast. The post of a call shows the
`end_at` of its props once the server's post update, which precedes `call_ended` on the same
connection, has arrived.

`stale` is history: the calls that the tab cannot know the truth about. A call gets stale

* when an event of it is lost, because the tab is offline;
* when an answer about it is acted upon that an event had overtaken;
* when an event is handled that does not tell how its channel is now (`Says`), and the
  channel shows the call afterwards while nothing more about that call will come
  (`Awaited`). Only the lists that participantJoined publishes late, or that it overtakes, can
  do so: `OnlyLateListsMislead` proves that without this webhook no event makes a
  call stale.

It is stale no more after its `call_ended`, or an event or an answer that shows it as it is.
Several properties except stale calls. What the code's comments and documents
promise beyond that is in section 5: `ended_post_active` (an overtaken answer), and the late
`user_joined`.

**FloatingWidget.** `widget` is the refs and the local state of the component and the
SDK's meeting. The effects of a render run before anything else happens in the tab
(React 17, one thread): a change of `myActiveCall` makes `Settled` false, and then only
`Effects` is possible, which runs the effects in the component's order. The SDK
is external: an initialisation takes time and succeeds or fails, one started
while another runs is ignored (`useRealtimeKitClient`). A room is new, then joining once
`RtkMeeting` is mounted (`RoomJoins`), in with `roomJoined` (`RoomJoined`), leaving and out; it
may be asked to leave at any point of this, while it is being joined included, or be lost. An
initialisation that succeeds replaces the meeting of the widget, as `meetingRef` moves on;
the room of the old meeting, if it was being joined or joined, goes into `abandoned`, where only the loss of
its connection or a reload takes it out, since nothing in the plugin refers to it any more.
`crossed` is history: since the current token, the SDK ignored an attempt, a timer that was
left over from another call started one, or the room of an earlier meeting was joined
(which ends "connecting" for the new call). In these cases the widget may
show the wrong meeting, which `MeetingIsMine` excepts; a successful initialisation does not set it. Bound: one
`handleClose` at a time. A post that is mounted again is not told apart from the first mount.

**ChannelSettings.** The import is three queries (`probe`, `count`, `insert`), so two
nodes and the choices of admins interleave with it. `CreateCall` is its check
and its insert. The tab boots as `initialize` does: configuration, all channels,
then its components. `had`, `chosen`, `changed`, `failed` are history for the properties.
Who may change a setting, and which channels the list shows to whom, is left
out. Bound: one CreateCall at a time.

Definitions whose names begin with `Mut` are mutated forms of the definition
below them, the bugs that the properties are there to detect; nothing uses them
otherwise. Substituting one for its original makes the run named in
`PROJECT.json` fail.

## 3. The runs

| Run | Instance | What it shows |
|---|---|---|
| `one_node` | 1 node, 3 requests, 2 calls on 2 meetings, 2 users; RTK errors, deleted meetings; all operations but participantJoined | With callMu the whole service is correct: ends are announced once and by their enders, post and events agree with the store when nothing runs, events come in `CallFeed`'s order, an ended post stays, tokens imply rows, calls end only for a cause. |
| `cluster` | 2 nodes, 2 requests, 2 calls on 2 meetings, 2 users, empty tables or a call in progress; all operations but participantJoined and the HTTP leave (participantLeft calls the same LeaveCall); RTK errors, deleted meetings | On two nodes: one active call in the channel, none without a participant, ended calls frozen, no orphan post from a lost race, no end without a cause; under fairness every request is answered, and every end is announced. |
| `faults` | 1 node, 2 requests of create, join, leave, get, participantJoined, 2 apps; crashes, store and post errors, configuration changes, and with them the panic on a nil RTK client, which nothing in the plugin recovers, so it ends the process | callMu is held exactly in the critical sections, whatever returns or dies; a call anyone was told about has its post; tokens imply rows. |
| `web_client` | 3 calls: two that follow each other in a direct channel, one in an open channel; 2 users; header, post, toast and notification; failing requests, a WebSocket that drops, participantJoined; 2 clicks, 2 moves of others, 2 requests and 2 events in flight | The tab stops ringing, shows the calls as they are once nothing is on its way, stops its spinner, and keeps showing the call it is in. |
| `web_room` | 2 calls in 2 channels, the user joining one while the other goes on; the toast's joins and switches, all controls of the widget, failing requests and initialisations, lost rooms, participantJoined, a reload; `MAX_RETRIES` 1 | The meeting is that of the call up to the three cases of `crossed`; a tab in no call leaves the room of its widget's meeting, and is in no dead call. |
| `web_progress` | the same, with the close and retry buttons, failing requests and initialisations | Under fairness ended calls disappear, connecting ends, in the call's meeting or an error unless `crossed`, and closing hangs up. |
| `web_settings` | 2 nodes, a public and a direct channel, a table to import or none; 1 change by others, 2 clicks, 2 requests | Choices survive imports, the cache invents nothing, the first frame hides disabled channels, only enabled channels get calls, the boot ends whatever fails. |
| `ended_post_active` | the calls of `web_client`, posts only, no faults | A disagreement, section 5. |
| `room_left_behind` | the calls of `web_room`, one switch by the toast, no faults | A disagreement, section 5. |
| `double_end`, `post_end_erased`, `token_without_row` | 1 or 2 nodes, 2 requests | Disagreements between the code and its documentation, section 5. |

Why the bounds are enough: the races of the code are between two handlers over
one call; in `one_node` three requests add a third party or a newer call in the channel (hence
2 calls and 2 meetings). `cluster` has two, because its liveness properties allow no symmetry.
Two users tell "somebody is left" from "the last one".
One channel suffices because channels meet only in the unique indexes of the store, and what these
guarantee across channels (one active call per meeting, one call per RTK session) is proved
(`ServiceStoreSafety`). The specification of `CallStore` on its own is not run: its actions are checked as
steps of `CallService`. The runs start with a call in progress in any
state its participants can have brought it to (`LiveInit`), so that few requests
reach the races; `cluster` also starts from empty tables. Symmetry is used over
requests, nodes and apps, which the models never distinguish, and in no run
with a liveness property.

Fairness is weak, per request, on the handler's own steps (`Handle(r)`): a goroutine
is scheduled, and calls return (with an error at worst). Weak fairness is
enough for the mutex because there are finitely many requests, and it matches
`sync.Mutex`, which does not starve a waiter. No fairness is assumed of
arriving requests, faults or RTK.

The client's races need a request, an event and a second action of the user, in
a call and its successor or a call and one in another channel: hence 2 of each
thing in flight, 2 clicks, and the initial states that are already in a call
(`InCall`, `Joining`). `web_room` has the toast as its only way to join, because the
widget sees the slice only, and the toast is the component that does not put the call
into it. `MAX_RETRIES` is 3 in the code; 1 already has a retry, a timer that
survives and the final error, and the safety part was also checked with 3. In
`web_settings` one change by others suffices for a choice between count and
insert; the safety part was also checked with 2. It starts from either state of the
environment's credential (`viaEnv`). The liveness properties of the widget are a run of their own,
because TLC checks them on the whole behaviour graph; to keep it small, lost rooms and
reloads (both of which take the tab out of its call), resizing and participantJoined are left to `web_room`.

Fairness in the client: `RoomFairness` says that as long as the browser, the
server or the SDK have something to do, one of them goes on, and does not say
which; that is enough because what they can do ends. `SettingsFairness` says
that activations end and that requests are answered, perhaps with an error,
which `pluginFetch` guarantees. Nothing is assumed of users, faults or other
nodes. The safety runs of the web client need no fairness.

Deadlock is not checked in the client's runs: with the bounds of the clicks used up
and nothing in flight, the tab rests.

`one_node` leaves out participantJoined, because with it `PostAgrees` and the order of
events fail (section 5). `cluster` has neither crashes nor store errors: after
either, the code has no path that announces the end later (hazards in `PROJECT.json`).

## 4. The proofs

`CallStoreProofs` proves for every value of the constants, from `StoreAssumption`
(`0` is not a time, `None` is not a row or a session id):

* `StoreTypeInvariant`: `StoreSpec => []StoreTypeOK`.
* `StoreSafety`: `StoreSpec => []StoreInvariant`, and from it `OneActiveCallAlways`,
  `ActiveHasParticipantAlways`, `SessionIdsUniqueAlways`.
* `EndedFrozen`: `StoreSpec => EndedStaysFrozen`.

The argument: the conjunction of the type invariant and the three invariants is
inductive. The one fact behind most steps is `RowChange`/`ActiveAfter`: no action
but `CreateCallSession` makes a call active, and no action changes the channel
or the meeting of a row. Hence only `CreateCallSession` can
break `OneActiveCall`, and its guard `ActiveConflict` is what the two indexes
check; only `RemoveCallParticipant` deletes rows, and it ends the call in the same
transaction when none is left; only `UpdateCallSessionID` writes a session id.

### The call handlers

The theorems about `CallService` hold for any sets of requests, calls, channels,
meetings, users and apps, any operations (`Ops`) and any `Faults`, from
`ServiceAssumption`: a request is its own time stamp, `None` is none of the
values it stands beside, `"gone"` is no app, sets of operations and faults are
subsets of the named ones. What more a theorem needs is in its `ASSUME`:

| Theorems | Nodes | Operations | Faults |
|---|---|---|---|
| `TypeOKAlways`, `MutexCoversAlways`, `ImplementsStore`, `ServiceStoreSafety`, `ServiceEndedFrozen`, `StartedHasPostAlways` | any | all | all |
| `EndsForCauseAlways` | any | all | all but configuration changes |
| `ReconcileEndsAlways` | any | all | RTK errors, deleted meetings, post errors |
| `PostIffSessionAlways` | any | all | RTK errors, deleted meetings |
| `OnlyEnderAnnouncesAlways`, `TokenMeansParticipantAlways` | one | all | all |
| `PostEndStableAlways` | one | all but participantJoined | all |
| `ImplementsFeed` | one | all but participantJoined | RTK errors, deleted meetings, post errors |
| `PostAgreesAlways`, `FeedAgreesAlways` | one | all but participantJoined | RTK errors, deleted meetings |

No condition is there for the proof's convenience; each excludes something that
really breaks the property:

* *One node.* Two nodes announce an end twice (`double_end`), and a failed join on one
  removes the row that a token of the other relies on (`token_without_row`).
* *No participantJoined.* It takes no mutex, so its write of the post can undo an end
  (`post_end_erased`), and its `user_joined` can follow `call_ended`.
* *No configuration change.* With the client of another account RTK answers 404 for a
  meeting that exists, and the handlers end a live call.
* *No failing store or crash.* A transaction that is applied although it
  returned an error, or a process that dies behind it, leaves the post as it was and the event unpublished; no code
  comes back to them. A reconciliation whose `EndCall` fails releases the mutex with
  the call alive.
* *No failing posts.* The code logs a post it could not write and goes on.

The arguments, module by module:

*CallServiceProofs.* `TypeOK` is not inductive: `endCallInternal` reads
`loc[r].subject`, a row that must exist. `ServiceInvariant` adds `Fits(r)`, what is
known of a request from the label it is at (its operation, and which of its
local variables are set), that the call of a token exists, and `MutexCovers`. `MutexCovers` goes in
because `Lock` and `Return` are inverse only if the holder is known. The
proof has one lemma per group of handlers, and they share the lemmas on control flow (`Goto`,
`Return`, `Fail`). From the invariant, each step of a handler is one transaction of
`CallStore` or leaves the tables alone (`ServiceStoreStep`), hence
`ImplementsStore`, and the store's theorems carry over: however many nodes
there are, their mutexes are not what keeps the tables right.

*CallServiceSafetyProofs.* `StartedHasPost`: a call id belongs to the one CreateCall that
made the post and is about to insert the row or delete the post
(`CreateInvariant`). `EndsForCause`: between the answer of RTK or the check of the creator
and the end that is stored, the request carries its reason with it (`CauseInvariant`: the meeting
it found missing stays missing, the creator of a row does not change).
`PostIffSession`: a post without a row is one that a CreateCall at `c_insert` or
`c_deletePost` still answers for.

*CallServiceNodeProofs.* On one node at most one handler is in its critical
section (`MutexCovers` with `OneNode`), so what a handler has read of a call still
holds when it acts on it. `NodeInvariant` says at which labels a handler knows the call
to be active, its user to be in the table, or the end to be its own. `FeedInvariant`
adds that a call in the table is announced as started, or its CreateCall is about to do so, and
that no call whose participants or end a handler is going to publish was announced as ended; with
it every publication is a step of `CallFeed`.

*CallServiceAgreementProofs.* While a handler runs, the table may be ahead of the post
and of the last event. `AgreeInvariant` names the labels where it is (the windows `PartsWindow`, `FeedWindow`,
`EndWindow`), and says that the handler in the window carries what it will
write (`Carries`). When no handler runs no window is open, and that is
`PostAgrees` and `FeedAgrees`. TLC checked `AgreeInvariant` on the instance of `one_node`
before it was proved.

The runs start from `LiveInit`, with a call in progress, to reach the races with few
requests; the theorems are about `Spec`, whose `Init` has empty tables, from which such
states are reached by creates and joins.

### The tab

`WebClientProofs` proves all five invariants of `web_client` (`WebTypeOKAlways`,
`RingIsLiveAlways`, `SpinnerStopsAlways`, `ViewIsCurrentAlways`, `MineHasEntryAlways`), for any
number of calls, channels, users, clicks, moves of
others, requests and events in flight, any components in use and all faults, from
`WebAssumption`: every id is minted for one channel, me is a user, the components
are the named ones, the bounds are naturals, and `None`, which stands for a missing entry, is
no entry. `RingInvariant` with `SpinnerStops` is
inductive. It has these parts:

* *Types of requests in flight.* A component that gets an answer uses its call.
  `Known` says which requests have one: all but the header's create, which gets it
  with its answer, and that a request nobody waits for is never answered.
* *What the inbox tells* (`Tells`). A `call_started` lies in the inbox only
  while its call is live, or before its `call_ended`; of a late `user_joined` this is not true, nor needed.
  The moves of the handlers under `callMu` publish their events in the same step, so each `Move`
  keeps this (`MoveTells`), what participantJoined publishes is a list (`Rescue`), and an event that
  is handled takes nothing away but the first.
* *What the phone rings for* (`RingTells`): `RingIsLive`, which is inductive
  with `Tells`. The phone starts to ring only at `call_started`, of a call that the inbox
  tells of; it stops at `call_ended`; what is lost while the tab is offline makes the call
  stale, and the inbox is empty then.
* *The spinner.* `callLoading` is set in the step that sends a request of the header, whose
  requests stay in flight until an answer takes them (`HeaderWaits`), and every
  answer to the header clears it, the answer of one of two clicks included.

The lemmas on `RemoveAt`, appended requests and the reducer's operators
(`RemoveAtSound`, `ConcatSound`, `UpsertSound`, ..., `HandlerSound`) carry most of it:
no reducer but `setIncomingCall` makes the phone ring, only the header's dispatches touch
`callLoading`.

`ViewIsCurrent` compares a tab at rest with the server; `ViewInvariant` says what holds on the way
there, about the server, the inbox and the slice:

* One call at a time goes on in a channel (`OneLive`).
* An event of an older call, unless it is a list that participantJoined may have published, comes
  before the `call_started` of the live one (`StartSaidAt`). This is about the order of
  publication, which `MoveWire` shows for every move at once, participantJoined's commit
  between a handler's commit and its publication included.
* What a channel shows of its live call, if that is not stale, is right, or something about that call is still to come,
  in the inbox or from participantJoined (`Expected`); an ended call that it shows, a `call_ended` will
  remove (`RightOn`). The handlers of
  `user_joined` and `user_left` put the event's list into *whatever* entry the channel has
  (`WithParticipants`). Such an entry is of another call only while `call_started` of the live one is
  still to come, in which case no lasting harm is done, or because the list comes from participantJoined
  (section 5); then the entry's call gets stale, unless more about it will come.

Both the order of lists and the exception for late ones are thus part of the invariant, not of the
model of the server. How wide the exception is, is a theorem of its own: `OnlyLateListsMislead` says
that in a system where participantJoined never arrives no event that the tab handles makes a call stale.
Its invariant adds `Timely`: the last event in the inbox about a live call has the call's
participants.

`MineHasEntry` cannot be shown of the tab's call alone: the toast and the notification join without
putting the call into the slice. `MineInvariant` therefore speaks of every call that the tab
*holds* (`Held`): the call it is in, the one that rings, the one that the toast's modal would switch
to, and those that a request in flight will take it into without an `upsertCall`. A live call
that is held is shown, or its `call_started` is coming, or the channel has a stale call
(`HeldShown`).

The first attempt at this proof failed at `DeliverEvent`, and TLC, with three clicks and three moves
from an empty tab, then found a counterexample to `MineHasEntry` as it was: `stale` dropped a call at
almost any event about it, such as a `user_joined` in a channel that shows no call, which the
handler ignores. The code was not at fault, the history variable was; `StaleAfterEvent` now
looks at what the channel shows after the event.

### The widget

`FloatingWidgetProofs` proves the four invariants of `web_room` (`NoCallNoRoomAlways`,
`RoomTypeOKAlways`, `MeetingIsMineAlways`, `MineIsLiveAlways`) and
`SpinnerStopsWithWidget`, from `WebAssumption` and `WidgetAssumption` (`None` is no call).

`NoCallNoRoom` is not inductive: the room is left by an effect, after the slice has
changed. `RoomInvariant` is about the call the effects have last seen
(`widget.seen`) instead: rooms are joined only while the widget shows a call, and the
effects that see none leave the room, joined or still being joined. It is about the widget's own
meeting only; of the meetings it replaced nothing like it is true (`room_left_behind`).

`TabInvariant` is the tab's invariant, which every step of `WebClient` keeps
(`WebStep` is used as it stands) and of which the widget's steps only touch requests and
slice (`WebSide`), with the widget's types and `MeetingOf`: unless `crossed`, the SDK
initialises nothing but the call that the effects have seen, and a meeting that is neither waited for
(`isJoining`) nor given up (`joinError`) is that call's. `MeetingIsMine` does not
mention the SDK, so it needs the first half: with another call's initialisation under way, its
success would bring the wrong meeting. No success sets `crossed`, so the proof has to show that
a success without it is the right one. The requests that survive a cleanup or a reload are those that
`SetToSeq` lists (`InFlightSound`).

`MineIsLive` is true for a different reason in each order in which an answer and
`call_ended` can reach the tab, and `LiveInvariant` lists them (`MineKnown`). The call that
the tab is in has begun, and it

* goes on, or its `call_ended` is in the inbox, or it is stale (`Reported`); or
* has just been entered, and the slice has no call of its channel (`ToCheck`): the answer came
  after `call_ended`, and the effects, which run before anything else, will ask for the call; or
* is being checked (`Checked`): the widget's request is in flight, and is not
  answered with "live" (`ServeChecks`). Its answer clears the call, its failure makes it stale.

At rest only the first is left. The effects' cleanup drops the check of a call when the tab is in
another one, and `Effects` sends nothing when only the token has changed, so
the check that is in flight has to be that of the call the effects have seen; that is why
`widget.seen` appears in the invariant. That the call has begun needs that every successful create
or join in flight is of such a call. TLC checked `LiveInvariant` on the instance of `web_room`, and
on random behaviours with three calls and a WebSocket that drops, before it was proved.

### The settings

`ChannelSettingsProofs` proves, from `SettingsAssumption`, for any number of nodes,
channels, changes and clicks, `ChoiceSticksAlways`, `StartsOnlyEnabledAlways`, `SettingsTypeOKAlways`,
`CacheInventsNothingAlways` and `FirstFrameAlways`.

For the first two the invariant adds to `ChoiceSticks` that a CreateCall that is checked, or whose
channel is enabled now, has seen it enabled (`CreateSaw`): every write of the table updates
what a running CreateCall has seen. The import keeps rows that are there, so
what it counted before does not matter.

For the others `ClientInvariant` follows an answer from the table to the tab:
what it says was in force at some time (`Truthful`), of which `had` is the exact history
(`HadIsHistory`); while the page boots, its one request (`OneBoot`) has not failed or the boot has,
and the list of channels names every disabled channel (`Complete`), so the
tab knows of them when its components appear (`BootInformed`). Others change the table
while answers travel; `Drift` is all that such a step may do to what an
answer was based on. The assumption `None \notin BOOLEAN` is there because the cache has
`None` where it knows nothing.

### Only model-checked

* The liveness properties `HandlersReturn`, `EndIsAnnounced`, `EndReachesTab`, `CallSettles`, `CloseHangsUp`,
  `BootFinishes`: they rest on fairness and ENABLED, which the prover cannot reason about.
* The five violations of section 5.

## 5. Where code and documentation disagree

* `double_end`: a second end on another node is announced again, with its own
  `end_at`, which also goes into the post. `docs/call-lifecycle.md:434` says that only the transaction
  that sets `EndAt` emits `call_ended`.
* `post_end_erased`: participantJoined reads the post, an end is written into the
  post, participantJoined writes the post it read: an ended call is shown as active.
* `token_without_row`: two joins of one user on two nodes; the compensation of the
  failed one deletes the row that the other relied on. The comment in
  JoinCall says that no token is returned for a user who is not in the DB.
* `ended_post_active`: a post is mounted and asks for its call; the call ends and
  `call_ended` is handled before the answer, which puts the ended call back
  into the store (`call_post/index.tsx:73`, no look at `end_at`). Nothing removes it again: the
  post offers to join. The comment at `call_post/index.tsx:67` wants the post to
  reflect reality, `ARCHITECTURE.md:535` an ended post once `EndAt > 0`.
* `room_left_behind`: "Leave and join new call" (`webapp/i18n/en.json:28`) leaves the old call on the server, then
  initialises the SDK for the new one, which replaces the meeting (`floating_widget/index.tsx:64`). No
  `leaveRoom` is called for the old meeting, so the tab stays in its room.

A late `user_joined` is part of the model and excepted (`stale`), not a run: participantJoined commits; the
call ends, and the channel's next one starts, before it publishes. `handleUserJoined` looks the call up by channel
(`websocket_handlers.ts:187`) and writes the old call's participants into the entry of the new one, where they stay
until something else is published about the new call. `webhook.go:33` checks the call id against just this
"cross-contamination", but only before the commit, and the client does not check it at all. Without the exception
for late lists TLC finds `ViewIsCurrent` violated so.

Read off the code, without a run: "Start new call" never shows the switch modal
(`ARCHITECTURE.md:527` says that a user in another call sees it), and the toast and the
notification join without `upsertCall`, although `floating_widget/index.tsx:213` counts on
it "in every join path"; `MineIsLive` holds in `web_room` because the widget's check
catches a call that has ended by the time the toast's join is answered.

## 6. The plan

In order; each is a module with its run, and proofs where noted.

1. `CallStore`, `CallService`, their properties and the store's proofs: done.
2. The proofs about `CallService`: done.
3. `CallStoreSQL`: the statements of the transactions with row locks and
   the atomic conditional update, implementing `CallStore` (refinement, a TLC run and the
   step lemma proved).
4. `RtkWebhooks`: rooms, connections and RTK sessions that cause the webhooks;
   delayed, duplicated and reordered events; whether a connected user stays in the table, and
   whether an event of an old call touches a new one.
5. `CallsSlice`, `WebSocketHandlers`, `WebClient`, `FloatingWidget`: done, their invariants proved.
6. `AppConfig`: EnsureApp under the advisory lock, StoreAppConfig's transaction, the
   configuration change as a sequence of steps, webhook registration
   (`RegisterWebhookIfNeeded`, `ReRegisterWebhook`) by several nodes.
7. `ChannelSettings`: done, its safety properties proved.
8. Small algorithms: customParticipantId, push suppression.

## 7. Not modelled

Migrations run once under the server's lock. Static assets, texts, sounds, layout,
the widget's position and its drag handlers, and the build tools keep no state
the above depends on. `server/assets/call.js` is a built bundle of third-party
code and of the call page. The call page (`call_page/CallPage.tsx`) is opened by
nothing in the plugin, `buildCallTabUrl` has no caller; its retry is that of the
floating widget. Authentication and JSON are outside the questions asked here,
`SaveCall` has no caller. Push notifications, webhook registration, and what the
plan lists after item 1 and does not mark as done are not modelled yet.
