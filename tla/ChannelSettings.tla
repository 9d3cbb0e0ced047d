-------------------------- MODULE ChannelSettings ---------------------------
(***************************************************************************)
(* In which channels calls are enabled: the table rtk_calls_channels, its  *)
(* import from the Calls plugin at the activation of a node, the handlers  *)
(* that read and write it, the check of CreateCall, and one browser tab    *)
(* that caches the answers, from its boot on.  The setting of a credential *)
(* in the admin console, which asks the server in the same way, is here    *)
(* as well.                                                                *)
(*                                                                         *)
(* A query is one step; what a handler or the import does in several       *)
(* queries is several steps.  A request is served by a node that is        *)
(* active, and it or its answer may be lost.                               *)
(***************************************************************************)
EXTENDS CallsSlice, Sequences

CONSTANTS Node,
          Manageable,   \* public and private channels; DM and GM channels are not
          MaxChanges,   \* bound: writes of other admins, calls that end, configurations
          MaxClicks,    \* bound: what the user of the tab does
          MaxRequests   \* bound: requests of the tab in flight

ASSUME SettingsAssumption ==
    /\ Manageable \subseteq Channel
    /\ Node # {}
    /\ None \notin BOOLEAN

VARIABLES calls_channels,      \* the Calls plugin's table: its rows and the disabled ones
          rtk_calls_channels,  \* by channel: the flag "enabled", None without a row
          activation,          \* by node: the step of MaybeImportCallsChannels
          server,              \* the plugin is configured, a credential is an env variable
          active,              \* channels with an active call
          create,              \* a CreateCall that runs, or None
          slice, tab, http,    \* the tab: Redux, local state, requests in flight
          chosen, had, changed, failed,  \* history, see SettingsInit
          budget

tables == <<calls_channels, rtk_calls_channels, activation>>
calls == <<active, create>>
client == <<slice, tab, http>>
history == <<chosen, had, changed, failed>>
settingsVars == <<tables, server, calls, client, history, budget>>

Entries == UNION {[S -> BOOLEAN \cup {None}] : S \in SUBSET Channel}

Ask(kind, boot, entries) ==
    [kind |-> kind, boot |-> boot, entries |-> entries, stage |-> "sent",
     ok |-> FALSE, enabled |-> None]

NoEntries == [ch \in {} |-> None]

Entry(channel, enabled) == [ch \in {channel} |-> enabled]

SettingsInit ==
    /\ calls_channels \in {t \in [rows : SUBSET Channel, disabled : SUBSET Channel] :
                              t.disabled \subseteq t.rows}
    /\ rtk_calls_channels \in [Channel -> {FALSE, None}]
    /\ activation \in [Node -> {"probe", "active"}]
    /\ server \in [configured : BOOLEAN, viaEnv : BOOLEAN]
    /\ active \in SUBSET Channel
    /\ create = None
    /\ slice = initialState
    /\ tab = [boot |-> "config", view |-> None, viaEnv |-> None]
    /\ http = <<Ask("config", TRUE, NoEntries)>>
    /\ chosen = [ch \in Channel |-> None]  \* the last choice of an admin
    /\ had = [ch \in Channel |-> {rtk_calls_channels[ch] # FALSE}]
                                           \* what was in force since the page was loaded
    /\ changed = {}                        \* channels written since then
    /\ failed = FALSE                      \* a request of the boot has failed
    /\ budget = [changes |-> 0, clicks |-> 0]

\* A missing row counts as enabled.
Enabled(ch) == rtk_calls_channels[ch] # FALSE

-----------------------------------------------------------------------------
(* The table, and its import.                                              *)

\* rows is the new table: what is in force is history, also for a CreateCall
\* that is under way.
Write(rows) ==
    /\ rtk_calls_channels' = rows
    /\ had' = [ch \in Channel |-> had[ch] \cup {rows[ch] # FALSE}]
    /\ changed' = changed \cup {ch \in Channel : rows[ch] # rtk_calls_channels[ch]}
    /\ create' = IF create = None THEN None
                 ELSE [create EXCEPT !.sawEnabled = @ \/ rows[create.channel] # FALSE]

GoesTo(n, step) == activation' = [activation EXCEPT ![n] = step]

\* Is there a table calls_channels?  An empty one has the same effect as none.
ImportProbe(n) ==
    /\ activation[n] = "probe"
    /\ GoesTo(n, IF calls_channels.rows = {} THEN "active" ELSE "count")
    /\ UNCHANGED <<calls_channels, rtk_calls_channels, server, calls, client, history, budget>>

ImportCount(n) ==
    /\ activation[n] = "count"
    /\ GoesTo(n, IF \E ch \in Channel : rtk_calls_channels[ch] # None
                 THEN "active" ELSE "insert")
    /\ UNCHANGED <<calls_channels, rtk_calls_channels, server, calls, client, history, budget>>

\* Mutant: ON CONFLICT DO UPDATE.
MutImported(ch) ==
    IF ch \in calls_channels.rows THEN ch \notin calls_channels.disabled
    ELSE rtk_calls_channels[ch]

\* INSERT ... SELECT ... ON CONFLICT DO NOTHING; NULL counts as enabled.
Imported(ch) ==
    IF rtk_calls_channels[ch] = None /\ ch \in calls_channels.rows
    THEN ch \notin calls_channels.disabled ELSE rtk_calls_channels[ch]

ImportInsert(n) ==
    /\ activation[n] = "insert"
    /\ Write([ch \in Channel |-> Imported(ch)])
    /\ GoesTo(n, "active")
    /\ UNCHANGED <<calls_channels, server, active, client, chosen, failed, budget>>

UpdateCallsChannelEnabled(ch, enabled) ==
    /\ ch \in Manageable
    /\ Write([rtk_calls_channels EXCEPT ![ch] = enabled])
    /\ chosen' = [chosen EXCEPT ![ch] = enabled]
    /\ UNCHANGED <<calls_channels, activation, server, active, failed>>

SomeNodeActive == \E n \in Node : activation[n] = "active"

Change ==
    /\ budget.changes < MaxChanges
    /\ budget' = [budget EXCEPT !.changes = @ + 1]
    /\ UNCHANGED client

OtherAdminWrites ==
    /\ Change /\ SomeNodeActive
    /\ \E ch \in Channel, enabled \in BOOLEAN : UpdateCallsChannelEnabled(ch, enabled)

\* The plugin is configured, or its configuration removed.
ConfigurationChanges ==
    /\ Change
    /\ server' = [server EXCEPT !.configured = ~@]
    /\ UNCHANGED <<tables, calls, history>>

-----------------------------------------------------------------------------
(* CreateCall, as far as the setting is concerned.  Bound: one at a time.  *)

CreateAsked(ch) ==
    [channel |-> ch, checked |-> FALSE, sawEnabled |-> Enabled(ch)]

\* Of another client, which may not know the setting.
OtherClientStarts ==
    /\ Change /\ SomeNodeActive
    /\ create = None
    /\ \E ch \in Channel : create' = CreateAsked(ch)
    /\ UNCHANGED <<tables, server, active, history>>

\* Mutant: the setting is not looked at.
MutMayStart(ch) == TRUE

MayStart(ch) == Enabled(ch)

CreateCheck ==
    /\ create # None /\ ~create.checked
    /\ create' = IF MayStart(create.channel) THEN [create EXCEPT !.checked = TRUE] ELSE None
    /\ UNCHANGED <<tables, server, active, client, history, budget>>

\* The insert, unless the channel has an active call.
CreateInsert ==
    /\ create # None /\ create.checked
    /\ active' = active \cup {create.channel}
    /\ create' = None
    /\ UNCHANGED <<tables, server, client, history, budget>>

CallEnds ==
    /\ Change
    /\ \E ch \in active : active' = active \ {ch}
    /\ UNCHANGED <<tables, server, create, history>>

-----------------------------------------------------------------------------
(* Requests of the tab.                                                    *)

Send(requests) ==
    /\ Len(http) + Len(requests) <= MaxRequests
    /\ http' = http \o requests

Without(i) == [k \in 1..(Len(http) - 1) |-> http[IF k < i THEN k ELSE k + 1]]

Answer(i, ok, enabled, entries) ==
    http' = [http EXCEPT ![i] = [@ EXCEPT !.stage = "answered", !.ok = ok,
                                          !.enabled = enabled, !.entries = entries]]

\* GetAllCallChannels: a row, or an active call and then no flag.
AllChannels ==
    [ch \in {x \in Channel : rtk_calls_channels[x] # None \/ x \in active}
        |-> rtk_calls_channels[ch]]

OnlyChannel(r) == CHOOSE ch \in DOMAIN r.entries : TRUE

ServePut(i) ==
    LET ch == OnlyChannel(http[i])
    IN  \/ /\ UpdateCallsChannelEnabled(ch, http[i].entries[ch])
           /\ Answer(i, TRUE, None, http[i].entries)
        \/ /\ ch \notin Manageable
           /\ Answer(i, FALSE, None, http[i].entries)
           /\ UNCHANGED <<tables, server, calls, history>>

ServeRead(i) ==
    LET r == http[i]
    IN  /\ r.kind # "put"
        /\ Answer(i, TRUE,
                  CASE r.kind = "config" -> server.configured
                    [] r.kind = "admin" -> server.viaEnv
                    [] OTHER -> None,
                  CASE r.kind = "bulk" -> AllChannels
                    [] r.kind = "get" -> Entry(OnlyChannel(r), Enabled(OnlyChannel(r)))
                    [] OTHER -> NoEntries)
        /\ UNCHANGED <<tables, server, calls, history>>

Serve ==
    /\ SomeNodeActive
    /\ \E i \in DOMAIN http :
         /\ http[i].stage = "sent"
         /\ ServeRead(i) \/ (http[i].kind = "put" /\ ServePut(i))
    /\ UNCHANGED <<slice, tab, budget>>

\* pluginFetch resolves with an error: the request, or its answer, is lost.
FetchFails ==
    /\ \E i \in DOMAIN http :
         /\ http[i].stage = "sent" \/ http[i].ok
         /\ Answer(i, FALSE, None, http[i].entries)
         /\ failed' = (failed \/ http[i].boot)
    /\ UNCHANGED <<tables, server, calls, slice, tab, chosen, had, changed, budget>>

-----------------------------------------------------------------------------
(* The boot of the plugin in the tab, and its handler of reconnects.       *)

\* Mutant: an error leaves the flag undefined.
MutAfterConfig(s, r) == setPluginEnabled(s, r.enabled)

AfterConfig(s, r) == setPluginEnabled(s, r.ok /\ r.enabled = TRUE)

AfterBulk(s, r) == IF r.ok THEN setChannelEnabledBulk(s, r.entries) ELSE s

\* useChannelEnabled, and the click on the menu item: the answer of the server.
AfterOne(s, r) ==
    IF r.ok THEN setChannelEnabled(s, OnlyChannel(r), r.entries[OnlyChannel(r)]) ELSE s

\* Mutant: the components do not wait for the channels.
MutBootAfter(r) == "ready"

\* The step of initialize after the await of r.
BootAfter(r) == IF r.kind = "config" THEN "channels" ELSE "ready"

\* Mutant: an error ends the chain.
MutThen(r) == IF r.kind = "config" /\ r.ok THEN <<Ask("bulk", r.boot, NoEntries)>> ELSE <<>>

\* initialize and the reconnect handler ask for the channels after the status.
Then(r) == IF r.kind = "config" THEN <<Ask("bulk", r.boot, NoEntries)>> ELSE <<>>

\* What the setting of a credential shows: an error counts as "not from env".
FromEnv(r) == r.ok /\ r.enabled = TRUE

DeliverAnswer ==
    /\ \E i \in DOMAIN http :
         LET r == http[i]
         IN  /\ r.stage = "answered"
             /\ slice' = CASE r.kind = "config" -> AfterConfig(slice, r)
                           [] r.kind = "bulk" -> AfterBulk(slice, r)
                           [] r.kind \in {"get", "put"} -> AfterOne(slice, r)
                           [] OTHER -> slice
             /\ tab' = [tab EXCEPT !.boot = IF r.boot THEN BootAfter(r) ELSE @,
                                   !.viaEnv = IF r.kind = "admin" THEN FromEnv(r) ELSE @]
             /\ http' = Without(i) \o Then(r)
    /\ UNCHANGED <<tables, server, calls, history, budget>>

-----------------------------------------------------------------------------
(* What the user does in the tab.                                          *)

Click ==
    /\ tab.boot = "ready" /\ budget.clicks < MaxClicks
    /\ budget' = [budget EXCEPT !.clicks = @ + 1]
    /\ UNCHANGED <<tables, server, active, history>>

\* The header button, and its variant in the dropdown.
HeaderVisible(ch) == slice.pluginEnabled /\ slice.channelEnabledState[ch] # FALSE

\* The user opens a channel: its components run useChannelEnabled, which asks
\* only when nothing is known.
OpenChannel(ch) ==
    /\ Click /\ tab.view # ch
    /\ tab' = [tab EXCEPT !.view = ch]
    /\ IF slice.channelEnabledState[ch] # None THEN UNCHANGED http
       ELSE Send(<<Ask("get", FALSE, Entry(ch, None))>>)
    /\ UNCHANGED <<slice, create>>

\* The label of the menu item, which only admins see.
MenuSaysEnable(ch) == slice.channelEnabledState[ch] = FALSE

\* The click on it asks for the opposite of what is known, enabled by default.
Toggle ==
    /\ Click /\ tab.view # None
    /\ Send(<<Ask("put", FALSE, Entry(tab.view, MenuSaysEnable(tab.view)))>>)
    /\ UNCHANGED <<slice, tab, create>>

StartClick ==
    /\ Click /\ tab.view # None /\ HeaderVisible(tab.view)
    /\ SomeNodeActive /\ create = None
    /\ create' = CreateAsked(tab.view)
    /\ UNCHANGED <<slice, tab, http>>

\* The WebSocket reconnects.
Reconnect ==
    /\ Click
    /\ Send(<<Ask("config", FALSE, NoEntries)>>)
    /\ UNCHANGED <<slice, tab, create>>

\* EnvVarCredentialSetting is mounted, and shows "loading" until the answer.
OpenAdminConsole ==
    /\ Click
    /\ tab' = [tab EXCEPT !.viaEnv = None]
    /\ Send(<<Ask("admin", FALSE, NoEntries)>>)
    /\ UNCHANGED <<slice, create>>

-----------------------------------------------------------------------------

SettingsNext ==
    \/ \E n \in Node : ImportProbe(n) \/ ImportCount(n) \/ ImportInsert(n)
    \/ OtherAdminWrites \/ ConfigurationChanges
    \/ OtherClientStarts \/ CreateCheck \/ CreateInsert \/ CallEnds
    \/ Serve \/ FetchFails \/ DeliverAnswer
    \/ \E ch \in Channel : OpenChannel(ch)
    \/ Toggle \/ StartClick \/ Reconnect \/ OpenAdminConsole

\* Activations end, and requests are answered, with an error if need be.
SettingsFairness ==
    /\ \A n \in Node : WF_settingsVars(ImportProbe(n) \/ ImportCount(n) \/ ImportInsert(n))
    /\ WF_settingsVars(Serve \/ FetchFails)
    /\ WF_settingsVars(DeliverAnswer)

SettingsSpec == SettingsInit /\ [][SettingsNext]_settingsVars /\ SettingsFairness
=============================================================================
