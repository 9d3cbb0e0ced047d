----------------------- MODULE ChannelSettingsProofs ------------------------
(***************************************************************************)
(* Proofs about ChannelSettings, for any number of nodes, channels,        *)
(* changes, clicks and requests: what an admin chose is never undone, no   *)
(* call starts in a channel that was disabled all the while, and what the  *)
(* tab shows of a channel comes from the table, from its first frame on.   *)
(***************************************************************************)
EXTENDS ChannelSettingsProperties, SequenceTheorems, TLAPS

\* A CreateCall that found, or would find, the channel enabled has seen it so.
CreateSaw ==
    create # None =>
        /\ DOMAIN create = {"channel", "checked", "sawEnabled"}
        /\ create.checked \in BOOLEAN /\ create.sawEnabled \in BOOLEAN
        /\ create.checked => create.sawEnabled
        /\ Enabled(create.channel) => create.sawEnabled

\* The inductive invariant: with ChoiceSticks, that the tables are total.
SettingsInvariant ==
    /\ DOMAIN rtk_calls_channels = Channel
    /\ DOMAIN chosen = Channel
    /\ ChoiceSticks
    /\ CreateSaw

-----------------------------------------------------------------------------
(* The steps that write the table.                                         *)

\* Whatever table is written, a CreateCall that runs has seen it.
LEMMA WriteKeepsCreateSaw ==
    ASSUME CreateSaw, NEW rows, Write(rows)
    PROVE  CreateSaw'
<1>1. CASE create = None
  BY <1>1 DEF Write, CreateSaw
<1>2. CASE create # None
  <2>1. create' = [create EXCEPT !.sawEnabled = @ \/ rows[create.channel] # FALSE]
    BY <1>2 DEF Write
  <2>2. rtk_calls_channels' = rows
    BY DEF Write
  <2> QED
    BY <1>2, <2>1, <2>2 DEF CreateSaw, Enabled
<1> QED
  BY <1>1, <1>2

\* The import leaves a row alone that is there.
LEMMA ImportKeepsRows ==
    ASSUME NEW ch \in Channel, rtk_calls_channels[ch] # None
    PROVE  Imported(ch) = rtk_calls_channels[ch]
BY DEF Imported

\* The rows that an import inserts are of channels without a row.
LEMMA ImportInsertStep ==
    ASSUME SettingsInvariant, NEW n \in Node, ImportInsert(n)
    PROVE  SettingsInvariant'
<1>1. rtk_calls_channels' = [ch \in Channel |-> Imported(ch)] /\ chosen' = chosen
  BY DEF ImportInsert, Write
<1>2. ChoiceSticks'
  BY <1>1, ImportKeepsRows DEF ChoiceSticks, SettingsInvariant
<1>3. CreateSaw'
  BY WriteKeepsCreateSaw DEF ImportInsert, SettingsInvariant
<1> QED
  BY <1>1, <1>2, <1>3 DEF SettingsInvariant

\* A choice of an admin is the row of its channel from then on.
LEMMA UpdateStep ==
    ASSUME SettingsInvariant, NEW ch \in Channel, NEW enabled,
           UpdateCallsChannelEnabled(ch, enabled)
    PROVE  SettingsInvariant'
<1>1. /\ rtk_calls_channels' = [rtk_calls_channels EXCEPT ![ch] = enabled]
      /\ chosen' = [chosen EXCEPT ![ch] = enabled]
  BY DEF UpdateCallsChannelEnabled, Write
<1>2. ChoiceSticks'
  BY <1>1 DEF ChoiceSticks, SettingsInvariant
<1>3. CreateSaw'
  BY WriteKeepsCreateSaw DEF UpdateCallsChannelEnabled, SettingsInvariant
<1> QED
  BY <1>1, <1>2, <1>3 DEF SettingsInvariant

-----------------------------------------------------------------------------
(* The other steps.                                                        *)

\* Nothing else concerns the invariant than these three variables.
LEMMA SettingsStutter ==
    ASSUME SettingsInvariant, UNCHANGED <<rtk_calls_channels, chosen, create>>
    PROVE  SettingsInvariant'
BY DEF SettingsInvariant, ChoiceSticks, CreateSaw, Enabled

\* A CreateCall that arrives has seen the setting of that moment.
LEMMA CreateAskedStep ==
    ASSUME SettingsInvariant, NEW ch, create' = CreateAsked(ch),
           UNCHANGED <<rtk_calls_channels, chosen>>
    PROVE  SettingsInvariant'
<1>1. CreateSaw'
  BY DEF CreateSaw, CreateAsked, Enabled
<1> QED
  BY <1>1 DEF SettingsInvariant, ChoiceSticks

\* CreateCall goes on only where the setting that it has just read allows it.
LEMMA CreateCheckStep ==
    ASSUME SettingsInvariant, CreateCheck
    PROVE  SettingsInvariant'
<1>1. UNCHANGED <<rtk_calls_channels, chosen>>
  BY DEF CreateCheck, tables, history
<1>2. CreateSaw'
  <2>1. CASE MayStart(create.channel)
    <3>1. create # None /\ create' = [create EXCEPT !.checked = TRUE]
      BY <2>1 DEF CreateCheck
    <3>2. create.sawEnabled
      BY <2>1, <3>1 DEF MayStart, CreateSaw, SettingsInvariant
    <3> QED
      BY <1>1, <3>1, <3>2 DEF CreateSaw, Enabled, SettingsInvariant
  <2>2. CASE ~MayStart(create.channel)
    BY <2>2 DEF CreateCheck, CreateSaw
  <2> QED
    BY <2>1, <2>2
<1> QED
  BY <1>1, <1>2 DEF SettingsInvariant, ChoiceSticks

\* Only an admin's choice and the import touch the table, and only a CreateCall
\* that has been checked adds an active call.
LEMMA SettingsStep ==
    ASSUME SettingsInvariant, [SettingsNext]_settingsVars
    PROVE  SettingsInvariant'
<1> USE DEF tables, calls, client, history
<1>1. ASSUME NEW n \in Node, ImportProbe(n) PROVE SettingsInvariant'
  BY <1>1, SettingsStutter DEF ImportProbe
<1>2. ASSUME NEW n \in Node, ImportCount(n) PROVE SettingsInvariant'
  BY <1>2, SettingsStutter DEF ImportCount
<1>3. ASSUME NEW n \in Node, ImportInsert(n) PROVE SettingsInvariant'
  BY <1>3, ImportInsertStep
<1>4. CASE OtherAdminWrites
  BY <1>4, UpdateStep DEF OtherAdminWrites
<1>5. CASE ConfigurationChanges
  BY <1>5, SettingsStutter DEF ConfigurationChanges
<1>6. CASE OtherClientStarts
  BY <1>6, CreateAskedStep DEF OtherClientStarts
<1>7. CASE CreateCheck
  BY <1>7, CreateCheckStep
<1>8. CASE CreateInsert
  BY <1>8 DEF CreateInsert, SettingsInvariant, ChoiceSticks, CreateSaw
<1>9. CASE CallEnds
  BY <1>9, SettingsStutter DEF CallEnds
<1>10. CASE Serve
  <2>1. PICK i \in DOMAIN http : ServeRead(i) \/ ServePut(i)
    BY <1>10 DEF Serve
  <2>2. CASE ServeRead(i)
    BY <2>2, SettingsStutter DEF ServeRead
  <2>3. CASE ServePut(i)
    <3>1. CASE OnlyChannel(http[i]) \notin Manageable
               /\ UNCHANGED <<tables, server, calls, history>>
      BY <3>1, SettingsStutter
    <3>2. CASE UpdateCallsChannelEnabled(OnlyChannel(http[i]),
                                         http[i].entries[OnlyChannel(http[i])])
      <4>1. OnlyChannel(http[i]) \in Channel
        BY <3>2, SettingsAssumption DEF UpdateCallsChannelEnabled
      <4> QED
        BY <3>2, <4>1, UpdateStep
    <3> QED
      BY <2>3, <3>1, <3>2 DEF ServePut
  <2> QED
    BY <2>1, <2>2, <2>3
<1>11. CASE FetchFails
  BY <1>11, SettingsStutter DEF FetchFails
<1>12. CASE DeliverAnswer
  BY <1>12, SettingsStutter DEF DeliverAnswer
<1>13. ASSUME NEW ch \in Channel, OpenChannel(ch) PROVE SettingsInvariant'
  BY <1>13, SettingsStutter DEF OpenChannel, Click
<1>14. CASE Toggle
  BY <1>14, SettingsStutter DEF Toggle, Click
<1>15. CASE StartClick
  BY <1>15, CreateAskedStep DEF StartClick, Click
<1>16. CASE Reconnect
  BY <1>16, SettingsStutter DEF Reconnect, Click
<1>17. CASE OpenAdminConsole
  BY <1>17, SettingsStutter DEF OpenAdminConsole, Click
<1>18. CASE UNCHANGED settingsVars
  BY <1>18, SettingsStutter DEF settingsVars
<1> QED
  BY <1>1, <1>2, <1>3, <1>4, <1>5, <1>6, <1>7, <1>8, <1>9, <1>10, <1>11, <1>12,
     <1>13, <1>14, <1>15, <1>16, <1>17, <1>18 DEF SettingsNext

\* No choice of an admin and no CreateCall before the first step.
LEMMA SettingsStart ==
    SettingsInit => SettingsInvariant
<1> SUFFICES ASSUME SettingsInit PROVE SettingsInvariant
  OBVIOUS
<1>1. /\ DOMAIN rtk_calls_channels = Channel
      /\ chosen = [ch \in Channel |-> None]
      /\ create = None
  BY DEF SettingsInit
<1> QED
  BY <1>1 DEF SettingsInvariant, ChoiceSticks, CreateSaw

\* The invariant of the settings, on any number of nodes.
LEMMA SettingsInvariance == SettingsSpec => []SettingsInvariant
<1>1. SettingsInvariant /\ [SettingsNext]_settingsVars => SettingsInvariant'
  BY SettingsStep
<1> QED
  BY <1>1, SettingsStart, PTL DEF SettingsSpec

-----------------------------------------------------------------------------

\* What an admin chose stays, whichever nodes import the Calls plugin's table
\* at whatever time: the import counts first and inserts later, and only ON
\* CONFLICT DO NOTHING makes that safe.
THEOREM ChoiceSticksAlways == SettingsSpec => []ChoiceSticks
<1>1. SettingsInvariant => ChoiceSticks
  BY DEF SettingsInvariant
<1> QED
  BY <1>1, SettingsInvariance, PTL

\* An active call is added by the insert of a CreateCall that was checked.
LEMMA OnlyInsertAdds ==
    ASSUME SettingsNext, NEW ch \in Channel, ch \in active' \ active
    PROVE  CreateInsert
<1> USE DEF tables, calls, client, history
<1>1. CASE \E n \in Node : ImportProbe(n) \/ ImportCount(n) \/ ImportInsert(n)
  BY <1>1 DEF ImportProbe, ImportCount, ImportInsert
<1>2. CASE OtherAdminWrites \/ ConfigurationChanges \/ OtherClientStarts
           \/ CreateCheck \/ CreateInsert \/ CallEnds
  BY <1>2 DEF OtherAdminWrites, UpdateCallsChannelEnabled, ConfigurationChanges,
              OtherClientStarts, CreateCheck, CallEnds
<1>3. CASE Serve \/ FetchFails \/ DeliverAnswer
  BY <1>3 DEF Serve, ServeRead, ServePut, UpdateCallsChannelEnabled, FetchFails,
              DeliverAnswer
<1>4. CASE (\E c \in Channel : OpenChannel(c))
           \/ Toggle \/ StartClick \/ Reconnect \/ OpenAdminConsole
  BY <1>4 DEF OpenChannel, Toggle, StartClick, Reconnect, OpenAdminConsole, Click
<1> QED
  BY <1>1, <1>2, <1>3, <1>4 DEF SettingsNext

\* No call starts in a channel that was disabled from the arrival of the
\* request to its insert, whatever the tables, imports and buttons did.
THEOREM StartsOnlyEnabledAlways == SettingsSpec => StartsOnlyEnabled
<1>1. ASSUME SettingsInvariant, SettingsNext, NEW ch \in Channel, ch \in active' \ active
      PROVE  create.sawEnabled
  <2>1. CreateInsert
    BY <1>1, OnlyInsertAdds
  <2> QED
    BY <1>1, <2>1 DEF CreateInsert, SettingsInvariant, CreateSaw
<1>2. SettingsInvariant /\ [SettingsNext]_settingsVars
      => [\A ch \in Channel : ch \in active' \ active => create.sawEnabled]_settingsVars
  BY <1>1
<1> QED
  BY <1>2, SettingsInvariance, PTL DEF SettingsSpec, StartsOnlyEnabled
-----------------------------------------------------------------------------
(* The types, the cache of the tab, and its first frame.                   *)

Flag == BOOLEAN \cup {None}

SettingsRequest ==
    [kind : {"config", "bulk", "get", "put", "admin"}, boot : BOOLEAN,
     entries : Entries, stage : {"sent", "answered"}, ok : BOOLEAN, enabled : Flag]

\* A request about one channel names it, one that writes says what to write,
\* and only an answer is ok.
WellFormed(r) ==
    /\ r.kind \in {"get", "put"} => \E ch \in Channel : DOMAIN r.entries = {ch}
    /\ r.kind = "put" => \A ch \in DOMAIN r.entries : r.entries[ch] \in BOOLEAN
    /\ r.ok => r.stage = "answered"
    /\ r.ok /\ r.kind = "get" => \A ch \in DOMAIN r.entries : r.entries[ch] \in BOOLEAN

FormedRequest == {r \in SettingsRequest : WellFormed(r)}

ServerIsTyped ==
    /\ rtk_calls_channels \in [Channel -> Flag]
    /\ activation \in [Node -> {"probe", "count", "insert", "active"}]
    /\ active \subseteq Channel
    /\ create \in [channel : Channel, checked : BOOLEAN, sawEnabled : BOOLEAN] \cup {None}
    /\ server \in [configured : BOOLEAN, viaEnv : BOOLEAN]

ClientIsTyped ==
    /\ slice \in CallsPluginState
    /\ tab \in [boot : {"config", "channels", "ready"}, view : Channel \cup {None},
                viaEnv : Flag]
    /\ http \in Seq(FormedRequest)

\* had is the history of the table: what is in force now, and nothing else
\* where nothing was written.
HadIsHistory ==
    /\ had \in [Channel -> SUBSET BOOLEAN]
    /\ \A ch \in Channel : Enabled(ch) \in had[ch]
    /\ \A ch \in Channel \ changed : had[ch] = {Enabled(ch)}

\* What an answer says of a channel was in force, and of the environment is.
Truthful(r) ==
    /\ r.ok => \A ch \in DOMAIN r.entries :
                  r.entries[ch] \in BOOLEAN => r.entries[ch] \in had[ch]
    /\ r.ok /\ r.kind = "admin" /\ r.enabled = TRUE => server.viaEnv

\* Unless the boot has failed, its answers are good, and the one about the
\* channels lists every disabled channel, with its flag.
Complete(r) ==
    r.boot /\ r.stage = "answered" /\ ~failed =>
        /\ r.ok
        /\ r.kind = "bulk" =>
              \A ch \in Channel \ changed :
                 ~Enabled(ch) => ch \in DOMAIN r.entries /\ r.entries[ch] \in BOOLEAN

AnswersTrue == \A i \in DOMAIN http : Truthful(http[i]) /\ Complete(http[i])

\* As long as the boot lasts, its request is the only one.
OneBoot ==
    /\ tab.boot # "ready" =>
          /\ Len(http) = 1 /\ http[1].boot
          /\ http[1].kind = IF tab.boot = "config" THEN "config" ELSE "bulk"
    /\ tab.boot = "ready" => \A i \in DOMAIN http : ~http[i].boot

\* After a boot that did not fail the tab knows of every disabled channel.
BootInformed ==
    tab.boot = "ready" /\ ~failed =>
        \A ch \in Channel \ changed :
           ~Enabled(ch) => slice.channelEnabledState[ch] # None

ClientInvariant ==
    /\ ServerIsTyped /\ ClientIsTyped /\ HadIsHistory
    /\ AnswersTrue /\ OneBoot /\ CacheInventsNothing /\ BootInformed

\* What a step may do to what answers were based on.
Drift ==
    /\ \A ch \in Channel : had[ch] \subseteq had'[ch]
    /\ \A ch \in Channel \ changed' : ch \notin changed /\ Enabled(ch)' = Enabled(ch)
    /\ server'.viaEnv = server.viaEnv
    /\ failed => failed'

-----------------------------------------------------------------------------
(* The server's side of a step.                                            *)

\* A write extends the history, and touches no channel it does not record.
LEMMA WriteHistory ==
    ASSUME ServerIsTyped, HadIsHistory, NEW rows \in [Channel -> Flag], Write(rows),
           UNCHANGED <<server, failed>>
    PROVE  HadIsHistory' /\ Drift
<1>1. /\ rtk_calls_channels' = rows
      /\ had' = [ch \in Channel |-> had[ch] \cup {rows[ch] # FALSE}]
      /\ changed' = changed \cup {ch \in Channel : rows[ch] # rtk_calls_channels[ch]}
  BY DEF Write
<1>2. \A ch \in Channel : Enabled(ch)' = (rows[ch] # FALSE)
  BY <1>1 DEF Enabled
<1>3. had' \in [Channel -> SUBSET BOOLEAN]
  <2>1. ASSUME NEW ch \in Channel PROVE had[ch] \cup {rows[ch] # FALSE} \in SUBSET BOOLEAN
    BY DEF HadIsHistory
  <2> QED
    BY <1>1, <2>1
<1>4. \A ch \in Channel : Enabled(ch)' \in had'[ch]
  BY <1>1, <1>2
<1>5. ASSUME NEW ch \in Channel \ changed'
      PROVE  ch \notin changed /\ rows[ch] = rtk_calls_channels[ch]
  BY <1>1, <1>5
<1>6. ASSUME NEW ch \in Channel \ changed'
      PROVE  Enabled(ch)' = Enabled(ch)
  BY <1>2, <1>5, <1>6 DEF Enabled
<1>7. ASSUME NEW ch \in Channel \ changed'
      PROVE  had'[ch] = {Enabled(ch)'}
  <2>1. had[ch] = {rows[ch] # FALSE}
    BY <1>5, <1>7 DEF HadIsHistory, Enabled
  <2> QED
    BY <1>1, <1>2, <1>7, <2>1
<1>8. \A ch \in Channel : had[ch] \subseteq had'[ch]
  BY <1>1
<1> QED
  BY <1>3, <1>4, <1>5, <1>6, <1>7, <1>8 DEF HadIsHistory, Drift

\* A write keeps the types of the table and of a CreateCall.
LEMMA WriteTyped ==
    ASSUME ServerIsTyped, NEW rows \in [Channel -> Flag], Write(rows),
           UNCHANGED <<active, server>>,
           activation' \in [Node -> {"probe", "count", "insert", "active"}]
    PROVE  ServerIsTyped'
<1>1. rtk_calls_channels' \in [Channel -> Flag]
  BY DEF Write
<1>2. create' \in [channel : Channel, checked : BOOLEAN, sawEnabled : BOOLEAN] \cup {None}
  <2>1. CASE create = None
    BY <2>1 DEF Write
  <2>2. CASE create # None
    <3>1. create' = [create EXCEPT !.sawEnabled = @ \/ rows[create.channel] # FALSE]
      BY <2>2 DEF Write
    <3>2. create \in [channel : Channel, checked : BOOLEAN, sawEnabled : BOOLEAN]
      BY <2>2 DEF ServerIsTyped
    <3>3. (create.sawEnabled \/ rows[create.channel] # FALSE) \in BOOLEAN
      BY <3>2
    <3> QED
      BY <3>1, <3>2, <3>3
  <2> QED
    BY <2>1, <2>2
<1> QED
  BY <1>1, <1>2 DEF ServerIsTyped

\* Nothing is written.
LEMMA QuietHistory ==
    ASSUME ClientInvariant, UNCHANGED <<rtk_calls_channels, had, changed>>,
           server'.viaEnv = server.viaEnv, failed => failed'
    PROVE  HadIsHistory' /\ Drift
<1>1. \A ch \in Channel : Enabled(ch)' = Enabled(ch)
  BY DEF Enabled
<1> QED
  BY <1>1 DEF ClientInvariant, HadIsHistory, Drift

\* What a choice of an admin writes.
LEMMA UpdateHistory ==
    ASSUME ClientInvariant, NEW ch \in Channel, NEW enabled \in BOOLEAN,
           UpdateCallsChannelEnabled(ch, enabled)
    PROVE  ServerIsTyped' /\ HadIsHistory' /\ Drift
<1> DEFINE rows == [rtk_calls_channels EXCEPT ![ch] = enabled]
<1>1. rows \in [Channel -> Flag]
  BY DEF ClientInvariant, ServerIsTyped, Flag
<1>2. Write(rows) /\ UNCHANGED <<activation, server, active, failed>>
  BY DEF UpdateCallsChannelEnabled
<1> HIDE DEF rows
<1>3. ServerIsTyped /\ HadIsHistory
  BY DEF ClientInvariant
<1>4. activation' \in [Node -> {"probe", "count", "insert", "active"}]
  BY <1>2, <1>3 DEF ServerIsTyped
<1> QED
  BY <1>1, <1>2, <1>3, <1>4, WriteTyped, WriteHistory

\* What the import writes.
LEMMA ImportHistory ==
    ASSUME ClientInvariant, NEW n \in Node, ImportInsert(n)
    PROVE  ServerIsTyped' /\ HadIsHistory' /\ Drift
<1> DEFINE rows == [ch \in Channel |-> Imported(ch)]
<1>1. rows \in [Channel -> Flag]
  BY DEF ClientInvariant, ServerIsTyped, Flag, Imported
<1>2. Write(rows) /\ UNCHANGED <<server, active, failed>>
  BY DEF ImportInsert
<1> HIDE DEF rows
<1>3. ServerIsTyped /\ HadIsHistory
  BY DEF ClientInvariant
<1>4. activation' \in [Node -> {"probe", "count", "insert", "active"}]
  BY <1>3 DEF ServerIsTyped, ImportInsert, GoesTo
<1> QED
  BY <1>1, <1>2, <1>3, <1>4, WriteTyped, WriteHistory

\* A CreateCall that arrives has its type.
LEMMA CreateAskedTyped ==
    ASSUME NEW ch \in Channel
    PROVE  CreateAsked(ch) \in [channel : Channel, checked : BOOLEAN, sawEnabled : BOOLEAN]
BY DEF CreateAsked, Enabled

-----------------------------------------------------------------------------
(* What a drift leaves true.                                               *)

\* Nothing an answer said, and nothing the tab believes, is made untrue.
LEMMA DriftKeepsAnswers ==
    ASSUME ClientInvariant, Drift, NEW r \in FormedRequest, Truthful(r), Complete(r)
    PROVE  Truthful(r)' /\ Complete(r)'
<1>1. Truthful(r)'
  <2>1. ASSUME r.ok, NEW ch \in DOMAIN r.entries, r.entries[ch] \in BOOLEAN
        PROVE  r.entries[ch] \in had'[ch]
    <3>1. ch \in Channel
      BY DEF FormedRequest, SettingsRequest, Entries
    <3> QED
      BY <2>1, <3>1 DEF Truthful, Drift
  <2> QED
    BY <2>1 DEF Truthful, Drift
<1>2. Complete(r)'
  BY DEF Complete, Drift
<1> QED
  BY <1>1, <1>2

LEMMA DriftKeepsTab ==
    ASSUME ClientInvariant, Drift, UNCHANGED <<slice, tab>>
    PROVE  CacheInventsNothing' /\ BootInformed'
<1>1. CacheInventsNothing'
  BY DEF ClientInvariant, CacheInventsNothing, Drift
<1>2. BootInformed'
  BY DEF ClientInvariant, BootInformed, Drift
<1> QED
  BY <1>1, <1>2

\* The steps of the server alone.
LEMMA ServerAlone ==
    ASSUME ClientInvariant, ServerIsTyped', HadIsHistory', Drift, UNCHANGED client
    PROVE  ClientInvariant'
<1> USE DEF client
<1>1. CacheInventsNothing' /\ BootInformed'
  BY DriftKeepsTab
<1>2. AnswersTrue'
  <2>1. ASSUME NEW i \in DOMAIN http PROVE Truthful(http[i])' /\ Complete(http[i])'
    <3>1. http[i] \in FormedRequest
      BY ElementOfSeq, LenProperties DEF ClientInvariant, ClientIsTyped
    <3>2. Truthful(http[i]) /\ Complete(http[i])
      BY DEF ClientInvariant, AnswersTrue
    <3>3. PICK r : r = http[i]
      OBVIOUS
    <3>4. Truthful(r)' /\ Complete(r)'
      BY <3>1, <3>2, <3>3, DriftKeepsAnswers
    <3> QED
      BY <3>3, <3>4
  <2> QED
    BY <2>1 DEF AnswersTrue
<1>3. ClientIsTyped' /\ OneBoot'
  BY DEF ClientInvariant, ClientIsTyped, OneBoot
<1> QED
  BY <1>1, <1>2, <1>3 DEF ClientInvariant

-----------------------------------------------------------------------------
(* Requests in flight.                                                     *)

LEMMA NothingTyped == NoEntries \in Entries /\ DOMAIN NoEntries = {}
<1>1. NoEntries \in [{} -> Flag]
  BY DEF NoEntries
<1>2. {} \in SUBSET Channel
  OBVIOUS
<1> QED
  BY <1>1, <1>2 DEF Entries, Flag, NoEntries

LEMMA EntryTyped ==
    ASSUME NEW ch \in Channel, NEW enabled \in Flag
    PROVE  /\ Entry(ch, enabled) \in Entries
           /\ DOMAIN Entry(ch, enabled) = {ch}
           /\ Entry(ch, enabled)[ch] = enabled
<1>1. Entry(ch, enabled) \in [{ch} -> Flag]
  BY DEF Entry
<1>2. {ch} \in SUBSET Channel
  OBVIOUS
<1> QED
  BY <1>1, <1>2 DEF Entries, Flag, Entry

\* A request that is sent.
LEMMA AskSent ==
    ASSUME NEW kind \in {"config", "bulk", "get", "put", "admin"}, NEW boot \in BOOLEAN,
           NEW entries \in Entries,
           kind \in {"get", "put"} => \E ch \in Channel : DOMAIN entries = {ch},
           kind = "put" => \A ch \in DOMAIN entries : entries[ch] \in BOOLEAN
    PROVE  /\ Ask(kind, boot, entries) \in FormedRequest
           /\ Truthful(Ask(kind, boot, entries))'
           /\ Complete(Ask(kind, boot, entries))'
           /\ Ask(kind, boot, entries).kind = kind
           /\ Ask(kind, boot, entries).boot = boot
<1>1. PICK r : r = Ask(kind, boot, entries)
  OBVIOUS
<1>2. r = [kind |-> kind, boot |-> boot, entries |-> entries, stage |-> "sent",
           ok |-> FALSE, enabled |-> None]
  BY <1>1 DEF Ask
<1>3. r \in SettingsRequest
  BY <1>2 DEF SettingsRequest, Flag
<1>4. WellFormed(r)
  BY <1>2 DEF WellFormed
<1>5. Truthful(r)' /\ Complete(r)'
  BY <1>2 DEF Truthful, Complete
<1> QED
  BY <1>1, <1>2, <1>3, <1>4, <1>5 DEF FormedRequest

\* The other requests stay when one is answered.
LEMMA WithoutSound ==
    ASSUME http \in Seq(FormedRequest), NEW i \in DOMAIN http
    PROVE  /\ Without(i) \in Seq(FormedRequest)
           /\ Len(Without(i)) = Len(http) - 1
           /\ \A k \in DOMAIN Without(i) : \E j \in DOMAIN http : Without(i)[k] = http[j]
<1>1. Len(http) \in Nat /\ DOMAIN http = 1..Len(http)
  BY LenProperties
<1>2. PICK n \in Nat : n = Len(http) - 1
  <2>1. i \in 1..Len(http)
    BY <1>1
  <2>2. Len(http) - 1 \in Nat
    BY <1>1, <2>1
  <2> QED
    BY <2>2
<1>3. Without(i) = [k \in 1..n |-> http[IF k < i THEN k ELSE k + 1]]
  BY <1>2 DEF Without
<1>4. ASSUME NEW k \in 1..n
      PROVE  (IF k < i THEN k ELSE k + 1) \in DOMAIN http
  BY <1>1, <1>2
<1>5. \A j \in DOMAIN http : http[j] \in FormedRequest
  BY <1>1, ElementOfSeq
<1>6. Without(i) \in [1..n -> FormedRequest]
  BY <1>3, <1>4, <1>5
<1>7. Without(i) \in Seq(FormedRequest) /\ Len(Without(i)) = n
  BY <1>6
<1> QED
  BY <1>2, <1>3, <1>4, <1>7

\* A step after which at most the request q is new.
LEMMA NewRequests ==
    ASSUME ClientInvariant, Drift, http' \in Seq(FormedRequest),
           NEW q \in FormedRequest, Truthful(q)', Complete(q)',
           \A k \in DOMAIN http' : http'[k] = q \/ \E i \in DOMAIN http : http'[k] = http[i]
    PROVE  AnswersTrue'
<1>1. ASSUME NEW k \in DOMAIN http' PROVE (Truthful(http[k]) /\ Complete(http[k]))'
  <2>1. PICK r : r = http'[k]
    OBVIOUS
  <2>2. CASE r = q
    BY <2>1, <2>2
  <2>3. CASE r # q
    <3>1. PICK i \in DOMAIN http : r = http[i]
      BY <1>1, <2>1, <2>3
    <3>2. r \in FormedRequest
      BY <3>1, ElementOfSeq, LenProperties DEF ClientInvariant, ClientIsTyped
    <3>3. Truthful(r) /\ Complete(r)
      BY <3>1 DEF ClientInvariant, AnswersTrue
    <3>4. Truthful(r)' /\ Complete(r)'
      BY <3>2, <3>3, DriftKeepsAnswers
    <3> QED
      BY <2>1, <3>4
  <2> QED
    BY <2>2, <2>3
<1> QED
  BY <1>1 DEF AnswersTrue

\* A request that a click sends.
LEMMA SendSound ==
    ASSUME ClientInvariant, Drift, tab.boot = "ready", tab'.boot = "ready",
           NEW r \in FormedRequest, Truthful(r)', Complete(r)', ~r.boot,
           http' = http \o <<r>>
    PROVE  http' \in Seq(FormedRequest) /\ AnswersTrue' /\ OneBoot'
<1>1. http \in Seq(FormedRequest) /\ <<r>> \in Seq(FormedRequest)
  BY DEF ClientInvariant, ClientIsTyped
<1>2. /\ http' \in Seq(FormedRequest)
      /\ \A k \in DOMAIN http' : http'[k] = r \/ \E i \in DOMAIN http : http'[k] = http[i]
  BY <1>1
<1>3. AnswersTrue'
  BY <1>2, NewRequests
<1>4. OneBoot'
  <2>1. \A i \in DOMAIN http : ~http[i].boot
    BY DEF ClientInvariant, OneBoot
  <2> QED
    BY <1>2, <2>1 DEF OneBoot
<1> QED
  BY <1>2, <1>3, <1>4

\* A request that is answered, or whose answer is lost.
LEMMA SlotSound ==
    ASSUME ClientInvariant, Drift, UNCHANGED <<slice, tab>>,
           NEW i \in DOMAIN http, NEW q \in FormedRequest, Truthful(q)', Complete(q)',
           q.boot = http[i].boot, q.kind = http[i].kind,
           http' = [http EXCEPT ![i] = q], ServerIsTyped', HadIsHistory'
    PROVE  ClientInvariant'
<1>1. http \in Seq(FormedRequest) /\ Len(http) \in Nat /\ DOMAIN http = 1..Len(http)
  BY LenProperties DEF ClientInvariant, ClientIsTyped
<1>2. /\ http' \in Seq(FormedRequest) /\ Len(http') = Len(http) /\ DOMAIN http' = DOMAIN http
      /\ \A k \in DOMAIN http' : http'[k] = IF k = i THEN q ELSE http[k]
  BY <1>1, ExceptSeq
<1>3. AnswersTrue'
  <2>1. \A k \in DOMAIN http' : http'[k] = q \/ \E j \in DOMAIN http : http'[k] = http[j]
    BY <1>2
  <2> QED
    BY <1>2, <2>1, NewRequests
<1>4. OneBoot'
  BY <1>1, <1>2 DEF ClientInvariant, OneBoot
<1>5. CacheInventsNothing' /\ BootInformed'
  BY DriftKeepsTab
<1>6. ClientIsTyped'
  BY <1>2 DEF ClientInvariant, ClientIsTyped
<1> QED
  BY <1>3, <1>4, <1>5, <1>6 DEF ClientInvariant

-----------------------------------------------------------------------------
(* Answers: how they come about, and what the tab makes of them.           *)

\* The request that got an answer.
Answered(r, ok, enabled, entries) ==
    [r EXCEPT !.stage = "answered", !.ok = ok, !.enabled = enabled, !.entries = entries]

\* A request about one channel is about that channel.
LEMMA OnlyChannelSound ==
    ASSUME NEW r \in FormedRequest, r.kind \in {"get", "put"}
    PROVE  OnlyChannel(r) \in Channel /\ DOMAIN r.entries = {OnlyChannel(r)}
<1>1. PICK ch \in Channel : DOMAIN r.entries = {ch}
  BY DEF FormedRequest, WellFormed
<1>2. OnlyChannel(r) = ch
  BY <1>1 DEF OnlyChannel
<1> QED
  BY <1>1, <1>2

\* GetAllCallChannels lists every disabled channel with its flag.
LEMMA AllChannelsSound ==
    ASSUME ServerIsTyped
    PROVE  /\ AllChannels \in Entries
           /\ \A ch \in DOMAIN AllChannels :
                 ch \in Channel /\ AllChannels[ch] = rtk_calls_channels[ch]
           /\ \A ch \in Channel : ~Enabled(ch) => ch \in DOMAIN AllChannels
<1> DEFINE listed == {x \in Channel : rtk_calls_channels[x] # None \/ x \in active}
<1>1. listed \in SUBSET Channel
  OBVIOUS
<1>2. AllChannels = [ch \in listed |-> rtk_calls_channels[ch]]
  BY DEF AllChannels
<1>3. AllChannels \in [listed -> Flag]
  BY <1>2 DEF ServerIsTyped
<1>4. AllChannels \in Entries
  BY <1>1, <1>3 DEF Entries, Flag
<1>5. \A ch \in Channel : ~Enabled(ch) => ch \in listed
  BY SettingsAssumption DEF Enabled
<1> HIDE DEF listed
<1> QED
  BY <1>1, <1>2, <1>4, <1>5

\* What a read answers about one channel, or about all of them, is in force.
LEMMA ReadStep ==
    ASSUME ClientInvariant, NEW i \in DOMAIN http, ServeRead(i), UNCHANGED <<slice, tab>>
    PROVE  ClientInvariant'
<1>1. http[i] \in FormedRequest
  BY ElementOfSeq, LenProperties DEF ClientInvariant, ClientIsTyped
<1>2. PICK r \in FormedRequest : r = http[i]
  BY <1>1
<1>3. ServerIsTyped /\ HadIsHistory
  BY DEF ClientInvariant
<1>4. /\ UNCHANGED <<tables, server, calls, history>>
      /\ r.kind # "put"
  BY <1>2 DEF ServeRead
<1>5. HadIsHistory' /\ Drift
  BY <1>4, QuietHistory DEF tables, history
<1>6. ServerIsTyped'
  BY <1>3, <1>4 DEF ServerIsTyped, tables, calls
<1>7. PICK enabled, entries :
         /\ enabled = CASE r.kind = "config" -> server.configured
                        [] r.kind = "admin" -> server.viaEnv
                        [] OTHER -> None
         /\ entries = CASE r.kind = "bulk" -> AllChannels
                        [] r.kind = "get" -> Entry(OnlyChannel(r), Enabled(OnlyChannel(r)))
                        [] OTHER -> NoEntries
  OBVIOUS
<1>8. http' = [http EXCEPT ![i] = Answered(r, TRUE, enabled, entries)]
  BY <1>2, <1>7 DEF ServeRead, Answer, Answered
<1>9. enabled \in Flag /\ (r.kind = "admin" => enabled = server.viaEnv)
  BY <1>3, <1>7 DEF ServerIsTyped, Flag
<1>10. /\ entries \in Entries
       /\ r.kind = "get" => /\ \E ch \in Channel : DOMAIN entries = {ch}
                            /\ \A ch \in DOMAIN entries : entries[ch] \in BOOLEAN
       /\ \A ch \in DOMAIN entries : entries[ch] \in BOOLEAN => entries[ch] \in had[ch]
       /\ r.kind = "bulk" =>
             \A ch \in Channel : ~Enabled(ch) => ch \in DOMAIN entries /\ entries[ch] \in BOOLEAN
  <2>1. CASE r.kind = "bulk"
    <3>1. entries = AllChannels
      BY <1>7, <2>1
    <3>2. ASSUME NEW ch \in DOMAIN entries, entries[ch] \in BOOLEAN
          PROVE  entries[ch] \in had[ch]
      <4>1. ch \in Channel /\ entries[ch] = rtk_calls_channels[ch]
        BY <1>3, <3>1, <3>2, AllChannelsSound
      <4>2. Enabled(ch) \in had[ch]
        BY <1>3, <4>1 DEF HadIsHistory
      <4> QED
        BY <3>2, <4>1, <4>2 DEF Enabled
    <3>3. ASSUME NEW ch \in Channel, ~Enabled(ch)
          PROVE  ch \in DOMAIN entries /\ entries[ch] \in BOOLEAN
      <4>1. ch \in DOMAIN entries /\ entries[ch] = rtk_calls_channels[ch]
        BY <1>3, <3>1, <3>3, AllChannelsSound
      <4> QED
        BY <3>3, <4>1 DEF Enabled
    <3> QED
      BY <1>3, <2>1, <3>1, <3>2, <3>3, AllChannelsSound
  <2>2. CASE r.kind = "get"
    <3>1. OnlyChannel(r) \in Channel
      BY <2>2, OnlyChannelSound
    <3>2. PICK c \in Channel : c = OnlyChannel(r)
      BY <3>1
    <3>3. PICK b \in BOOLEAN : b = Enabled(c)
      BY DEF Enabled
    <3>4. entries = Entry(c, b)
      BY <1>7, <2>2, <3>2, <3>3
    <3>5. b \in Flag
      BY DEF Flag
    <3>6. entries \in Entries /\ DOMAIN entries = {c} /\ entries[c] = b
      BY <3>4, <3>5, EntryTyped
    <3>7. b \in had[c]
      BY <1>3, <3>3 DEF HadIsHistory
    <3> QED
      BY <2>2, <3>6, <3>7
  <2>3. CASE r.kind \notin {"bulk", "get"}
    <3>1. entries = NoEntries
      BY <1>7, <2>3
    <3> QED
      BY <2>3, <3>1, NothingTyped
  <2> QED
    BY <2>1, <2>2, <2>3
<1>11. PICK q : q = Answered(r, TRUE, enabled, entries)
  OBVIOUS
<1>12. /\ q \in SettingsRequest /\ q.kind = r.kind /\ q.boot = r.boot
       /\ q.stage = "answered" /\ q.ok = TRUE /\ q.enabled = enabled /\ q.entries = entries
  BY <1>9, <1>10, <1>11 DEF Answered, FormedRequest, SettingsRequest
<1>13. q \in FormedRequest
  BY <1>4, <1>10, <1>12 DEF FormedRequest, WellFormed
<1>14. Truthful(q)'
  BY <1>4, <1>9, <1>10, <1>12 DEF Truthful, history
<1>15. Complete(q)'
  <2>1. \A ch \in Channel : Enabled(ch)' = Enabled(ch)
    BY <1>4 DEF Enabled, tables
  <2> QED
    BY <1>4, <1>10, <1>12, <2>1 DEF Complete, history
<1> QED
  BY <1>2, <1>5, <1>6, <1>8, <1>11, <1>12, <1>13, <1>14, <1>15, SlotSound

\* A write is answered with what it wrote, or with an error.
LEMMA PutStep ==
    ASSUME ClientInvariant, NEW i \in DOMAIN http, http[i].kind = "put", ServePut(i),
           UNCHANGED <<slice, tab>>
    PROVE  ClientInvariant'
<1>1. http[i] \in FormedRequest
  BY ElementOfSeq, LenProperties DEF ClientInvariant, ClientIsTyped
<1>2. PICK r \in FormedRequest : r = http[i]
  BY <1>1
<1>3. PICK c \in Channel : c = OnlyChannel(r) /\ DOMAIN r.entries = {c}
  BY <1>2, OnlyChannelSound
<1>4. r.entries[c] \in BOOLEAN /\ r.entries \in Entries /\ ~r.boot
  <2>1. r.entries[c] \in BOOLEAN /\ r.entries \in Entries
    BY <1>2, <1>3 DEF FormedRequest, SettingsRequest, WellFormed
  <2>2. ~r.boot
    <3>1. http \in Seq(FormedRequest) /\ Len(http) \in Nat /\ DOMAIN http = 1..Len(http)
      BY LenProperties DEF ClientInvariant, ClientIsTyped
    <3> QED
      BY <1>2, <3>1 DEF ClientInvariant, OneBoot
  <2> QED
    BY <2>1, <2>2
<1>5. ServerIsTyped /\ HadIsHistory
  BY DEF ClientInvariant
<1>6. CASE UpdateCallsChannelEnabled(c, r.entries[c]) /\ Answer(i, TRUE, None, r.entries)
  <2>1. ServerIsTyped' /\ HadIsHistory' /\ Drift
    BY <1>4, <1>6, UpdateHistory
  <2>2. PICK q : q = Answered(r, TRUE, None, r.entries)
    OBVIOUS
  <2>3. /\ q \in SettingsRequest /\ q.kind = r.kind /\ q.boot = r.boot
        /\ q.stage = "answered" /\ q.ok = TRUE /\ q.entries = r.entries
    BY <1>4, <2>2 DEF Answered, FormedRequest, SettingsRequest, Flag
  <2>4. http' = [http EXCEPT ![i] = q]
    BY <1>2, <1>6, <2>2 DEF Answer, Answered
  <2>5. r.entries[c] \in had'[c]
    <3>1. rtk_calls_channels' = [rtk_calls_channels EXCEPT ![c] = r.entries[c]]
      BY <1>6 DEF UpdateCallsChannelEnabled, Write
    <3>2. rtk_calls_channels'[c] = r.entries[c]
      BY <1>5, <3>1 DEF ServerIsTyped
    <3>3. Enabled(c)' \in had'[c]
      BY <2>1 DEF HadIsHistory
    <3> QED
      BY <1>4, <3>2, <3>3 DEF Enabled
  <2>6. q \in FormedRequest
    BY <1>2, <1>3, <1>4, <2>3 DEF FormedRequest, WellFormed
  <2>7. Truthful(q)' /\ Complete(q)'
    BY <1>2, <1>3, <1>4, <2>3, <2>5 DEF Truthful, Complete
  <2> QED
    BY <1>2, <2>1, <2>3, <2>4, <2>6, <2>7, SlotSound
<1>7. CASE /\ Answer(i, FALSE, None, r.entries)
           /\ UNCHANGED <<tables, server, calls, history>>
  <2>1. HadIsHistory' /\ Drift
    BY <1>7, QuietHistory DEF tables, history
  <2>2. ServerIsTyped'
    BY <1>5, <1>7 DEF ServerIsTyped, tables, calls
  <2>3. PICK q : q = Answered(r, FALSE, None, r.entries)
    OBVIOUS
  <2>4. /\ q \in SettingsRequest /\ q.kind = r.kind /\ q.boot = r.boot
        /\ q.stage = "answered" /\ q.ok = FALSE /\ q.entries = r.entries
    BY <1>4, <2>3 DEF Answered, FormedRequest, SettingsRequest, Flag
  <2>5. http' = [http EXCEPT ![i] = q]
    BY <1>2, <1>7, <2>3 DEF Answer, Answered
  <2>6. q \in FormedRequest
    BY <1>2, <1>3, <1>4, <2>4 DEF FormedRequest, WellFormed
  <2>7. Truthful(q)' /\ Complete(q)'
    BY <1>4, <2>4 DEF Truthful, Complete
  <2> QED
    BY <1>2, <2>1, <2>2, <2>4, <2>5, <2>6, <2>7, SlotSound
<1> QED
  BY <1>2, <1>3, <1>6, <1>7 DEF ServePut

\* A lost request, or a lost answer, leaves an error; in the boot it is a failure.
LEMMA FailStep ==
    ASSUME ClientInvariant, FetchFails
    PROVE  ClientInvariant'
<1>1. PICK i \in DOMAIN http : /\ Answer(i, FALSE, None, http[i].entries)
                               /\ failed' = (failed \/ http[i].boot)
  BY DEF FetchFails
<1>2. UNCHANGED <<tables, server, calls, slice, tab, had, changed>>
  BY DEF FetchFails
<1>3. http[i] \in FormedRequest
  BY ElementOfSeq, LenProperties DEF ClientInvariant, ClientIsTyped
<1>4. PICK r \in FormedRequest : r = http[i]
  BY <1>3
<1>5. HadIsHistory' /\ Drift
  BY <1>1, <1>2, QuietHistory DEF tables
<1>6. ServerIsTyped'
  BY <1>2 DEF ClientInvariant, ServerIsTyped, tables, calls
<1>7. PICK q : q = Answered(r, FALSE, None, r.entries)
  OBVIOUS
<1>8. r.entries \in Entries
  BY DEF FormedRequest, SettingsRequest
<1>9. /\ q \in SettingsRequest /\ q.kind = r.kind /\ q.boot = r.boot
      /\ q.stage = "answered" /\ q.ok = FALSE /\ q.entries = r.entries
  BY <1>7, <1>8 DEF Answered, FormedRequest, SettingsRequest, Flag
<1>10. http' = [http EXCEPT ![i] = q]
  BY <1>1, <1>4, <1>7 DEF Answer, Answered
<1>11. q \in FormedRequest
  BY <1>9 DEF FormedRequest, WellFormed
<1>12. Truthful(q)' /\ Complete(q)'
  BY <1>1, <1>4, <1>9 DEF Truthful, Complete
<1> QED
  BY <1>2, <1>4, <1>5, <1>6, <1>9, <1>10, <1>11, <1>12, SlotSound

\* The slice after an answer, and the step that it makes.
AfterAnswer(s, r) ==
    CASE r.kind = "config" -> AfterConfig(s, r)
      [] r.kind = "bulk" -> AfterBulk(s, r)
      [] r.kind \in {"get", "put"} -> AfterOne(s, r)
      [] OTHER -> s

\* An answer leaves in the slice only what the answer or the slice said, and
\* nothing is forgotten.
LEMMA AnswerBelieved ==
    ASSUME NEW s \in CallsPluginState, NEW r \in FormedRequest, NEW H,
           r.ok => \A ch \in DOMAIN r.entries :
                      r.entries[ch] \in BOOLEAN => r.entries[ch] \in H[ch],
           \A ch \in Channel : s.channelEnabledState[ch] # None
                               => s.channelEnabledState[ch] \in H[ch],
           NEW t, t = AfterAnswer(s, r)
    PROVE  /\ t \in CallsPluginState
           /\ \A ch \in Channel : t.channelEnabledState[ch] # None
                                  => t.channelEnabledState[ch] \in H[ch]
           /\ \A ch \in Channel : s.channelEnabledState[ch] # None
                                  => t.channelEnabledState[ch] # None
           /\ r.kind = "bulk" /\ r.ok =>
                 \A ch \in Channel : ch \in DOMAIN r.entries /\ r.entries[ch] \in BOOLEAN
                                     => t.channelEnabledState[ch] # None
<1>1. s.channelEnabledState \in [Channel -> BOOLEAN \cup {None}]
  BY DEF CallsPluginState
<1>2. CASE r.kind = "config"
  <2>1. PICK e \in BOOLEAN : e = (r.ok /\ r.enabled = TRUE)
    BY DEF FormedRequest, SettingsRequest
  <2>2. t = [s EXCEPT !.pluginEnabled = e]
    BY <1>2, <2>1 DEF AfterAnswer, AfterConfig, setPluginEnabled
  <2>3. t \in CallsPluginState /\ t.channelEnabledState = s.channelEnabledState
    BY <2>2 DEF CallsPluginState
  <2> QED
    BY <1>2, <2>3
<1>3. CASE r.kind = "bulk" /\ r.ok
  <2>1. PICK f : f = [ch \in Channel |-> IF ch \in DOMAIN r.entries /\ r.entries[ch] \in BOOLEAN
                                         THEN r.entries[ch] ELSE s.channelEnabledState[ch]]
    OBVIOUS
  <2>2. f \in [Channel -> BOOLEAN \cup {None}]
    BY <1>1, <2>1
  <2>3. t = [s EXCEPT !.channelEnabledState = f]
    BY <1>3, <2>1 DEF AfterAnswer, AfterBulk, setChannelEnabledBulk
  <2>4. t \in CallsPluginState /\ t.channelEnabledState = f
    BY <2>2, <2>3 DEF CallsPluginState
  <2>5. ASSUME NEW ch \in Channel, ch \in DOMAIN r.entries, r.entries[ch] \in BOOLEAN
        PROVE  f[ch] # None /\ f[ch] \in H[ch]
    BY <1>3, <2>1, <2>5, SettingsAssumption
  <2>6. ASSUME NEW ch \in Channel, ~(ch \in DOMAIN r.entries /\ r.entries[ch] \in BOOLEAN)
        PROVE  f[ch] = s.channelEnabledState[ch]
    BY <2>1, <2>6
  <2> QED
    BY <2>4, <2>5, <2>6
<1>4. CASE r.kind \in {"get", "put"} /\ r.ok
  <2>1. PICK c \in Channel : c = OnlyChannel(r) /\ DOMAIN r.entries = {c}
    BY <1>4, OnlyChannelSound
  <2>2. PICK e \in BOOLEAN : e = r.entries[c]
    BY <1>4, <2>1 DEF FormedRequest, WellFormed
  <2>3. PICK f : f = [s.channelEnabledState EXCEPT ![c] = e]
    OBVIOUS
  <2>4. f \in [Channel -> BOOLEAN \cup {None}]
    BY <1>1, <2>3
  <2>5. t = [s EXCEPT !.channelEnabledState = f]
    <3>1. t = setChannelEnabled(s, c, e)
      BY <1>4, <2>1, <2>2 DEF AfterAnswer, AfterOne
    <3> QED
      BY <2>3, <3>1 DEF setChannelEnabled, CallsPluginState
  <2>6. t \in CallsPluginState /\ t.channelEnabledState = f
    BY <2>4, <2>5 DEF CallsPluginState
  <2>7. \A ch \in Channel : f[ch] = IF ch = c THEN e ELSE s.channelEnabledState[ch]
    BY <1>1, <2>3
  <2>8. e \in H[c] /\ e # None
    BY <1>4, <2>1, <2>2, SettingsAssumption
  <2> QED
    BY <1>4, <2>6, <2>7, <2>8
<1>5. CASE r.kind = "admin" \/ (r.kind # "config" /\ ~r.ok)
  <2>1. t = s
    BY <1>5 DEF AfterAnswer, AfterBulk, AfterOne
  <2> QED
    BY <1>5, <2>1
<1>6. r.kind \in {"config", "bulk", "get", "put", "admin"} /\ r.ok \in BOOLEAN
  BY DEF FormedRequest, SettingsRequest
<1> QED
  BY <1>2, <1>3, <1>4, <1>5, <1>6

\* What follows an answer that is delivered.
LEMMA DeliverySound ==
    ASSUME ClientInvariant, Drift, NEW i \in DOMAIN http, NEW r \in FormedRequest,
           r = http[i], http' = Without(i) \o Then(r),
           NEW b, b = IF r.boot THEN BootAfter(r) ELSE tab.boot, tab'.boot = b
    PROVE  /\ http' \in Seq(FormedRequest)
           /\ AnswersTrue' /\ OneBoot'
           /\ b \in {"config", "channels", "ready"}
           /\ b = "ready" => tab.boot = "ready" \/ (r.boot /\ r.kind = "bulk")
<1>1. http \in Seq(FormedRequest) /\ Len(http) \in Nat /\ DOMAIN http = 1..Len(http)
  BY LenProperties DEF ClientInvariant, ClientIsTyped
<1>2. PICK w \in Seq(FormedRequest) :
         /\ w = Without(i) /\ Len(w) = Len(http) - 1
         /\ \A k \in DOMAIN w : \E j \in DOMAIN http : w[k] = http[j]
  BY <1>1, WithoutSound
<1>3. r.boot \in BOOLEAN
  BY DEF FormedRequest, SettingsRequest
<1>4. PICK q : q = Ask("bulk", r.boot, NoEntries)
  OBVIOUS
<1>5. q \in FormedRequest /\ Truthful(q)' /\ Complete(q)' /\ q.kind = "bulk" /\ q.boot = r.boot
  BY <1>3, <1>4, NothingTyped, AskSent
<1>6. PICK more \in Seq(FormedRequest) :
         http' = w \o more /\ more = IF r.kind = "config" THEN <<q>> ELSE <<>>
  <2>1. <<q>> \in Seq(FormedRequest) /\ <<>> \in Seq(FormedRequest)
    BY <1>5
  <2> QED
    BY <1>2, <1>4, <2>1 DEF Then
<1>7. /\ http' \in Seq(FormedRequest)
      /\ Len(http') = Len(w) + Len(more)
      /\ \A k \in DOMAIN http' : http'[k] = q \/ \E j \in DOMAIN http : http'[k] = http[j]
  <2>1. /\ http' \in Seq(FormedRequest)
        /\ Len(http') = Len(w) + Len(more)
        /\ \A k \in 1..Len(w) + Len(more) :
              http'[k] = IF k <= Len(w) THEN w[k] ELSE more[k - Len(w)]
    BY <1>6, ConcatProperties
  <2>2. ASSUME NEW k \in DOMAIN http'
        PROVE  http'[k] = q \/ \E j \in DOMAIN http : http'[k] = http[j]
    <3>1. k \in 1..Len(w) + Len(more) /\ Len(w) \in Nat /\ Len(more) \in Nat
      BY <2>1, <2>2, LenProperties
    <3>2. CASE k <= Len(w)
      <4>1. http'[k] = w[k] /\ k \in DOMAIN w
        BY <2>1, <3>1, <3>2, LenProperties
      <4> QED
        BY <1>2, <4>1
    <3>3. CASE ~(k <= Len(w))
      <4>1. PICK m \in Nat, n \in Nat : m = Len(w) /\ n = Len(more)
        BY <3>1
      <4>2. k \in 1..(m + n) /\ ~(k <= m)
        BY <3>1, <3>3, <4>1
      <4>3. k - m \in 1..n
        BY <4>2
      <4>4. http'[k] = more[k - m]
        BY <2>1, <3>1, <3>3, <4>1
      <4>5. more = <<q>>
        BY <1>6, <4>1, <4>3
      <4> QED
        BY <4>1, <4>3, <4>4, <4>5
    <3> QED
      BY <3>2, <3>3
  <2> QED
    BY <2>1, <2>2
<1>8. AnswersTrue'
  BY <1>5, <1>7, NewRequests
<1>9. CASE tab.boot # "ready"
  <2>1. /\ Len(http) = 1 /\ r.boot /\ i = 1
        /\ r.kind = IF tab.boot = "config" THEN "config" ELSE "bulk"
    BY <1>1, <1>9 DEF ClientInvariant, OneBoot
  <2>2. w = <<>>
    BY <1>2, <2>1
  <2>3. http' = more
    BY <1>6, <2>2
  <2>4. CASE tab.boot = "config"
    <3>1. http' = <<q>> /\ b = "channels"
      BY <1>6, <2>1, <2>3, <2>4 DEF BootAfter
    <3>2. Len(http') = 1 /\ http'[1] = q /\ tab'.boot = "channels"
      BY <3>1
    <3>3. OneBoot'
      BY <1>5, <2>1, <3>2 DEF OneBoot
    <3> QED
      BY <1>7, <1>8, <3>1, <3>3
  <2>5. CASE tab.boot # "config"
    <3>1. http' = <<>> /\ b = "ready"
      BY <1>6, <2>1, <2>3, <2>5 DEF BootAfter
    <3>2. OneBoot'
      BY <3>1 DEF OneBoot
    <3> QED
      BY <1>7, <1>8, <2>1, <2>5, <3>1, <3>2
  <2> QED
    BY <2>4, <2>5
<1>10. CASE tab.boot = "ready"
  <2>1. \A j \in DOMAIN http : ~http[j].boot
    BY <1>10 DEF ClientInvariant, OneBoot
  <2>2. ~r.boot /\ b = "ready"
    BY <1>10, <2>1
  <2>3. OneBoot'
    BY <1>5, <1>7, <2>1, <2>2 DEF OneBoot
  <2> QED
    BY <1>7, <1>8, <1>10, <2>2, <2>3
<1> QED
  BY <1>9, <1>10

\* The tab takes an answer over.
LEMMA DeliverStep ==
    ASSUME ClientInvariant, DeliverAnswer
    PROVE  ClientInvariant'
<1>1. PICK i \in DOMAIN http :
         LET r == http[i]
         IN  /\ r.stage = "answered"
             /\ slice' = AfterAnswer(slice, r)
             /\ tab' = [tab EXCEPT !.boot = IF r.boot THEN BootAfter(r) ELSE @,
                                   !.viaEnv = IF r.kind = "admin" THEN FromEnv(r) ELSE @]
             /\ http' = Without(i) \o Then(r)
  BY DEF DeliverAnswer, AfterAnswer
<1>2. UNCHANGED <<tables, server, calls, history>>
  BY DEF DeliverAnswer
<1>3. http[i] \in FormedRequest /\ Truthful(http[i]) /\ Complete(http[i])
  BY ElementOfSeq, LenProperties DEF ClientInvariant, ClientIsTyped, AnswersTrue
<1>4. PICK r \in FormedRequest : r = http[i] /\ Truthful(r) /\ Complete(r)
  BY <1>3
<1>5. HadIsHistory' /\ Drift
  BY <1>2, QuietHistory DEF tables, history
<1>6. ServerIsTyped'
  BY <1>2 DEF ClientInvariant, ServerIsTyped, tables, calls
<1>7. PICK b, v : /\ b = IF r.boot THEN BootAfter(r) ELSE tab.boot
                  /\ v = IF r.kind = "admin" THEN FromEnv(r) ELSE tab.viaEnv
  OBVIOUS
<1>8. tab' = [tab EXCEPT !.boot = b, !.viaEnv = v]
  BY <1>1, <1>4, <1>7
<1>9. tab \in [boot : {"config", "channels", "ready"}, view : Channel \cup {None}, viaEnv : Flag]
  BY DEF ClientInvariant, ClientIsTyped
<1>10. tab'.boot = b /\ tab'.viaEnv = v
  BY <1>8, <1>9
<1>11. http' = Without(i) \o Then(r)
  BY <1>1, <1>4
<1>12. /\ http' \in Seq(FormedRequest) /\ AnswersTrue' /\ OneBoot'
       /\ b \in {"config", "channels", "ready"}
       /\ b = "ready" => tab.boot = "ready" \/ (r.boot /\ r.kind = "bulk")
  BY <1>4, <1>5, <1>7, <1>10, <1>11, DeliverySound
<1>13. v \in Flag /\ (v = TRUE => server.viaEnv)
  <2>1. tab.viaEnv \in Flag /\ (tab.viaEnv = TRUE => server.viaEnv)
    BY <1>9 DEF ClientInvariant, CacheInventsNothing
  <2>2. FromEnv(r) \in BOOLEAN
    BY DEF FromEnv, FormedRequest, SettingsRequest
  <2> QED
    BY <1>4, <1>7, <2>1, <2>2 DEF FromEnv, Truthful, Flag
<1>14. PICK t : t = AfterAnswer(slice, r)
  OBVIOUS
<1>15. slice' = t
  BY <1>1, <1>4, <1>14
<1>16. slice \in CallsPluginState
  BY DEF ClientInvariant, ClientIsTyped
<1>17. \A ch \in Channel : slice.channelEnabledState[ch] # None
                           => slice.channelEnabledState[ch] \in had[ch]
  BY DEF ClientInvariant, CacheInventsNothing
<1>18. r.ok => \A ch \in DOMAIN r.entries :
                  r.entries[ch] \in BOOLEAN => r.entries[ch] \in had[ch]
  BY <1>4 DEF Truthful
<1>19. /\ t \in CallsPluginState
       /\ \A ch \in Channel : t.channelEnabledState[ch] # None
                              => t.channelEnabledState[ch] \in had[ch]
       /\ \A ch \in Channel : slice.channelEnabledState[ch] # None
                              => t.channelEnabledState[ch] # None
       /\ r.kind = "bulk" /\ r.ok =>
             \A ch \in Channel : ch \in DOMAIN r.entries /\ r.entries[ch] \in BOOLEAN
                                 => t.channelEnabledState[ch] # None
  BY <1>14, <1>16, <1>17, <1>18, AnswerBelieved
<1>20. ClientIsTyped'
  <2>1. tab' \in [boot : {"config", "channels", "ready"}, view : Channel \cup {None},
                  viaEnv : Flag]
    BY <1>8, <1>9, <1>12, <1>13
  <2> QED
    BY <1>12, <1>15, <1>19, <2>1 DEF ClientIsTyped
<1>21. CacheInventsNothing'
  BY <1>2, <1>10, <1>13, <1>15, <1>19 DEF CacheInventsNothing, history
<1>22. BootInformed'
  <2> SUFFICES ASSUME b = "ready", ~failed, NEW ch \in Channel \ changed, ~Enabled(ch)
               PROVE  t.channelEnabledState[ch] # None
    BY <1>2, <1>10, <1>15 DEF BootInformed, history, tables, Enabled
  <2>1. CASE tab.boot = "ready"
    <3>1. slice.channelEnabledState[ch] # None
      BY <2>1 DEF ClientInvariant, BootInformed
    <3> QED
      BY <1>19, <3>1
  <2>2. CASE r.boot /\ r.kind = "bulk"
    <3>1. r.stage = "answered"
      BY <1>1, <1>4
    <3>2. r.ok /\ ch \in DOMAIN r.entries /\ r.entries[ch] \in BOOLEAN
      BY <1>4, <2>2, <3>1 DEF Complete
    <3> QED
      BY <1>19, <2>2, <3>2
  <2> QED
    BY <1>12, <2>1, <2>2
<1> QED
  BY <1>5, <1>6, <1>12, <1>20, <1>21, <1>22 DEF ClientInvariant

\* A click leaves the server as it is, except for a CreateCall.
LEMMA ClickSound ==
    ASSUME ClientInvariant, Click
    PROVE  /\ HadIsHistory' /\ Drift
           /\ tab.boot = "ready" /\ UNCHANGED <<tables, server, active, history>>
           /\ create' = create => ServerIsTyped'
<1>1. tab.boot = "ready" /\ UNCHANGED <<tables, server, active, history>>
  BY DEF Click
<1>2. HadIsHistory' /\ Drift
  BY <1>1, QuietHistory DEF tables, history
<1>3. create' = create => ServerIsTyped'
  BY <1>1 DEF ClientInvariant, ServerIsTyped, tables
<1> QED
  BY <1>1, <1>2, <1>3

\* A click that sends a request; it may turn to another view, and forget what
\* it knew of the environment.
LEMMA ClickSends ==
    ASSUME ClientInvariant, Click, UNCHANGED <<slice, create>>,
           NEW view \in Channel \cup {None}, NEW viaEnv \in {tab.viaEnv, None},
           tab' = [tab EXCEPT !.view = view, !.viaEnv = viaEnv],
           NEW r \in FormedRequest, Truthful(r)', Complete(r)', ~r.boot,
           http' = http \/ http' = http \o <<r>>
    PROVE  ClientInvariant'
<1>1. HadIsHistory' /\ Drift /\ tab.boot = "ready" /\ ServerIsTyped'
      /\ UNCHANGED <<server, history, tables>>
  BY ClickSound
<1>2. tab \in [boot : {"config", "channels", "ready"}, view : Channel \cup {None}, viaEnv : Flag]
  BY DEF ClientInvariant, ClientIsTyped
<1>3. viaEnv \in Flag
  BY <1>2 DEF Flag
<1>4. /\ tab' \in [boot : {"config", "channels", "ready"}, view : Channel \cup {None},
                   viaEnv : Flag]
      /\ tab'.boot = "ready" /\ tab'.viaEnv = viaEnv
  BY <1>1, <1>2, <1>3
<1>5. http' \in Seq(FormedRequest) /\ AnswersTrue' /\ OneBoot'
  <2>1. CASE http' = http \o <<r>>
    BY <1>1, <1>4, <2>1, SendSound
  <2>2. CASE http' = http
    <3>1. http' \in Seq(FormedRequest)
      BY <2>2 DEF ClientInvariant, ClientIsTyped
    <3>2. \A k \in DOMAIN http' : http'[k] = r \/ \E i \in DOMAIN http : http'[k] = http[i]
      BY <2>2
    <3>3. AnswersTrue'
      BY <1>1, <3>1, <3>2, NewRequests
    <3>4. OneBoot'
      BY <1>1, <1>4, <2>2 DEF ClientInvariant, OneBoot
    <3> QED
      BY <3>1, <3>3, <3>4
  <2> QED
    BY <2>1, <2>2
<1>6. ClientIsTyped'
  BY <1>4, <1>5 DEF ClientInvariant, ClientIsTyped
<1>7. CacheInventsNothing'
  BY <1>1, <1>4, SettingsAssumption DEF ClientInvariant, CacheInventsNothing, history
<1>8. BootInformed'
  BY <1>1 DEF ClientInvariant, BootInformed, Drift
<1> QED
  BY <1>1, <1>5, <1>6, <1>7, <1>8 DEF ClientInvariant

LEMMA OpenChannelStep ==
    ASSUME ClientInvariant, NEW ch \in Channel, OpenChannel(ch)
    PROVE  ClientInvariant'
<1>1. PICK e : e = Entry(ch, None)
  OBVIOUS
<1>2. None \in Flag
  BY DEF Flag
<1>3. e \in Entries /\ DOMAIN e = {ch}
  BY <1>1, <1>2, EntryTyped
<1>4. PICK r \in FormedRequest :
         r = Ask("get", FALSE, e) /\ Truthful(r)' /\ Complete(r)' /\ ~r.boot
  <2>1. FALSE \in BOOLEAN /\ "get" \in {"config", "bulk", "get", "put", "admin"}
    OBVIOUS
  <2>2. \E c \in Channel : DOMAIN e = {c}
    BY <1>3
  <2> QED
    BY <1>3, <2>1, <2>2, AskSent
<1>5. /\ Click /\ UNCHANGED <<slice, create>>
      /\ tab' = [tab EXCEPT !.view = ch]
      /\ http' = http \/ http' = http \o <<r>>
  BY <1>1, <1>4 DEF OpenChannel, Send
<1>6. tab' = [tab EXCEPT !.view = ch, !.viaEnv = tab.viaEnv]
  BY <1>5 DEF ClientInvariant, ClientIsTyped
<1>7. ch \in Channel \cup {None} /\ tab.viaEnv \in {tab.viaEnv, None}
  OBVIOUS
<1> QED
  BY <1>4, <1>5, <1>6, <1>7, ClickSends

LEMMA ToggleStep ==
    ASSUME ClientInvariant, Toggle
    PROVE  ClientInvariant'
<1>1. tab \in [boot : {"config", "channels", "ready"}, view : Channel \cup {None}, viaEnv : Flag]
  BY DEF ClientInvariant, ClientIsTyped
<1>2. PICK ch \in Channel : ch = tab.view
  BY <1>1 DEF Toggle
<1>3. PICK b \in BOOLEAN : b = MenuSaysEnable(ch)
  BY DEF MenuSaysEnable
<1>4. PICK e : e = Entry(ch, b)
  OBVIOUS
<1>5. b \in Flag
  BY DEF Flag
<1>6. e \in Entries /\ DOMAIN e = {ch} /\ e[ch] = b
  BY <1>4, <1>5, EntryTyped
<1>7. PICK r \in FormedRequest :
         r = Ask("put", FALSE, e) /\ Truthful(r)' /\ Complete(r)' /\ ~r.boot
  <2>1. FALSE \in BOOLEAN /\ "put" \in {"config", "bulk", "get", "put", "admin"}
    OBVIOUS
  <2>2. (\E c \in Channel : DOMAIN e = {c}) /\ \A c \in DOMAIN e : e[c] \in BOOLEAN
    BY <1>6
  <2> QED
    BY <1>6, <2>1, <2>2, AskSent
<1>8. /\ Click /\ UNCHANGED <<slice, tab, create>>
      /\ http' = http \o <<r>>
  BY <1>2, <1>3, <1>4, <1>7 DEF Toggle, Send
<1>9. tab' = [tab EXCEPT !.view = tab.view, !.viaEnv = tab.viaEnv]
  BY <1>1, <1>8
<1>10. tab.view \in Channel \cup {None} /\ tab.viaEnv \in {tab.viaEnv, None}
  BY <1>1
<1> QED
  BY <1>7, <1>8, <1>9, <1>10, ClickSends

LEMMA ReconnectStep ==
    ASSUME ClientInvariant, Reconnect
    PROVE  ClientInvariant'
<1>1. tab \in [boot : {"config", "channels", "ready"}, view : Channel \cup {None}, viaEnv : Flag]
  BY DEF ClientInvariant, ClientIsTyped
<1>2. PICK r \in FormedRequest :
         r = Ask("config", FALSE, NoEntries) /\ Truthful(r)' /\ Complete(r)' /\ ~r.boot
  <2>1. FALSE \in BOOLEAN
    OBVIOUS
  <2> QED
    BY <2>1, NothingTyped, AskSent
<1>3. Click /\ UNCHANGED <<slice, tab, create>> /\ http' = http \o <<r>>
  BY <1>2 DEF Reconnect, Send
<1>4. tab' = [tab EXCEPT !.view = tab.view, !.viaEnv = tab.viaEnv]
  BY <1>1, <1>3
<1>5. tab.view \in Channel \cup {None} /\ tab.viaEnv \in {tab.viaEnv, None}
  BY <1>1
<1> QED
  BY <1>2, <1>3, <1>4, <1>5, ClickSends

LEMMA OpenAdminConsoleStep ==
    ASSUME ClientInvariant, OpenAdminConsole
    PROVE  ClientInvariant'
<1>1. tab \in [boot : {"config", "channels", "ready"}, view : Channel \cup {None}, viaEnv : Flag]
  BY DEF ClientInvariant, ClientIsTyped
<1>2. PICK r \in FormedRequest :
         r = Ask("admin", FALSE, NoEntries) /\ Truthful(r)' /\ Complete(r)' /\ ~r.boot
  <2>1. FALSE \in BOOLEAN
    OBVIOUS
  <2> QED
    BY <2>1, NothingTyped, AskSent
<1>3. /\ Click /\ UNCHANGED <<slice, create>> /\ http' = http \o <<r>>
      /\ tab' = [tab EXCEPT !.viaEnv = None]
  BY <1>2 DEF OpenAdminConsole, Send
<1>4. tab' = [tab EXCEPT !.view = tab.view, !.viaEnv = None]
  BY <1>1, <1>3
<1>5. tab.view \in Channel \cup {None} /\ None \in {tab.viaEnv, None}
  BY <1>1
<1> QED
  BY <1>2, <1>3, <1>4, <1>5, ClickSends

LEMMA StartClickStep ==
    ASSUME ClientInvariant, StartClick
    PROVE  ClientInvariant'
<1>1. UNCHANGED client /\ Click /\ create' = CreateAsked(tab.view)
  BY DEF StartClick, client
<1>2. tab.view \in Channel
  BY DEF StartClick, ClientInvariant, ClientIsTyped
<1>3. HadIsHistory' /\ Drift /\ UNCHANGED <<tables, server, active>>
  BY <1>1, ClickSound
<1>4. create' \in [channel : Channel, checked : BOOLEAN, sawEnabled : BOOLEAN]
  BY <1>1, <1>2, CreateAskedTyped
<1>5. ServerIsTyped'
  BY <1>3, <1>4 DEF ClientInvariant, ServerIsTyped, tables
<1> QED
  BY <1>1, <1>3, <1>5, ServerAlone

-----------------------------------------------------------------------------

\* Every step keeps the types, the truth of the answers and of the cache, and
\* what the boot learns.
LEMMA ClientStep ==
    ASSUME ClientInvariant, [SettingsNext]_settingsVars
    PROVE  ClientInvariant'
<1>0. ServerIsTyped /\ create \in [channel : Channel, checked : BOOLEAN, sawEnabled : BOOLEAN] \cup {None}
  BY DEF ClientInvariant, ServerIsTyped
<1>1. ASSUME UNCHANGED <<rtk_calls_channels, history, client, server>>, ServerIsTyped'
      PROVE  ClientInvariant'
  <2>1. HadIsHistory' /\ Drift
    BY <1>1, QuietHistory DEF history
  <2> QED
    BY <1>1, <2>1, ServerAlone
<1>2. ASSUME NEW n \in Node, ImportProbe(n) PROVE ClientInvariant'
  <2>1. ServerIsTyped' /\ UNCHANGED <<rtk_calls_channels, history, client, server>>
    BY <1>0, <1>2 DEF ImportProbe, GoesTo, ServerIsTyped, calls
  <2> QED
    BY <1>1, <2>1
<1>3. ASSUME NEW n \in Node, ImportCount(n) PROVE ClientInvariant'
  <2>1. ServerIsTyped' /\ UNCHANGED <<rtk_calls_channels, history, client, server>>
    BY <1>0, <1>3 DEF ImportCount, GoesTo, ServerIsTyped, calls
  <2> QED
    BY <1>1, <2>1
<1>4. ASSUME NEW n \in Node, ImportInsert(n) PROVE ClientInvariant'
  <2>1. UNCHANGED client
    BY <1>4 DEF ImportInsert
  <2> QED
    BY <1>4, <2>1, ImportHistory, ServerAlone
<1>5. CASE OtherAdminWrites
  <2>1. UNCHANGED client
    BY <1>5 DEF OtherAdminWrites, Change
  <2>2. PICK ch \in Channel, enabled \in BOOLEAN : UpdateCallsChannelEnabled(ch, enabled)
    BY <1>5 DEF OtherAdminWrites
  <2> QED
    BY <2>1, <2>2, UpdateHistory, ServerAlone
<1>6. CASE ConfigurationChanges
  <2>1. /\ UNCHANGED <<tables, calls, history, client>>
        /\ server' = [server EXCEPT !.configured = ~@]
    BY <1>6 DEF ConfigurationChanges, Change
  <2>2. server'.viaEnv = server.viaEnv /\ server' \in [configured : BOOLEAN, viaEnv : BOOLEAN]
    BY <1>0, <2>1 DEF ServerIsTyped
  <2>3. ServerIsTyped'
    BY <1>0, <2>1, <2>2 DEF ServerIsTyped, tables, calls
  <2>4. HadIsHistory' /\ Drift
    BY <2>1, <2>2, QuietHistory DEF tables, history
  <2> QED
    BY <2>1, <2>3, <2>4, ServerAlone
<1>7. CASE OtherClientStarts
  <2>1. PICK ch \in Channel : create' = CreateAsked(ch)
    BY <1>7 DEF OtherClientStarts
  <2>2. UNCHANGED <<tables, active, history, client, server>>
    BY <1>7 DEF OtherClientStarts, Change
  <2>3. create' \in [channel : Channel, checked : BOOLEAN, sawEnabled : BOOLEAN]
    BY <2>1, CreateAskedTyped
  <2> QED
    BY <1>0, <1>1, <2>2, <2>3 DEF ServerIsTyped, tables
<1>8. CASE CreateCheck
  <2>1. UNCHANGED <<tables, active, history, client, server>>
    BY <1>8 DEF CreateCheck
  <2>2. create' \in [channel : Channel, checked : BOOLEAN, sawEnabled : BOOLEAN] \cup {None}
    BY <1>0, <1>8 DEF CreateCheck
  <2> QED
    BY <1>0, <1>1, <2>1, <2>2 DEF ServerIsTyped, tables
<1>9. CASE CreateInsert
  <2>1. /\ UNCHANGED <<tables, history, client, server>> /\ create' = None
        /\ create # None /\ active' = active \cup {create.channel}
    BY <1>9 DEF CreateInsert
  <2>2. active' \subseteq Channel
    BY <1>0, <2>1 DEF ServerIsTyped
  <2> QED
    BY <1>0, <1>1, <2>1, <2>2 DEF ServerIsTyped, tables
<1>10. CASE CallEnds
  <2>1. UNCHANGED <<tables, create, history, client, server>>
    BY <1>10 DEF CallEnds, Change
  <2>2. active' \subseteq Channel
    BY <1>0, <1>10 DEF CallEnds, ServerIsTyped
  <2> QED
    BY <1>0, <1>1, <2>1, <2>2 DEF ServerIsTyped, tables
<1>11. CASE Serve
  <2>1. /\ UNCHANGED <<slice, tab>>
        /\ \E i \in DOMAIN http : ServeRead(i) \/ (http[i].kind = "put" /\ ServePut(i))
    BY <1>11 DEF Serve
  <2> QED
    BY <2>1, ReadStep, PutStep
<1>12. CASE FetchFails
  BY <1>12, FailStep
<1>13. CASE DeliverAnswer
  BY <1>13, DeliverStep
<1>14. CASE UNCHANGED settingsVars
  <2>1. ServerIsTyped'
    BY <1>0, <1>14 DEF ServerIsTyped, settingsVars, tables, calls
  <2> QED
    BY <1>1, <1>14, <2>1 DEF settingsVars, tables
<1> QED
  BY <1>2, <1>3, <1>4, <1>5, <1>6, <1>7, <1>8, <1>9, <1>10, <1>11, <1>12, <1>13, <1>14,
     OpenChannelStep, ToggleStep, StartClickStep, ReconnectStep, OpenAdminConsoleStep
     DEF SettingsNext

\* When the page is loaded the tab knows nothing, and asks for the status.
LEMMA ClientInitial == SettingsInit => ClientInvariant
<1> SUFFICES ASSUME SettingsInit PROVE ClientInvariant
  OBVIOUS
<1>1. ServerIsTyped
  BY DEF SettingsInit, ServerIsTyped, Flag
<1>2. PICK r \in FormedRequest : /\ http = <<r>> /\ r.kind = "config" /\ r.boot
                                 /\ r.stage = "sent" /\ ~r.ok
  <2>1. PICK r : r = Ask("config", TRUE, NoEntries)
    OBVIOUS
  <2>2. r = [kind |-> "config", boot |-> TRUE, entries |-> NoEntries, stage |-> "sent",
             ok |-> FALSE, enabled |-> None]
    BY <2>1 DEF Ask
  <2>3. r \in FormedRequest
    BY <2>2, NothingTyped DEF FormedRequest, SettingsRequest, WellFormed, Flag
  <2>4. http = <<r>>
    BY <2>1 DEF SettingsInit
  <2>5. r.kind = "config" /\ r.boot /\ r.stage = "sent" /\ ~r.ok
    BY <2>2
  <2> QED
    BY <2>3, <2>4, <2>5
<1>3. /\ slice = initialState
      /\ tab = [boot |-> "config", view |-> None, viaEnv |-> None]
  BY DEF SettingsInit
<1>4. /\ initialState \in CallsPluginState
      /\ \A ch \in Channel : initialState.channelEnabledState[ch] = None
  BY DEF initialState, CallsPluginState
<1>5. ClientIsTyped
  <2>1. <<r>> \in Seq(FormedRequest)
    BY <1>2
  <2>2. tab \in [boot : {"config", "channels", "ready"}, view : Channel \cup {None}, viaEnv : Flag]
    BY <1>3 DEF Flag
  <2> QED
    BY <1>2, <1>3, <1>4, <2>1, <2>2 DEF ClientIsTyped
<1>6. HadIsHistory
  BY DEF SettingsInit, HadIsHistory, Enabled
<1>7. AnswersTrue
  BY <1>2 DEF AnswersTrue, Truthful, Complete
<1>8. OneBoot
  BY <1>2, <1>3 DEF OneBoot
<1>9. CacheInventsNothing
  BY <1>3, <1>4, SettingsAssumption DEF CacheInventsNothing
<1>10. BootInformed
  BY <1>3 DEF BootInformed
<1> QED
  BY <1>1, <1>5, <1>6, <1>7, <1>8, <1>9, <1>10 DEF ClientInvariant

\* The invariant of the tab: its types, and what answers, cache and boot have
\* to do with the history of the table.
THEOREM ClientInvariance == SettingsSpec => []ClientInvariant
<1>1. ClientInvariant /\ [SettingsNext]_settingsVars => ClientInvariant'
  BY ClientStep
<1> QED
  BY <1>1, ClientInitial, PTL DEF SettingsSpec

\* The table, the activations, CreateCall, the slice and the tab keep their
\* types, whatever is answered in whatever order.
THEOREM SettingsTypeOKAlways == SettingsSpec => []SettingsTypeOK
<1>1. ClientInvariant => SettingsTypeOK
  <2> SUFFICES ASSUME ClientInvariant PROVE SettingsTypeOK
    OBVIOUS
  <2>1. \A i \in DOMAIN http : http[i].entries \in Entries
    <3>1. \A i \in DOMAIN http : http[i] \in FormedRequest
      BY ElementOfSeq, LenProperties DEF ClientInvariant, ClientIsTyped
    <3> QED
      BY <3>1 DEF FormedRequest, SettingsRequest
  <2> QED
    BY <2>1 DEF ClientInvariant, ServerIsTyped, ClientIsTyped, SettingsTypeOK, Flag
<1> QED
  BY <1>1, ClientInvariance, PTL

\* However late an answer comes, and whichever are lost, the tab believes of a
\* channel only what was in force since the page was loaded, and of a
\* credential that it comes from the environment only if it does.
THEOREM CacheInventsNothingAlways == SettingsSpec => []CacheInventsNothing
<1>1. ClientInvariant => CacheInventsNothing
  BY DEF ClientInvariant
<1> QED
  BY <1>1, ClientInvariance, PTL

\* After a boot without a failure, the header button of a channel that is
\* disabled, and was all the time, is hidden from the first frame on.
THEOREM FirstFrameAlways == SettingsSpec => []FirstFrame
<1>1. ClientInvariant => FirstFrame
  <2> SUFFICES ASSUME ClientInvariant, tab.boot = "ready", ~failed,
                      NEW ch \in Channel \ changed, ~Enabled(ch)
               PROVE  ~HeaderVisible(ch)
    BY DEF FirstFrame
  <2>1. slice.channelEnabledState[ch] # None
    BY DEF ClientInvariant, BootInformed
  <2>2. slice.channelEnabledState[ch] \in had[ch]
    BY <2>1 DEF ClientInvariant, CacheInventsNothing
  <2>3. had[ch] = {Enabled(ch)}
    BY DEF ClientInvariant, HadIsHistory
  <2>4. slice.channelEnabledState[ch] = FALSE
    BY <2>2, <2>3 DEF Enabled
  <2> QED
    BY <2>4 DEF HeaderVisible
<1> QED
  BY <1>1, ClientInvariance, PTL
=============================================================================
