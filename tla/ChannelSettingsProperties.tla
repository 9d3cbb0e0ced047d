--------------------- MODULE ChannelSettingsProperties ----------------------
(***************************************************************************)
(* What ChannelSettings guarantees to admins and users.                    *)
(***************************************************************************)
EXTENDS ChannelSettings

SettingsTypeOK ==
    /\ rtk_calls_channels \in [Channel -> BOOLEAN \cup {None}]
    /\ activation \in [Node -> {"probe", "count", "insert", "active"}]
    /\ active \subseteq Channel
    /\ create \in [channel : Channel, checked : BOOLEAN, sawEnabled : BOOLEAN] \cup {None}
    /\ slice \in CallsPluginState
    /\ tab \in [boot : {"config", "channels", "ready"}, view : Channel \cup {None},
                viaEnv : BOOLEAN \cup {None}]
    /\ \A i \in DOMAIN http : http[i].entries \in Entries

\* What an admin chose stays, whatever node imports the Calls plugin's table
\* by then: an activation may have counted no row before the choice was made
\* ("idempotency even if two cluster nodes race", calls_channels.go).
ChoiceSticks ==
    \A ch \in Channel : chosen[ch] # None => rtk_calls_channels[ch] = chosen[ch]

\* What the tab believes of a channel was in force at some time since the page
\* was loaded, however late the answer came, and a credential it shows as set by
\* the environment is: no answer, and no missing flag, makes up a setting.
CacheInventsNothing ==
    /\ \A ch \in Channel :
         slice.channelEnabledState[ch] # None => slice.channelEnabledState[ch] \in had[ch]
    /\ tab.viaEnv = TRUE => server.viaEnv

\* When the components appear, the header button of a channel whose calls are
\* disabled is hidden from the first frame on ("no flicker for disabled
\* channels", index.tsx), unless a request of the boot failed.
FirstFrame ==
    tab.boot = "ready" /\ ~failed =>
        \A ch \in Channel \ changed : HeaderVisible(ch) => Enabled(ch)

\* A call starts only in a channel that was enabled at some time while the
\* request was under way, whatever button the client showed.
StartsOnlyEnabled ==
    [][\A ch \in Channel : ch \in active' \ active => create.sawEnabled]_settingsVars

\* The plugin's components are registered in the end, whatever requests fail.
BootFinishes == tab.boot # "ready" ~> tab.boot = "ready"
=============================================================================
