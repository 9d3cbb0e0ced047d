------------------------- MODULE MCChannelSettings --------------------------
(***************************************************************************)
(* An instance of ChannelSettings for TLC: two nodes, a public channel and *)
(* a direct one, and a table of the Calls plugin that disables the public  *)
(* one, or that does not exist; the plugin is being activated on one node, *)
(* and on the other one or not, and there is a call in the direct channel. *)
(***************************************************************************)
EXTENDS ChannelSettingsProperties

CONSTANTS public, direct, n2

Start ==
    /\ SettingsInit
    /\ calls_channels \in {[rows |-> {}, disabled |-> {}],
                           [rows |-> {public, direct}, disabled |-> {public}]}
    /\ rtk_calls_channels[direct] = None
    /\ server.configured
    /\ active = {direct}
    /\ activation[n2] = "probe"

MCSpec == Start /\ [][SettingsNext]_settingsVars /\ SettingsFairness
=============================================================================
