--------------------------- MODULE SettingsParts ---------------------------
(***************************************************************************)
(* What a tunnel's configuration and the settings go through, as one       *)
(* specification of parts that share no state: the groups that show the    *)
(* peers of a configuration, the configurations that the routing settings  *)
(* rewrite, and the rules of the port firewall.  The initial state chooses *)
(* a part, and only that one runs: a behaviour is one of a part's.         *)
(***************************************************************************)
EXTENDS Naturals, Sequences

CONSTANTS
  Others,                                           \* the names of further parts, that run elsewhere
  Keys, ZeroKey, Data, MaxPeers, NoText,            \* PeerViews
  Tunnels, None, Inputs, Disturbances, MaxInputs,   \* TunnelConfigs
  MaxPort, RuleSets, Faults                         \* PortFirewall

VARIABLES
  part,
  isAdmin, peerConfig, groups, peers,                                     \* PeerViews
  file, settings, saved, unsaved, jobs, held, wanted, excused, stripped,  \* TunnelConfigs
  stranded, fileInputs,
  phase, current, rulesFile, activeTunnel, firewall, up, reported,        \* PortFirewall
  rulesUnsaved, unapplied

peersVars == <<isAdmin, peerConfig, groups, peers>>
filesVars ==
  <<file, settings, saved, unsaved, jobs, held, wanted, excused, stripped, stranded, fileInputs>>
rulesVars == <<phase, current, rulesFile, activeTunnel, firewall, up, reported, rulesUnsaved, unapplied>>
vars == <<part, peersVars, filesVars, rulesVars>>

Peers == INSTANCE PeerViews WITH config <- peerConfig
Configurations == INSTANCE TunnelConfigs WITH config <- settings, inputs <- fileInputs
Rules == INSTANCE PortFirewall WITH file <- rulesFile, unsaved <- rulesUnsaved

ASSUME ConstantsAssumption ==
  /\ Peers!PeerViewsAssumption /\ Configurations!TunnelConfigsAssumption
  /\ Rules!MaxPortAssumption /\ Rules!FirewallAssumption

Init ==
  /\ part \in {"peers", "files", "rules"} \cup Others
  /\ Peers!Init /\ Configurations!Init /\ Rules!Init

InPeers == part = "peers" /\ UNCHANGED <<part, filesVars, rulesVars>>
InFiles == part = "files" /\ UNCHANGED <<part, peersVars, rulesVars>>
InRules == part = "rules" /\ UNCHANGED <<part, peersVars, filesVars>>

Next ==
  \/ InPeers /\ Peers!Next
  \/ InFiles /\ Configurations!Next
  \/ InRules /\ Rules!Next

Spec == Init /\ [][Next]_vars

-----------------------------------------------------------------------------
(* Properties: those of the parts, some of a kind in one.                  *)

\* The types of the parts, each with what relates its state.
TypeOK == Peers!TypeOK /\ Configurations!TypeOK /\ Rules!TypeOK

\* The groups of peers are those of the configuration (PeerViews).
PeersShown == Peers!PeersShown

\* A tunnel that is not managed has its user's table, unless the settings have lost
\* track of it (TunnelConfigs).
TableOffComesBack == Configurations!TableOffComesBack

\* The default route, or what the code takes for it, is rewritten without loss or
\* gain, and as the setting says (TunnelConfigs).
ConfigsFollow == Configurations!NetworksKept /\ Configurations!ConfigsFollow

\* What is blocked is what the settings in force mean (PortFirewall).
ListedPortsOnly == Rules!ListedPortsOnly

\* The settings in force are those in the file, and the active tunnel was reported
\* as started (PortFirewall).
SettingsOfTheActive == Rules!SavedIsCurrent /\ Rules!ActiveIsReported
=============================================================================
