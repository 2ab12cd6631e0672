---------------------------- MODULE PortFirewall ----------------------------
(***************************************************************************)
(* The port firewall of the manager (manager/portfirewall.go): it blocks   *)
(* ports on the adapter of the active tunnel by rules of Windows Firewall, *)
(* one group of rules for each tunnel, that outlive the manager.           *)
(*                                                                         *)
(* Tunnels and their trackers, which call OnTunnelStateChange through      *)
(* IPCServerNotifyTunnelChange, are the environment: a tunnel is reported  *)
(* some time after it started or stopped.                                  *)
(***************************************************************************)
EXTENDS PortRanges

CONSTANTS
  Tunnels,   \* the tunnels
  None,      \* the empty name of a tunnel
  RuleSets,  \* what the user may enter: sequences of PortRules
  Faults     \* what may go wrong, from AllFaults

\* psFails: a PowerShell script does not run, or some of its commands fail;
\* saveFails: the configuration is not written; crash: the manager crashes;
\* earlyReport: a tracker, running since watchNewTunnelServices, reports a
\* tunnel before InitPortFirewall.
AllFaults == {"psFails", "saveFails", "crash", "earlyReport"}

FirewallAssumption ==
  /\ None \notin Tunnels
  /\ RuleSets \subseteq Seq(PortRules)
  /\ Faults \subseteq AllFaults

Modes == {"off", "whitelist", "blacklist"}
Configs == [mode : Modes, rules : Seq(PortRules)]
NoConfig == [mode |-> "off", rules |-> <<>>]

\* The rules of a group: for each protocol the ranges that are blocked, <<>> when
\* there is no rule.
NoRules == [proto \in Protocols |-> <<>>]

VARIABLES
  phase,         \* of managerService.Execute: down, watching for tunnels, ready
  current,       \* mode and rules
  file,          \* port-firewall.json
  activeTunnel,  \* activeTunnel
  firewall,      \* the rules of each tunnel's group in Windows Firewall
  up,            \* the tunnels that run
  reported,      \* the tunnels whose last report to the manager was "started"
  unsaved,       \* a failure left the file behind the settings
  unapplied      \* a failure left the firewall behind the settings

vars == <<phase, current, file, activeTunnel, firewall, up, reported, unsaved, unapplied>>

\* What the manager's last run left in the file.
Saved == [mode : Modes, rules : {normalizePortRules(rules) : rules \in RuleSets}]

Init ==
  /\ phase = "watching"
  /\ current = NoConfig
  /\ file \in Saved \cup {NoConfig}
  /\ activeTunnel = None
  /\ firewall = [t \in Tunnels |-> NoRules]
  /\ up \in SUBSET Tunnels
  /\ reported = {}
  /\ unsaved = FALSE
  /\ unapplied = FALSE

-----------------------------------------------------------------------------
(* Scripts.                                                                *)

\* What a script that replaces the rules of a group may leave when it fails:
\* ErrorAction is SilentlyContinue, so that one command may fail and the next be
\* done.
Remains(old, new) == {old, NoRules} \cup {[new EXCEPT ![p] = <<>>] : p \in Protocols}

\* The group of t gets the rules new.
RunScript(t, new) ==
  \/ /\ firewall' = [firewall EXCEPT ![t] = new]
     /\ unapplied' = FALSE
  \/ /\ "psFails" \in Faults
     /\ \E rules \in Remains(firewall[t], new) : firewall' = [firewall EXCEPT ![t] = rules]
     /\ unapplied' = TRUE

\* applyRulesLocked, for the tunnel t and the configuration c.
applyRules(t, c) ==
  IF t = None
    THEN firewall' = firewall /\ unapplied' = FALSE
    ELSE RunScript(t, effectiveBlockRanges(c.mode, c.rules))

-----------------------------------------------------------------------------
(* The manager.                                                            *)

\* init: the configuration is loaded and every group is removed.
InitPortFirewall ==
  /\ phase = "watching"
  /\ phase' = "ready"
  /\ current' = [file EXCEPT !.rules = normalizePortRules(@)]
  /\ unsaved' = FALSE /\ unapplied' = FALSE
  /\ \/ firewall' = [t \in Tunnels |-> NoRules]
     \/ "psFails" \in Faults /\ UNCHANGED firewall
  /\ UNCHANGED <<file, activeTunnel, up, reported>>

MayReport == phase = "ready" \/ (phase = "watching" /\ "earlyReport" \in Faults)

\* OnTunnelStateChange(t, TunnelStarted).
OnStarted(t) ==
  /\ MayReport
  /\ t \in up /\ t \notin reported
  /\ reported' = reported \cup {t}
  /\ activeTunnel' = t
  /\ applyRules(t, current)
  /\ UNCHANGED <<phase, current, file, up, unsaved>>

\* Mutant of OnStopped: activeTunnel is not reset.
OnStoppedKeepsActive(t) ==
  /\ MayReport
  /\ t \notin up /\ t \in reported
  /\ reported' = reported \ {t}
  /\ IF activeTunnel = t
       THEN RunScript(t, NoRules)
       ELSE UNCHANGED <<firewall, unapplied>>
  /\ UNCHANGED <<phase, current, file, activeTunnel, up, unsaved>>

\* OnTunnelStateChange(t, TunnelStopped).
OnStopped(t) ==
  /\ MayReport
  /\ t \notin up /\ t \in reported
  /\ reported' = reported \ {t}
  /\ IF activeTunnel = t
       THEN /\ RunScript(t, NoRules)
            /\ activeTunnel' = None
       ELSE UNCHANGED <<firewall, unapplied, activeTunnel>>
  /\ UNCHANGED <<phase, current, file, up, unsaved>>

\* Mutant of SetRules: the file is written before the configuration is set.
SetRulesSavesFirst(mode, rules) ==
  /\ phase = "ready"
  /\ current' = [mode |-> mode, rules |-> normalizePortRules(rules)]
  /\ file' = current
  /\ unsaved' = FALSE
  /\ applyRules(activeTunnel, current')
  /\ UNCHANGED <<phase, activeTunnel, up, reported>>

\* SetRules returns early, with nothing applied, when the file is not written.
SetRules(mode, rules) ==
  /\ phase = "ready"
  /\ current' = [mode |-> mode, rules |-> normalizePortRules(rules)]
  /\ \/ /\ file' = current'
        /\ unsaved' = FALSE
        /\ applyRules(activeTunnel, current')
     \/ /\ "saveFails" \in Faults
        /\ unsaved' = TRUE /\ unapplied' = TRUE
        /\ UNCHANGED <<file, firewall>>
  /\ UNCHANGED <<phase, activeTunnel, up, reported>>

-----------------------------------------------------------------------------
(* The environment.                                                        *)

TunnelStarts(t) ==
  /\ t \notin up
  /\ up' = up \cup {t}
  /\ UNCHANGED <<phase, current, file, activeTunnel, firewall, reported, unsaved, unapplied>>

TunnelStops(t) ==
  /\ t \in up
  /\ up' = up \ {t}
  /\ UNCHANGED <<phase, current, file, activeTunnel, firewall, reported, unsaved, unapplied>>

Crash ==
  /\ "crash" \in Faults
  /\ phase # "down"
  /\ phase' = "down"
  /\ current' = NoConfig
  /\ activeTunnel' = None
  /\ reported' = {}
  /\ UNCHANGED <<file, firewall, up, unsaved, unapplied>>

Restart ==
  /\ phase = "down"
  /\ phase' = "watching"
  /\ UNCHANGED <<current, file, activeTunnel, firewall, up, reported, unsaved, unapplied>>

Next ==
  \/ InitPortFirewall
  \/ \E t \in Tunnels :
       OnStarted(t) \/ OnStopped(t) \/ TunnelStarts(t) \/ TunnelStops(t)
  \/ \E mode \in Modes, rules \in RuleSets : SetRules(mode, rules)
  \/ Crash
  \/ Restart

Spec == Init /\ [][Next]_vars

-----------------------------------------------------------------------------
(* Properties.                                                             *)

TypeOK ==
  /\ phase \in {"down", "watching", "ready"}
  /\ current \in Configs
  /\ file \in Configs
  /\ activeTunnel \in Tunnels \cup {None}
  /\ firewall \in [Tunnels -> [Protocols -> Seq(Ranges)]]
  /\ up \subseteq Tunnels
  /\ reported \subseteq Tunnels
  /\ unsaved \in BOOLEAN
  /\ unapplied \in BOOLEAN

\* "Only the listed ports are allowed through the tunnel" in whitelist mode, "the
\* listed ports are blocked" in blacklist mode: whatever the order of reports,
\* settings and crashes, the active tunnel's ports that are blocked are those the
\* settings in force mean, range arithmetic included, unless the last attempt to
\* make it so failed.
ListedPortsOnly ==
  phase = "ready" /\ activeTunnel # None /\ ~ unapplied =>
    \A proto \in Protocols :
      PortsIn(firewall[activeTunnel][proto]) = ToBlock(current.mode, current.rules, proto)

\* A restart of the manager brings the settings back as they were in force, unless
\* the last attempt to save them failed.
SavedIsCurrent ==
  phase = "ready" /\ ~ unsaved => current = [file EXCEPT !.rules = normalizePortRules(@)]

\* A tunnel that is taken for active was last reported as started: a late report
\* about one tunnel does not unbind, nor keep bound, another.
ActiveIsReported == activeTunnel # None => activeTunnel \in reported
=============================================================================
