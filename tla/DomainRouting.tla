--------------------------- MODULE DomainRouting ---------------------------
(***************************************************************************)
(* The domain routing manager (manager/domainrouting.go): the object       *)
(* behind m.mu that binds one running tunnel, learns /32 routes from DNS   *)
(* answers, points the DNS servers of the tunnel adapter and of the        *)
(* default adapter at the proxy on 127.0.0.1, and keeps its settings in    *)
(* domain-routing.json.  Every exported operation holds m.mu from start to *)
(* end, so each is one action; what calls them concurrently (the DNS       *)
(* proxy's queries, module DnsProxy) sees nothing in between.              *)
(*                                                                         *)
(* The adapters, their DNS servers and the routing table belong to Windows *)
(* and the tunnel services: they are modelled from how the code uses them. *)
(* What Windows may refuse or undo is named in Faults, so that each run    *)
(* and each theorem says which failures its properties survive.            *)
(***************************************************************************)
EXTENDS FiniteSets

CONSTANTS
  Tunnels,    \* names of tunnels, which are also the names of their adapters
  Nics,       \* physical adapters that may hold the default route
  Domains,    \* domain names, after normalizeDomain
  IPs,        \* IPv4 addresses found in DNS answers
  RuleSets,   \* the rule lists a user may set, a subset of Rules
  ModeInputs, \* the modes a user may set, a subset of Modes
  FileInputs, \* what domain-routing.json may be found to hold
  LoopbackInputs, \* what m.excludeLoopback may be when a tunnel is bound
  None,       \* the empty string, the nil pointer and the zero LUID
  Faults      \* what the environment may do, a subset of FaultKinds

Modes     == {"off", "relaxed", "strict", "dnsonly"}
ListModes == {"disabled", "whitelist", "blacklist"}
Servers   == {"own", "empty", "loopback"}
Targets   == {"none", "tunnel", "direct", "block"}
Adapters  == Tunnels \cup Nics

Rules == [listMode : ListModes, domains : SUBSET Domains,
          tunnel : SUBSET Domains, direct : SUBSET Domains,
          block : SUBSET Domains]
NoRules == [listMode |-> "disabled", domains |-> {}, tunnel |-> {},
            direct |-> {}, block |-> {}]

Entries   == [target : {"tunnel", "direct"}, luid : Adapters]
DNSStates == [luid : Nics, servers : {"own", "empty"}]

FaultKinds ==
  {"saveFails",       \* domain-routing.json cannot be written
   "fileEdit",        \* another program writes domain-routing.json
   "earlyNotify",     \* a tunnel is reported before init has run
   "activationFails", \* its configuration or adapter cannot be read
   "noDefaultRoute",  \* no adapter holds a default route
   "dnsReadFails",    \* the default adapter's DNS servers cannot be read
   "dnsFails",        \* SetDNS fails while redirecting
   "restoreFails",    \* SetDNS fails while restoring
   "addFails",        \* AddRoute fails
   "deleteFails",     \* DeleteRoute fails
   "routeLoss",       \* Windows drops a route (sleep, network change)
   "portBusy",        \* 127.0.0.1:53 is taken by another program
   "crash"}           \* the manager process dies and is started again

\* What domain-routing.json holds, and m.config, m.mode, m.listMode, m.rules
\* and m.routeTunnel, which the code always assigns together.
Configs == [mode : Modes, rules : RuleSets \cup {NoRules},
            routeTunnel : Tunnels \cup {None}]
ZeroConfig == [mode |-> "off", rules |-> NoRules, routeTunnel |-> None]

ASSUME ConstantsAssumption ==
  /\ Tunnels \cap Nics = {}
  /\ None \notin Adapters
  /\ None \notin Entries
  /\ None \notin DNSStates
  /\ RuleSets \subseteq Rules
  /\ ModeInputs \subseteq Modes
  /\ FileInputs \subseteq Configs
  /\ LoopbackInputs \subseteq BOOLEAN /\ LoopbackInputs # {}
  /\ Faults \subseteq FaultKinds

VARIABLES
  cfg,             \* the configuration in force
  file,            \* the configuration in domain-routing.json
  fileNewer,       \* whether the file changed since it was last read or written
  inited,          \* whether InitDomainRouting has run
  proxy,           \* whether m.proxy is set
  activeTunnel,    \* m.activeTunnel, with m.tunLUID; None for ""
  defaultIf,       \* m.defaultRoute.InterfaceLUID
  defaultDNS,      \* m.defaultDNS, the servers read when it was bound
  loopbackRouteAdded, \* m.loopbackRouteAdded
  loopbackThere,   \* whether the manager's route for 127.0.0.1 is in the table
  tunDNSState,     \* m.tunDNSState: the tunnel adapter to restore
  defaultDNSState, \* m.defaultDNSState: the default adapter to restore
  routeEntries,    \* m.routeEntries
  up,              \* tunnels whose service runs: their adapter exists
  dns,             \* the DNS servers of each adapter
  sysRoutes,       \* the /32 routes of the system table, as <<ip, adapter>>
  tracked,         \* trackedTunnels, reduced to started or stopped
  note             \* the state change a tracker is about to report

configVars  == <<cfg, file, fileNewer>>
loopbackVars == <<loopbackRouteAdded, loopbackThere>>
bindingVars == <<activeTunnel, defaultIf, defaultDNS, loopbackRouteAdded, loopbackThere>>
savedVars   == <<tunDNSState, defaultDNSState>>
routeVars   == <<routeEntries, sysRoutes>>
trackVars   == <<up, tracked, note>>
vars == <<configVars, inited, proxy, bindingVars, savedVars, routeVars, dns,
          trackVars>>

Init ==
  /\ cfg = ZeroConfig
  /\ file \in FileInputs
  /\ fileNewer = TRUE
  /\ inited = FALSE
  /\ proxy = FALSE
  /\ activeTunnel = None
  /\ defaultIf = None
  /\ defaultDNS = "empty"
  /\ loopbackRouteAdded = FALSE
  /\ loopbackThere = FALSE
  /\ tunDNSState = None
  /\ defaultDNSState = None
  /\ routeEntries = [ip \in IPs |-> None]
  /\ up = {}
  /\ dns = [i \in Adapters |-> "own"]
  /\ sysRoutes = {}
  /\ tracked = [t \in Tunnels |-> "stopped"]
  /\ note = [t \in Tunnels |-> "none"]

-----------------------------------------------------------------------------
(* The rules.                                                              *)

HasEffectiveRules(r) ==
  CASE r.listMode = "whitelist" -> r.domains # {}
    [] r.listMode = "blacklist" -> TRUE
    [] OTHER -> r.tunnel # {} \/ r.direct # {}

\* decideRoute once the configuration is current.
Decision(r, d) ==
  LET listed == d \in r.domains
  IN  IF d \in r.block THEN "block"
      ELSE CASE r.listMode = "whitelist" -> IF listed THEN "tunnel" ELSE "direct"
             [] r.listMode = "blacklist" -> IF listed THEN "direct" ELSE "tunnel"
             [] r.listMode = "disabled"  -> IF d \in r.direct THEN "direct"
                                            ELSE IF d \in r.tunnel THEN "tunnel"
                                            ELSE "none"

-----------------------------------------------------------------------------
(* The routing table.                                                      *)

Learned   == {ip \in IPs : routeEntries[ip] # None}
OwnRoute(ip) == <<ip, routeEntries[ip].luid>>
OwnRoutes == {OwnRoute(ip) : ip \in Learned}

\* The table after DeleteRoute on each of the routes in rs; an error is logged.
AfterDelete(rs) ==
  IF "deleteFails" \in Faults
    THEN {sysRoutes \ gone : gone \in SUBSET rs}
    ELSE {sysRoutes \ rs}

\* Mutant of ClearRoutes: the books are cleared without DeleteRoute.
ClearBooksOnly ==
  /\ routeEntries' = [ip \in IPs |-> None]
  /\ UNCHANGED sysRoutes

ClearRoutes ==
  /\ routeEntries' = [ip \in IPs |-> None]
  /\ sysRoutes' \in AfterDelete(OwnRoutes)

\* removeLoopbackRouteLocked: an error is logged, and the route forgotten.
RemoveLoopback ==
  /\ loopbackRouteAdded' = FALSE
  /\ loopbackThere' \in {loopbackThere /\ ~ loopbackRouteAdded}
       \cup (IF "deleteFails" \in Faults THEN {loopbackThere} ELSE {})

\* addLoopbackRouteLocked, where the setting says so.  If no tunnel is kept, the
\* route of an earlier binding has been removed before.
AddLoopback(kept) ==
  \/ kept # None /\ loopbackRouteAdded /\ UNCHANGED loopbackVars
  \/ /\ kept = None \/ ~ loopbackRouteAdded
     /\ \/ /\ TRUE \in LoopbackInputs
           /\ loopbackRouteAdded' = TRUE
           /\ loopbackThere' = TRUE
        \/ /\ FALSE \in LoopbackInputs \/ "addFails" \in Faults
           /\ RemoveLoopback

Reachable(i) == i \in up \cup Nics

\* Whether AddRoute may fail: the adapter is gone, or Windows refuses.
AddMayFail(i) == ~ Reachable(i) \/ "addFails" \in Faults

-----------------------------------------------------------------------------
(* DNS redirection.                                                        *)

\* dns once both saved states are written back, where the adapter still exists.
Restored ==
  [i \in Adapters |->
     IF i = tunDNSState /\ i \in up THEN "own"
     ELSE IF defaultDNSState # None /\ i = defaultDNSState.luid
            THEN defaultDNSState.servers
            ELSE dns[i]]

AfterRestore ==
  IF "restoreFails" \in Faults
    THEN {[i \in Adapters |-> IF i \in done THEN Restored[i] ELSE dns[i]] :
            done \in SUBSET Adapters}
    ELSE {Restored}

\* restoreDNSLocked: its errors are ignored and the saved states are dropped.
RestoreDNS ==
  /\ dns' \in AfterRestore
  /\ tunDNSState' = None
  /\ defaultDNSState' = None

\* base with the adapters in S pointed at the proxy.
Redirected(base, S) ==
  [i \in Adapters |-> IF i \in S THEN "loopback" ELSE base[i]]

\* Mutant of ApplyDNS: the states are saved once both adapters are redirected.
ApplyDNSThenSave(base, t, d, ds, savedTun, savedDefault) ==
  LET def == IF savedDefault = None /\ d # None
               THEN [luid |-> d, servers |-> ds] ELSE savedDefault
      both == IF def = None THEN {t} ELSE {t, def.luid}
  IN  \/ /\ t \in up
         /\ dns' = Redirected(base, both)
         /\ tunDNSState' = IF savedTun = None THEN t ELSE savedTun
         /\ defaultDNSState' = def
      \/ /\ t \notin up \/ "dnsFails" \in Faults
         /\ dns' \in {base} \cup (IF t \in up THEN {Redirected(base, {t})} ELSE {})
         /\ tunDNSState' = savedTun
         /\ defaultDNSState' = savedDefault

\* applyDNSLocked for the binding to tunnel t and default adapter d, whose
\* servers were read as ds: the states to restore are saved first, then the
\* tunnel adapter is redirected, then the default one.
ApplyDNS(base, t, d, ds, savedTun, savedDefault) ==
  LET def == IF savedDefault = None /\ d # None
               THEN [luid |-> d, servers |-> ds] ELSE savedDefault
      both == IF def = None THEN {t} ELSE {t, def.luid}
  IN  /\ tunDNSState' = IF savedTun = None THEN t ELSE savedTun
      /\ defaultDNSState' = def
      /\ \/ t \in up /\ dns' = Redirected(base, both)
         \/ /\ t \notin up \/ "dnsFails" \in Faults
            /\ dns' = base
         \/ /\ t \in up /\ "dnsFails" \in Faults
            /\ dns' = Redirected(base, {t})

-----------------------------------------------------------------------------
(* Binding a tunnel.                                                       *)

DefaultIfs == Nics \cup (IF Nics = {} \/ "noDefaultRoute" \in Faults
                           THEN {None} ELSE {})

\* The servers findDefaultRouteAndDNS reads on d and filterIPv4 keeps.
ReadDNS(base, d) ==
  IF d = None THEN {"empty"}
  ELSE {IF base[d] = "loopback" THEN "empty" ELSE base[d]}
       \cup (IF "dnsReadFails" \in Faults THEN {"empty"} ELSE {})

\* Mutants of Deactivate: DNS is not restored, or the routes are kept.
DeactivateKeepsDNS ==
  /\ ClearRoutes
  /\ UNCHANGED <<savedVars, dns>>
  /\ RemoveLoopback
  /\ activeTunnel' = None
  /\ defaultIf' = None
  /\ defaultDNS' = "empty"

DeactivateKeepsRoutes ==
  /\ RestoreDNS
  /\ UNCHANGED routeVars
  /\ RemoveLoopback
  /\ activeTunnel' = None
  /\ defaultIf' = None
  /\ defaultDNS' = "empty"

\* Mutant of Deactivate: the route for 127.0.0.1 is not removed.
DeactivateKeepsLoopback ==
  /\ ClearRoutes
  /\ RestoreDNS
  /\ activeTunnel' = None
  /\ defaultIf' = None
  /\ defaultDNS' = "empty"
  /\ UNCHANGED loopbackVars

Deactivate ==
  /\ ClearRoutes
  /\ RestoreDNS
  /\ RemoveLoopback
  /\ activeTunnel' = None
  /\ defaultIf' = None
  /\ defaultDNS' = "empty"

\* Mutant of Activate: the default adapter's servers are read before they are
\* restored.
ActivateReadsFirst(t, c, kept) ==
  /\ ClearRoutes
  /\ t \in up
  /\ activeTunnel' = t
  /\ AddLoopback(kept)
  /\ \E base \in AfterRestore, d \in DefaultIfs :
       \E ds \in ReadDNS(dns, d) :
         /\ defaultIf' = d
         /\ defaultDNS' = ds
         /\ IF c.mode # "off" /\ HasEffectiveRules(c.rules) /\ proxy
              THEN ApplyDNS(base, t, d, ds, None, None)
              ELSE /\ dns' = base
                   /\ tunDNSState' = None
                   /\ defaultDNSState' = None

\* activateTunnelLocked under configuration c, for a tunnel that is not the
\* active one.  Routes and DNS are taken back before anything can fail; then
\* `kept`, the tunnel bound so far, stays bound.
Activate(t, c, kept) ==
  /\ ClearRoutes
  /\ \/ /\ t \notin up \/ "activationFails" \in Faults
        /\ RestoreDNS
        /\ activeTunnel' = kept
        /\ defaultIf' = IF kept = None THEN None ELSE defaultIf
        /\ defaultDNS' = IF kept = None THEN "empty" ELSE defaultDNS
        /\ IF kept = None THEN RemoveLoopback ELSE UNCHANGED loopbackVars
     \/ /\ t \in up
        /\ activeTunnel' = t
        /\ AddLoopback(kept)
        /\ \E base \in AfterRestore, d \in DefaultIfs :
             \E ds \in ReadDNS(base, d) :
               /\ defaultIf' = d
               /\ defaultDNS' = ds
               /\ IF c.mode # "off" /\ HasEffectiveRules(c.rules) /\ proxy
                    THEN ApplyDNS(base, t, d, ds, None, None)
                    ELSE /\ dns' = base
                         /\ tunDNSState' = None
                         /\ defaultDNSState' = None

\* Mutants of Fallbacks: stopped tunnels count, or the selection is ignored.
FallbacksStopped(c, exclude) ==
  {t \in Tunnels : t # exclude /\ (c.routeTunnel # None => t = c.routeTunnel)}

FallbacksUnselected(c, exclude) ==
  {t \in Tunnels : tracked[t] = "started" /\ t # exclude}

\* pickFallbackTunnelLocked: map order makes any candidate possible.
Fallbacks(c, exclude) ==
  {t \in Tunnels : /\ tracked[t] = "started"
                   /\ t # exclude
                   /\ c.routeTunnel # None => t = c.routeTunnel}

DeactivateAndFallBack(c, exclude) ==
  IF Fallbacks(c, exclude) = {}
    THEN Deactivate
    ELSE \E next \in Fallbacks(c, exclude) : Activate(next, c, None)

-----------------------------------------------------------------------------
(* Start-up and the configuration file.                                    *)

StartProxy == proxy' \in {TRUE} \cup (IF "portBusy" \in Faults THEN {FALSE} ELSE {})

\* InitDomainRouting loads the file and starts the proxy.  A tunnel bound
\* before is left as it is.
InitDomainRouting ==
  /\ ~ inited
  /\ inited' = TRUE
  /\ cfg' = file
  /\ fileNewer' = FALSE
  /\ StartProxy
  /\ UNCHANGED <<file, bindingVars, savedVars, routeVars, dns, trackVars>>

\* saveConfigLocked of configuration c, which is in force either way.
Save(c, ok) ==
  /\ cfg' = c
  /\ IF ok THEN file' = c /\ fileNewer' = FALSE
           ELSE "saveFails" \in Faults /\ UNCHANGED <<file, fileNewer>>

RefreshConfig ==
  /\ cfg' = IF fileNewer THEN file ELSE cfg
  /\ fileNewer' = FALSE
  /\ UNCHANGED file

-----------------------------------------------------------------------------
(* The operations of the IPC server.                                       *)

\* Mutant of ApplyMode: off leaves the adapters as they are.
ApplyModeUnlessOff(c) ==
  IF c.mode = "off" \/ activeTunnel = None
    THEN UNCHANGED <<savedVars, dns, proxy>>
    ELSE /\ IF proxy THEN UNCHANGED proxy ELSE StartProxy
         /\ IF proxy' /\ HasEffectiveRules(c.rules)
              THEN ApplyDNS(dns, activeTunnel, defaultIf, defaultDNS,
                            tunDNSState, defaultDNSState)
              ELSE UNCHANGED <<savedVars, dns>>

\* applyModeLocked for configuration c, after SetMode has cleared the routes.
ApplyMode(c) ==
  \/ /\ c.mode = "off"
     /\ RestoreDNS
     /\ UNCHANGED proxy
  \/ /\ c.mode # "off" /\ activeTunnel = None
     /\ UNCHANGED <<savedVars, dns, proxy>>
  \/ /\ c.mode # "off" /\ activeTunnel # None
     /\ IF proxy THEN UNCHANGED proxy ELSE StartProxy
     /\ \/ /\ ~ proxy'
           /\ UNCHANGED <<savedVars, dns>>
        \/ /\ proxy' /\ ~ HasEffectiveRules(c.rules)
           /\ RestoreDNS
        \/ /\ proxy' /\ HasEffectiveRules(c.rules)
           /\ ApplyDNS(dns, activeTunnel, defaultIf, defaultDNS,
                       tunDNSState, defaultDNSState)

SetMode(m) ==
  /\ inited
  /\ m # cfg.mode
  /\ ClearRoutes
  /\ \/ /\ Save([cfg EXCEPT !.mode = m], FALSE)
        /\ UNCHANGED <<proxy, savedVars, dns>>
     \/ /\ Save([cfg EXCEPT !.mode = m], TRUE)
        /\ ApplyMode(cfg')
  /\ UNCHANGED <<inited, bindingVars, trackVars>>

SetRules(r) ==
  /\ inited
  /\ ClearRoutes
  /\ \E ok \in BOOLEAN : Save([cfg EXCEPT !.rules = r], ok)
  /\ UNCHANGED <<inited, proxy, bindingVars, savedVars, dns, trackVars>>

SetDNSSettings(t) ==
  /\ inited
  /\ \E ok \in BOOLEAN : Save([cfg EXCEPT !.routeTunnel = t], ok)
  /\ IF t # None /\ activeTunnel # None /\ activeTunnel # t
       THEN DeactivateAndFallBack(cfg', None)
       ELSE UNCHANGED <<bindingVars, savedVars, routeVars, dns>>
  /\ UNCHANGED <<inited, proxy, trackVars>>

ClearAllRoutes ==
  /\ inited
  /\ ClearRoutes
  /\ UNCHANGED <<configVars, inited, proxy, bindingVars, savedVars, dns,
                 trackVars>>

-----------------------------------------------------------------------------
(* The background loops.                                                   *)

\* cleanupExpiredRoutes: a route's 300 seconds or more are over at some time.
CleanupExpiredRoutes ==
  \E expired \in SUBSET Learned :
    /\ expired # {}
    /\ routeEntries' = [ip \in IPs |-> IF ip \in expired THEN None
                                       ELSE routeEntries[ip]]
    /\ sysRoutes' \in AfterDelete({OwnRoute(ip) : ip \in expired})
    /\ UNCHANGED <<configVars, inited, proxy, bindingVars, savedVars, dns,
                   trackVars>>

\* getSystemRouteSet: an address counts as routed through either adapter.
InSystem(ip) ==
  \E i \in {activeTunnel, defaultIf} : <<ip, i>> \in sysRoutes

VerifyAndRepairRoutes ==
  /\ activeTunnel # None
  /\ cfg.mode \notin {"off", "dnsonly"}
  /\ LET missing == {ip \in Learned : ~ InSystem(ip)}
     IN  /\ missing # {}
         /\ \E added \in SUBSET missing :
              /\ \A ip \in added : Reachable(routeEntries[ip].luid)
              /\ \A ip \in missing \ added : AddMayFail(routeEntries[ip].luid)
              /\ sysRoutes' = sysRoutes \cup {OwnRoute(ip) : ip \in added}
  /\ UNCHANGED <<configVars, inited, proxy, bindingVars, savedVars,
                 routeEntries, dns, trackVars>>

-----------------------------------------------------------------------------
(* What the DNS proxy calls for a query.                                   *)

\* The state change of decideRoute, also made by PrepareTunnelConfigForStart.
DecideRoute ==
  /\ inited
  /\ RefreshConfig
  /\ UNCHANGED <<inited, proxy, bindingVars, savedVars, routeVars, dns,
                 trackVars>>

TargetIf(target) == IF target = "tunnel" THEN activeTunnel ELSE defaultIf

\* Mutant of AddRouteForIP: a route is booked for a target without adapter.
AddRouteAnywhere(ip, target, err) ==
  /\ inited
  /\ cfg.mode # "off" /\ activeTunnel # None
  /\ err = FALSE
  /\ routeEntries' = [routeEntries EXCEPT ![ip] =
                        [target |-> target, luid |-> TargetIf(target)]]
  /\ UNCHANGED <<configVars, inited, proxy, bindingVars, savedVars, sysRoutes,
                 dns, trackVars>>

\* addRouteForIP; `err` is whether it returns an error.
AddRouteForIP(ip, target, err) ==
  /\ inited
  /\ \/ /\ cfg.mode = "off" \/ activeTunnel = None
        /\ err = FALSE
        /\ UNCHANGED routeVars
     \/ /\ cfg.mode # "off" /\ activeTunnel # None
        /\ routeEntries[ip] # None
        /\ err = FALSE
        /\ routeEntries' = [routeEntries EXCEPT ![ip].target = target]
        /\ \/ Reachable(routeEntries[ip].luid)
                /\ sysRoutes' = sysRoutes \cup {OwnRoute(ip)}
           \/ /\ OwnRoute(ip) \notin sysRoutes
              /\ AddMayFail(routeEntries[ip].luid)
              /\ UNCHANGED sysRoutes
     \/ /\ cfg.mode # "off" /\ activeTunnel # None
        /\ routeEntries[ip] = None
        /\ LET i == TargetIf(target)
           IN  \/ /\ i # None /\ Reachable(i)
                  /\ err = FALSE
                  /\ routeEntries' = [routeEntries EXCEPT ![ip] =
                                        [target |-> target, luid |-> i]]
                  /\ sysRoutes' = sysRoutes \cup {<<ip, i>>}
               \/ /\ i = None \/ (AddMayFail(i) /\ <<ip, i>> \notin sysRoutes)
                  /\ err = TRUE
                  /\ UNCHANGED routeVars
  /\ UNCHANGED <<configVars, inited, proxy, bindingVars, savedVars, dns,
                 trackVars>>

-----------------------------------------------------------------------------
(* Tunnel services and their trackers.                                     *)

Actual(t) == IF t \in up THEN "started" ELSE "stopped"

ServiceStart(t) ==
  /\ t \notin up
  /\ tracked[t] = "stopped"
  /\ up' = up \cup {t}
  /\ UNCHANGED <<configVars, inited, proxy, bindingVars, savedVars, routeVars,
                 dns, tracked, note>>

\* The adapter goes with the service, and its routes and DNS servers with it.
ServiceStop(t) ==
  /\ t \in up
  /\ up' = up \ {t}
  /\ dns' = [dns EXCEPT ![t] = "own"]
  /\ sysRoutes' = {r \in sysRoutes : r[2] # t}
  /\ UNCHANGED <<configVars, inited, proxy, bindingVars, savedVars,
                 routeEntries, tracked, note>>

\* The tracker of t records the new state, then calls the managers without
\* trackedTunnelsLock: the change and its report are two steps.
Track(t) ==
  /\ inited \/ "earlyNotify" \in Faults
  /\ note[t] = "none"
  /\ tracked[t] # Actual(t)
  /\ tracked' = [tracked EXCEPT ![t] = Actual(t)]
  /\ note' = [note EXCEPT ![t] = Actual(t)]
  /\ UNCHANGED <<configVars, inited, proxy, bindingVars, savedVars, routeVars,
                 dns, up>>

OnTunnelStarted(t) ==
  /\ note[t] = "started"
  /\ IF \/ cfg.routeTunnel # None /\ t # cfg.routeTunnel
        \/ activeTunnel = t
       THEN UNCHANGED <<bindingVars, savedVars, routeVars, dns>>
       ELSE Activate(t, cfg, activeTunnel)
  /\ note' = [note EXCEPT ![t] = "none"]
  /\ UNCHANGED <<configVars, inited, proxy, up, tracked>>

\* Mutant of OnTunnelStopped: nothing is done while the mode is off.
OnTunnelStoppedUnlessOff(t) ==
  /\ note[t] = "stopped"
  /\ IF activeTunnel = t /\ cfg.mode # "off"
       THEN DeactivateAndFallBack(cfg, t)
       ELSE UNCHANGED <<bindingVars, savedVars, routeVars, dns>>
  /\ note' = [note EXCEPT ![t] = "none"]
  /\ UNCHANGED <<configVars, inited, proxy, up, tracked>>

OnTunnelStopped(t) ==
  /\ note[t] = "stopped"
  /\ IF activeTunnel = t
       THEN DeactivateAndFallBack(cfg, t)
       ELSE UNCHANGED <<bindingVars, savedVars, routeVars, dns>>
  /\ note' = [note EXCEPT ![t] = "none"]
  /\ UNCHANGED <<configVars, inited, proxy, up, tracked>>

-----------------------------------------------------------------------------
(* The rest of the environment.                                            *)

FileEdit(c) ==
  /\ "fileEdit" \in Faults
  /\ file' = c
  /\ fileNewer' = TRUE
  /\ UNCHANGED <<cfg, inited, proxy, bindingVars, savedVars, routeVars, dns,
                 trackVars>>

RouteLoss(r) ==
  /\ "routeLoss" \in Faults
  /\ sysRoutes' = sysRoutes \ {r}
  /\ UNCHANGED <<configVars, inited, proxy, bindingVars, savedVars,
                 routeEntries, dns, trackVars>>

\* The manager process is gone and started again: its memory is lost, the
\* adapters, their DNS servers and the routing table are not.
Crash ==
  /\ "crash" \in Faults
  /\ inited
  /\ cfg' = ZeroConfig
  /\ fileNewer' = TRUE
  /\ inited' = FALSE
  /\ proxy' = FALSE
  /\ activeTunnel' = None
  /\ defaultIf' = None
  /\ defaultDNS' = "empty"
  /\ loopbackRouteAdded' = FALSE
  /\ tunDNSState' = None
  /\ defaultDNSState' = None
  /\ routeEntries' = [ip \in IPs |-> None]
  /\ tracked' = [t \in Tunnels |-> "stopped"]
  /\ note' = [t \in Tunnels |-> "none"]
  /\ UNCHANGED <<file, up, dns, sysRoutes, loopbackThere>>

-----------------------------------------------------------------------------

Settings ==
  \/ \E m \in ModeInputs : SetMode(m)
  \/ \E r \in RuleSets : SetRules(r)
  \/ \E t \in Tunnels \cup {None} : SetDNSSettings(t)
  \/ ClearAllRoutes

Background == CleanupExpiredRoutes \/ VerifyAndRepairRoutes

Calls ==
  \/ DecideRoute
  \/ \E ip \in IPs, target \in {"tunnel", "direct"}, err \in BOOLEAN :
       AddRouteForIP(ip, target, err)

Tracking ==
  \E t \in Tunnels : Track(t) \/ OnTunnelStarted(t) \/ OnTunnelStopped(t)

\* What goes wrong outside of the operations, if anything may.
Disturbance ==
  /\ Faults # {}
  /\ \/ \E c \in FileInputs : FileEdit(c)
     \/ \E r \in sysRoutes : RouteLoss(r)
     \/ Crash

Environment ==
  \/ \E t \in Tunnels : ServiceStart(t) \/ ServiceStop(t)
  \/ Disturbance

Next ==
  \/ InitDomainRouting
  \/ Settings
  \/ Background
  \/ Calls
  \/ Tracking
  \/ Environment

Spec == Init /\ [][Next]_vars

\* The trackers run on threads of their own and always deliver.
FairSpec ==
  /\ Spec
  /\ WF_vars(InitDomainRouting)
  /\ \A t \in Tunnels :
       WF_vars(Track(t) \/ OnTunnelStarted(t) \/ OnTunnelStopped(t))
-----------------------------------------------------------------------------
(* Properties.                                                             *)

TypeOK ==
  /\ cfg \in Configs /\ file \in Configs /\ fileNewer \in BOOLEAN
  /\ inited \in BOOLEAN /\ proxy \in BOOLEAN
  /\ activeTunnel \in Tunnels \cup {None}
  /\ defaultIf \in Nics \cup {None}
  /\ defaultDNS \in {"own", "empty"}
  /\ loopbackRouteAdded \in BOOLEAN /\ loopbackThere \in BOOLEAN
  /\ tunDNSState \in Tunnels \cup {None}
  /\ defaultDNSState \in DNSStates \cup {None}
  /\ routeEntries \in [IPs -> Entries \cup {None}]
  /\ up \subseteq Tunnels
  /\ dns \in [Adapters -> Servers]
  /\ sysRoutes \subseteq IPs \X Adapters
  /\ tracked \in [Tunnels -> {"started", "stopped"}]
  /\ note \in [Tunnels -> {"none", "started", "stopped"}]

\* Every route the manager put into the system table is still on its books,
\* under the adapter it was added to, so that clearing, expiry or the end of
\* the tunnel can delete it.  Needs DeleteRoute to succeed and no crash.
NoOrphanRoutes == sysRoutes \subseteq OwnRoutes

\* The books hold no route of an earlier binding: each is through the bound
\* tunnel's adapter or the default adapter found when it was bound, the only
\* two getSystemRouteSet looks at.  Survives every fault.
RoutesOfBinding ==
  \A ip \in Learned : /\ activeTunnel # None
                       /\ routeEntries[ip].luid \in {activeTunnel, defaultIf}

\* The manager's own route for 127.0.0.1 is on record while it is in the table, over
\* rebindings, failed bindings and changes of the setting, and on record only while
\* a tunnel is bound.  Needs DeleteRoute to succeed and no crash.
LoopbackOnBooks ==
  /\ loopbackThere => loopbackRouteAdded
  /\ loopbackRouteAdded => activeTunnel # None

\* The system table, the books and the binding agree: the table holds none of the
\* manager's routes that is not on the books, and the books none of an earlier
\* binding (AddRouteForIP, clearRoutesLocked, activateTunnelLocked,
\* deactivateTunnelLocked).
RoutesOnBooks == NoOrphanRoutes /\ RoutesOfBinding /\ LoopbackOnBooks

\* An adapter that points at the proxy has a saved state, which the next
\* restoreDNSLocked writes back.  Needs restoring to succeed and no crash.
RedirectRecorded ==
  \A i \in Adapters : dns[i] = "loopback" =>
    \/ i = tunDNSState
    \/ defaultDNSState # None /\ i = defaultDNSState.luid

\* The machine's DNS is sent to 127.0.0.1 only while the proxy runs and a
\* tunnel is bound.  Needs restoring to succeed and no crash.
RedirectNeedsProxy ==
  (\E i \in Adapters : dns[i] = "loopback") => proxy /\ activeTunnel # None

\* DNS is redirected only while somebody serves it and can take it back
\* (redirectDNSLocked, restoreDNSLocked).
RedirectionKept == RedirectRecorded /\ RedirectNeedsProxy

\* The servers kept for the default adapter are the ones it had, never what a
\* read of the redirected adapter leaves (nothing): redirecting and restoring
\* any number of times loses no DNS server.
DNSNotLost ==
  /\ \A i \in Adapters : dns[i] # "empty"
  /\ defaultDNSState # None => defaultDNSState.servers = "own"

\* The bound tunnel is one its tracker last saw started, or the report that it
\* stopped is on its way.  Survives every fault.
ActiveIsStarted ==
  activeTunnel # None =>
    tracked[activeTunnel] = "started" \/ note[activeTunnel] = "stopped"

\* With a tunnel selected for filtered traffic, no other one is ever bound.
SelectedTunnelOnly ==
  cfg.routeTunnel # None => activeTunnel \in {None, cfg.routeTunnel}

\* In mode off the manager keeps no route and redirects no adapter.
OffIsClean ==
  cfg.mode = "off" => /\ Learned = {}
                      /\ \A i \in Adapters : dns[i] # "loopback"

\* Whatever the order of calls, reports and failures that is not of the settings'
\* own file, the settings in force are respected: by the tunnel that is bound, by
\* routes and redirections, and for the servers that the adapters had.
SettingsHold == SelectedTunnelOnly /\ OffIsClean /\ DNSNotLost

\* A tunnel whose service is gone does not stay bound.
StoppedIsUnbound ==
  \A t \in Tunnels : (activeTunnel = t /\ t \notin up) ~> activeTunnel # t

\* Once all tunnels have stopped for good, every route and every DNS
\* redirection is taken back, and stays so.
AllTakenBack ==
  <>[](up = {}) =>
    <>[](sysRoutes = {} /\ ~ loopbackThere /\ \A i \in Adapters : dns[i] # "loopback")

\* Stops are followed up: of one tunnel, and of all (OnTunnelStopped).
TunnelsLetGo == StoppedIsUnbound /\ AllTakenBack

\* Nothing about a tunnel's state is still to be reported.
Settled == inited /\ \A t \in Tunnels : note[t] = "none" /\ tracked[t] = Actual(t)

\* The tooltip of the tunnel choice: "Choose which tunnel should receive
\* filtered domain traffic."  A selected tunnel that runs is the bound one once
\* the trackers have reported it.
SelectedIsBound ==
  Settled /\ cfg.routeTunnel \in up => activeTunnel = cfg.routeTunnel

\* A tunnel is bound, routing is on and the proxy is there to serve it.
Serving == /\ Settled
           /\ activeTunnel \in up
           /\ proxy
           /\ cfg.mode # "off"

Intercepting == dns[activeTunnel] = "loopback"

\* The comment in SetRules: "the new rules apply immediately".  While the
\* manager serves a tunnel, rules that can route are being applied: the tunnel
\* adapter's DNS goes through the proxy.
RulesApply == Serving /\ HasEffectiveRules(cfg.rules) => Intercepting

=============================================================================
