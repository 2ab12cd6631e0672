------------------------- MODULE DomainRoutingProofs -------------------------
(***************************************************************************)
(* Theorems about the domain routing manager, for any tunnels, adapters,   *)
(* addresses, rules and faults: its types, and its safety invariants.  A   *)
(* theorem names the faults it excludes; where it names none it holds      *)
(* under all of them.                                                      *)
(***************************************************************************)
EXTENDS DomainRouting, TLAPS

\* The types of the variables a change of binding assigns.
BindingTypeOK ==
  /\ activeTunnel \in Tunnels \cup {None}
  /\ defaultIf \in Nics \cup {None}
  /\ defaultDNS \in {"own", "empty"}
  /\ loopbackRouteAdded \in BOOLEAN /\ loopbackThere \in BOOLEAN
  /\ tunDNSState \in Tunnels \cup {None}
  /\ defaultDNSState \in DNSStates \cup {None}
  /\ routeEntries \in [IPs -> Entries \cup {None}]
  /\ dns \in [Adapters -> Servers]
  /\ sysRoutes \subseteq IPs \X Adapters

\* clearRoutesLocked only takes routes away.
LEMMA ClearRoutesType ==
  ASSUME TypeOK, ClearRoutes
  PROVE  /\ routeEntries' \in [IPs -> Entries \cup {None}]
         /\ sysRoutes' \subseteq sysRoutes
         /\ sysRoutes' \subseteq IPs \X Adapters
  BY DEF TypeOK, ClearRoutes, AfterDelete

\* restoreDNSLocked leaves every adapter with some servers.
LEMMA RestoreType ==
  ASSUME TypeOK
  PROVE  /\ Restored \in [Adapters -> Servers]
         /\ \A base \in AfterRestore : base \in [Adapters -> Servers]
<1>1. Restored \in [Adapters -> Servers]
  BY ConstantsAssumption DEF TypeOK, Restored, Servers, DNSStates
<1> QED
  BY <1>1 DEF AfterRestore, TypeOK

LEMMA RestoreDNSType ==
  ASSUME TypeOK, RestoreDNS
  PROVE  /\ dns' \in [Adapters -> Servers]
         /\ tunDNSState' = None /\ defaultDNSState' = None
  BY RestoreType DEF RestoreDNS

\* applyDNSLocked keeps the types of the states it saves and of the servers.
LEMMA ApplyDNSType ==
  ASSUME NEW base \in [Adapters -> Servers],
         NEW t \in Tunnels,
         NEW d \in Nics \cup {None},
         NEW ds \in {"own", "empty"},
         NEW savedTun \in Tunnels \cup {None},
         NEW savedDefault \in DNSStates \cup {None},
         ApplyDNS(base, t, d, ds, savedTun, savedDefault)
  PROVE  /\ tunDNSState' \in Tunnels \cup {None}
         /\ defaultDNSState' \in DNSStates \cup {None}
         /\ dns' \in [Adapters -> Servers]
<1>1. \A S : Redirected(base, S) \in [Adapters -> Servers]
  BY DEF Redirected, Servers
<1> QED
  BY <1>1 DEF ApplyDNS, DNSStates

\* So do adding and removing the route for 127.0.0.1.
LEMMA LoopbackType ==
  ASSUME TypeOK
  PROVE  /\ RemoveLoopback => loopbackRouteAdded' \in BOOLEAN /\ loopbackThere' \in BOOLEAN
         /\ \A kept : AddLoopback(kept) =>
              loopbackRouteAdded' \in BOOLEAN /\ loopbackThere' \in BOOLEAN
<1>1. loopbackRouteAdded \in BOOLEAN /\ loopbackThere \in BOOLEAN
  BY DEF TypeOK
<1>2. RemoveLoopback => loopbackRouteAdded' \in BOOLEAN /\ loopbackThere' \in BOOLEAN
  BY <1>1, Zenon DEF RemoveLoopback
<1>3. ASSUME NEW kept, AddLoopback(kept)
      PROVE  loopbackRouteAdded' \in BOOLEAN /\ loopbackThere' \in BOOLEAN
  BY <1>1, <1>2, <1>3, Zenon DEF AddLoopback, loopbackVars
<1> QED
  BY <1>2, <1>3

LEMMA ActivateType ==
  ASSUME TypeOK,
         NEW t \in Tunnels, NEW c, NEW kept \in {activeTunnel, None},
         Activate(t, c, kept)
  PROVE  BindingTypeOK'
<1>1. /\ routeEntries' \in [IPs -> Entries \cup {None}]
      /\ sysRoutes' \subseteq IPs \X Adapters
  BY ClearRoutesType DEF Activate
<1>2. CASE RestoreDNS /\ activeTunnel' = kept
           /\ defaultIf' = (IF kept = None THEN None ELSE defaultIf)
           /\ defaultDNS' = (IF kept = None THEN "empty" ELSE defaultDNS)
           /\ IF kept = None THEN RemoveLoopback ELSE UNCHANGED loopbackVars
  <2>1. loopbackRouteAdded' \in BOOLEAN /\ loopbackThere' \in BOOLEAN
    BY <1>2, LoopbackType DEF TypeOK, loopbackVars
  <2> QED
    BY <1>1, <1>2, <2>1, RestoreDNSType DEF TypeOK, BindingTypeOK
<1>3. ASSUME activeTunnel' = t, AddLoopback(kept),
             NEW base \in AfterRestore, NEW d \in DefaultIfs,
             NEW ds \in ReadDNS(base, d),
             defaultIf' = d, defaultDNS' = ds,
             \/ ApplyDNS(base, t, d, ds, None, None)
             \/ dns' = base /\ tunDNSState' = None /\ defaultDNSState' = None
      PROVE  BindingTypeOK'
  <2>1. base \in [Adapters -> Servers]
    BY RestoreType
  <2>2. d \in Nics \cup {None}
    BY DEF DefaultIfs
  <2>3. ds \in {"own", "empty"}
    BY <2>1, <2>2 DEF ReadDNS, Adapters, Servers
  <2>4. /\ tunDNSState' \in Tunnels \cup {None}
        /\ defaultDNSState' \in DNSStates \cup {None}
        /\ dns' \in [Adapters -> Servers]
    <3>1. CASE ApplyDNS(base, t, d, ds, None, None)
      BY <3>1, <2>1, <2>2, <2>3, ApplyDNSType
    <3>2. CASE dns' = base /\ tunDNSState' = None /\ defaultDNSState' = None
      BY <3>2, <2>1
    <3> QED
      BY <1>3, <3>1, <3>2
  <2>5. loopbackRouteAdded' \in BOOLEAN /\ loopbackThere' \in BOOLEAN
    BY <1>3, LoopbackType
  <2> QED
    BY <1>1, <1>3, <2>2, <2>3, <2>4, <2>5 DEF BindingTypeOK
<1> QED
  BY <1>2, <1>3 DEF Activate

LEMMA DeactivateType ==
  ASSUME TypeOK, Deactivate
  PROVE  BindingTypeOK'
  BY ClearRoutesType, RestoreDNSType, LoopbackType DEF Deactivate, BindingTypeOK

LEMMA FallBackType ==
  ASSUME TypeOK, NEW c, NEW exclude, DeactivateAndFallBack(c, exclude)
  PROVE  BindingTypeOK'
<1>1. CASE Deactivate
  BY <1>1, DeactivateType
<1>2. ASSUME NEW next \in Fallbacks(c, exclude), Activate(next, c, None)
      PROVE  BindingTypeOK'
  BY <1>2, ActivateType DEF Fallbacks
<1> QED
  BY <1>1, <1>2 DEF DeactivateAndFallBack

LEMMA UnchangedBindingType ==
  ASSUME TypeOK, UNCHANGED <<bindingVars, savedVars, routeVars, dns>>
  PROVE  BindingTypeOK'
  BY DEF TypeOK, BindingTypeOK, bindingVars, savedVars, routeVars

\* saveConfigLocked keeps the configuration well formed.
LEMMA SaveType ==
  ASSUME TypeOK, NEW c \in Configs, NEW ok, Save(c, ok)
  PROVE  cfg' \in Configs /\ file' \in Configs /\ fileNewer' \in BOOLEAN
  BY DEF TypeOK, Save

LEMMA ApplyModeType ==
  ASSUME TypeOK, NEW c, ApplyMode(c)
  PROVE  /\ tunDNSState' \in Tunnels \cup {None}
         /\ defaultDNSState' \in DNSStates \cup {None}
         /\ dns' \in [Adapters -> Servers]
         /\ proxy' \in BOOLEAN
<1>1. CASE c.mode = "off" /\ RestoreDNS /\ UNCHANGED proxy
  BY <1>1, RestoreDNSType DEF TypeOK
<1>2. CASE UNCHANGED <<savedVars, dns, proxy>>
  BY <1>2 DEF TypeOK, savedVars
<1>3. CASE /\ activeTunnel # None
           /\ IF proxy THEN UNCHANGED proxy ELSE StartProxy
           /\ \/ UNCHANGED <<savedVars, dns>>
              \/ RestoreDNS
              \/ ApplyDNS(dns, activeTunnel, defaultIf, defaultDNS,
                          tunDNSState, defaultDNSState)
  <2>1. proxy' \in BOOLEAN
    BY <1>3 DEF StartProxy, TypeOK
  <2>2. CASE UNCHANGED <<savedVars, dns>>
    BY <2>1, <2>2 DEF TypeOK, savedVars
  <2>3. CASE RestoreDNS
    BY <2>1, <2>3, RestoreDNSType
  <2>4. CASE ApplyDNS(dns, activeTunnel, defaultIf, defaultDNS,
                      tunDNSState, defaultDNSState)
    <3>1. /\ activeTunnel \in Tunnels
          /\ defaultIf \in Nics \cup {None}
          /\ defaultDNS \in {"own", "empty"}
          /\ tunDNSState \in Tunnels \cup {None}
          /\ defaultDNSState \in DNSStates \cup {None}
          /\ dns \in [Adapters -> Servers]
      BY <1>3 DEF TypeOK
    <3> QED
      BY <2>1, <2>4, <3>1, ApplyDNSType
  <2> QED
    BY <1>3, <2>2, <2>3, <2>4
<1> QED
  BY <1>1, <1>2, <1>3 DEF ApplyMode

-----------------------------------------------------------------------------
(* Type correctness, one lemma per group of actions.                       *)

LEMMA SetModeType ==
  ASSUME TypeOK, NEW m \in ModeInputs, SetMode(m)
  PROVE  TypeOK'
<1> DEFINE c == [cfg EXCEPT !.mode = m]
<1>1. c \in Configs
  BY ConstantsAssumption DEF TypeOK, Configs
<1>2. cfg' \in Configs /\ file' \in Configs /\ fileNewer' \in BOOLEAN
  BY <1>1, SaveType DEF SetMode
<1>3. /\ routeEntries' \in [IPs -> Entries \cup {None}]
      /\ sysRoutes' \subseteq IPs \X Adapters
  BY ClearRoutesType DEF SetMode
<1>4. /\ tunDNSState' \in Tunnels \cup {None}
      /\ defaultDNSState' \in DNSStates \cup {None}
      /\ dns' \in [Adapters -> Servers]
      /\ proxy' \in BOOLEAN
  <2>1. CASE UNCHANGED <<proxy, savedVars, dns>>
    BY <2>1 DEF TypeOK, savedVars
  <2>2. CASE ApplyMode(cfg')
    BY <2>2, ApplyModeType
  <2> QED
    BY <2>1, <2>2 DEF SetMode
<1> QED
  BY <1>2, <1>3, <1>4 DEF SetMode, TypeOK, bindingVars, trackVars

LEMMA SettingsType ==
  ASSUME TypeOK, Settings
  PROVE  TypeOK'
<1>1. ASSUME NEW r \in RuleSets, SetRules(r)
      PROVE  TypeOK'
  <2>1. [cfg EXCEPT !.rules = r] \in Configs
    BY DEF TypeOK, Configs
  <2>2. cfg' \in Configs /\ file' \in Configs /\ fileNewer' \in BOOLEAN
    BY <1>1, <2>1, SaveType DEF SetRules
  <2> QED
    BY <1>1, <2>2, ClearRoutesType
    DEF SetRules, TypeOK, bindingVars, savedVars, trackVars
<1>2. ASSUME NEW t \in Tunnels \cup {None}, SetDNSSettings(t)
      PROVE  TypeOK'
  <2>1. [cfg EXCEPT !.routeTunnel = t] \in Configs
    BY DEF TypeOK, Configs
  <2>2. cfg' \in Configs /\ file' \in Configs /\ fileNewer' \in BOOLEAN
    BY <1>2, <2>1, SaveType DEF SetDNSSettings
  <2>3. BindingTypeOK'
    BY <1>2, FallBackType, UnchangedBindingType DEF SetDNSSettings
  <2> QED
    BY <1>2, <2>2, <2>3 DEF SetDNSSettings, TypeOK, BindingTypeOK, trackVars
<1>3. CASE ClearAllRoutes
  BY <1>3, ClearRoutesType
  DEF ClearAllRoutes, TypeOK, configVars, bindingVars, savedVars, trackVars
<1> QED
  BY <1>1, <1>2, <1>3, SetModeType DEF Settings

LEMMA BackgroundType ==
  ASSUME TypeOK, Background
  PROVE  TypeOK'
<1>1. CASE CleanupExpiredRoutes
  BY <1>1
  DEF CleanupExpiredRoutes, AfterDelete, TypeOK, configVars, bindingVars,
      savedVars, trackVars
<1>2. CASE VerifyAndRepairRoutes
  <2>1. \A ip \in Learned : OwnRoute(ip) \in IPs \X Adapters
    BY ConstantsAssumption DEF TypeOK, Learned, OwnRoute, Entries
  <2> QED
    BY <1>2, <2>1
    DEF VerifyAndRepairRoutes, TypeOK, configVars, bindingVars, savedVars,
        trackVars
<1> QED
  BY <1>1, <1>2 DEF Background

LEMMA AddRouteType ==
  ASSUME TypeOK, NEW ip \in IPs, NEW target \in {"tunnel", "direct"},
         NEW err \in BOOLEAN, AddRouteForIP(ip, target, err)
  PROVE  TypeOK'
<1>1. CASE UNCHANGED routeVars
  BY <1>1
  DEF AddRouteForIP, TypeOK, routeVars, configVars, bindingVars, savedVars,
      trackVars
<1>2. CASE /\ routeEntries[ip] # None
           /\ routeEntries' = [routeEntries EXCEPT ![ip].target = target]
           /\ \/ sysRoutes' = sysRoutes \cup {OwnRoute(ip)}
              \/ UNCHANGED sysRoutes
  <2>1. routeEntries[ip] \in Entries
    BY <1>2 DEF TypeOK
  <2>2. [routeEntries[ip] EXCEPT !.target = target] \in Entries
    BY <2>1 DEF Entries
  <2>3. routeEntries' \in [IPs -> Entries \cup {None}]
    BY <1>2, <2>2 DEF TypeOK
  <2>4. OwnRoute(ip) \in IPs \X Adapters
    BY <2>1 DEF OwnRoute, Entries
  <2> QED
    BY <1>2, <2>3, <2>4
    DEF AddRouteForIP, TypeOK, configVars, bindingVars, savedVars, trackVars
<1>3. ASSUME NEW i, i = TargetIf(target), i # None,
             routeEntries' = [routeEntries EXCEPT ![ip] =
                                [target |-> target, luid |-> i]],
             sysRoutes' = sysRoutes \cup {<<ip, i>>}
      PROVE  TypeOK'
  <2>1. i \in Adapters
    BY <1>3 DEF TargetIf, TypeOK, Adapters
  <2>2. [target |-> target, luid |-> i] \in Entries
    BY <2>1 DEF Entries
  <2> QED
    BY <1>3, <2>1, <2>2
    DEF AddRouteForIP, TypeOK, configVars, bindingVars, savedVars, trackVars
<1> QED
  BY <1>1, <1>2, <1>3 DEF AddRouteForIP

LEMMA CallsType ==
  ASSUME TypeOK, Calls
  PROVE  TypeOK'
<1>1. CASE DecideRoute
  BY <1>1
  DEF DecideRoute, RefreshConfig, TypeOK, routeVars, bindingVars, savedVars,
      trackVars
<1> QED
  BY <1>1, AddRouteType DEF Calls

LEMMA TrackingType ==
  ASSUME TypeOK, Tracking
  PROVE  TypeOK'
<1>1. ASSUME NEW t \in Tunnels, Track(t)
      PROVE  TypeOK'
  BY <1>1
  DEF Track, Actual, TypeOK, routeVars, configVars, bindingVars, savedVars
<1>2. ASSUME NEW t \in Tunnels, OnTunnelStarted(t)
      PROVE  TypeOK'
  <2>1. BindingTypeOK'
    BY <1>2, ActivateType, UnchangedBindingType DEF OnTunnelStarted
  <2> QED
    BY <1>2, <2>1 DEF OnTunnelStarted, TypeOK, BindingTypeOK, configVars
<1>3. ASSUME NEW t \in Tunnels, OnTunnelStopped(t)
      PROVE  TypeOK'
  <2>1. BindingTypeOK'
    BY <1>3, FallBackType, UnchangedBindingType DEF OnTunnelStopped
  <2> QED
    BY <1>3, <2>1 DEF OnTunnelStopped, TypeOK, BindingTypeOK, configVars
<1> QED
  BY <1>1, <1>2, <1>3 DEF Tracking

LEMMA EnvironmentType ==
  ASSUME TypeOK, Environment
  PROVE  TypeOK'
<1> USE DEF TypeOK, routeVars, configVars, bindingVars, savedVars, trackVars
<1>1. ASSUME NEW t \in Tunnels, ServiceStart(t)
      PROVE  TypeOK'
  BY <1>1 DEF ServiceStart
<1>2. ASSUME NEW t \in Tunnels, ServiceStop(t)
      PROVE  TypeOK'
  BY <1>2 DEF ServiceStop, Servers
<1>3. ASSUME NEW c \in FileInputs, FileEdit(c)
      PROVE  TypeOK'
  BY <1>3, ConstantsAssumption DEF FileEdit
<1>4. ASSUME NEW r, RouteLoss(r)
      PROVE  TypeOK'
  BY <1>4 DEF RouteLoss
<1>5. CASE Crash
  BY <1>5 DEF Crash, Configs, ZeroConfig, Modes
<1> QED
  BY <1>1, <1>2, <1>3, <1>4, <1>5 DEF Environment, Disturbance

LEMMA StepType == TypeOK /\ [Next]_vars => TypeOK'
<1> SUFFICES ASSUME TypeOK, [Next]_vars
             PROVE  TypeOK'
  OBVIOUS
<1>1. CASE InitDomainRouting
  BY <1>1
  DEF InitDomainRouting, StartProxy, TypeOK, routeVars, bindingVars,
      savedVars, trackVars
<1>2. CASE UNCHANGED vars
  BY <1>2
  DEF vars, TypeOK, routeVars, configVars, bindingVars, savedVars, trackVars
<1> QED
  BY <1>1, <1>2, SettingsType, BackgroundType, CallsType, TrackingType,
     EnvironmentType
  DEF Next

LEMMA InitType == Init => TypeOK
<1> SUFFICES ASSUME Init PROVE TypeOK
  OBVIOUS
<1>1. cfg \in Configs /\ file \in Configs
  BY ConstantsAssumption DEF Init, Configs, ZeroConfig, Modes
<1>2. routeEntries \in [IPs -> Entries \cup {None}]
  BY DEF Init
<1>3. dns \in [Adapters -> Servers]
  BY DEF Init, Servers
<1> QED
  BY <1>1, <1>2, <1>3 DEF Init, TypeOK

\* Every variable of the manager and of its surroundings keeps its type,
\* whatever the faults.
THEOREM TypeCorrect == Spec => []TypeOK
  BY InitType, StepType, PTL DEF Spec

-----------------------------------------------------------------------------
(* The safety invariants.                                                  *)


\* What every change of binding does to the books: they are cleared first.
LEMMA ClearedBooks ==
  ASSUME ClearRoutes
  PROVE  Learned' = {}
  BY DEF ClearRoutes, Learned

LEMMA FallBackClears ==
  ASSUME NEW c, NEW exclude, DeactivateAndFallBack(c, exclude)
  PROVE  ClearRoutes
  BY DEF DeactivateAndFallBack, Deactivate, Activate

\* The actions that may change the binding either clear the books or leave
\* binding and routes alone.
BindingKept == UNCHANGED <<bindingVars, savedVars, routeVars, dns>>

LEMMA TrackingClears ==
  ASSUME NEW t \in Tunnels, OnTunnelStarted(t) \/ OnTunnelStopped(t)
  PROVE  ClearRoutes \/ BindingKept
  BY FallBackClears DEF OnTunnelStarted, OnTunnelStopped, Activate, BindingKept

LEMMA SetDNSSettingsClears ==
  ASSUME NEW t, SetDNSSettings(t)
  PROVE  ClearRoutes \/ BindingKept
  BY FallBackClears DEF SetDNSSettings, BindingKept

\* Every step treats the books in one of four ways.
RoutesAsBefore ==
  /\ UNCHANGED routeEntries
  /\ UNCHANGED <<activeTunnel, defaultIf>>
  /\ sysRoutes' \subseteq sysRoutes

Expiring ==
  /\ UNCHANGED <<activeTunnel, defaultIf>>
  /\ CleanupExpiredRoutes

Adding ==
  /\ UNCHANGED <<activeTunnel, defaultIf>>
  /\ \E ip \in IPs, target \in {"tunnel", "direct"}, err \in BOOLEAN :
       AddRouteForIP(ip, target, err)

LEMMA StepKinds ==
  ASSUME TypeOK, [Next]_vars
  PROVE  \/ ClearRoutes
         \/ RoutesAsBefore
         \/ Expiring
         \/ VerifyAndRepairRoutes
         \/ Adding
         \/ Crash
<1> USE DEF RoutesAsBefore, routeVars, bindingVars
<1>1. CASE InitDomainRouting
  BY <1>1 DEF InitDomainRouting
<1>2. CASE Settings
  <2>1. ASSUME NEW t, SetDNSSettings(t)
        PROVE  ClearRoutes \/ RoutesAsBefore
    BY <2>1, SetDNSSettingsClears DEF BindingKept
  <2> QED
    BY <1>2, <2>1 DEF Settings, SetMode, SetRules, ClearAllRoutes
<1>3. CASE Background
  BY <1>3 DEF Background, Expiring, CleanupExpiredRoutes
<1>4. CASE Calls
  <2>1. CASE DecideRoute
    BY <2>1 DEF DecideRoute
  <2>2. ASSUME NEW ip \in IPs, NEW target \in {"tunnel", "direct"},
               NEW err \in BOOLEAN, AddRouteForIP(ip, target, err)
        PROVE  Adding
    <3>1. UNCHANGED <<activeTunnel, defaultIf>>
      BY <2>2 DEF AddRouteForIP
    <3> QED
      BY <2>2, <3>1 DEF Adding
  <2> QED
    BY <1>4, <2>1, <2>2 DEF Calls
<1>5. CASE Tracking
  <2>1. ASSUME NEW t \in Tunnels, Track(t)
        PROVE  RoutesAsBefore
    BY <2>1 DEF Track
  <2>2. ASSUME NEW t \in Tunnels, OnTunnelStarted(t) \/ OnTunnelStopped(t)
        PROVE  ClearRoutes \/ RoutesAsBefore
    BY <2>2, TrackingClears DEF BindingKept
  <2> QED
    BY <1>5, <2>1, <2>2 DEF Tracking
<1>6. CASE Environment
  <2>1. ASSUME NEW t \in Tunnels, ServiceStart(t) \/ ServiceStop(t)
        PROVE  RoutesAsBefore
    BY <2>1 DEF ServiceStart, ServiceStop
  <2>2. ASSUME NEW c, FileEdit(c)
        PROVE  RoutesAsBefore
    BY <2>2 DEF FileEdit
  <2>3. ASSUME NEW r, RouteLoss(r)
        PROVE  RoutesAsBefore
    BY <2>3 DEF RouteLoss
  <2> QED
    BY <1>6, <2>1, <2>2, <2>3 DEF Environment, Disturbance
<1>7. CASE UNCHANGED vars
  BY <1>7 DEF vars
<1> QED
  BY <1>1, <1>2, <1>3, <1>4, <1>5, <1>6, <1>7 DEF Next

-----------------------------------------------------------------------------
(* The books and the binding.                                              *)

\* The two ways in which addRouteForIP changes the books.
LEMMA AddRouteCases ==
  ASSUME TypeOK, NEW ip \in IPs, NEW target \in {"tunnel", "direct"},
         NEW err \in BOOLEAN, AddRouteForIP(ip, target, err)
  PROVE  \/ UNCHANGED routeVars
         \/ /\ routeEntries[ip] # None
            /\ routeEntries' = [routeEntries EXCEPT ![ip].target = target]
            /\ \/ sysRoutes' = sysRoutes \cup {OwnRoute(ip)}
               \/ UNCHANGED sysRoutes
         \/ /\ activeTunnel # None
            /\ \E i \in {activeTunnel, defaultIf} :
                 /\ i # None
                 /\ routeEntries' = [routeEntries EXCEPT ![ip] =
                                       [target |-> target, luid |-> i]]
                 /\ sysRoutes' = sysRoutes \cup {<<ip, i>>}
  BY DEF AddRouteForIP, TargetIf

\* Refreshing a route leaves its adapter, and no book of another address.
LEMMA RefreshKeepsLuid ==
  ASSUME TypeOK, NEW ip \in IPs, NEW target, routeEntries[ip] # None,
         routeEntries' = [routeEntries EXCEPT ![ip].target = target]
  PROVE  /\ \A x \in IPs : x # ip => routeEntries'[x] = routeEntries[x]
         /\ routeEntries'[ip].luid = routeEntries[ip].luid
<1>1. routeEntries[ip] \in Entries
  BY DEF TypeOK
<1>2. routeEntries'[ip] = [routeEntries[ip] EXCEPT !.target = target]
  BY DEF TypeOK
<1>3. \A x \in IPs : x # ip => routeEntries'[x] = routeEntries[x]
  BY DEF TypeOK
<1> QED
  BY <1>1, <1>2, <1>3 DEF Entries

LEMMA RoutesOfBindingStep ==
  TypeOK /\ RoutesOfBinding /\ [Next]_vars => RoutesOfBinding'
<1> SUFFICES ASSUME TypeOK, RoutesOfBinding, [Next]_vars
             PROVE  RoutesOfBinding'
  OBVIOUS
<1> USE DEF RoutesOfBinding, Learned
<1>1. CASE ClearRoutes
  BY <1>1, ClearedBooks
<1>2. CASE RoutesAsBefore
  BY <1>2 DEF RoutesAsBefore
<1>3. CASE Expiring
  BY <1>3 DEF Expiring, CleanupExpiredRoutes
<1>4. CASE VerifyAndRepairRoutes
  BY <1>4 DEF VerifyAndRepairRoutes, bindingVars
<1>5. CASE Adding
  <2>1. PICK ip \in IPs, target \in {"tunnel", "direct"}, err \in BOOLEAN :
          AddRouteForIP(ip, target, err)
    BY <1>5 DEF Adding
  <2>2. activeTunnel' = activeTunnel /\ defaultIf' = defaultIf
    BY <1>5 DEF Adding
  <2>3. CASE UNCHANGED routeVars
    BY <2>2, <2>3 DEF routeVars
  <2>4. CASE /\ routeEntries[ip] # None
             /\ routeEntries' = [routeEntries EXCEPT ![ip].target = target]
    BY <2>2, <2>4, RefreshKeepsLuid
  <2>5. CASE /\ activeTunnel # None
             /\ \E i \in {activeTunnel, defaultIf} :
                  routeEntries' = [routeEntries EXCEPT ![ip] =
                                     [target |-> target, luid |-> i]]
    BY <2>2, <2>5 DEF TypeOK
  <2> QED
    BY <2>1, <2>3, <2>4, <2>5, AddRouteCases
<1>6. CASE Crash
  BY <1>6 DEF Crash
<1> QED
  BY <1>1, <1>2, <1>3, <1>4, <1>5, <1>6, StepKinds

\* Whatever fails and whenever the process dies, the manager never keeps a
\* route of an earlier binding on its books.
THEOREM RoutesFollowBinding == Spec => []RoutesOfBinding
<1>1. Init => RoutesOfBinding
  BY DEF Init, RoutesOfBinding, Learned
<1> QED
  BY <1>1, RoutesOfBindingStep, TypeCorrect, PTL DEF Spec

-----------------------------------------------------------------------------
(* No route is left behind.                                                *)

LEMMA NoOrphanStep ==
  ASSUME "deleteFails" \notin Faults, "crash" \notin Faults
  PROVE  TypeOK /\ NoOrphanRoutes /\ [Next]_vars => NoOrphanRoutes'
<1> SUFFICES ASSUME TypeOK, NoOrphanRoutes, [Next]_vars
             PROVE  NoOrphanRoutes'
  OBVIOUS
<1> USE DEF NoOrphanRoutes, OwnRoutes, OwnRoute, Learned
<1>1. CASE ClearRoutes
  BY <1>1 DEF ClearRoutes, AfterDelete
<1>2. CASE RoutesAsBefore
  BY <1>2 DEF RoutesAsBefore
<1>3. CASE Expiring
  <2>1. PICK expired \in SUBSET Learned :
          /\ routeEntries' = [ip \in IPs |-> IF ip \in expired THEN None
                                             ELSE routeEntries[ip]]
          /\ sysRoutes' = sysRoutes \ {OwnRoute(ip) : ip \in expired}
    BY <1>3 DEF Expiring, CleanupExpiredRoutes, AfterDelete
  <2> QED
    BY <2>1
<1>4. CASE VerifyAndRepairRoutes
  BY <1>4 DEF VerifyAndRepairRoutes
<1>5. CASE Adding
  <2>1. PICK ip \in IPs, target \in {"tunnel", "direct"}, err \in BOOLEAN :
          AddRouteForIP(ip, target, err)
    BY <1>5 DEF Adding
  <2>2. CASE UNCHANGED routeVars
    BY <2>2 DEF routeVars
  <2>3. CASE /\ routeEntries[ip] # None
             /\ routeEntries' = [routeEntries EXCEPT ![ip].target = target]
             /\ sysRoutes' \subseteq sysRoutes \cup {OwnRoute(ip)}
    <3>1. \A x \in Learned : x \in Learned' /\ OwnRoute(x)' = OwnRoute(x)
      <4>1. [routeEntries[ip] EXCEPT !.target = target] # None
        BY <2>3, ConstantsAssumption DEF TypeOK, Entries
      <4> QED
        BY <2>3, <4>1, RefreshKeepsLuid DEF TypeOK
    <3> QED
      BY <2>3, <3>1
  <2>4. ASSUME NEW i \in {activeTunnel, defaultIf}, i # None,
               routeEntries' = [routeEntries EXCEPT ![ip] =
                                  [target |-> target, luid |-> i]],
               sysRoutes' = sysRoutes \cup {<<ip, i>>},
               routeEntries[ip] = None
        PROVE  NoOrphanRoutes'
    <3>1. [target |-> target, luid |-> i] # None
      <4>1. [target |-> target, luid |-> i] \in Entries
        BY <2>4 DEF Entries, TypeOK, Adapters
      <4> QED
        BY <4>1, ConstantsAssumption
    <3>2. \A x \in Learned : x \in Learned' /\ OwnRoute(x)' = OwnRoute(x)
      BY <2>4, <3>1 DEF TypeOK
    <3>3. ip \in Learned' /\ OwnRoute(ip)' = <<ip, i>>
      BY <2>4, <3>1 DEF TypeOK
    <3> QED
      BY <2>4, <3>2, <3>3
  <2> QED
    BY <2>1, <2>2, <2>3, <2>4 DEF AddRouteForIP, TargetIf
<1>6. CASE Crash
  BY <1>6 DEF Crash
<1> QED
  BY <1>1, <1>2, <1>3, <1>4, <1>5, <1>6, StepKinds

\* Unless Windows refuses to delete a route or the process dies, every route
\* the manager added stays on its books until it is deleted, whatever adapters
\* come and go, which additions fail and which routes Windows drops.
THEOREM NoRouteLeftBehind ==
  ASSUME "deleteFails" \notin Faults, "crash" \notin Faults
  PROVE  Spec => []NoOrphanRoutes
<1>1. Init => NoOrphanRoutes
  BY DEF Init, NoOrphanRoutes
<1> QED
  BY <1>1, NoOrphanStep, TypeCorrect, PTL DEF Spec

\* Nor is the route for 127.0.0.1: a binding adds it, and the end of the binding,
\* which every change to another tunnel than the bound one or its loss goes through,
\* removes it.
LEMMA LoopbackStep ==
  ASSUME "deleteFails" \notin Faults, "crash" \notin Faults
  PROVE  LoopbackOnBooks /\ [Next]_vars => LoopbackOnBooks'
<1> SUFFICES ASSUME LoopbackOnBooks, [Next]_vars
             PROVE  LoopbackOnBooks'
  OBVIOUS
<1>1. \A t \in Tunnels : t # None
  BY ConstantsAssumption DEF Adapters
<1>2. RemoveLoopback => ~ loopbackRouteAdded' /\ ~ loopbackThere'
  BY Zenon DEF RemoveLoopback, LoopbackOnBooks
<1>3. CASE Deactivate
  BY <1>2, <1>3 DEF Deactivate, LoopbackOnBooks
<1>4. ASSUME NEW t \in Tunnels, NEW c, NEW kept \in {activeTunnel, None}, Activate(t, c, kept)
      PROVE  LoopbackOnBooks'
  <2>1. CASE activeTunnel' = t /\ AddLoopback(kept)
    <3>1. loopbackThere' => loopbackRouteAdded'
      BY <1>2, <2>1, Zenon DEF AddLoopback, loopbackVars, LoopbackOnBooks
    <3> QED
      BY <1>1, <2>1, <3>1 DEF LoopbackOnBooks
  <2>2. CASE kept = None /\ RemoveLoopback
    BY <1>2, <2>2 DEF LoopbackOnBooks
  <2>3. CASE kept # None /\ activeTunnel' = kept /\ UNCHANGED loopbackVars
    BY <2>3 DEF loopbackVars, LoopbackOnBooks
  <2> QED
    BY <1>4, <2>1, <2>2, <2>3 DEF Activate
<1>5. ASSUME NEW c, NEW exclude, DeactivateAndFallBack(c, exclude)
      PROVE  LoopbackOnBooks'
  BY <1>3, <1>4, <1>5 DEF DeactivateAndFallBack, Fallbacks
<1>6. CASE UNCHANGED bindingVars
  BY <1>6 DEF bindingVars, LoopbackOnBooks
<1>7. CASE Settings
  <2>1. ASSUME NEW t \in Tunnels \cup {None}, SetDNSSettings(t) PROVE LoopbackOnBooks'
    BY <1>5, <1>6, <2>1 DEF SetDNSSettings
  <2> QED
    BY <1>6, <1>7, <2>1 DEF Settings, SetMode, SetRules, ClearAllRoutes
<1>8. CASE Tracking
  <2>1. ASSUME NEW t \in Tunnels, Track(t) PROVE LoopbackOnBooks'
    BY <1>6, <2>1 DEF Track
  <2>2. ASSUME NEW t \in Tunnels, OnTunnelStarted(t) PROVE LoopbackOnBooks'
    BY <1>4, <1>6, <2>2 DEF OnTunnelStarted
  <2>3. ASSUME NEW t \in Tunnels, OnTunnelStopped(t) PROVE LoopbackOnBooks'
    BY <1>5, <1>6, <2>3 DEF OnTunnelStopped
  <2> QED
    BY <1>8, <2>1, <2>2, <2>3 DEF Tracking
<1>9. CASE Environment
  BY <1>6, <1>9 DEF Environment, Disturbance, ServiceStart, ServiceStop, FileEdit, RouteLoss, Crash
<1>10. CASE InitDomainRouting \/ Background \/ Calls
  BY <1>6, <1>10 DEF InitDomainRouting, Background, CleanupExpiredRoutes, VerifyAndRepairRoutes,
     Calls, DecideRoute, AddRouteForIP
<1>11. CASE UNCHANGED vars
  BY <1>6, <1>11 DEF vars, bindingVars
<1> QED
  BY <1>7, <1>8, <1>9, <1>10, <1>11 DEF Next

-----------------------------------------------------------------------------
(* The bound tunnel has been seen to run.                                  *)

\* A tracker reports what it recorded.
NoteMatches == \A t \in Tunnels : note[t] # "none" => tracked[t] = note[t]

ActiveInv == ActiveIsStarted /\ NoteMatches

\* Whichever tunnel a fallback binds, its tracker last saw it started.
LEMMA FallBackBinds ==
  ASSUME NEW c, NEW exclude, DeactivateAndFallBack(c, exclude)
  PROVE  activeTunnel' # None =>
           activeTunnel' \in Tunnels /\ tracked[activeTunnel'] = "started"
<1>1. CASE Deactivate
  BY <1>1 DEF Deactivate
<1>2. ASSUME NEW next \in Fallbacks(c, exclude), Activate(next, c, None)
      PROVE  activeTunnel' # None =>
               activeTunnel' \in Tunnels /\ tracked[activeTunnel'] = "started"
  BY <1>2 DEF Activate, Fallbacks
<1> QED
  BY <1>1, <1>2 DEF DeactivateAndFallBack

LEMMA ActiveStep == TypeOK /\ ActiveInv /\ [Next]_vars => ActiveInv'
<1> SUFFICES ASSUME TypeOK, ActiveInv, [Next]_vars
             PROVE  ActiveInv'
  OBVIOUS
<1> USE DEF ActiveInv, ActiveIsStarted, NoteMatches
<1>1. ASSUME UNCHANGED <<activeTunnel, tracked, note>>
      PROVE  ActiveInv'
  BY <1>1
<1>2. CASE InitDomainRouting
  BY <1>1, <1>2 DEF InitDomainRouting, bindingVars, trackVars
<1>3. CASE Settings
  <2>1. ASSUME NEW t, SetDNSSettings(t)
        PROVE  ActiveInv'
    <3>1. UNCHANGED <<tracked, note>>
      BY <2>1 DEF SetDNSSettings, trackVars
    <3>2. CASE UNCHANGED activeTunnel
      BY <1>1, <3>1, <3>2
    <3>3. CASE DeactivateAndFallBack(cfg', None)
      BY <3>1, <3>3, FallBackBinds
    <3> QED
      BY <2>1, <3>2, <3>3 DEF SetDNSSettings, bindingVars
  <2> QED
    BY <1>1, <1>3, <2>1
    DEF Settings, SetMode, SetRules, ClearAllRoutes, bindingVars, trackVars
<1>4. CASE Background
  BY <1>1, <1>4
  DEF Background, CleanupExpiredRoutes, VerifyAndRepairRoutes, bindingVars,
      trackVars
<1>5. CASE Calls
  BY <1>1, <1>5 DEF Calls, DecideRoute, AddRouteForIP, bindingVars, trackVars
<1>6. CASE Tracking
  <2>1. ASSUME NEW t \in Tunnels, Track(t)
        PROVE  ActiveInv'
    BY <2>1 DEF Track, Actual, bindingVars, TypeOK
  <2>2. ASSUME NEW t \in Tunnels, OnTunnelStarted(t)
        PROVE  ActiveInv'
    <3>1. tracked[t] = "started" /\ tracked' = tracked
      BY <2>2 DEF OnTunnelStarted
    <3>2. note' = [note EXCEPT ![t] = "none"]
      BY <2>2 DEF OnTunnelStarted
    <3>3. activeTunnel' \in {t, activeTunnel}
      BY <2>2 DEF OnTunnelStarted, Activate, bindingVars
    <3> QED
      BY <3>1, <3>2, <3>3, <2>2 DEF TypeOK, OnTunnelStarted
  <2>3. ASSUME NEW t \in Tunnels, OnTunnelStopped(t)
        PROVE  ActiveInv'
    <3>1. tracked' = tracked /\ note' = [note EXCEPT ![t] = "none"]
      BY <2>3 DEF OnTunnelStopped
    <3>2. CASE activeTunnel = t
      BY <2>3, <3>1, <3>2, FallBackBinds DEF OnTunnelStopped, TypeOK
    <3>3. CASE activeTunnel # t
      BY <2>3, <3>1, <3>3 DEF OnTunnelStopped, TypeOK, bindingVars
    <3> QED
      BY <3>2, <3>3
  <2> QED
    BY <1>6, <2>1, <2>2, <2>3 DEF Tracking
<1>7. CASE Environment
  <2>1. CASE Crash
    BY <2>1 DEF Crash
  <2> QED
    BY <1>1, <1>7, <2>1
    DEF Environment, Disturbance, ServiceStart, ServiceStop, FileEdit, RouteLoss,
        bindingVars, trackVars
<1>8. CASE UNCHANGED vars
  BY <1>1, <1>8 DEF vars, bindingVars, trackVars
<1> QED
  BY <1>2, <1>3, <1>4, <1>5, <1>6, <1>7, <1>8 DEF Next

\* Whatever fails, the bound tunnel is one that its tracker last saw started,
\* or the report of its end has yet to be handled.
THEOREM BoundTunnelRuns == Spec => []ActiveIsStarted
<1>1. Init => ActiveInv
  BY DEF Init, ActiveInv, ActiveIsStarted, NoteMatches
<1>2. Spec => []ActiveInv
  BY <1>1, ActiveStep, TypeCorrect, PTL DEF Spec
<1>3. ActiveInv => ActiveIsStarted
  BY DEF ActiveInv
<1> QED
  BY <1>2, <1>3, PTL

-----------------------------------------------------------------------------
(* DNS redirection is always on record.                                    *)

\* A stopped tunnel has no adapter to redirect, the tunnel adapter on record is
\* the bound tunnel's, and before the start-up there is no proxy.
RedirectInv ==
  /\ RedirectRecorded
  /\ RedirectNeedsProxy
  /\ \A t \in Tunnels : t \notin up => dns[t] # "loopback"
  /\ tunDNSState # None => tunDNSState = activeTunnel
  /\ ~ inited => ~ proxy

NoneRedirected(servers) == \A i \in Adapters : servers[i] # "loopback"

\* After a restore no adapter points at the proxy.
LEMMA RestoreClears ==
  ASSUME "restoreFails" \notin Faults, TypeOK, RedirectInv
  PROVE  \A base \in AfterRestore : NoneRedirected(base)
<1>1. AfterRestore = {Restored}
  BY DEF AfterRestore
<1>2. NoneRedirected(Restored)
  BY ConstantsAssumption
  DEF NoneRedirected, Restored, RedirectInv, RedirectRecorded, TypeOK,
      DNSStates, Adapters
<1> QED
  BY <1>1, <1>2

\* A state without redirection satisfies the invariant.
LEMMA CleanIsRecorded ==
  ASSUME TypeOK', NoneRedirected(dns)', (tunDNSState = None)',
         (~ inited => ~ proxy)'
  PROVE  RedirectInv'
  BY DEF TypeOK, NoneRedirected, RedirectInv, RedirectRecorded,
         RedirectNeedsProxy, Adapters

\* Redirecting for t keeps every adapter that points at the proxy on record,
\* and redirects no adapter of a stopped tunnel.
LEMMA ApplyRecords ==
  ASSUME NEW base, NEW t \in Tunnels, NEW d \in Nics \cup {None}, NEW ds,
         NEW savedTun \in {None, t}, NEW savedDefault \in DNSStates \cup {None},
         ApplyDNS(base, t, d, ds, savedTun, savedDefault),
         \A i \in Adapters : base[i] = "loopback" =>
           \/ i = savedTun
           \/ savedDefault # None /\ i = savedDefault.luid,
         \A s \in Tunnels : s \notin up => base[s] # "loopback"
  PROVE  /\ RedirectRecorded'
         /\ tunDNSState' = t
         /\ \A s \in Tunnels : s \notin up => dns'[s] # "loopback"
<1> DEFINE def == IF savedDefault = None /\ d # None
                    THEN [luid |-> d, servers |-> ds] ELSE savedDefault
<1>1. tunDNSState' = t /\ defaultDNSState' = def
  BY DEF ApplyDNS
<1>2. savedDefault # None => def = savedDefault
  OBVIOUS
<1>3. \A i \in Adapters : dns'[i] = "loopback" =>
        \/ base[i] = "loopback"
        \/ i = t /\ t \in up
        \/ def # None /\ i = def.luid
  BY DEF ApplyDNS, Redirected
<1>4. def # None => def.luid \in Nics
  BY DEF DNSStates
<1>5. RedirectRecorded'
  <2>1. None \notin Adapters
    BY ConstantsAssumption
  <2> QED
    BY <1>1, <1>2, <1>3, <2>1 DEF RedirectRecorded
<1>6. \A s \in Tunnels : s \notin up => dns'[s] # "loopback"
  BY <1>3, <1>4, ConstantsAssumption DEF Adapters
<1> QED
  BY <1>1, <1>5, <1>6

LEMMA ActivateRedirect ==
  ASSUME "restoreFails" \notin Faults,
         TypeOK, TypeOK', RedirectInv, UNCHANGED <<up, inited, proxy>>,
         NEW t \in Tunnels, NEW c, NEW kept, Activate(t, c, kept)
  PROVE  RedirectInv'
<1>1. CASE RestoreDNS
  BY <1>1, RestoreClears, CleanIsRecorded DEF RestoreDNS, RedirectInv
<1>2. ASSUME activeTunnel' = t,
             NEW base \in AfterRestore, NEW d \in DefaultIfs,
             NEW ds \in ReadDNS(base, d), proxy,
             ApplyDNS(base, t, d, ds, None, None)
      PROVE  RedirectInv'
  <2>1. NoneRedirected(base)
    BY RestoreClears
  <2>2. d \in Nics \cup {None}
    BY DEF DefaultIfs
  <2>3. \A i \in Adapters : base[i] # "loopback"
    BY <2>1 DEF NoneRedirected
  <2>4. \A s \in Tunnels : base[s] # "loopback"
    BY <2>3 DEF Adapters
  <2>5. /\ RedirectRecorded'
        /\ tunDNSState' = t
        /\ \A s \in Tunnels : s \notin up => dns'[s] # "loopback"
    BY <1>2, <2>2, <2>3, <2>4, ApplyRecords
  <2>6. t # None
    BY ConstantsAssumption DEF Adapters
  <2> QED
    BY <1>2, <2>5, <2>6 DEF RedirectInv, RedirectNeedsProxy
<1>3. ASSUME NEW base \in AfterRestore, dns' = base, tunDNSState' = None
      PROVE  RedirectInv'
  <2>1. NoneRedirected(dns)'
    BY <1>3, RestoreClears
  <2> QED
    BY <1>3, <2>1, CleanIsRecorded DEF RedirectInv
<1> QED
  BY <1>1, <1>2, <1>3 DEF Activate

LEMMA BindingRedirect ==
  ASSUME "restoreFails" \notin Faults,
         TypeOK, TypeOK', RedirectInv, UNCHANGED <<up, inited, proxy>>,
         NEW c, NEW exclude, DeactivateAndFallBack(c, exclude)
  PROVE  RedirectInv'
<1>1. CASE Deactivate
  BY <1>1, RestoreClears, CleanIsRecorded
  DEF Deactivate, RestoreDNS, RedirectInv
<1> QED
  BY <1>1, ActivateRedirect DEF DeactivateAndFallBack, Fallbacks

LEMMA SetModeRedirect ==
  ASSUME "restoreFails" \notin Faults,
         TypeOK, TypeOK', RedirectInv, NEW m, SetMode(m)
  PROVE  RedirectInv'
<1>1. UNCHANGED <<inited, up, activeTunnel>> /\ inited
  BY DEF SetMode, bindingVars, trackVars
<1>2. CASE UNCHANGED <<proxy, savedVars, dns>>
  BY <1>1, <1>2
  DEF RedirectInv, RedirectRecorded, RedirectNeedsProxy, savedVars
<1>3. CASE RestoreDNS
  BY <1>1, <1>3, RestoreClears, CleanIsRecorded DEF RestoreDNS
<1>4. CASE ~ proxy' /\ ~ proxy /\ UNCHANGED <<savedVars, dns>>
  BY <1>1, <1>4
  DEF RedirectInv, RedirectRecorded, RedirectNeedsProxy, savedVars
<1>5. CASE /\ activeTunnel # None /\ proxy'
           /\ ApplyDNS(dns, activeTunnel, defaultIf, defaultDNS,
                       tunDNSState, defaultDNSState)
  <2>1. /\ activeTunnel \in Tunnels
        /\ defaultIf \in Nics \cup {None}
        /\ tunDNSState \in {None, activeTunnel}
        /\ defaultDNSState \in DNSStates \cup {None}
    BY <1>5 DEF TypeOK, RedirectInv
  <2>2. \A i \in Adapters : dns[i] = "loopback" =>
          \/ i = tunDNSState
          \/ defaultDNSState # None /\ i = defaultDNSState.luid
    BY DEF RedirectInv, RedirectRecorded
  <2>3. \A s \in Tunnels : s \notin up => dns[s] # "loopback"
    BY DEF RedirectInv
  <2>4. /\ RedirectRecorded'
        /\ tunDNSState' = activeTunnel
        /\ \A s \in Tunnels : s \notin up => dns'[s] # "loopback"
    BY <1>5, <2>1, <2>2, <2>3, ApplyRecords
  <2> QED
    BY <1>1, <1>5, <2>4 DEF RedirectInv, RedirectNeedsProxy
<1>6. CASE ApplyMode(cfg')
  BY <1>2, <1>3, <1>4, <1>5, <1>6 DEF ApplyMode
<1> QED
  BY <1>2, <1>6 DEF SetMode

LEMMA RedirectStep ==
  ASSUME "restoreFails" \notin Faults, "crash" \notin Faults
  PROVE  TypeOK /\ RedirectInv /\ [Next]_vars => RedirectInv'
<1> SUFFICES ASSUME TypeOK, RedirectInv, [Next]_vars
             PROVE  RedirectInv'
  OBVIOUS
<1>1. TypeOK'
  BY StepType
<1>2. ASSUME UNCHANGED <<inited, proxy, activeTunnel, savedVars, dns, up>>
      PROVE  RedirectInv'
  BY <1>2 DEF RedirectInv, RedirectRecorded, RedirectNeedsProxy, savedVars
<1>3. CASE InitDomainRouting
  BY <1>3
  DEF InitDomainRouting, RedirectInv, RedirectRecorded, RedirectNeedsProxy,
      bindingVars, savedVars, trackVars
<1>4. CASE Settings
  <2>1. ASSUME NEW t, SetDNSSettings(t)
        PROVE  RedirectInv'
    BY <1>1, <1>2, <2>1, BindingRedirect
    DEF SetDNSSettings, bindingVars, trackVars
  <2> QED
    BY <1>1, <1>2, <1>4, <2>1, SetModeRedirect
    DEF Settings, SetRules, ClearAllRoutes, bindingVars, trackVars
<1>5. CASE Background
  BY <1>2, <1>5
  DEF Background, CleanupExpiredRoutes, VerifyAndRepairRoutes, bindingVars,
      trackVars
<1>6. CASE Calls
  BY <1>2, <1>6 DEF Calls, DecideRoute, AddRouteForIP, bindingVars, trackVars
<1>7. CASE Tracking
  <2>1. ASSUME NEW t \in Tunnels, Track(t)
        PROVE  RedirectInv'
    BY <1>2, <2>1 DEF Track, bindingVars
  <2>2. ASSUME NEW t \in Tunnels, OnTunnelStarted(t)
        PROVE  RedirectInv'
    BY <1>1, <1>2, <2>2, ActivateRedirect DEF OnTunnelStarted, bindingVars
  <2>3. ASSUME NEW t \in Tunnels, OnTunnelStopped(t)
        PROVE  RedirectInv'
    BY <1>1, <1>2, <2>3, BindingRedirect DEF OnTunnelStopped, bindingVars
  <2> QED
    BY <1>7, <2>1, <2>2, <2>3 DEF Tracking
<1>8. CASE Environment
  <2>1. ASSUME NEW t \in Tunnels, ServiceStart(t)
        PROVE  RedirectInv'
    BY <2>1
    DEF ServiceStart, RedirectInv, RedirectRecorded, RedirectNeedsProxy,
        bindingVars, savedVars
  <2>2. ASSUME NEW t \in Tunnels, ServiceStop(t)
        PROVE  RedirectInv'
    <3>1. \A i \in Adapters : dns'[i] = "loopback" => dns[i] = "loopback"
      BY <2>2 DEF ServiceStop, TypeOK
    <3>2. dns'[t] = "own"
      BY <2>2 DEF ServiceStop, TypeOK, Adapters
    <3> QED
      BY <2>2, <3>1, <3>2
      DEF ServiceStop, RedirectInv, RedirectRecorded, RedirectNeedsProxy,
          bindingVars, savedVars, Adapters
  <2>3. CASE Crash
    BY <2>3 DEF Crash
  <2> QED
    BY <1>2, <1>8, <2>1, <2>2, <2>3
    DEF Environment, Disturbance, FileEdit, RouteLoss, bindingVars, trackVars
<1>9. CASE UNCHANGED vars
  BY <1>2, <1>9 DEF vars, bindingVars, trackVars
<1> QED
  BY <1>3, <1>4, <1>5, <1>6, <1>7, <1>8, <1>9 DEF Next

LEMMA RedirectAlways ==
  ASSUME "restoreFails" \notin Faults, "crash" \notin Faults
  PROVE  Spec => []RedirectInv
<1>1. Init => RedirectInv
  BY DEF Init, RedirectInv, RedirectRecorded, RedirectNeedsProxy, Adapters
<1> QED
  BY <1>1, RedirectStep, TypeCorrect, PTL DEF Spec

\* Unless Windows refuses to set servers back or the process dies, the servers
\* of every adapter that points at the proxy are on record and come back.
THEOREM RedirectionOnRecord ==
  ASSUME "restoreFails" \notin Faults, "crash" \notin Faults
  PROVE  Spec => []RedirectRecorded
<1>1. RedirectInv => RedirectRecorded
  BY DEF RedirectInv
<1> QED
  BY <1>1, RedirectAlways, PTL

\* Under the same conditions no adapter points at a proxy that does not run, or
\* is redirected while no tunnel is bound.
THEOREM RedirectionIsServed ==
  ASSUME "restoreFails" \notin Faults, "crash" \notin Faults
  PROVE  Spec => []RedirectNeedsProxy
<1>1. RedirectInv => RedirectNeedsProxy
  BY DEF RedirectInv
<1> QED
  BY <1>1, RedirectAlways, PTL

\* If deletions succeed and the process does not crash, the routes in the table
\* and on the books are those of the present binding, and so is the manager's own
\* for 127.0.0.1 (AddRouteForIP, addLoopbackRouteLocked, removeLoopbackRouteLocked).
THEOREM RoutesAreOnBooks ==
  ASSUME "deleteFails" \notin Faults, "crash" \notin Faults
  PROVE  Spec => []RoutesOnBooks
<1>1. NoOrphanRoutes /\ RoutesOfBinding /\ LoopbackOnBooks => RoutesOnBooks
  BY DEF RoutesOnBooks
<1>2. Init => LoopbackOnBooks
  BY DEF Init, LoopbackOnBooks
<1>3. Spec => []LoopbackOnBooks
  BY <1>2, LoopbackStep, PTL DEF Spec
<1> QED
  BY <1>1, <1>3, NoRouteLeftBehind, RoutesFollowBinding, PTL

\* If restoring succeeds and the process does not crash, a redirection is on
\* record and served (redirectDNSLocked, restoreDNSLocked).
THEOREM RedirectionIsKept ==
  ASSUME "restoreFails" \notin Faults, "crash" \notin Faults
  PROVE  Spec => []RedirectionKept
<1>1. RedirectRecorded /\ RedirectNeedsProxy => RedirectionKept
  BY DEF RedirectionKept
<1> QED
  BY <1>1, RedirectionOnRecord, RedirectionIsServed, PTL

-----------------------------------------------------------------------------
(* The settings in force.                                                  *)

\* Before the start-up nothing is selected and nothing can be bound; after it
\* the file has been read, so that refreshing the configuration changes nothing.
SelectedInv ==
  /\ SelectedTunnelOnly
  /\ inited => ~ fileNewer
  /\ ~ inited => /\ cfg.routeTunnel = None
                 /\ activeTunnel = None
                 /\ \A t \in Tunnels : note[t] = "none"

\* A fallback binds nothing but the tunnel that is selected, if one is.
LEMMA FallBackSelected ==
  ASSUME NEW c, NEW exclude, DeactivateAndFallBack(c, exclude)
  PROVE  c.routeTunnel # None => activeTunnel' \in {None, c.routeTunnel}
BY DEF DeactivateAndFallBack, Deactivate, Activate, Fallbacks

LEMMA SelectedStep ==
  ASSUME "fileEdit" \notin Faults, "earlyNotify" \notin Faults
  PROVE  TypeOK /\ SelectedInv /\ [Next]_vars => SelectedInv'
<1> SUFFICES ASSUME TypeOK, SelectedInv, [Next]_vars
             PROVE  SelectedInv'
  OBVIOUS
<1> USE DEF SelectedInv, SelectedTunnelOnly
<1>1. ASSUME UNCHANGED <<configVars, inited, activeTunnel, note>>
      PROVE  SelectedInv'
  BY <1>1 DEF configVars
<1>2. CASE InitDomainRouting
  BY <1>2 DEF InitDomainRouting, bindingVars
<1>3. CASE Settings
  <2>1. ASSUME NEW m \in ModeInputs, SetMode(m)
        PROVE  SelectedInv'
    <3>1. cfg'.routeTunnel = cfg.routeTunnel
      BY <2>1 DEF SetMode, Save, TypeOK, Configs
    <3> QED
      BY <2>1, <3>1 DEF SetMode, Save, bindingVars
  <2>2. ASSUME NEW r \in RuleSets, SetRules(r)
        PROVE  SelectedInv'
    <3>1. cfg'.routeTunnel = cfg.routeTunnel
      BY <2>2 DEF SetRules, Save, TypeOK, Configs
    <3> QED
      BY <2>2, <3>1 DEF SetRules, Save, bindingVars
  <2>3. ASSUME NEW t \in Tunnels \cup {None}, SetDNSSettings(t)
        PROVE  SelectedInv'
    <3>1. inited' /\ ~ fileNewer' /\ cfg'.routeTunnel = t
      BY <2>3 DEF SetDNSSettings, Save, TypeOK, Configs
    <3> QED
      BY <2>3, <3>1, FallBackSelected DEF SetDNSSettings, bindingVars
  <2> QED
    BY <1>1, <1>3, <2>1, <2>2, <2>3
    DEF Settings, ClearAllRoutes, bindingVars, trackVars
<1>4. CASE Background
  BY <1>1, <1>4
  DEF Background, CleanupExpiredRoutes, VerifyAndRepairRoutes, bindingVars,
      trackVars
<1>5. CASE Calls
  <2>1. CASE DecideRoute
    BY <2>1 DEF DecideRoute, RefreshConfig, bindingVars, trackVars
  <2> QED
    BY <1>1, <1>5, <2>1 DEF Calls, AddRouteForIP, bindingVars, trackVars
<1>6. CASE Tracking
  <2>1. ASSUME NEW t \in Tunnels, Track(t)
        PROVE  SelectedInv'
    BY <2>1 DEF Track, bindingVars, configVars
  <2>2. ASSUME NEW t \in Tunnels, OnTunnelStarted(t)
        PROVE  SelectedInv'
    <3>1. inited
      BY <2>2 DEF OnTunnelStarted
    <3> QED
      BY <2>2, <3>1 DEF OnTunnelStarted, Activate, bindingVars, configVars
  <2>3. ASSUME NEW t \in Tunnels, OnTunnelStopped(t)
        PROVE  SelectedInv'
    <3>1. inited
      BY <2>3 DEF OnTunnelStopped
    <3> QED
      BY <2>3, <3>1, FallBackSelected
      DEF OnTunnelStopped, bindingVars, configVars
  <2> QED
    BY <1>6, <2>1, <2>2, <2>3 DEF Tracking
<1>7. CASE Environment
  <2>1. CASE Crash
    BY <2>1 DEF Crash, ZeroConfig
  <2> QED
    BY <1>1, <1>7, <2>1
    DEF Environment, Disturbance, ServiceStart, ServiceStop, FileEdit, RouteLoss,
        bindingVars, trackVars
<1>8. CASE UNCHANGED vars
  BY <1>1, <1>8 DEF vars, bindingVars, trackVars
<1> QED
  BY <1>2, <1>3, <1>4, <1>5, <1>6, <1>7, <1>8 DEF Next

\* With a tunnel selected for filtered traffic, no other one is ever bound,
\* though saving, binding and restoring may fail and the process may die, if the
\* file is not edited behind the manager's back and no tunnel is reported before
\* the start-up (SetDNSSettings, OnTunnelStarted, pickFallbackTunnelLocked).
THEOREM OnlySelectedIsBound ==
  ASSUME "fileEdit" \notin Faults, "earlyNotify" \notin Faults
  PROVE  Spec => []SelectedTunnelOnly
<1>1. Init => SelectedInv
  BY DEF Init, SelectedInv, SelectedTunnelOnly, ZeroConfig
<1>2. Spec => []SelectedInv
  BY <1>1, SelectedStep, TypeCorrect, PTL DEF Spec
<1>3. SelectedInv => SelectedTunnelOnly
  BY DEF SelectedInv
<1> QED
  BY <1>2, <1>3, PTL

\* Before the start-up the mode is off.
OffInv ==
  /\ OffIsClean
  /\ inited => ~ fileNewer
  /\ ~ inited => cfg.mode = "off"

\* Binding a tunnel in mode off leaves no redirection, and no binding a route.
LEMMA BindingClean ==
  ASSUME "restoreFails" \notin Faults, TypeOK, RedirectInv, NEW c, NEW t,
         \/ \E kept : Activate(t, c, kept)
         \/ DeactivateAndFallBack(c, t)
  PROVE  /\ Learned' = {}
         /\ c.mode = "off" => NoneRedirected(dns')
<1> USE RestoreClears
<1>1. ASSUME NEW kept, NEW u, Activate(u, c, kept)
      PROVE  /\ Learned' = {}
             /\ c.mode = "off" => NoneRedirected(dns')
  BY <1>1, ClearedBooks DEF Activate, RestoreDNS
<1>2. CASE Deactivate
  BY <1>2, ClearedBooks DEF Deactivate, RestoreDNS
<1> QED
  BY <1>1, <1>2 DEF DeactivateAndFallBack

\* While routes and redirections do not grow, a mode that stays is respected.
LEMMA OffKept ==
  ASSUME OffIsClean,
         Learned' = {} \/ Learned' \subseteq Learned,
         cfg'.mode = cfg.mode,
         dns' = dns \/ (cfg.mode = "off" => NoneRedirected(dns'))
  PROVE  OffIsClean'
BY DEF OffIsClean, NoneRedirected

LEMMA SetModeOff ==
  ASSUME "restoreFails" \notin Faults, "saveFails" \notin Faults,
         TypeOK, RedirectInv, OffInv, NEW m, SetMode(m)
  PROVE  OffInv'
<1>1. Learned' = {}
  BY ClearedBooks DEF SetMode
<1>2. cfg'.mode = m /\ ~ fileNewer' /\ inited' /\ ApplyMode(cfg')
  BY DEF SetMode, Save, TypeOK, Configs
<1>3. m = "off" => NoneRedirected(dns')
  BY <1>2, RestoreClears DEF ApplyMode, RestoreDNS
<1> QED
  BY <1>1, <1>2, <1>3 DEF OffInv, OffIsClean, NoneRedirected

LEMMA OffStep ==
  ASSUME "fileEdit" \notin Faults, "saveFails" \notin Faults,
         "restoreFails" \notin Faults, "crash" \notin Faults
  PROVE  TypeOK /\ RedirectInv /\ OffInv /\ [Next]_vars => OffInv'
<1> SUFFICES ASSUME TypeOK, RedirectInv, OffInv, [Next]_vars
             PROVE  OffInv'
  OBVIOUS
<1>1. ASSUME UNCHANGED <<configVars, inited>>,
             Learned' = {} \/ Learned' \subseteq Learned,
             dns' = dns \/ (cfg.mode = "off" => NoneRedirected(dns'))
      PROVE  OffInv'
  <2>1. cfg' = cfg /\ fileNewer' = fileNewer
    BY <1>1 DEF configVars
  <2>2. OffIsClean'
    BY <1>1, <2>1, OffKept DEF OffInv
  <2> QED
    BY <1>1, <2>1, <2>2 DEF OffInv
<1>2. CASE InitDomainRouting
  BY <1>2 DEF InitDomainRouting, OffInv, OffIsClean, Learned, routeVars
<1>3. CASE Settings
  <2>1. ASSUME NEW r \in RuleSets, SetRules(r)
        PROVE  OffInv'
    <3>1. cfg'.mode = cfg.mode /\ ~ fileNewer' /\ inited'
      BY <2>1 DEF SetRules, Save, TypeOK, Configs
    <3>2. OffIsClean'
      BY <2>1, <3>1, ClearedBooks, OffKept DEF SetRules, OffInv
    <3> QED
      BY <3>1, <3>2 DEF OffInv
  <2>2. ASSUME NEW t \in Tunnels \cup {None}, SetDNSSettings(t)
        PROVE  OffInv'
    <3>1. cfg'.mode = cfg.mode /\ ~ fileNewer' /\ inited'
      BY <2>2 DEF SetDNSSettings, Save, TypeOK, Configs
    <3>2. CASE UNCHANGED <<bindingVars, savedVars, routeVars, dns>>
      <4>1. Learned' = Learned
        BY <3>2 DEF Learned, routeVars
      <4> QED
        BY <3>1, <3>2, <4>1, OffKept DEF OffInv
    <3>3. CASE DeactivateAndFallBack(cfg', None)
      <4>1. Learned' = {} /\ (cfg'.mode = "off" => NoneRedirected(dns'))
        BY <3>3, BindingClean
      <4> QED
        BY <3>1, <4>1, OffKept DEF OffInv
    <3> QED
      BY <2>2, <3>2, <3>3 DEF SetDNSSettings
  <2>3. CASE ClearAllRoutes
    BY <1>1, <2>3, ClearedBooks DEF ClearAllRoutes
  <2> QED
    BY <1>3, <2>1, <2>2, <2>3, SetModeOff DEF Settings
<1>4. CASE Background
  BY <1>1, <1>4
  DEF Background, CleanupExpiredRoutes, VerifyAndRepairRoutes, Learned
<1>5. CASE Calls
  <2>1. CASE DecideRoute
    BY <2>1
    DEF DecideRoute, RefreshConfig, OffInv, OffIsClean, Learned, routeVars
  <2>2. ASSUME NEW ip \in IPs, NEW target \in {"tunnel", "direct"},
               NEW err \in BOOLEAN, AddRouteForIP(ip, target, err)
        PROVE  OffInv'
    <3>1. CASE cfg.mode = "off"
      <4>1. Learned' = Learned
        BY <2>2, <3>1 DEF AddRouteForIP, routeVars, Learned
      <4> QED
        BY <1>1, <2>2, <4>1 DEF AddRouteForIP
    <3>2. CASE cfg.mode # "off"
      BY <2>2, <3>2 DEF AddRouteForIP, OffInv, OffIsClean, configVars
    <3> QED
      BY <3>1, <3>2
  <2> QED
    BY <1>5, <2>1, <2>2 DEF Calls
<1>6. CASE Tracking
  <2>1. ASSUME UNCHANGED <<bindingVars, savedVars, routeVars, dns>>
        PROVE  Learned' = Learned /\ dns' = dns
    BY <2>1 DEF Learned, routeVars
  <2>2. ASSUME NEW t \in Tunnels, Track(t)
        PROVE  OffInv'
    BY <1>1, <2>1, <2>2 DEF Track
  <2>3. ASSUME NEW t \in Tunnels, OnTunnelStarted(t)
        PROVE  OffInv'
    BY <1>1, <2>1, <2>3, BindingClean DEF OnTunnelStarted
  <2>4. ASSUME NEW t \in Tunnels, OnTunnelStopped(t)
        PROVE  OffInv'
    BY <1>1, <2>1, <2>4, BindingClean DEF OnTunnelStopped
  <2> QED
    BY <1>6, <2>2, <2>3, <2>4 DEF Tracking
<1>7. CASE Environment
  <2>1. ASSUME NEW t \in Tunnels, ServiceStop(t)
        PROVE  OffInv'
    <3>1. \A i \in Adapters : dns'[i] = "loopback" => dns[i] = "loopback"
      BY <2>1 DEF ServiceStop, TypeOK
    <3>2. Learned' = Learned
      BY <2>1 DEF ServiceStop, Learned
    <3> QED
      BY <2>1, <3>1, <3>2 DEF ServiceStop, OffInv, OffIsClean, configVars
  <2> QED
    BY <1>1, <1>7, <2>1
    DEF Environment, Disturbance, ServiceStart, FileEdit, RouteLoss, Crash,
        Learned, routeVars
<1>8. CASE UNCHANGED vars
  BY <1>1, <1>8 DEF vars, routeVars, Learned
<1> QED
  BY <1>2, <1>3, <1>4, <1>5, <1>6, <1>7, <1>8 DEF Next

\* In mode off no route is kept and no adapter is redirected, whichever tunnels
\* come and go, if settings are saved and servers set back, nobody edits the file
\* and the process does not die (applyModeLocked, activateTunnelLocked).
THEOREM OffMeansOff ==
  ASSUME "fileEdit" \notin Faults, "saveFails" \notin Faults,
         "restoreFails" \notin Faults, "crash" \notin Faults
  PROVE  Spec => []OffIsClean
<1>1. Init => OffInv
  BY DEF Init, OffInv, OffIsClean, Learned, ZeroConfig
<1>2. Spec => []OffInv
  BY <1>1, OffStep, TypeCorrect, RedirectAlways, PTL DEF Spec
<1>3. OffInv => OffIsClean
  BY DEF OffInv
<1> QED
  BY <1>2, <1>3, PTL

\* The servers read when a default adapter was bound are its own.
ServersInv ==
  /\ DNSNotLost
  /\ defaultIf # None => defaultDNS = "own"

OwnServers(servers) == \A i \in Adapters : servers[i] # "empty"

\* A restore writes back the servers that were saved.
LEMMA RestoreOwn ==
  ASSUME "restoreFails" \notin Faults, TypeOK, ServersInv
  PROVE  \A base \in AfterRestore : OwnServers(base)
BY DEF AfterRestore, Restored, OwnServers, ServersInv, DNSNotLost

\* Redirecting saves the adapter's own servers.
LEMMA ApplyOwn ==
  ASSUME NEW base, OwnServers(base), NEW t, NEW d, NEW ds, NEW savedTun,
         NEW savedDefault, d # None => ds = "own",
         savedDefault # None => savedDefault.servers = "own",
         ApplyDNS(base, t, d, ds, savedTun, savedDefault)
  PROVE  DNSNotLost'
<1>1. \A S : OwnServers(Redirected(base, S))
  BY DEF OwnServers, Redirected
<1> QED
  BY <1>1 DEF ApplyDNS, DNSNotLost, OwnServers

\* Binding reads the servers after they have been set back.
LEMMA BindingOwn ==
  ASSUME "restoreFails" \notin Faults, "dnsReadFails" \notin Faults,
         TypeOK, RedirectInv, ServersInv, NEW c, NEW t,
         \/ \E kept \in {None, activeTunnel} : Activate(t, c, kept)
         \/ DeactivateAndFallBack(c, t)
  PROVE  ServersInv'
<1>1. \A base \in AfterRestore : OwnServers(base) /\ NoneRedirected(base)
  BY RestoreOwn, RestoreClears
<1>2. ASSUME RestoreDNS, defaultIf' # None => defaultDNS' = "own"
      PROVE  ServersInv'
  BY <1>1, <1>2 DEF RestoreDNS, ServersInv, DNSNotLost, OwnServers
<1>3. ASSUME NEW kept \in {None, activeTunnel}, NEW u, Activate(u, c, kept)
      PROVE  ServersInv'
  <2>1. CASE /\ RestoreDNS
             /\ defaultIf' = IF kept = None THEN None ELSE defaultIf
             /\ defaultDNS' = IF kept = None THEN "empty" ELSE defaultDNS
    BY <1>2, <2>1 DEF ServersInv
  <2>2. ASSUME NEW base \in AfterRestore, NEW d \in DefaultIfs,
               NEW ds \in ReadDNS(base, d), defaultIf' = d, defaultDNS' = ds,
               \/ ApplyDNS(base, u, d, ds, None, None)
               \/ dns' = base /\ defaultDNSState' = None
        PROVE  ServersInv'
    <3>1. d # None => ds = "own"
      <4>1. ASSUME d # None PROVE base[d] = "own"
        <5>1. d \in Adapters
          BY <4>1 DEF DefaultIfs, Adapters
        <5>2. base \in [Adapters -> Servers]
          BY RestoreType
        <5> QED
          BY <1>1, <5>1, <5>2 DEF OwnServers, NoneRedirected, Servers
      <4> QED
        BY <4>1 DEF ReadDNS
    <3>2. CASE ApplyDNS(base, u, d, ds, None, None)
      BY <1>1, <2>2, <3>1, <3>2, ApplyOwn DEF ServersInv
    <3>3. CASE dns' = base /\ defaultDNSState' = None
      BY <1>1, <2>2, <3>1, <3>3 DEF ServersInv, DNSNotLost, OwnServers
    <3> QED
      BY <2>2, <3>2, <3>3
  <2> QED
    BY <1>3, <2>1, <2>2 DEF Activate
<1>4. CASE Deactivate
  BY <1>2, <1>4 DEF Deactivate
<1> QED
  BY <1>3, <1>4 DEF DeactivateAndFallBack

LEMMA ServersStep ==
  ASSUME "dnsReadFails" \notin Faults, "restoreFails" \notin Faults,
         "crash" \notin Faults
  PROVE  TypeOK /\ RedirectInv /\ ServersInv /\ [Next]_vars => ServersInv'
<1> SUFFICES ASSUME TypeOK, RedirectInv, ServersInv, [Next]_vars
             PROVE  ServersInv'
  OBVIOUS
<1>1. ASSUME UNCHANGED <<defaultIf, defaultDNS, dns, defaultDNSState>>
      PROVE  ServersInv'
  BY <1>1 DEF ServersInv, DNSNotLost
<1> USE DEF bindingVars, savedVars
<1>2. CASE InitDomainRouting
  BY <1>1, <1>2 DEF InitDomainRouting
<1>3. CASE Settings
  <2>1. ASSUME NEW m \in ModeInputs, SetMode(m)
        PROVE  ServersInv'
    <3>1. UNCHANGED <<defaultIf, defaultDNS>>
      BY <2>1 DEF SetMode
    <3>2. CASE UNCHANGED <<savedVars, dns>>
      BY <1>1, <3>1, <3>2
    <3>3. CASE RestoreDNS
      BY <3>1, <3>3, RestoreOwn
      DEF RestoreDNS, ServersInv, DNSNotLost, OwnServers
    <3>4. CASE ApplyDNS(dns, activeTunnel, defaultIf, defaultDNS,
                        tunDNSState, defaultDNSState)
      <4>1. DNSNotLost'
        BY <3>4, ApplyOwn DEF ServersInv, DNSNotLost, OwnServers
      <4> QED
        BY <3>1, <4>1 DEF ServersInv
    <3> QED
      BY <2>1, <3>2, <3>3, <3>4 DEF SetMode, ApplyMode
  <2>2. ASSUME NEW t \in Tunnels \cup {None}, SetDNSSettings(t)
        PROVE  ServersInv'
    BY <1>1, <2>2, BindingOwn DEF SetDNSSettings
  <2> QED
    BY <1>1, <1>3, <2>1, <2>2 DEF Settings, SetRules, ClearAllRoutes
<1>4. CASE Background
  BY <1>1, <1>4 DEF Background, CleanupExpiredRoutes, VerifyAndRepairRoutes
<1>5. CASE Calls
  BY <1>1, <1>5 DEF Calls, DecideRoute, AddRouteForIP
<1>6. CASE Tracking
  <2>1. ASSUME NEW t \in Tunnels, Track(t)
        PROVE  ServersInv'
    BY <1>1, <2>1 DEF Track
  <2>2. ASSUME NEW t \in Tunnels, OnTunnelStarted(t)
        PROVE  ServersInv'
    BY <1>1, <2>2, BindingOwn DEF OnTunnelStarted
  <2>3. ASSUME NEW t \in Tunnels, OnTunnelStopped(t)
        PROVE  ServersInv'
    BY <1>1, <2>3, BindingOwn DEF OnTunnelStopped
  <2> QED
    BY <1>6, <2>1, <2>2, <2>3 DEF Tracking
<1>7. CASE Environment
  <2>1. ASSUME NEW t \in Tunnels, ServiceStop(t)
        PROVE  ServersInv'
    <3>1. \A i \in Adapters : dns'[i] = "empty" => dns[i] = "empty"
      BY <2>1 DEF ServiceStop, TypeOK
    <3> QED
      BY <2>1, <3>1 DEF ServiceStop, ServersInv, DNSNotLost
  <2> QED
    BY <1>1, <1>7, <2>1
    DEF Environment, Disturbance, ServiceStart, FileEdit, RouteLoss, Crash
<1>8. CASE UNCHANGED vars
  BY <1>1, <1>8 DEF vars
<1> QED
  BY <1>2, <1>3, <1>4, <1>5, <1>6, <1>7, <1>8 DEF Next

\* No redirection loses a DNS server, however often tunnels are bound, modes are
\* set and redirecting fails half-way, if servers can be read and set back and the
\* process does not die (findDefaultRouteAndDNS, applyDNSLocked).
THEOREM ServersAreKept ==
  ASSUME "dnsReadFails" \notin Faults, "restoreFails" \notin Faults,
         "crash" \notin Faults
  PROVE  Spec => []DNSNotLost
<1>1. Init => ServersInv
  BY DEF Init, ServersInv, DNSNotLost
<1>2. Spec => []ServersInv
  BY <1>1, ServersStep, TypeCorrect, RedirectAlways, PTL DEF Spec
<1>3. ServersInv => DNSNotLost
  BY DEF ServersInv
<1> QED
  BY <1>2, <1>3, PTL

\* The settings in force are respected: by the tunnel that is bound, by routes and
\* redirections, and for the servers of the adapters.  What may fail is naming a
\* default route, binding, redirecting, adding and deleting routes, the routes in
\* the table, and the proxy's port.
THEOREM SettingsAreRespected ==
  ASSUME "fileEdit" \notin Faults, "earlyNotify" \notin Faults,
         "saveFails" \notin Faults, "dnsReadFails" \notin Faults,
         "restoreFails" \notin Faults, "crash" \notin Faults
  PROVE  Spec => []SettingsHold
<1>1. SelectedTunnelOnly /\ OffIsClean /\ DNSNotLost => SettingsHold
  BY DEF SettingsHold
<1> QED
  BY <1>1, OnlySelectedIsBound, OffMeansOff, ServersAreKept, PTL

=============================================================================
