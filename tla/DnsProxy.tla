------------------------------ MODULE DnsProxy ------------------------------
(***************************************************************************)
(* The DNS proxy (manager/domainrouting_dnsproxy.go) on top of the domain  *)
(* routing manager.  Each query runs handleDNSQuery on a goroutine of its  *)
(* own and takes m.mu several times, once per step below: between two      *)
(* steps the user may change the settings, a tunnel may come or go, and    *)
(* other queries may run.  A decision, a mode and the presence of a tunnel *)
(* read in one step are used in later ones.                                *)
(***************************************************************************)
EXTENDS DomainRouting

CONSTANTS
  Queries,   \* the queries that may be in progress at a time
  Resolves   \* the IPv4 addresses each domain resolves to

ASSUME ResolvesAssumption == Resolves \in [Domains -> SUBSET IPs]

VARIABLE query   \* the local state of each query

proxyVars == <<vars, query>>

PCs == {"idle", "decide", "mode", "exchange", "tunnel", "routes", "reply",
        "done"}
Replies == {"none", "local", "nxdomain", "servfail", "answer"}

\* `ips` and `todo` are the addresses answered and those without a route yet,
\* `routeErr` is applyRoutesFromResponse's error.  Two fields record history:
\* `refused`, the addresses whose route was reported as not added, and
\* `unrouted`, those whose route is missing although no error was reported.
QueryStates ==
  [pc : PCs, domain : Domains \cup {None}, target : Targets, mode : Modes,
   ips : SUBSET IPs, todo : SUBSET IPs, routeErr : BOOLEAN,
   refused : SUBSET IPs, unrouted : SUBSET IPs, reply : Replies]

NoQuery == [pc |-> "idle", domain |-> None, target |-> "none", mode |-> "off",
            ips |-> {}, todo |-> {}, routeErr |-> FALSE, refused |-> {},
            unrouted |-> {}, reply |-> "none"]

ProxyInit == Init /\ query = [q \in Queries |-> NoQuery]

Ended(q, reply) == [query[q] EXCEPT !.pc = "done", !.reply = reply]

\* A query arrives for d.  A AAAA query with IPv6 disabled, or a name with a
\* local record, is answered at once and no further.
Receive(q, d) ==
  /\ proxy
  /\ query[q].pc \in {"idle", "done"}
  /\ \/ query' = [query EXCEPT ![q] = [NoQuery EXCEPT !.pc = "decide", !.domain = d]]
     \/ query' = [query EXCEPT ![q] = [NoQuery EXCEPT !.pc = "done", !.domain = d,
                                                      !.reply = "local"]]
  /\ UNCHANGED vars

Decide(q) ==
  /\ query[q].pc = "decide"
  /\ DecideRoute
  /\ LET target == Decision(cfg'.rules, query[q].domain)
     IN  query' = [query EXCEPT ![q] =
                     IF target = "block" THEN Ended(q, "nxdomain")
                     ELSE [query[q] EXCEPT !.pc = "mode", !.target = target]]

\* pickUpstreams, which always finds a server, and GetMode.
ReadMode(q) ==
  /\ query[q].pc = "mode"
  /\ query' = [query EXCEPT ![q].pc = "exchange", ![q].mode = cfg.mode]
  /\ UNCHANGED vars

\* exchangeWithUpstreams: an answer, or an error from every upstream.
Exchange(q) ==
  /\ query[q].pc = "exchange"
  /\ LET ips == Resolves[query[q].domain]
     IN  \/ query' = [query EXCEPT ![q].pc = "tunnel", ![q].ips = ips]
         \/ query' = [query EXCEPT ![q] = Ended(q, "servfail")]
  /\ UNCHANGED vars

\* Mutants of CheckTunnel: a query without a target gets routes all the same,
\* or a query in strict mode waits for a tunnel.
CheckTunnelAnyTarget(q) ==
  /\ query[q].pc = "tunnel"
  /\ LET routed == query[q].mode \notin {"off", "dnsonly"} /\ activeTunnel # None
     IN  query' = [query EXCEPT
                     ![q].pc = IF routed THEN "routes" ELSE "reply",
                     ![q].todo = IF routed THEN query[q].ips ELSE {}]
  /\ UNCHANGED vars

CheckTunnelWaits(q) ==
  /\ query[q].pc = "tunnel"
  /\ query[q].mode = "strict" => activeTunnel # None
  /\ LET routed == query[q].target # "none" /\ activeTunnel # None
     IN  query' = [query EXCEPT
                     ![q].pc = IF routed THEN "routes" ELSE "reply",
                     ![q].todo = IF routed THEN query[q].ips ELSE {}]
  /\ UNCHANGED vars

\* The condition before applyRoutesFromResponse, hasTunnel included.
CheckTunnel(q) ==
  /\ query[q].pc = "tunnel"
  /\ LET routed == /\ query[q].mode \notin {"off", "dnsonly"}
                   /\ query[q].target # "none"
                   /\ activeTunnel # None
     IN  query' = [query EXCEPT
                     ![q].pc = IF routed THEN "routes" ELSE "reply",
                     ![q].todo = IF routed THEN query[q].ips ELSE {}]
  /\ UNCHANGED vars

\* Mutant of AddRoute: the last error is the one returned.
AddRouteLastError(q, ip) ==
  /\ query[q].pc = "routes"
  /\ ip \in query[q].todo
  /\ \E err \in BOOLEAN :
       /\ AddRouteForIP(ip, query[q].target, err)
       /\ query' = [query EXCEPT
            ![q].todo = @ \ {ip},
            ![q].routeErr = err,
            ![q].refused = IF err THEN @ \cup {ip} ELSE @]

\* One turn of applyRoutesFromResponse: the first error is the one returned.
AddRoute(q, ip) ==
  /\ query[q].pc = "routes"
  /\ ip \in query[q].todo
  /\ \E err \in BOOLEAN :
       /\ AddRouteForIP(ip, query[q].target, err)
       /\ query' = [query EXCEPT
            ![q].todo = @ \ {ip},
            ![q].routeErr = @ \/ err,
            ![q].refused = IF err THEN @ \cup {ip} ELSE @,
            ![q].unrouted =
               IF /\ ~ err /\ cfg.mode # "off" /\ activeTunnel # None
                  /\ <<ip, routeEntries'[ip].luid>> \notin sysRoutes'
                 THEN @ \cup {ip} ELSE @]

Reply(q) ==
  /\ \/ query[q].pc = "reply"
     \/ query[q].pc = "routes" /\ query[q].todo = {}
  /\ LET fails == query[q].routeErr /\ query[q].mode = "strict"
     IN  query' = [query EXCEPT ![q] = Ended(q, IF fails THEN "servfail" ELSE "answer")]
  /\ UNCHANGED vars

\* Addresses a query has just installed: their routes live 300 seconds or
\* more, longer than the query.
InFlight == UNION {IF query[q].pc = "routes" THEN query[q].ips ELSE {} : q \in Queries}

Expire ==
  /\ CleanupExpiredRoutes
  /\ \A ip \in InFlight : routeEntries'[ip] = routeEntries[ip]
  /\ UNCHANGED query

\* The queries in progress die with the process.
CrashProxy == Crash /\ query' = [q \in Queries |-> NoQuery]

QueryStep(q) ==
  \/ Decide(q)
  \/ ReadMode(q)
  \/ Exchange(q)
  \/ CheckTunnel(q)
  \/ \E ip \in IPs : AddRoute(q, ip)
  \/ Reply(q)

ManagerStep ==
  \/ InitDomainRouting
  \/ Settings
  \/ VerifyAndRepairRoutes
  \/ Tracking
  \/ \E t \in Tunnels : ServiceStart(t) \/ ServiceStop(t)
  \/ \E c \in FileInputs : FileEdit(c)
  \/ \E r \in sysRoutes : RouteLoss(r)

ProxyNext ==
  \/ \E q \in Queries : QueryStep(q) \/ \E d \in Domains : Receive(q, d)
  \/ ManagerStep /\ UNCHANGED query
  \/ Expire
  \/ CrashProxy

ProxySpec == ProxyInit /\ [][ProxyNext]_proxyVars

\* Each query has a goroutine that is always scheduled; m.mu is never held
\* while waiting, and the exchange with an upstream has a timeout.
FairProxySpec == ProxySpec /\ \A q \in Queries : WF_proxyVars(QueryStep(q))

-----------------------------------------------------------------------------
(* Properties.                                                             *)

ProxyTypeOK == TypeOK /\ query \in [Queries -> QueryStates]

Done(q) == query[q].pc = "done"

\* A query is told SERVFAIL because of its routes exactly when it ran in strict
\* mode and at least one of its addresses was refused a route, whichever of
\* them it was; in relaxed mode the answer is delivered all the same.
RouteErrorsDecideReply ==
  \A q \in Queries :
    Done(q) /\ query[q].ips # {} =>
      (query[q].reply = "servfail"
        <=> query[q].mode = "strict" /\ query[q].refused # {})

\* No query keeps its client waiting, whatever the settings and the tunnels do
\* in the meantime.
EveryQueryEnds ==
  \A q \in Queries : (query[q].pc # "idle") ~> (query[q].pc \in {"idle", "done"})

\* The queries use the manager only as its operations allow: seen without its
\* queries, the proxy is the manager of module DomainRouting.
ManagerSpec == Spec

\* The tooltip of strict mode: "If route cannot be added, DNS query fails."
\* An answer given in strict mode has all its routes.
StrictFailsClosed ==
  \A q \in Queries :
    Done(q) /\ query[q].mode = "strict" /\ query[q].reply = "answer" =>
      query[q].unrouted = {}

=============================================================================
