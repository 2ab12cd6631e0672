---------------------------- MODULE DnsProxyProofs ----------------------------
(***************************************************************************)
(* Theorems about the DNS proxy, for any number of queries in progress and *)
(* any faults: it uses the manager only as module DomainRouting allows, so *)
(* what is proved there holds while queries run; and what a query is told  *)
(* depends on its own mode and its own routes alone.                       *)
(***************************************************************************)
EXTENDS DnsProxy, DomainRoutingProofs

\* What a query in progress has established at each of its steps.
QueryInv(q) ==
  /\ query[q].routeErr <=> query[q].refused # {}
  /\ query[q].pc \in {"idle", "decide", "mode", "exchange"} =>
       query[q].ips = {} /\ query[q].refused = {}
  /\ query[q].pc = "routes" => query[q].target \in {"tunnel", "direct"}
  /\ query[q].pc = "tunnel" =>
       query[q].refused = {} /\ query[q].target # "block"
  /\ query[q].pc \in {"mode", "exchange"} => query[q].target # "block"
  /\ query[q].pc \in {"decide", "mode", "exchange"} => query[q].domain \in Domains
  /\ query[q].pc = "done" /\ query[q].ips # {} =>
       (query[q].reply = "servfail"
          <=> query[q].mode = "strict" /\ query[q].refused # {})

ProxyInv ==
  /\ query \in [Queries -> QueryStates]
  /\ \A q \in Queries : QueryInv(q)

\* decideRoute always answers one of the four targets.
LEMMA DecisionType ==
  ASSUME NEW r \in Rules, NEW d
  PROVE  Decision(r, d) \in Targets
  BY DEF Decision, Rules, ListModes, Targets

\* A query sees the manager change only by operations of the manager.
LEMMA QueryStepAsManager ==
  ASSUME ProxyInv, NEW q \in Queries, QueryStep(q)
  PROVE  [Next]_vars
<1>1. CASE Decide(q)
  BY <1>1 DEF Decide, Next, Calls
<1>2. CASE ReadMode(q) \/ Exchange(q) \/ CheckTunnel(q) \/ Reply(q)
  BY <1>2 DEF ReadMode, Exchange, CheckTunnel, Reply
<1>3. ASSUME NEW ip \in IPs, AddRoute(q, ip)
      PROVE  [Next]_vars
  BY <1>3 DEF AddRoute, Next, Calls, ProxyInv, QueryInv
<1> QED
  BY <1>1, <1>2, <1>3 DEF QueryStep

LEMMA ProxyStepAsManager ==
  ASSUME ProxyInv, [ProxyNext]_proxyVars
  PROVE  [Next]_vars
<1>1. CASE ManagerStep
  BY <1>1 DEF ManagerStep, Next, Background, Environment, Disturbance, FileEdit, RouteLoss
<1>2. CASE Expire
  BY <1>2 DEF Expire, Next, Background
<1>3. CASE CrashProxy
  BY <1>3 DEF CrashProxy, Next, Environment, Disturbance, Crash
<1>4. ASSUME NEW q \in Queries, NEW d \in Domains, Receive(q, d)
      PROVE  [Next]_vars
  BY <1>4 DEF Receive
<1>5. CASE UNCHANGED proxyVars
  BY <1>5 DEF proxyVars
<1> QED
  BY <1>1, <1>2, <1>3, <1>4, <1>5, QueryStepAsManager DEF ProxyNext

-----------------------------------------------------------------------------
(* The steps of a query.                                                   *)

\* A step that replaces the state of q by a good one keeps the invariant.
LEMMA OneQuery ==
  ASSUME ProxyInv, NEW q \in Queries, NEW s \in QueryStates,
         query' = [query EXCEPT ![q] = s],
         s.routeErr <=> s.refused # {},
         s.pc \in {"idle", "decide", "mode", "exchange"} =>
           s.ips = {} /\ s.refused = {},
         s.pc = "routes" => s.target \in {"tunnel", "direct"},
         s.pc = "tunnel" => s.refused = {} /\ s.target # "block",
         s.pc \in {"mode", "exchange"} => s.target # "block",
         s.pc \in {"decide", "mode", "exchange"} => s.domain \in Domains,
         s.pc = "done" /\ s.ips # {} =>
           (s.reply = "servfail" <=> s.mode = "strict" /\ s.refused # {})
  PROVE  ProxyInv'
<1>1. query' \in [Queries -> QueryStates]
  BY DEF ProxyInv
<1>2. query'[q] = s
  BY DEF ProxyInv
<1>3. \A p \in Queries : p # q => query'[p] = query[p]
  BY DEF ProxyInv
<1>4. QueryInv(q)'
  BY <1>2 DEF QueryInv
<1>5. ASSUME NEW p \in Queries, p # q
      PROVE  QueryInv(p)'
  <2>1. QueryInv(p)
    BY DEF ProxyInv
  <2> QED
    BY <1>3, <1>5, <2>1 DEF QueryInv
<1> QED
  BY <1>1, <1>4, <1>5 DEF ProxyInv

LEMMA ReceiveInv ==
  ASSUME ProxyInv, NEW q \in Queries, NEW d \in Domains, Receive(q, d)
  PROVE  ProxyInv'
<1> DEFINE asked == [NoQuery EXCEPT !.pc = "decide", !.domain = d]
<1> DEFINE local == [NoQuery EXCEPT !.pc = "done", !.domain = d, !.reply = "local"]
<1>1. asked \in QueryStates /\ local \in QueryStates
  BY DEF QueryStates, NoQuery, PCs, Replies, Targets, Modes
<1>2. CASE query' = [query EXCEPT ![q] = asked]
  BY <1>1, <1>2, OneQuery DEF NoQuery
<1>3. CASE query' = [query EXCEPT ![q] = local]
  BY <1>1, <1>3, OneQuery DEF NoQuery
<1> QED
  BY <1>2, <1>3 DEF Receive

LEMMA DecideInv ==
  ASSUME TypeOK', ProxyInv, NEW q \in Queries, Decide(q)
  PROVE  ProxyInv'
<1> DEFINE target == Decision(cfg'.rules, query[q].domain)
<1> DEFINE decided == [query[q] EXCEPT !.pc = "mode", !.target = target]
<1>1. query[q] \in QueryStates /\ QueryInv(q)
  BY DEF ProxyInv
<1>2. target \in Targets
  <2>1. cfg'.rules \in Rules
    BY ConstantsAssumption DEF TypeOK, Configs, NoRules, Rules, ListModes
  <2> QED
    BY <2>1, DecisionType
<1>3. CASE target = "block" /\ query' = [query EXCEPT ![q] = Ended(q, "nxdomain")]
  <2>1. Ended(q, "nxdomain") \in QueryStates
    BY <1>1 DEF Ended, QueryStates, PCs, Replies
  <2>2. Ended(q, "nxdomain").ips = {} /\ Ended(q, "nxdomain").pc = "done"
    BY <1>1 DEF Ended, QueryStates, QueryInv, Decide
  <2>3. Ended(q, "nxdomain").routeErr <=> Ended(q, "nxdomain").refused # {}
    BY <1>1 DEF Ended, QueryStates, QueryInv
  <2> QED
    BY <1>3, <2>1, <2>2, <2>3, OneQuery
<1>4. CASE target # "block" /\ query' = [query EXCEPT ![q] = decided]
  <2>1. decided \in QueryStates
    BY <1>1, <1>2 DEF QueryStates, PCs
  <2>2. /\ decided.pc = "mode" /\ decided.target = target
        /\ decided.domain \in Domains
        /\ decided.ips = {} /\ decided.refused = {}
        /\ decided.routeErr <=> decided.refused # {}
    BY <1>1 DEF QueryStates, QueryInv, Decide
  <2> QED
    BY <1>4, <2>1, <2>2, OneQuery
<1> QED
  BY <1>3, <1>4 DEF Decide

LEMMA ReadModeInv ==
  ASSUME TypeOK, ProxyInv, NEW q \in Queries, ReadMode(q)
  PROVE  ProxyInv'
<1> DEFINE s == [query[q] EXCEPT !.pc = "exchange", !.mode = cfg.mode]
<1>1. query[q] \in QueryStates /\ QueryInv(q)
  BY DEF ProxyInv
<1>2. cfg.mode \in Modes
  BY DEF TypeOK, Configs
<1>3. s \in QueryStates
  BY <1>1, <1>2 DEF QueryStates, PCs
<1>4. query' = [query EXCEPT ![q] = s]
  BY <1>1 DEF ReadMode, ProxyInv, QueryStates
<1>5. /\ s.pc = "exchange" /\ s.target # "block" /\ s.domain \in Domains
      /\ s.ips = {} /\ s.refused = {}
      /\ s.routeErr <=> s.refused # {}
  BY <1>1 DEF QueryStates, QueryInv, ReadMode
<1> QED
  BY <1>3, <1>4, <1>5, OneQuery

LEMMA ExchangeInv ==
  ASSUME ProxyInv, NEW q \in Queries, Exchange(q)
  PROVE  ProxyInv'
<1> DEFINE s == [query[q] EXCEPT !.pc = "tunnel", !.ips = Resolves[query[q].domain]]
<1>1. query[q] \in QueryStates /\ QueryInv(q) /\ query[q].pc = "exchange"
  BY DEF ProxyInv, Exchange
<1>2. CASE query' = [query EXCEPT ![q].pc = "tunnel",
                                  ![q].ips = Resolves[query[q].domain]]
  <2>1. query' = [query EXCEPT ![q] = s]
    BY <1>1, <1>2 DEF ProxyInv, QueryStates
  <2>2. Resolves[query[q].domain] \in SUBSET IPs
    BY <1>1, ResolvesAssumption DEF QueryInv, QueryStates
  <2>3. s \in QueryStates
    BY <1>1, <2>2 DEF QueryStates, PCs
  <2>4. /\ s.pc = "tunnel" /\ s.refused = {} /\ s.target # "block"
        /\ s.routeErr <=> s.refused # {}
    BY <1>1 DEF QueryStates, QueryInv
  <2> QED
    BY <2>1, <2>3, <2>4, OneQuery
<1>3. CASE query' = [query EXCEPT ![q] = Ended(q, "servfail")]
  <2>1. Ended(q, "servfail") \in QueryStates
    BY <1>1 DEF Ended, QueryStates, PCs, Replies
  <2>2. /\ Ended(q, "servfail").ips = {} /\ Ended(q, "servfail").pc = "done"
        /\ Ended(q, "servfail").routeErr <=> Ended(q, "servfail").refused # {}
    BY <1>1 DEF Ended, QueryStates, QueryInv
  <2> QED
    BY <1>3, <2>1, <2>2, OneQuery
<1> QED
  BY <1>2, <1>3 DEF Exchange

LEMMA CheckTunnelInv ==
  ASSUME ProxyInv, NEW q \in Queries, CheckTunnel(q)
  PROVE  ProxyInv'
<1>1. query[q] \in QueryStates /\ QueryInv(q) /\ query[q].pc = "tunnel"
  BY DEF ProxyInv, CheckTunnel
<1> DEFINE State(pc, todo) == [query[q] EXCEPT !.pc = pc, !.todo = todo]
<1>2. ASSUME NEW pc \in {"routes", "reply"}, NEW todo \in SUBSET IPs,
             pc = "routes" => query[q].target # "none",
             query' = [query EXCEPT ![q].pc = pc, ![q].todo = todo]
      PROVE  ProxyInv'
  <2>1. query' = [query EXCEPT ![q] = State(pc, todo)]
    BY <1>1, <1>2 DEF ProxyInv, QueryStates
  <2>2. State(pc, todo) \in QueryStates
    BY <1>1 DEF QueryStates, PCs
  <2>3. /\ State(pc, todo).pc = pc
        /\ pc = "routes" => State(pc, todo).target \in {"tunnel", "direct"}
        /\ State(pc, todo).routeErr <=> State(pc, todo).refused # {}
    BY <1>1, <1>2 DEF QueryStates, QueryInv, Targets
  <2> QED
    BY <2>1, <2>2, <2>3, OneQuery
<1>3. query[q].ips \in SUBSET IPs
  BY <1>1 DEF QueryStates
<1> DEFINE routed == /\ query[q].mode \notin {"off", "dnsonly"}
                     /\ query[q].target # "none"
                     /\ activeTunnel # None
<1>4. CASE routed
  <2>1. query' = [query EXCEPT ![q].pc = "routes", ![q].todo = query[q].ips]
    BY <1>4 DEF CheckTunnel
  <2> QED
    BY <1>2, <1>3, <1>4, <2>1
<1>5. CASE ~ routed
  <2>1. query' = [query EXCEPT ![q].pc = "reply", ![q].todo = {}]
    BY <1>5 DEF CheckTunnel
  <2>2. {} \in SUBSET IPs /\ "reply" \in {"routes", "reply"} /\ "reply" # "routes"
    OBVIOUS
  <2> QED
    BY <1>2, <2>1, <2>2
<1> QED
  BY <1>4, <1>5

LEMMA AddRouteInv ==
  ASSUME ProxyInv, NEW q \in Queries, NEW ip \in IPs, AddRoute(q, ip)
  PROVE  ProxyInv'
<1>1. query[q] \in QueryStates /\ QueryInv(q) /\ query[q].pc = "routes"
  BY DEF ProxyInv, AddRoute
<1> DEFINE State(err, unrouted) ==
      [query[q] EXCEPT !.todo = @ \ {ip}, !.routeErr = @ \/ err,
                       !.refused = IF err THEN @ \cup {ip} ELSE @,
                       !.unrouted = unrouted]
<1>2. PICK err \in BOOLEAN, unrouted \in SUBSET IPs :
        query' = [query EXCEPT ![q] = State(err, unrouted)]
  <2> DEFINE Missing(err) ==
        /\ ~ err /\ cfg.mode # "off" /\ activeTunnel # None
        /\ <<ip, routeEntries'[ip].luid>> \notin sysRoutes'
  <2> DEFINE Unrouted(err) == IF Missing(err) THEN query[q].unrouted \cup {ip}
                              ELSE query[q].unrouted
  <2>1. PICK err \in BOOLEAN :
          query' = [query EXCEPT
            ![q].todo = @ \ {ip},
            ![q].routeErr = @ \/ err,
            ![q].refused = IF err THEN @ \cup {ip} ELSE @,
            ![q].unrouted = IF Missing(err) THEN @ \cup {ip} ELSE @]
    BY DEF AddRoute
  <2>2. Unrouted(err) \in SUBSET IPs
    BY <1>1 DEF QueryStates
  <2> HIDE DEF Missing
  <2>3. query' = [query EXCEPT ![q] = State(err, Unrouted(err))]
    BY <1>1, <2>1 DEF ProxyInv, QueryStates
  <2> QED
    BY <2>2, <2>3
<1>3. State(err, unrouted) \in QueryStates
  BY <1>1 DEF QueryStates
<1>4. /\ State(err, unrouted).pc = "routes"
      /\ State(err, unrouted).target \in {"tunnel", "direct"}
      /\ State(err, unrouted).routeErr <=> State(err, unrouted).refused # {}
  BY <1>1 DEF QueryStates, QueryInv
<1> QED
  BY <1>2, <1>3, <1>4, OneQuery

LEMMA ReplyInv ==
  ASSUME ProxyInv, NEW q \in Queries, Reply(q)
  PROVE  ProxyInv'
<1>1. query[q] \in QueryStates /\ QueryInv(q)
  BY DEF ProxyInv
<1> DEFINE reply == IF query[q].routeErr /\ query[q].mode = "strict"
                      THEN "servfail" ELSE "answer"
<1>2. query' = [query EXCEPT ![q] = Ended(q, reply)]
  BY DEF Reply
<1>3. Ended(q, reply) \in QueryStates
  BY <1>1 DEF Ended, QueryStates, PCs, Replies
<1>4. /\ Ended(q, reply).pc = "done"
      /\ Ended(q, reply).routeErr <=> Ended(q, reply).refused # {}
      /\ Ended(q, reply).reply = "servfail"
           <=> Ended(q, reply).mode = "strict" /\ Ended(q, reply).refused # {}
  BY <1>1 DEF Ended, QueryStates, QueryInv
<1> QED
  BY <1>2, <1>3, <1>4, OneQuery

LEMMA ProxyInvStep ==
  TypeOK /\ TypeOK' /\ ProxyInv /\ [ProxyNext]_proxyVars => ProxyInv'
<1> SUFFICES ASSUME TypeOK, TypeOK', ProxyInv, [ProxyNext]_proxyVars
             PROVE  ProxyInv'
  OBVIOUS
<1>1. CASE UNCHANGED query
  BY <1>1 DEF ProxyInv, QueryInv
<1>2. ASSUME NEW q \in Queries, QueryStep(q)
      PROVE  ProxyInv'
  BY <1>2, DecideInv, ReadModeInv, ExchangeInv, CheckTunnelInv, AddRouteInv,
     ReplyInv DEF QueryStep
<1>3. CASE CrashProxy
  <2>1. NoQuery \in QueryStates
    BY DEF NoQuery, QueryStates, PCs, Replies, Targets, Modes
  <2> QED
    BY <1>3, <2>1 DEF CrashProxy, ProxyInv, QueryInv, NoQuery
<1> QED
  BY <1>1, <1>2, <1>3, ReceiveInv DEF ProxyNext, Expire, proxyVars

-----------------------------------------------------------------------------
(* Theorems.                                                               *)

\* One step keeps the manager's types and the invariant of the queries.
LEMMA ProxyAlways == ProxySpec => [](TypeOK /\ ProxyInv)
<1>1. ProxyInit => TypeOK /\ ProxyInv
  <2> SUFFICES ASSUME ProxyInit PROVE TypeOK /\ ProxyInv
    OBVIOUS
  <2>1. TypeOK
    BY InitType DEF ProxyInit
  <2>2. NoQuery \in QueryStates
    BY DEF NoQuery, QueryStates, PCs, Replies, Targets, Modes
  <2>3. ProxyInv
    BY <2>2 DEF ProxyInit, ProxyInv, QueryInv, NoQuery
  <2> QED
    BY <2>1, <2>3
<1>2. TypeOK /\ ProxyInv /\ [ProxyNext]_proxyVars => (TypeOK /\ ProxyInv)'
  BY ProxyStepAsManager, StepType, ProxyInvStep
<1> QED
  BY <1>1, <1>2, PTL DEF ProxySpec

\* With any number of queries in progress, the manager and every query keep
\* their types.
THEOREM ProxyTypeCorrect == ProxySpec => []ProxyTypeOK
<1>1. TypeOK /\ ProxyInv => ProxyTypeOK
  BY DEF ProxyInv, ProxyTypeOK
<1> QED
  BY <1>1, ProxyAlways, PTL

\* The queries of the proxy implement the manager: whatever theirs and the
\* user's steps, the manager goes through states module DomainRouting allows.
\* addRouteForIP is called only for a target that has an adapter.
THEOREM ProxyImplementsManager == ProxySpec => ManagerSpec
<1>1. ProxyInit => Init
  BY DEF ProxyInit
<1>2. ProxyInv /\ [ProxyNext]_proxyVars => [Next]_vars
  BY ProxyStepAsManager
<1> QED
  BY <1>1, <1>2, ProxyAlways, PTL DEF ProxySpec, ManagerSpec, Spec

\* A query gets SERVFAIL for its routes exactly when it ran in strict mode and
\* one of its own addresses was refused.
THEOREM RouteErrorsDecide == ProxySpec => []RouteErrorsDecideReply
<1>1. ProxyInv => RouteErrorsDecideReply
  BY DEF ProxyInv, QueryInv, RouteErrorsDecideReply, Done
<1> QED
  BY <1>1, ProxyAlways, PTL

\* The manager's safety carries over: while queries run, the books still hold
\* only routes of the present binding.
THEOREM RoutesFollowBindingWithQueries == ProxySpec => []RoutesOfBinding
  BY ProxyImplementsManager, RoutesFollowBinding DEF ManagerSpec
===============================================================================
