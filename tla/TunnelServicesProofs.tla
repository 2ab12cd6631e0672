------------------------- MODULE TunnelServicesProofs -------------------------
(***************************************************************************)
(* Proofs about TunnelServices: for any tunnels, clients and goroutines, a *)
(* service that is tracked, or about to be, is never removed under its     *)
(* tracker.                                                                *)
(***************************************************************************)
EXTENDS TunnelServices, TLAPS, SequenceTheorems

\* A tunnel is listed only while it has a tracker, and a tracker has a handle
\* from its first step to its last.
TrackerHolds ==
  \A t \in Tunnels :
    /\ tracked[t] # None => tracker[t].pc \notin {"none", "close"}
    /\ tracker[t].pc # "none" => "tracker" \in handles[t]

\* The callback runs while the tracker is subscribed, on its own goroutine once,
\* and a tracker that ends waits for it.
CallsOfSubscribed ==
  \A t \in Tunnels :
    /\ \A x \in Threads :
         tracker[t].call[x].at # "none" => tracker[t].pc \in {"query", "watch"}
    /\ tracker[t].pc \in {"none", "poll", "query"} => ~ tracker[t].queried
    /\ tracker[t].pc = "query" \/ tracker[t].queried =>
         tracker[t].call["self"].at = "none"

\* A request is for a tunnel, and holds the service it is about to start.
StarterHolds ==
  \A c \in Clients :
    /\ request[c].pc # "idle" => request[c].tunnel \in Tunnels
    /\ request[c].pc = "start" => c \in handles[request[c].tunnel]

IInv == TypeOK /\ TrackedServiceStays /\ TrackerHolds /\ CallsOfSubscribed /\ StarterHolds

USE DEF TypeOK, scmVars, trackerVars, clientVars

LEMMA InitHolds == Init => IInv
<1> SUFFICES ASSUME Init PROVE IInv
  OBVIOUS
<1>1. NoTracker \in Trackers
  BY DEF NoTracker, NoCall, Trackers, Calls, TunnelStates, Threads
<1>2. NoRequest \in Requests
  BY DEF NoRequest, Requests
<1>3. service \in [Tunnels -> Services \cup {None}]
  BY DEF Init, Services, ServiceStates
<1>4. \A t \in Tunnels : <<>> \in Seq(Notifications)
  OBVIOUS
<1>5. TypeOK
  BY <1>1, <1>2, <1>3, <1>4 DEF Init, TunnelStates
<1> QED
  BY <1>5
  DEF Init, IInv, TrackedServiceStays, TrackerHolds, CallsOfSubscribed,
      StarterHolds, NoTracker, NoCall, NoRequest

-----------------------------------------------------------------------------
(* The service control manager.                                            *)

\* A notification is of a known kind, and so is what a tracker makes of it.
LEMMA TunStateType ==
  ASSUME NEW n \in Notifications
  PROVE  TunState(n) \in TunnelStates
BY DEF TunState, Notifications, ServiceStates, TunnelStates

\* A service that changes is still there, and its subscriber hears what it can.
LEMMA BecomeKeeps ==
  ASSUME TypeOK, NEW t \in Tunnels, NEW s \in Services,
         NEW ns \in Seq(Notifications), Become(t, s, ns)
  PROVE  /\ service' \in [Tunnels -> Services \cup {None}]
         /\ events' \in [Tunnels -> Seq(Notifications)]
         /\ \A u \in Tunnels : service[u] # None => service'[u] # None
BY NoneAssumption DEF Become

LEMMA MarkedType ==
  ASSUME NEW s \in Services
  PROVE  Marked(s) \in Services /\ MarkNotice(s) \in Seq(Notifications)
<1>1. [s EXCEPT !.marked = TRUE] \in Services
  BY DEF Services
<1>2. <<"deletePending">> \in Seq(Notifications)
  BY DEF Notifications
<1> QED
  BY <1>1, <1>2 DEF Marked, MarkNotice

\* UninstallTunnel marks and stops, and removes nothing.
LEMMA UninstallKeeps ==
  ASSUME TypeOK, NEW t \in Tunnels, Uninstall(t)
  PROVE  /\ service' \in [Tunnels -> Services \cup {None}]
         /\ events' \in [Tunnels -> Seq(Notifications)]
         /\ \A u \in Tunnels : service[u] # None => service'[u] # None
         /\ UNCHANGED <<handles, scanDue>>
<1>1. CASE service[t] = None
  BY <1>1 DEF Uninstall
<1>2. CASE service[t] # None
  <2>1. service[t] \in Services
    BY <1>2
  <2>2. Marked(service[t]) \in Services /\ MarkNotice(service[t]) \in Seq(Notifications)
    BY <2>1, MarkedType
  <2>3. [Marked(service[t]) EXCEPT !.state = "stopPending"] \in Services
    BY <2>2 DEF Services, ServiceStates
  <2>4. <<"stopPending">> \o MarkNotice(service[t]) \in Seq(Notifications)
    BY <2>2 DEF Notifications, ServiceStates
  <2> QED
    BY <1>2, <2>2, <2>3, <2>4, BecomeKeeps DEF Uninstall
<1> QED
  BY <1>1, <1>2

\* A step that removes no service, and leaves handles, trackers and requests
\* alone, keeps the invariant.
LEMMA ServiceChanges ==
  ASSUME IInv,
         service' \in [Tunnels -> Services \cup {None}],
         events' \in [Tunnels -> Seq(Notifications)],
         \A u \in Tunnels : service[u] # None => service'[u] # None,
         UNCHANGED <<handles, scanDue, trackerVars, request>>,
         stopping' \in [Stoppers -> [first : SUBSET Tunnels, again : SUBSET Tunnels]]
  PROVE  IInv'
BY DEF IInv, TrackedServiceStays, TrackerHolds, CallsOfSubscribed, StarterHolds

LEMMA ServiceStepKeeps ==
  ASSUME IInv, NEW t \in Tunnels, ServiceStep(t)
  PROVE  IInv'
<1>1. ASSUME NEW state \in ServiceStates, NEW failed \in BOOLEAN, service[t] # None,
             SetState(t, state, failed),
             UNCHANGED <<handles, scanDue, trackerVars, clientVars>>
      PROVE  IInv'
  <2>1. [service[t] EXCEPT !.state = state, !.failed = failed] \in Services
    <3>1. service[t] \in Services
      BY <1>1 DEF IInv
    <3> QED
      BY <3>1 DEF Services
  <2>2. <<state>> \in Seq(Notifications)
    BY DEF Notifications
  <2> QED
    BY <1>1, <2>1, <2>2, BecomeKeeps, ServiceChanges DEF SetState, IInv
<1>2. CASE ServiceRuns(t)
  BY <1>1, <1>2 DEF ServiceRuns, ServiceStates
<1>3. CASE ServiceStops(t)
  BY <1>1, <1>3 DEF ServiceStops, ServiceStates
<1>4. CASE ServiceRemoved(t)
  <2>1. tracked[t] = None /\ "tracker" \notin handles[t]
    BY <1>4 DEF ServiceRemoved, IInv, TrackerHolds
  <2> QED
    BY <1>4, <2>1
    DEF ServiceRemoved, IInv, TrackedServiceStays, TrackerHolds,
        CallsOfSubscribed, StarterHolds
<1> QED
  BY <1>2, <1>3, <1>4 DEF ServiceStep

LEMMA StopKeeps ==
  ASSUME IInv, NEW t \in Tunnels, Stop(t)
  PROVE  IInv'
BY UninstallKeeps, ServiceChanges DEF Stop, IInv

LEMMA StopperKeeps ==
  ASSUME IInv, NEW j \in Stoppers, StopperStep(j)
  PROVE  IInv'
<1>1. PICK t \in Tunnels : StopFirst(j, t) \/ StopAgain(j, t)
  BY DEF StopperStep
<1>2. stopping' \in [Stoppers -> [first : SUBSET Tunnels, again : SUBSET Tunnels]]
  <2>1. stopping[j] \in [first : SUBSET Tunnels, again : SUBSET Tunnels]
    BY DEF IInv
  <2>2. \A r \in [first : SUBSET Tunnels, again : SUBSET Tunnels] :
          /\ [r EXCEPT !.first = @ \ {t}] \in [first : SUBSET Tunnels, again : SUBSET Tunnels]
          /\ [r EXCEPT !.again = @ \ {t}] \in [first : SUBSET Tunnels, again : SUBSET Tunnels]
    OBVIOUS
  <2>3. \/ stopping' = [stopping EXCEPT ![j] = [stopping[j] EXCEPT !.first = @ \ {t}]]
        \/ stopping' = [stopping EXCEPT ![j] = [stopping[j] EXCEPT !.again = @ \ {t}]]
    BY <1>1 DEF StopFirst, StopAgain
  <2> QED
    BY <2>1, <2>2, <2>3 DEF IInv
<1> QED
  BY <1>1, <1>2, UninstallKeeps, ServiceChanges DEF StopFirst, StopAgain, IInv

-----------------------------------------------------------------------------
(* The trackers.                                                           *)

\* What CallsOfSubscribed says of one tracker.
CallsRight(r) ==
  /\ \A x \in Threads : r.call[x].at # "none" => r.pc \in {"query", "watch"}
  /\ r.pc \in {"none", "poll", "query"} => ~ r.queried
  /\ r.pc = "query" \/ r.queried => r.call["self"].at = "none"

\* A tracker that goes on, with its handle, keeps the invariant.
LEMMA TrackerGoesOn ==
  ASSUME IInv, NEW t \in Tunnels, NEW r \in Trackers, CallsRight(r), r.pc # "none",
         r.pc = "close" => tracked'[t] = None,
         tracker[t].pc # "none",
         tracker' = [tracker EXCEPT ![t] = r],
         service' \in [Tunnels -> Services \cup {None}],
         events' \in [Tunnels -> Seq(Notifications)],
         \A u \in Tunnels : service[u] # None => service'[u] # None,
         tracked' \in [Tunnels -> TunnelStates \cup {None}],
         \A u \in Tunnels : u # t => tracked'[u] = tracked[u],
         reported' \in [Tunnels -> TunnelStates],
         UNCHANGED <<handles, scanDue, clientVars>>
  PROVE  IInv'
<1>1. tracker'[t] = r /\ \A u \in Tunnels \ {t} : tracker'[u] = tracker[u]
  BY DEF IInv
<1>2. TypeOK'
  BY DEF IInv
<1>3. TrackerHolds'
  BY <1>1 DEF IInv, TrackerHolds
<1>4. TrackedServiceStays'
  BY <1>1 DEF IInv, TrackerHolds, TrackedServiceStays
<1>5. CallsOfSubscribed'
  BY <1>1 DEF IInv, CallsOfSubscribed, CallsRight
<1>6. StarterHolds'
  BY DEF IInv, StarterHolds
<1> QED
  BY <1>2, <1>3, <1>4, <1>5, <1>6 DEF IInv

\* trackTunnelService takes over its caller's handle, or closes it.
LEMMA BeginTrackingKeeps ==
  ASSUME IInv, NEW t \in Tunnels, NEW g \in Goroutines, BeginTracking(t, g)
  PROVE  IInv'
<1>1. service[t] # None
  BY DEF BeginTracking, IInv, TrackedServiceStays
<1>2. g \notin Clients /\ g # "tracker"
  BY TunnelsAssumption
<1>3. CASE tracked[t] # None
  <2>1. handles' = [handles EXCEPT ![t] = handles[t] \ {g}] /\ UNCHANGED <<tracked, tracker>>
    BY <1>3 DEF BeginTracking
  <2>2. \A u \in Tunnels : handles'[u] \subseteq handles[u]
    BY <2>1 DEF IInv
  <2>3. TypeOK'
    BY <2>1 DEF BeginTracking, IInv
  <2>4. TrackerHolds'
    BY <1>2, <2>1 DEF IInv, TrackerHolds
  <2>5. StarterHolds'
    BY <1>2, <2>1 DEF BeginTracking, IInv, StarterHolds
  <2> QED
    BY <1>1, <2>1, <2>2, <2>3, <2>4, <2>5
    DEF BeginTracking, IInv, TrackedServiceStays, CallsOfSubscribed
<1>4. CASE tracked[t] = None
  <2> DEFINE r == [NoTracker EXCEPT !.pc = "poll"]
  <2>1. /\ handles' = [handles EXCEPT ![t] = (handles[t] \ {g}) \cup {"tracker"}]
        /\ tracked' = [tracked EXCEPT ![t] = "unknown"]
        /\ tracker' = [tracker EXCEPT ![t] = r]
    BY <1>4 DEF BeginTracking
  <2>2. r \in Trackers /\ r.pc = "poll" /\ CallsRight(r)
    BY DEF NoTracker, NoCall, Trackers, Calls, TunnelStates, Threads, CallsRight
  <2> HIDE DEF r
  <2>3. TypeOK'
    BY <2>1, <2>2 DEF BeginTracking, IInv, Holders, TunnelStates
  <2>4. tracker'[t] = r /\ \A u \in Tunnels \ {t} : tracker'[u] = tracker[u]
    BY <2>1 DEF IInv
  <2>5. "tracker" \in handles'[t]
        /\ \A u \in Tunnels \ {t} : handles'[u] = handles[u] /\ tracked'[u] = tracked[u]
    BY <2>1 DEF IInv
  <2>6. TrackerHolds'
    BY <2>2, <2>4, <2>5 DEF IInv, TrackerHolds
  <2>7. TrackedServiceStays'
    BY <1>1, <2>5 DEF BeginTracking, IInv, TrackedServiceStays
  <2>8. CallsOfSubscribed'
    BY <2>2, <2>4 DEF IInv, CallsOfSubscribed, CallsRight
  <2>9. StarterHolds'
    BY <1>2, <2>1 DEF BeginTracking, IInv, StarterHolds
  <2> QED
    BY <2>3, <2>6, <2>7, <2>8, <2>9 DEF IInv
<1> QED
  BY <1>3, <1>4

LEMMA PollEndsKeeps ==
  ASSUME IInv, NEW t \in Tunnels, PollEnds(t)
  PROVE  IInv'
<1>1. tracker[t] \in Trackers /\ tracker[t].pc = "poll"
  BY DEF IInv, PollEnds
<1>2. /\ \A x \in Threads : tracker[t].call[x].at = "none"
      /\ ~ tracker[t].queried
  BY <1>1 DEF IInv, CallsOfSubscribed
<1>3. ASSUME NEW p \in {"query", "unlist"}
      PROVE  [tracker[t] EXCEPT !.pc = p] \in Trackers /\ CallsRight([tracker[t] EXCEPT !.pc = p])
  BY <1>1, <1>2 DEF Trackers, CallsRight, Threads
<1>4. /\ tracked' \in [Tunnels -> TunnelStates \cup {None}]
      /\ \A u \in Tunnels : u # t => tracked'[u] = tracked[u]
      /\ reported' \in [Tunnels -> TunnelStates]
  BY DEF PollEnds, IInv, TunnelStates
<1>5. PICK p \in {"query", "unlist"} : tracker' = [tracker EXCEPT ![t] = [tracker[t] EXCEPT !.pc = p]]
  BY DEF PollEnds
<1> DEFINE r == [tracker[t] EXCEPT !.pc = p]
<1>6. r.pc = p
  BY <1>1 DEF Trackers
<1>7. r \in Trackers /\ CallsRight(r)
  BY <1>3
<1> HIDE DEF r
<1> QED
  BY <1>1, <1>4, <1>5, <1>6, <1>7, TrackerGoesOn DEF PollEnds, IInv, r

\* The tracker with a call of its callback put in place of another.
LEMMA CallPlaced ==
  ASSUME NEW r \in Trackers, NEW x \in Threads, NEW k \in Calls
  PROVE  LET q == [r EXCEPT !.call[x] = k]
         IN  /\ q \in Trackers
             /\ q.pc = r.pc /\ q.queried = r.queried /\ q.done = r.done
             /\ q.call = [r.call EXCEPT ![x] = k]
BY DEF Trackers

LEMMA NoCallType == NoCall \in Calls /\ NoCall.at = "none"
BY DEF NoCall, Calls, TunnelStates

\* What the callback leaves behind when it returns.
LEMMA ReturnedType ==
  ASSUME NEW r \in Trackers, NEW x \in Threads, NEW s \in TunnelStates
  PROVE  LET q == Returned(r, x, s)
         IN  /\ q \in Trackers
             /\ q.pc = r.pc /\ q.queried = (r.queried \/ x = "self")
             /\ q.call = [r.call EXCEPT ![x] = NoCall]
BY NoCallType DEF Returned, Trackers

LEMMA QueryKeeps ==
  ASSUME IInv, NEW t \in Tunnels, Query(t)
  PROVE  IInv'
<1> DEFINE k == [at |-> "compare", state |-> TunState(service[t].state)]
           w == [tracker[t] EXCEPT !.pc = "watch"]
           r == [w EXCEPT !.call["self"] = k]
<1>1. tracker[t] \in Trackers /\ tracker[t].pc = "query"
  BY DEF IInv, Query
<1>2. k \in Calls
  <2>1. service[t] # None
    BY <1>1 DEF IInv, TrackerHolds, TrackedServiceStays
  <2>2. service[t].state \in Notifications
    BY <2>1 DEF IInv, Services, Notifications
  <2> QED
    BY <2>2, TunStateType DEF Calls
<1>3. w \in Trackers /\ w.pc = "watch" /\ w.call = tracker[t].call /\ ~ w.queried
  BY <1>1 DEF Trackers, IInv, CallsOfSubscribed
<1>4. tracker' = [tracker EXCEPT ![t] = r]
  <2> DEFINE moved == [tracker EXCEPT ![t].pc = "watch"]
  <2>1. moved = [tracker EXCEPT ![t] = w]
    OBVIOUS
  <2>2. moved[t] = w
    BY <2>1 DEF IInv
  <2>3. tracker' = [moved EXCEPT ![t].call["self"] = k]
    BY DEF Query
  <2> HIDE DEF moved, k, w
  <2>4. tracker' = [moved EXCEPT ![t] = [w EXCEPT !.call["self"] = k]]
    BY <2>2, <2>3
  <2> QED
    BY <2>1, <2>4 DEF IInv
<1> HIDE DEF k, w
<1>5. r \in Trackers /\ r.pc = "watch" /\ ~ r.queried
  BY <1>2, <1>3, CallPlaced DEF Threads
<1> HIDE DEF r
<1>6. CallsRight(r)
  BY <1>5 DEF CallsRight
<1> QED
  BY <1>1, <1>4, <1>5, <1>6, TrackerGoesOn DEF Query, IInv

LEMMA DeliverKeeps ==
  ASSUME IInv, NEW t \in Tunnels, Deliver(t)
  PROVE  IInv'
<1>1. tracker[t] \in Trackers /\ tracker[t].pc \in {"query", "watch"}
  BY DEF IInv, Deliver, Subscribed
<1>2. /\ events' \in [Tunnels -> Seq(Notifications)]
      /\ Head(events[t]) \in Notifications
  <2>1. events[t] \in Seq(Notifications) /\ events[t] # <<>>
    BY DEF Deliver, IInv
  <2>2. Head(events[t]) \in Notifications /\ Tail(events[t]) \in Seq(Notifications)
    BY <2>1, HeadTailProperties
  <2>3. events' = [events EXCEPT ![t] = Tail(events[t])]
    BY DEF Deliver
  <2> QED
    BY <2>2, <2>3 DEF IInv
<1>3. CASE tracker' = tracker
  BY <1>2, <1>3
  DEF Deliver, IInv, TrackedServiceStays, TrackerHolds, CallsOfSubscribed,
      StarterHolds
<1>4. CASE tracker' # tracker
  <2> DEFINE k == [at |-> "compare", state |-> TunState(Head(events[t]))]
             r == [tracker[t] EXCEPT !.call["system"] = k]
  <2>1. tracker' = [tracker EXCEPT ![t] = r]
    BY <1>4 DEF Deliver, IInv
  <2>2. k \in Calls
    BY <1>2, TunStateType DEF Calls
  <2> HIDE DEF k
  <2>3. /\ r \in Trackers /\ r.pc = tracker[t].pc /\ r.queried = tracker[t].queried
        /\ r.call = [tracker[t].call EXCEPT !["system"] = k]
    BY <1>1, <2>2, CallPlaced DEF Threads
  <2>4. r.call["self"] = tracker[t].call["self"]
    BY <1>1, <2>3 DEF Trackers, Threads
  <2> HIDE DEF r
  <2>5. CallsRight(r)
    BY <1>1, <2>3, <2>4 DEF CallsRight, IInv, CallsOfSubscribed
  <2> QED
    BY <1>1, <1>2, <2>1, <2>3, <2>5, TrackerGoesOn DEF Deliver, IInv
<1> QED
  BY <1>3, <1>4

\* A callback that goes on or returns finds its tracker where it was.
LEMMA CallbackGoesOn ==
  ASSUME IInv, NEW t \in Tunnels, NEW x \in Threads,
         tracker[t].call[x].at # "none",
         NEW r \in Trackers, r.pc = tracker[t].pc,
         \/ r.queried = tracker[t].queried
         \/ r.queried = (tracker[t].queried \/ x = "self") /\ r.call[x].at = "none",
         \A y \in Threads \ {x} : r.call[y] = tracker[t].call[y]
  PROVE  CallsRight(r) /\ r.pc \in {"query", "watch"} /\ tracker[t].pc # "none"
<1>1. tracker[t].pc \in {"query", "watch"}
  BY DEF IInv, CallsOfSubscribed
<1>2. x = "self" => tracker[t].pc = "watch" /\ ~ tracker[t].queried
  BY <1>1 DEF IInv, CallsOfSubscribed
<1>3. r.queried \in BOOLEAN /\ tracker[t].queried \in BOOLEAN
  BY DEF IInv, Trackers
<1> QED
  BY <1>1, <1>2, <1>3 DEF IInv, CallsOfSubscribed, CallsRight, Threads

LEMMA CompareKeeps ==
  ASSUME IInv, NEW t \in Tunnels, NEW x \in Threads, Compare(t, x)
  PROVE  IInv'
<1> DEFINE s == tracker[t].call[x].state
<1>1. /\ tracker[t] \in Trackers /\ tracker[t].call[x] \in Calls
      /\ tracker[t].call[x].at = "compare" /\ s \in TunnelStates
  BY DEF IInv, Compare, Trackers, Calls
<1>2. service[t] # None
  BY <1>1 DEF IInv, CallsOfSubscribed, TrackerHolds, TrackedServiceStays
<1>3. /\ service' \in [Tunnels -> Services \cup {None}]
      /\ events' \in [Tunnels -> Seq(Notifications)]
      /\ \A u \in Tunnels : service[u] # None => service'[u] # None
  <2>1. CASE UNCHANGED <<service, events>>
    BY <2>1 DEF IInv
  <2>2. CASE Become(t, Marked(service[t]), MarkNotice(service[t]))
    <3>1. service[t] \in Services
      BY <1>2 DEF IInv
    <3> QED
      BY <2>2, <3>1, MarkedType, BecomeKeeps DEF IInv
  <2> QED
    BY <2>1, <2>2 DEF Compare
<1>4. CASE s # tracker[t].last
  <2> DEFINE k == [tracker[t].call[x] EXCEPT !.at = "report"]
             r == [tracker[t] EXCEPT !.call[x] = k]
  <2>1. tracker' = [tracker EXCEPT ![t] = r] /\ tracked' = [tracked EXCEPT ![t] = s]
    BY <1>4 DEF Compare, IInv
  <2>2. k \in Calls
    BY <1>1 DEF Calls
  <2> HIDE DEF k
  <2>3. /\ r \in Trackers /\ r.pc = tracker[t].pc /\ r.queried = tracker[t].queried
        /\ r.call = [tracker[t].call EXCEPT ![x] = k]
    BY <1>1, <2>2, CallPlaced
  <2>4. \A y \in Threads \ {x} : r.call[y] = tracker[t].call[y]
    BY <1>1, <2>3 DEF Trackers
  <2> HIDE DEF r
  <2>5. CallsRight(r) /\ r.pc \in {"query", "watch"} /\ tracker[t].pc # "none"
    BY <1>1, <2>3, <2>4, CallbackGoesOn
  <2> QED
    BY <1>1, <1>3, <2>1, <2>3, <2>5, TrackerGoesOn DEF Compare, IInv
<1>5. CASE s = tracker[t].last
  <2> DEFINE r == Returned(tracker[t], x, s)
  <2>1. tracker' = [tracker EXCEPT ![t] = r] /\ tracked' = tracked
    BY <1>5 DEF Compare
  <2>2. /\ r \in Trackers /\ r.pc = tracker[t].pc
        /\ r.queried = (tracker[t].queried \/ x = "self")
        /\ r.call = [tracker[t].call EXCEPT ![x] = NoCall]
    BY <1>1, ReturnedType
  <2>3. /\ r.call[x].at = "none"
        /\ \A y \in Threads \ {x} : r.call[y] = tracker[t].call[y]
    BY <1>1, <2>2, NoCallType DEF Trackers
  <2> HIDE DEF r
  <2>4. CallsRight(r) /\ r.pc \in {"query", "watch"} /\ tracker[t].pc # "none"
    BY <1>1, <2>2, <2>3, CallbackGoesOn
  <2> QED
    BY <1>1, <1>3, <2>1, <2>2, <2>4, TrackerGoesOn DEF Compare, IInv
<1> QED
  BY <1>4, <1>5

LEMMA ReportKeeps ==
  ASSUME IInv, NEW t \in Tunnels, NEW x \in Threads, Report(t, x)
  PROVE  IInv'
<1> DEFINE s == tracker[t].call[x].state
           q == Returned(tracker[t], x, s)
           r == [q EXCEPT !.last = s]
<1>1. /\ tracker[t] \in Trackers /\ tracker[t].call[x].at = "report"
      /\ s \in TunnelStates
  BY DEF IInv, Report, Trackers, Calls
<1>2. tracker' = [tracker EXCEPT ![t] = r] /\ reported' = [reported EXCEPT ![t] = s]
  BY DEF Report
<1>3. /\ q \in Trackers /\ q.pc = tracker[t].pc
      /\ q.queried = (tracker[t].queried \/ x = "self")
      /\ q.call = [tracker[t].call EXCEPT ![x] = NoCall]
  BY <1>1, ReturnedType
<1> HIDE DEF q
<1>4. /\ r \in Trackers /\ r.pc = q.pc /\ r.queried = q.queried
      /\ r.call = q.call
  BY <1>1, <1>3 DEF Trackers
<1>5. /\ r.call[x].at = "none"
      /\ \A y \in Threads \ {x} : r.call[y] = tracker[t].call[y]
  BY <1>1, <1>3, <1>4, NoCallType DEF Trackers
<1> HIDE DEF r
<1>6. CallsRight(r) /\ r.pc \in {"query", "watch"} /\ tracker[t].pc # "none"
  BY <1>1, <1>3, <1>4, <1>5, CallbackGoesOn
<1>7. reported' \in [Tunnels -> TunnelStates]
  BY <1>1, <1>2 DEF IInv
<1> QED
  BY <1>2, <1>4, <1>6, <1>7, TrackerGoesOn DEF Report, IInv

\* trackService returns, and then the tunnel leaves trackedTunnels.
LEMMA EndsKeep ==
  ASSUME IInv, NEW t \in Tunnels, StopWatching(t) \/ Unlist(t)
  PROVE  IInv'
<1>1. tracker[t] \in Trackers /\ tracker[t].pc \in {"watch", "unlist"}
  BY DEF IInv, StopWatching, Unlist
<1>2. \A x \in Threads : tracker[t].call[x].at = "none"
  BY <1>1, NoCallType DEF StopWatching, Unlist, IInv, CallsOfSubscribed, Threads
<1>3. PICK p \in {"unlist", "close"} :
        /\ tracker' = [tracker EXCEPT ![t] = [tracker[t] EXCEPT !.pc = p]]
        /\ p = "close" => tracked' = [tracked EXCEPT ![t] = None]
  BY DEF StopWatching, Unlist
<1> DEFINE r == [tracker[t] EXCEPT !.pc = p]
<1>4. r \in Trackers /\ r.pc = p /\ r.call = tracker[t].call
  BY <1>1 DEF Trackers
<1> HIDE DEF r
<1>5. CallsRight(r)
  BY <1>2, <1>4 DEF CallsRight, Threads
<1>6. /\ events' \in [Tunnels -> Seq(Notifications)]
      /\ tracked' \in [Tunnels -> TunnelStates \cup {None}]
      /\ \A u \in Tunnels : u # t => tracked'[u] = tracked[u]
  <2>1. <<>> \in Seq(Notifications)
    OBVIOUS
  <2> QED
    <3>1. CASE StopWatching(t)
      BY <2>1, <3>1 DEF StopWatching, IInv
    <3>2. CASE Unlist(t)
      BY <3>2 DEF Unlist, IInv
    <3> QED
      BY <3>1, <3>2
<1>7. p = "close" => tracked'[t] = None
  BY <1>3 DEF IInv
<1> QED
  BY <1>1, <1>3, <1>4, <1>5, <1>6, <1>7, TrackerGoesOn DEF StopWatching, Unlist, IInv, r

\* The last deferred call: the service may go only now.
LEMMA CloseServiceKeeps ==
  ASSUME IInv, NEW t \in Tunnels, CloseService(t)
  PROVE  IInv'
<1>0. tracked[t] = None
  BY DEF CloseService, IInv, TrackerHolds
<1>1. handles' = [handles EXCEPT ![t] = handles[t] \ {"tracker"}]
      /\ tracker' = [tracker EXCEPT ![t] = NoTracker]
  BY DEF CloseService
<1>2. NoTracker \in Trackers /\ NoTracker.pc = "none" /\ CallsRight(NoTracker)
  BY DEF NoTracker, NoCall, Trackers, Calls, TunnelStates, Threads, CallsRight
<1>3. TypeOK'
  BY <1>1, <1>2 DEF CloseService, IInv
<1>4. /\ \A u \in Tunnels \ {t} : tracker'[u] = tracker[u] /\ handles'[u] = handles[u]
      /\ tracker'[t] = NoTracker /\ handles'[t] = handles[t] \ {"tracker"}
  BY <1>1 DEF IInv
<1>5. TrackerHolds'
  BY <1>0, <1>2, <1>4 DEF CloseService, IInv, TrackerHolds
<1>6. TrackedServiceStays'
  BY <1>0, <1>4 DEF CloseService, IInv, TrackedServiceStays
<1>7. CallsOfSubscribed'
  <2> SUFFICES ASSUME NEW u \in Tunnels PROVE CallsRight(tracker[u])'
    BY DEF CallsOfSubscribed, CallsRight
  <2>1. CASE u = t
    BY <1>2, <1>4, <2>1
  <2>2. CASE u # t
    BY <1>4, <2>2 DEF IInv, CallsOfSubscribed, CallsRight
  <2> QED
    BY <2>1, <2>2
<1>8. StarterHolds'
  BY <1>1, TunnelsAssumption DEF CloseService, IInv, StarterHolds
<1> QED
  BY <1>3, <1>5, <1>6, <1>7, <1>8 DEF IInv

-----------------------------------------------------------------------------
(* Scans and installations.                                                *)

\* A step that opens handles to services that are there, and passes on or keeps
\* the others, keeps the invariant.
LEMMA HandlesGrow ==
  ASSUME IInv,
         service' \in [Tunnels -> Services \cup {None}],
         events' \in [Tunnels -> Seq(Notifications)],
         handles' \in [Tunnels -> SUBSET Holders],
         scanDue' \subseteq Tunnels,
         request' \in [Clients -> Requests],
         stopping' \in [Stoppers -> [first : SUBSET Tunnels, again : SUBSET Tunnels]],
         \A u \in Tunnels : service[u] # None => service'[u] # None,
         \A u \in Tunnels : /\ "tracker" \in handles[u] => "tracker" \in handles'[u]
                            /\ handles'[u] # {} => service'[u] # None,
         StarterHolds', UNCHANGED trackerVars
  PROVE  IInv'
BY DEF IInv, TrackedServiceStays, TrackerHolds, CallsOfSubscribed

\* A request that moves on, or is done, keeps its type.
LEMMA RequestMoves ==
  ASSUME IInv, NEW c \in Clients, NEW p \in {"open", "poll", "create", "start"},
         \/ request' = [request EXCEPT ![c].pc = p] /\ request[c].pc # "idle"
         \/ request' = [request EXCEPT ![c] = NoRequest],
         p = "start" => c \in handles'[request[c].tunnel],
         \A d \in Clients \ {c} : \A u \in Tunnels : d \in handles[u] => d \in handles'[u]
  PROVE  request' \in [Clients -> Requests] /\ StarterHolds'
<1>1. NoRequest \in Requests /\ NoRequest.pc = "idle"
  BY DEF NoRequest, Requests
<1>2. \A d \in Clients \ {c} : request'[d] = request[d]
  BY DEF IInv
<1>3. \A d \in Clients \ {c} :
        /\ request'[d].pc # "idle" => request'[d].tunnel \in Tunnels
        /\ request'[d].pc = "start" => d \in handles'[request'[d].tunnel]
  BY <1>2 DEF IInv, StarterHolds
<1>4. CASE request' = [request EXCEPT ![c] = NoRequest]
  BY <1>1, <1>3, <1>4 DEF IInv, StarterHolds
<1>5. CASE request' = [request EXCEPT ![c].pc = p] /\ request[c].pc # "idle"
  <2> DEFINE r == [request[c] EXCEPT !.pc = p]
  <2>1. r \in Requests /\ r.pc = p /\ r.tunnel = request[c].tunnel
    BY DEF IInv, Requests
  <2>2. request' = [request EXCEPT ![c] = r]
    BY <1>5 DEF IInv
  <2> HIDE DEF r
  <2>3. request'[c] = r /\ request' \in [Clients -> Requests]
    BY <2>1, <2>2 DEF IInv
  <2>4. r.tunnel \in Tunnels
    BY <1>5, <2>1 DEF IInv, StarterHolds
  <2> QED
    BY <1>3, <2>1, <2>3, <2>4 DEF StarterHolds
<1> QED
  BY <1>4, <1>5

LEMMA ScanKeeps ==
  ASSUME IInv, NEW t \in Tunnels, Scan(t)
  PROVE  IInv'
<1>1. CASE UNCHANGED handles
  BY <1>1
  DEF Scan, IInv, TrackedServiceStays, TrackerHolds, CallsOfSubscribed, StarterHolds
<1>2. ASSUME NEW g \in Goroutines, service[t] # None,
             handles' = [handles EXCEPT ![t] = @ \cup {g}]
      PROVE  IInv'
  <2>1. handles' \in [Tunnels -> SUBSET Holders]
    BY <1>2 DEF IInv, Holders
  <2>2. \A u \in Tunnels : handles[u] \subseteq handles'[u]
    BY <1>2 DEF IInv
  <2>3. \A u \in Tunnels : handles'[u] # {} => service[u] # None
    BY <1>2 DEF IInv, TrackedServiceStays
  <2>4. StarterHolds'
    BY <2>2 DEF Scan, IInv, StarterHolds
  <2> QED
    BY <2>1, <2>2, <2>3, <2>4, HandlesGrow DEF Scan, IInv
<1> QED
  BY <1>1, <1>2 DEF Scan

LEMMA StartKeeps ==
  ASSUME IInv, NEW c \in Clients, NEW t \in Tunnels, Start(c, t)
  PROVE  IInv'
<1> DEFINE r == [pc |-> "open", tunnel |-> t]
<1>1. request' = [request EXCEPT ![c] = r] /\ r \in Requests
  BY DEF Start, Requests
<1>2. stopping' \in [Stoppers -> [first : SUBSET Tunnels, again : SUBSET Tunnels]]
  <2>1. [first |-> ToStop(t), again |-> ToStop(t)] \in [first : SUBSET Tunnels, again : SUBSET Tunnels]
    BY DEF ToStop
  <2> QED
    BY <2>1 DEF Start, IInv
<1>3. StarterHolds'
  BY <1>1 DEF Start, IInv, StarterHolds
<1> QED
  BY <1>1, <1>2, <1>3
  DEF Start, IInv, TrackedServiceStays, TrackerHolds, CallsOfSubscribed

LEMMA OpenServiceKeeps ==
  ASSUME IInv, NEW c \in Clients, OpenService(c)
  PROVE  IInv'
<1> DEFINE t == request[c].tunnel
<1>1. t \in Tunnels /\ request[c].pc = "open"
  BY DEF OpenService, IInv, StarterHolds
<1>2. /\ service' \in [Tunnels -> Services \cup {None}]
      /\ events' \in [Tunnels -> Seq(Notifications)]
      /\ \A u \in Tunnels : service[u] # None => service'[u] # None
  <2>1. CASE UNCHANGED <<service, events>>
    BY <2>1 DEF IInv
  <2>2. CASE service[t] # None /\ Become(t, Marked(service[t]), MarkNotice(service[t]))
    <3>1. service[t] \in Services
      BY <1>1, <2>2 DEF IInv
    <3> QED
      BY <1>1, <2>2, <3>1, MarkedType, BecomeKeeps DEF IInv
  <2> QED
    BY <2>1, <2>2 DEF OpenService
<1>3. request' \in [Clients -> Requests] /\ StarterHolds'
  BY <1>1, RequestMoves DEF OpenService
<1> QED
  BY <1>2, <1>3, HandlesGrow DEF OpenService, IInv, TrackedServiceStays

LEMMA PollServiceKeeps ==
  ASSUME IInv, NEW c \in Clients, PollService(c)
  PROVE  IInv'
<1>1. request' \in [Clients -> Requests] /\ StarterHolds'
  BY RequestMoves DEF PollService
<1> QED
  BY <1>1, HandlesGrow DEF PollService, IInv, TrackedServiceStays

\* The handle to a new service is its client's.
LEMMA CreateServiceKeeps ==
  ASSUME IInv, NEW c \in Clients, CreateService(c)
  PROVE  IInv'
<1> DEFINE t == request[c].tunnel
<1>1. t \in Tunnels /\ request[c].pc = "create"
  BY DEF CreateService, IInv, StarterHolds
<1>2. CASE service[t] # None
  <2>1. request' \in [Clients -> Requests] /\ StarterHolds'
    BY <1>2, RequestMoves DEF CreateService
  <2> QED
    BY <1>2, <2>1, HandlesGrow DEF CreateService, IInv, TrackedServiceStays
<1>3. CASE service[t] = None
  <2> DEFINE s == [state |-> "stopped", marked |-> FALSE, failed |-> FALSE]
  <2>1. /\ service' = [service EXCEPT ![t] = s]
        /\ handles' = [handles EXCEPT ![t] = handles[t] \cup {c}]
        /\ scanDue' = scanDue \cup {t}
        /\ request' = [request EXCEPT ![c].pc = "start"]
    BY <1>3 DEF CreateService
  <2>2. s \in Services
    BY DEF Services, ServiceStates
  <2> HIDE DEF s
  <2>3. /\ handles' \in [Tunnels -> SUBSET Holders]
        /\ c \in handles'[t]
        /\ \A u \in Tunnels : handles[u] \subseteq handles'[u]
    BY <1>1, <2>1 DEF IInv, Holders
  <2>4. request' \in [Clients -> Requests] /\ StarterHolds'
    BY <1>1, <2>1, <2>3, RequestMoves
  <2>5. \A u \in Tunnels : /\ handles'[u] # {} => service'[u] # None
                           /\ service[u] # None => service'[u] # None
    BY <2>1, <2>2, NoneAssumption DEF IInv, TrackedServiceStays
  <2>6. service' \in [Tunnels -> Services \cup {None}] /\ scanDue' \subseteq Tunnels
    BY <1>1, <2>1, <2>2 DEF IInv
  <2> QED
    BY <2>3, <2>4, <2>5, <2>6, HandlesGrow DEF CreateService, IInv
<1> QED
  BY <1>2, <1>3

\* The client passes its handle on to a new tracker.
LEMMA StartServiceKeeps ==
  ASSUME IInv, NEW c \in Clients, StartService(c)
  PROVE  IInv'
<1> DEFINE t == request[c].tunnel
<1>1. t \in Tunnels /\ c \in handles[t] /\ service[t] # None
  BY DEF StartService, IInv, StarterHolds, TrackedServiceStays
<1>2. /\ service' \in [Tunnels -> Services \cup {None}]
      /\ events' \in [Tunnels -> Seq(Notifications)]
      /\ \A u \in Tunnels : service[u] # None => service'[u] # None
  <2>1. CASE UNCHANGED <<service, events>>
    BY <2>1 DEF IInv
  <2>2. CASE SetState(t, "startPending", FALSE)
    <3>1. service[t] \in Services
      BY <1>1 DEF IInv
    <3>2. [service[t] EXCEPT !.state = "startPending", !.failed = FALSE] \in Services
      BY <3>1 DEF Services, ServiceStates
    <3>3. <<"startPending">> \in Seq(Notifications)
      BY DEF Notifications, ServiceStates
    <3> QED
      BY <1>1, <2>2, <3>2, <3>3, BecomeKeeps DEF SetState, IInv
  <2> QED
    BY <2>1, <2>2 DEF StartService
<1>3. PICK g \in Goroutines : handles' = [handles EXCEPT ![t] = (handles[t] \ {c}) \cup {g}]
  BY DEF StartService
<1>4. handles' \in [Tunnels -> SUBSET Holders]
  BY <1>3 DEF IInv, Holders
<1>5. \A u \in Tunnels : handles[u] \ {c} \subseteq handles'[u]
  BY <1>3 DEF IInv
<1>6. \A u \in Tunnels : handles'[u] # {} => service[u] # None
  BY <1>1, <1>3 DEF IInv, TrackedServiceStays
<1>7. request' \in [Clients -> Requests] /\ StarterHolds'
  BY <1>5, RequestMoves DEF StartService
<1>8. c # "tracker"
  BY TunnelsAssumption
<1> QED
  BY <1>2, <1>4, <1>5, <1>6, <1>7, <1>8, HandlesGrow DEF StartService, IInv

-----------------------------------------------------------------------------
LEMMA StepHolds == IInv /\ [Next]_vars => IInv'
<1> SUFFICES ASSUME IInv, [Next]_vars PROVE IInv'
  OBVIOUS
<1>1. CASE UNCHANGED vars
  BY <1>1
  DEF vars, IInv, TrackedServiceStays, TrackerHolds, CallsOfSubscribed, StarterHolds
<1>2. ASSUME NEW t \in Tunnels, TrackerStep(t) PROVE IInv'
  BY <1>2, BeginTrackingKeeps, PollEndsKeeps, QueryKeeps, EndsKeep, CloseServiceKeeps
  DEF TrackerStep
<1>3. ASSUME NEW t \in Tunnels, NEW x \in Threads, CallStep(t, x) PROVE IInv'
  BY <1>3, CompareKeeps, ReportKeeps DEF CallStep
<1>4. ASSUME NEW c \in Clients, InstallStep(c) PROVE IInv'
  BY <1>4, OpenServiceKeeps, PollServiceKeeps, CreateServiceKeeps, StartServiceKeeps
  DEF InstallStep
<1> QED
  BY <1>1, <1>2, <1>3, <1>4, ScanKeeps, DeliverKeeps, ServiceStepKeeps, StopKeeps,
     StartKeeps, StopperKeeps
  DEF Next

LEMMA Invariance == Spec => []IInv
  BY InitHolds, StepHolds, PTL DEF Spec

\* The state of services, trackers and requests keeps its type, so that no step
\* of a tracker or of an installation looks at a service that is not there
\* (trackService, InstallTunnel).
THEOREM TypeCorrect == Spec => []TypeOK
<1>1. IInv => TypeOK
  BY DEF IInv
<1> QED
  BY <1>1, Invariance, PTL

\* A service is never removed, or replaced by a new one, under its tracker or
\* under a goroutine that is about to track it: from CreateService or OpenService
\* to the last deferred call of trackTunnelService somebody holds a handle.
THEOREM ServiceStays == Spec => []TrackedServiceStays
<1>1. IInv => TrackedServiceStays
  BY DEF IInv
<1> QED
  BY <1>1, Invariance, PTL
=============================================================================
