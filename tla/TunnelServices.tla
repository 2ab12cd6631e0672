--------------------------- MODULE TunnelServices ---------------------------
(***************************************************************************)
(* How tunnels are started, stopped and watched: the RPCs of the manager   *)
(* (manager/ipc_server.go), the installation of a tunnel's Windows service *)
(* (manager/install.go) and the tracker of each service                    *)
(* (manager/tunneltracker.go), which runs on a goroutine of its own and is *)
(* called back on a thread of the system.                                  *)
(*                                                                         *)
(* The service control manager is modelled from how the code uses it: a    *)
(* service that is marked for deletion stays until it has stopped and the  *)
(* last handle to it is closed.                                            *)
(***************************************************************************)
EXTENDS Sequences

CONSTANTS
  Tunnels,     \* names of tunnels with a stored configuration
  Intersects,  \* pairs of tunnels whose addresses or routes intersect
  Clients,     \* UI processes: each has one RPC in progress at a time
  Goroutines,  \* calls of trackTunnelService that may be about to begin
  Stoppers,    \* goroutines of Start that stop other tunnels
  None         \* the absence of a service, or of an entry in trackedTunnels

ASSUME TunnelsAssumption ==
  /\ Intersects \subseteq Tunnels \X Tunnels
  /\ Clients \cap Goroutines = {}
  /\ "tracker" \notin Clients \cup Goroutines

ServiceStates == {"stopped", "startPending", "running", "stopPending"}

\* `marked` is whether the service is marked for deletion, `failed` whether it
\* stopped with an exit code that is an error.
Services == [state : ServiceStates, marked : BOOLEAN, failed : BOOLEAN]

ASSUME NoneAssumption == None \notin Services

TunnelStates == {"unknown", "started", "stopped", "starting", "stopping"}
Notifications == ServiceStates \cup {"deletePending"}

\* The two threads that run a tracker's callback: its own goroutine, once, for
\* the state it queries after subscribing, and the thread that notifies it.
Threads == {"self", "system"}

\* `at` is where a call of the callback is; the tracker is in its callback for
\* `state`.
Calls == [at : {"none", "compare", "report"}, state : TunnelStates]
NoCall == [at |-> "none", state |-> "unknown"]

\* A tracker: `last` is lastState, `queried` whether the callback ran on its own
\* goroutine, `done` the threads on which a callback returned true.
Trackers ==
  [pc : {"none", "poll", "query", "watch", "unlist", "close"},
   last : TunnelStates, queried : BOOLEAN, done : SUBSET Threads,
   call : [Threads -> Calls]]
NoTracker ==
  [pc |-> "none", last |-> "unknown", queried |-> FALSE, done |-> {},
   call |-> [x \in Threads |-> NoCall]]

Holders == {"tracker"} \cup Clients \cup Goroutines

Requests == [pc : {"idle", "open", "poll", "create", "start"}, tunnel : Tunnels \cup {None}]
NoRequest == [pc |-> "idle", tunnel |-> None]

VARIABLES
  service,  \* the service of each tunnel, None when there is none
  handles,  \* who holds an open handle to the service of a tunnel
  events,   \* the notifications a tracker's subscription has yet to deliver
  scanDue,  \* tunnels trackExistingTunnels has yet to look at
  tracked,  \* trackedTunnels, None where there is no entry
  tracker,  \* the tracker of each tunnel
  reported, \* the state last passed to IPCServerNotifyTunnelChange
  request,  \* the Start each client has in progress
  stopping  \* the goroutine of a Start: tunnels to stop, then to look at again

scmVars == <<service, handles, events, scanDue>>
trackerVars == <<tracked, tracker, reported>>
clientVars == <<request, stopping>>
vars == <<scmVars, trackerVars, clientVars>>

\* A service may run, or may have stopped, when the manager starts.
Init ==
  /\ service \in
       [Tunnels -> {None} \cup [state : {"stopped", "running"}, marked : {FALSE},
                                failed : {FALSE}]]
  /\ handles = [t \in Tunnels |-> {}]
  /\ events = [t \in Tunnels |-> <<>>]
  /\ scanDue = Tunnels
  /\ tracked = [t \in Tunnels |-> None]
  /\ tracker = [t \in Tunnels |-> NoTracker]
  /\ reported = [t \in Tunnels |-> "stopped"]
  /\ request = [c \in Clients |-> NoRequest]
  /\ stopping = [j \in Stoppers |-> [first |-> {}, again |-> {}]]

-----------------------------------------------------------------------------
(* The service control manager.                                            *)

Subscribed(t) == tracker[t].pc \in {"query", "watch"}

\* The service of t becomes s, and its subscriber hears of the changes in ns.
Become(t, s, ns) ==
  /\ service' = [service EXCEPT ![t] = s]
  /\ events' = [events EXCEPT ![t] = IF Subscribed(t) THEN @ \o ns ELSE @]

\* DeleteService on s, and the notification it causes.
Marked(s) == [s EXCEPT !.marked = TRUE]
MarkNotice(s) == IF s.marked THEN <<>> ELSE <<"deletePending">>

SetState(t, state, failed) ==
  Become(t, [service[t] EXCEPT !.state = state, !.failed = failed], <<state>>)

ServiceRuns(t) ==
  /\ service[t] # None
  /\ service[t].state = "startPending"
  /\ SetState(t, "running", FALSE)
  /\ UNCHANGED <<handles, scanDue, trackerVars, clientVars>>

\* A service ends: it could not start, it failed, or it was told to stop.
ServiceStops(t) ==
  /\ service[t] # None
  /\ \/ service[t].state = "stopPending" /\ SetState(t, "stopped", FALSE)
     \/ service[t].state \in {"startPending", "running"} /\ SetState(t, "stopped", TRUE)
  /\ UNCHANGED <<handles, scanDue, trackerVars, clientVars>>

ServiceRemoved(t) ==
  /\ service[t] # None
  /\ service[t].marked /\ service[t].state = "stopped"
  /\ handles[t] = {}
  /\ service' = [service EXCEPT ![t] = None]
  /\ scanDue' = scanDue \cup {t}
  /\ UNCHANGED <<handles, events, trackerVars, clientVars>>

-----------------------------------------------------------------------------
(* Watching for services: trackExistingTunnels.                            *)

Free(g) == \A t \in Tunnels : g \notin handles[t]

Scan(t) ==
  /\ t \in scanDue
  /\ scanDue' = scanDue \ {t}
  /\ IF tracked[t] # None \/ service[t] = None
       THEN UNCHANGED handles
       ELSE \E g \in Goroutines :
              /\ Free(g)
              /\ handles' = [handles EXCEPT ![t] = @ \cup {g}]
  /\ UNCHANGED <<service, events, trackerVars, clientVars>>

-----------------------------------------------------------------------------
(* trackTunnelService and trackService.                                    *)

\* Mutant of TunState: the notification is passed on as it is.
TunStateRaw(n) == n

TunState(n) ==
  CASE n = "stopped" -> "stopped"
    [] n \in {"deletePending", "stopPending"} -> "stopping"
    [] n = "running" -> "started"
    [] n = "startPending" -> "starting"

\* A call of trackTunnelService begins: it closes its handle if the tunnel is
\* tracked already, else it enters it in trackedTunnels.  An earlier tracker that
\* has only its handle left to close leaves that to the new one.
BeginTracking(t, g) ==
  /\ g \in handles[t]
  /\ IF tracked[t] # None
       THEN /\ handles' = [handles EXCEPT ![t] = @ \ {g}]
            /\ UNCHANGED <<tracked, tracker>>
       ELSE /\ handles' = [handles EXCEPT ![t] = (@ \ {g}) \cup {"tracker"}]
            /\ tracked' = [tracked EXCEPT ![t] = "unknown"]
            /\ tracker' = [tracker EXCEPT ![t] = [NoTracker EXCEPT !.pc = "poll"]]
  /\ UNCHANGED <<service, events, scanDue, reported, clientVars>>

\* Some client has created the service of t and is about to start it.
BeingStarted(t) == \E c \in Clients : request[c] = [pc |-> "start", tunnel |-> t]

\* The loop that gives the service up to 4 seconds to leave its stopped state
\* ends, then checkForDisabled.  Starting a new service takes less than that.
PollEnds(t) ==
  /\ tracker[t].pc = "poll"
  /\ service[t].state = "stopped" => ~ BeingStarted(t)
  /\ \/ /\ tracker' = [tracker EXCEPT ![t].pc = "query"]
        /\ UNCHANGED <<tracked, reported>>
     \/ /\ service[t].marked
        /\ tracked' = [tracked EXCEPT ![t] = "stopped"]
        /\ reported' = [reported EXCEPT ![t] = "stopped"]
        /\ tracker' = [tracker EXCEPT ![t].pc = "unlist"]
  /\ UNCHANGED <<scmVars, clientVars>>

\* Subscribed, the tracker queries the service and calls its callback.
Query(t) ==
  /\ tracker[t].pc = "query"
  /\ tracker' = [tracker EXCEPT
       ![t].pc = "watch",
       ![t].call["self"] = [at |-> "compare", state |-> TunState(service[t].state)]]
  /\ UNCHANGED <<scmVars, tracked, reported, clientVars>>

\* The system calls serviceSubscriptionCallbackPtr with the next notification.
Deliver(t) ==
  /\ Subscribed(t)
  /\ events[t] # <<>>
  /\ tracker[t].call["system"] = NoCall
  /\ events' = [events EXCEPT ![t] = Tail(@)]
  /\ tracker' = IF "system" \in tracker[t].done THEN tracker
                ELSE [tracker EXCEPT ![t].call["system"] =
                        [at |-> "compare", state |-> TunState(Head(events[t]))]]
  /\ UNCHANGED <<service, handles, scanDue, tracked, reported, clientVars>>

\* The tracker of t after the callback on thread x, for state s, has returned.
Returned(r, x, s) ==
  [r EXCEPT !.call[x] = NoCall,
            !.queried = @ \/ x = "self",
            !.done = IF s = "stopped" THEN @ \cup {x} ELSE @]

\* The first half of the callback: a service that failed is deleted, and a new
\* state is entered in trackedTunnels.
Compare(t, x) ==
  LET s == tracker[t].call[x].state
  IN  /\ tracker[t].call[x].at = "compare"
      /\ IF s = "stopped" /\ service[t].failed
           THEN Become(t, Marked(service[t]), MarkNotice(service[t]))
           ELSE UNCHANGED <<service, events>>
      /\ IF s # tracker[t].last
           THEN /\ tracked' = [tracked EXCEPT ![t] = s]
                /\ tracker' = [tracker EXCEPT ![t].call[x].at = "report"]
           ELSE /\ tracker' = [tracker EXCEPT ![t] = Returned(@, x, s)]
                /\ UNCHANGED tracked
      /\ UNCHANGED <<handles, scanDue, reported, clientVars>>

\* The second half: the listeners hear of it, and lastState is set.
Report(t, x) ==
  LET s == tracker[t].call[x].state
  IN  /\ tracker[t].call[x].at = "report"
      /\ reported' = [reported EXCEPT ![t] = s]
      /\ tracker' = [tracker EXCEPT ![t] = [Returned(@, x, s) EXCEPT !.last = s]]
      /\ UNCHANGED <<scmVars, tracked, clientVars>>

\* Mutant of StopWatching: the handle is closed before the entry goes.
StopWatchingCloses(t) ==
  /\ tracker[t].pc = "watch"
  /\ tracker[t].queried /\ tracker[t].done # {}
  /\ tracker[t].call["system"] = NoCall
  /\ tracker' = [tracker EXCEPT ![t].pc = "unlist"]
  /\ events' = [events EXCEPT ![t] = <<>>]
  /\ handles' = [handles EXCEPT ![t] = @ \ {"tracker"}]
  /\ UNCHANGED <<service, scanDue, tracked, reported, clientVars>>

\* trackService returns: unsubscribing waits for a callback that runs, and
\* drops what has not been delivered.
StopWatching(t) ==
  /\ tracker[t].pc = "watch"
  /\ tracker[t].queried /\ tracker[t].done # {}
  /\ tracker[t].call["system"] = NoCall
  /\ tracker' = [tracker EXCEPT ![t].pc = "unlist"]
  /\ events' = [events EXCEPT ![t] = <<>>]
  /\ UNCHANGED <<service, handles, scanDue, tracked, reported, clientVars>>

\* The deferred calls: the entry goes first, then the handle.
Unlist(t) ==
  /\ tracker[t].pc = "unlist"
  /\ tracked' = [tracked EXCEPT ![t] = None]
  /\ tracker' = [tracker EXCEPT ![t].pc = "close"]
  /\ UNCHANGED <<scmVars, reported, clientVars>>

\* Mutant of CloseService: the handle is never closed.
CloseServiceLeaks(t) ==
  /\ tracker[t].pc = "close"
  /\ tracker' = [tracker EXCEPT ![t] = NoTracker]
  /\ UNCHANGED <<scmVars, tracked, reported, clientVars>>

CloseService(t) ==
  /\ tracker[t].pc = "close"
  /\ handles' = [handles EXCEPT ![t] = @ \ {"tracker"}]
  /\ tracker' = [tracker EXCEPT ![t] = NoTracker]
  /\ UNCHANGED <<service, events, scanDue, tracked, reported, clientVars>>

-----------------------------------------------------------------------------
(* Starting and stopping tunnels.                                          *)

\* UninstallTunnel: a service that is starting accepts no stop, but is marked.
Uninstall(t) ==
  /\ IF service[t] = None
       THEN UNCHANGED <<service, events>>
       ELSE IF service[t].state = "running"
         THEN Become(t, [Marked(service[t]) EXCEPT !.state = "stopPending"],
                     <<"stopPending">> \o MarkNotice(service[t]))
         ELSE Become(t, Marked(service[t]), MarkNotice(service[t]))
  /\ UNCHANGED <<handles, scanDue>>

Stop(t) == Uninstall(t) /\ UNCHANGED <<trackerVars, clientVars>>

ToStop(t) == {u \in Tunnels : tracked[u] # None /\ <<t, u>> \in Intersects}

\* Start, up to InstallTunnel: it is refused while an intersecting tunnel is
\* starting, else those tunnels are stopped by a goroutine.
Start(c, t) ==
  /\ request[c] = NoRequest
  /\ \A u \in ToStop(t) : tracked[u] \notin {"starting", "unknown"}
  /\ IF ToStop(t) = {}
       THEN UNCHANGED stopping
       ELSE \E j \in Stoppers :
              /\ stopping[j].first = {} /\ stopping[j].again = {}
              /\ stopping' = [stopping EXCEPT ![j] =
                                [first |-> ToStop(t), again |-> ToStop(t)]]
  /\ request' = [request EXCEPT ![c] = [pc |-> "open", tunnel |-> t]]
  /\ UNCHANGED <<scmVars, trackerVars>>

StopFirst(j, t) ==
  /\ t \in stopping[j].first
  /\ stopping' = [stopping EXCEPT ![j].first = @ \ {t}]
  /\ Uninstall(t)
  /\ UNCHANGED <<trackerVars, request>>

StopAgain(j, t) ==
  /\ stopping[j].first = {}
  /\ t \in stopping[j].again
  /\ stopping' = [stopping EXCEPT ![j].again = @ \ {t}]
  /\ IF service[t] # None /\ service[t].state \in {"running", "startPending"}
       THEN Uninstall(t)
       ELSE UNCHANGED scmVars
  /\ UNCHANGED <<trackerVars, request>>

\* InstallTunnel opens the service that is there, if any: it fails if that one
\* has not stopped, else it deletes it.
OpenService(c) ==
  LET t == request[c].tunnel
  IN  /\ request[c].pc = "open"
      /\ \/ /\ service[t] = None
            /\ request' = [request EXCEPT ![c].pc = "create"]
            /\ UNCHANGED <<service, events>>
         \/ /\ service[t] # None /\ service[t].state # "stopped"
            /\ request' = [request EXCEPT ![c] = NoRequest]
            /\ UNCHANGED <<service, events>>
         \/ /\ service[t] # None /\ service[t].state = "stopped"
            /\ Become(t, Marked(service[t]), MarkNotice(service[t]))
            /\ request' = [request EXCEPT ![c].pc = "poll"]
      /\ UNCHANGED <<handles, scanDue, trackerVars, stopping>>

\* The old service is gone.
PollService(c) ==
  /\ request[c].pc = "poll"
  /\ service[request[c].tunnel] = None
  /\ request' = [request EXCEPT ![c].pc = "create"]
  /\ UNCHANGED <<scmVars, trackerVars, stopping>>

\* CreateService, which fails if another client was faster.
CreateService(c) ==
  LET t == request[c].tunnel
  IN  /\ request[c].pc = "create"
      /\ IF service[t] # None
           THEN /\ request' = [request EXCEPT ![c] = NoRequest]
                /\ UNCHANGED <<service, handles, scanDue>>
           ELSE /\ service' = [service EXCEPT ![t] =
                     [state |-> "stopped", marked |-> FALSE, failed |-> FALSE]]
                /\ handles' = [handles EXCEPT ![t] = @ \cup {c}]
                /\ scanDue' = scanDue \cup {t}
                /\ request' = [request EXCEPT ![c].pc = "start"]
      /\ UNCHANGED <<events, trackerVars, stopping>>

\* service.Start, which fails on a service marked for deletion; either way the
\* handle is passed to a new tracker.
StartService(c) ==
  LET t == request[c].tunnel
  IN  /\ request[c].pc = "start"
      /\ IF service[t].marked
           THEN UNCHANGED <<service, events>>
           ELSE SetState(t, "startPending", FALSE)
      /\ \E g \in Goroutines :
           /\ Free(g)
           /\ handles' = [handles EXCEPT ![t] = (@ \ {c}) \cup {g}]
      /\ request' = [request EXCEPT ![c] = NoRequest]
      /\ UNCHANGED <<scanDue, trackerVars, stopping>>

-----------------------------------------------------------------------------

TrackerStep(t) ==
  \/ \E g \in Goroutines : BeginTracking(t, g)
  \/ PollEnds(t)
  \/ Query(t)
  \/ StopWatching(t)
  \/ Unlist(t)
  \/ CloseService(t)

CallStep(t, x) == Compare(t, x) \/ Report(t, x)

ServiceStep(t) == ServiceRuns(t) \/ ServiceStops(t) \/ ServiceRemoved(t)

InstallStep(c) ==
  OpenService(c) \/ PollService(c) \/ CreateService(c) \/ StartService(c)

StopperStep(j) == \E t \in Tunnels : StopFirst(j, t) \/ StopAgain(j, t)

Next ==
  \/ \E t \in Tunnels :
       \/ Scan(t) \/ TrackerStep(t) \/ Deliver(t) \/ ServiceStep(t) \/ Stop(t)
       \/ \E x \in Threads : CallStep(t, x)
       \/ \E c \in Clients : Start(c, t)
  \/ \E c \in Clients : InstallStep(c)
  \/ \E j \in Stoppers : StopperStep(j)

Spec == Init /\ [][Next]_vars

\* A service that starts or stops gets done with it.
PendingEnds(t) ==
  /\ service[t] # None /\ service[t].state \in {"startPending", "stopPending"}
  /\ ServiceRuns(t) \/ ServiceStops(t)

\* Goroutines, the threads of the system and the service control manager are
\* always scheduled; users and running services do as they like.
FairSpec ==
  /\ Spec
  /\ \A t \in Tunnels :
       /\ WF_vars(Scan(t))
       /\ WF_vars(TrackerStep(t))
       /\ WF_vars(Deliver(t))
       /\ WF_vars(PendingEnds(t))
       /\ WF_vars(ServiceRemoved(t))
       /\ \A x \in Threads : WF_vars(CallStep(t, x))
  /\ \A c \in Clients : WF_vars(InstallStep(c))
  /\ \A j \in Stoppers : WF_vars(StopperStep(j))

-----------------------------------------------------------------------------
(* Properties.                                                             *)

Running(t) == service[t] # None /\ service[t].state = "running"

TypeOK ==
  /\ service \in [Tunnels -> Services \cup {None}]
  /\ handles \in [Tunnels -> SUBSET Holders]
  /\ events \in [Tunnels -> Seq(Notifications)]
  /\ scanDue \subseteq Tunnels
  /\ tracked \in [Tunnels -> TunnelStates \cup {None}]
  /\ tracker \in [Tunnels -> Trackers]
  /\ reported \in [Tunnels -> TunnelStates]
  /\ request \in [Clients -> Requests]
  /\ stopping \in [Stoppers -> [first : SUBSET Tunnels, again : SUBSET Tunnels]]

\* A tracker's service is never removed, or replaced by a new one, under it:
\* whoever is tracked or about to be holds a handle.
TrackedServiceStays ==
  \A t \in Tunnels : tracked[t] # None \/ handles[t] # {} => service[t] # None

\* A tunnel that runs, and was not told to stop, gets a tracker: no order of
\* installations, scans and trackers that end leaves it without an entry in
\* trackedTunnels.  (One that was told to stop while it was starting runs on,
\* marked, and its tracker may have left: the zombie of Start.)
RunningIsTracked ==
  \A t \in Tunnels :
    Running(t) /\ ~ service[t].marked ~>
      tracked[t] # None \/ ~ Running(t) \/ service[t].marked

\* A service that is deleted and has stopped goes away, so that InstallTunnel can
\* stop waiting for it: every tracker and every refused one lets go of its handle.
DeletedServiceGoes ==
  \A t \in Tunnels :
    service[t] # None /\ service[t].marked /\ service[t].state = "stopped" ~>
      service[t] = None

\* The comment in Start: "Figure out which tunnels have intersecting
\* addresses/routes and stop those."  Once the requests and their goroutines are
\* done, no two tunnels that intersect run.
IntersectingStopped ==
  (/\ \A c \in Clients : request[c] = NoRequest
   /\ \A j \in Stoppers : stopping[j].again = {}) =>
    \A t, u \in Tunnels :
      t # u /\ <<t, u>> \in Intersects => ~ (Running(t) /\ Running(u))
=============================================================================
