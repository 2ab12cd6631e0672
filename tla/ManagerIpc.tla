----------------------------- MODULE ManagerIpc -----------------------------
(***************************************************************************)
(* The calls a UI process makes of the manager (manager/ipc_client.go) and *)
(* the goroutine that serves them (manager/ipc_server.go), over two pipes  *)
(* that carry nothing but a sequence of gob values: neither side says      *)
(* where a call begins or ends, so each must write exactly what the other  *)
(* reads.  With them Quit, which ends the manager, and the notifications   *)
(* the manager writes to the clients it knows.                             *)
(*                                                                         *)
(* A value is its Go type and, for the properties, the call it belongs to. *)
(* What a method does to the tunnels and to the settings is in the modules *)
(* of those components; here it only ends, with or without an error.       *)
(***************************************************************************)
EXTENDS Naturals, Sequences, TLC

CONSTANTS
  Clients,   \* UI processes
  Threads,   \* the threads of each UI process that call the manager
  Elevated,  \* the clients that were given an elevated token
  Plans,     \* the methods the threads call, in order: a behaviour has one plan
  MaxNotes,  \* bound on the notifications of the manager
  None       \* the absence of a call

-----------------------------------------------------------------------------
(* What the functions of ipc_client.go write after the number of their     *)
(* method, and what they read until they return.                           *)

Wire(args, results) == [args |-> args, results |-> results]

TunnelCalls ==
  [StoredConfig |-> Wire(<<"string">>, <<"config", "string">>),
   RuntimeConfig |-> Wire(<<"string">>, <<"config", "string">>),
   Start |-> Wire(<<"string">>, <<"string">>),
   Stop |-> Wire(<<"string">>, <<"string">>),
   WaitForStop |-> Wire(<<"string">>, <<"string">>),
   Delete |-> Wire(<<"string">>, <<"string">>)]

ManagerCalls ==
  [State |-> Wire(<<"string">>, <<"state", "string">>),
   GlobalState |-> Wire(<<>>, <<"state">>),
   Create |-> Wire(<<"config">>, <<"tunnel", "string">>),
   Tunnels |-> Wire(<<>>, <<"tunnels", "string">>),
   Quit |-> Wire(<<"bool">>, <<"bool", "string">>),
   UpdateState |-> Wire(<<>>, <<"updateState">>),
   Update |-> Wire(<<>>, <<>>)]

RoutingCalls ==
  [GetMode |-> Wire(<<>>, <<"mode">>),
   SetMode |-> Wire(<<"mode">>, <<"string">>),
   GetRules |-> Wire(<<>>, <<"rules">>),
   SetRules |-> Wire(<<"rules">>, <<"string">>),
   GetExcludeLoopback |-> Wire(<<>>, <<"bool">>),
   SetExcludeLoopback |-> Wire(<<"bool">>, <<"string">>),
   GetDisableIPv6 |-> Wire(<<>>, <<"bool">>),
   SetDisableIPv6 |-> Wire(<<"bool">>, <<"string">>)]

DnsCalls ==
  [GetDNSSettings |-> Wire(<<>>, <<"dnsSettings">>),
   SetDNSSettings |-> Wire(<<"dnsSettings">>, <<"string">>),
   GetRecords |-> Wire(<<>>, <<"records">>),
   AddRecord |-> Wire(<<"string", "string">>, <<"string">>),
   RemoveRecord |-> Wire(<<"string">>, <<"string">>)]

LogAndFirewallCalls ==
  [GetEntries |-> Wire(<<>>, <<"entries">>),
   Clear |-> Wire(<<>>, <<>>),
   SetEnabled |-> Wire(<<"bool">>, <<>>),
   GetCount |-> Wire(<<>>, <<"int">>),
   GetEntriesSinceIndex |-> Wire(<<"int">>, <<"entries">>),
   GetPortRules |-> Wire(<<>>, <<"ports">>),
   SetPortRules |-> Wire(<<"ports">>, <<"string">>)]

ClientCalls ==
  TunnelCalls @@ ManagerCalls @@ RoutingCalls @@ DnsCalls @@ LogAndFirewallCalls

Methods == DOMAIN ClientCalls

(* What the cases of ServeConn read after the number of the method, and    *)
(* what they write before they read the next one.  A method that fails     *)
(* still writes its result, empty, before the error.                       *)

TunnelCases ==
  LET named == Wire(<<"string">>, <<"string">>)
  IN  [m \in {"Start", "Stop", "WaitForStop", "Delete"} |-> named]
      @@ [m \in {"StoredConfig", "RuntimeConfig"} |-> Wire(<<"string">>, <<"config", "string">>)]
      @@ [State |-> Wire(<<"string">>, <<"state", "string">>)]

ManagerCases ==
  [GlobalState |-> Wire(<<>>, <<"state">>),
   Create |-> Wire(<<"config">>, <<"tunnel", "string">>),
   Tunnels |-> Wire(<<>>, <<"tunnels", "string">>),
   Quit |-> Wire(<<"bool">>, <<"bool", "string">>),
   UpdateState |-> Wire(<<>>, <<"updateState">>),
   Update |-> Wire(<<>>, <<>>)]

RoutingCases ==
  [GetMode |-> Wire(<<>>, <<"mode">>), SetMode |-> Wire(<<"mode">>, <<"string">>),
   GetRules |-> Wire(<<>>, <<"rules">>), SetRules |-> Wire(<<"rules">>, <<"string">>)]
  @@ [m \in {"GetExcludeLoopback", "GetDisableIPv6"} |-> Wire(<<>>, <<"bool">>)]
  @@ [m \in {"SetExcludeLoopback", "SetDisableIPv6"} |-> Wire(<<"bool">>, <<"string">>)]
  @@ [GetDNSSettings |-> Wire(<<>>, <<"dnsSettings">>),
      SetDNSSettings |-> Wire(<<"dnsSettings">>, <<"string">>)]

LogAndFirewallCases ==
  [GetRecords |-> Wire(<<>>, <<"records">>),
   AddRecord |-> Wire(<<"string", "string">>, <<"string">>),
   RemoveRecord |-> Wire(<<"string">>, <<"string">>),
   GetEntries |-> Wire(<<>>, <<"entries">>),
   Clear |-> Wire(<<>>, <<>>),
   SetEnabled |-> Wire(<<"bool">>, <<>>),
   GetCount |-> Wire(<<>>, <<"int">>),
   GetEntriesSinceIndex |-> Wire(<<"int">>, <<"entries">>),
   GetPortRules |-> Wire(<<>>, <<"ports">>),
   SetPortRules |-> Wire(<<"ports">>, <<"string">>)]

ServerCases == TunnelCases @@ ManagerCases @@ RoutingCases @@ LogAndFirewallCases

-----------------------------------------------------------------------------
\* A call in progress: the values sent after the number of the method, and those
\* of the answer that are read.
Calls ==
  [method : Methods, id : (UNION {Threads[c] : c \in Clients}) \X Nat, sent : 0..2, got : 0..2]

ASSUME IpcAssumption ==
  /\ Elevated \subseteq Clients
  /\ \A p \in Plans :
       /\ p = [c \in Clients |-> p[c]]
       /\ \A c \in Clients : p[c] \in [Threads[c] -> Seq(Methods)]
  /\ MaxNotes \in Nat
  /\ None \notin Calls

\* Client and manager know the same methods by the same values (the functions of
\* ipc_client.go and the cases of ServeConn).  The formula has no parameters, so
\* that TLC's evaluation settles it.
ASSUME SameMethods ==
  /\ ClientCalls = ServerCases
  /\ \A m \in Methods :
       /\ ClientCalls[m].args \in Seq(STRING) /\ Len(ClientCalls[m].args) \in 0..2
       /\ ClientCalls[m].results \in Seq(STRING) /\ Len(ClientCalls[m].results) \in 0..2

VARIABLES
  call,     \* the call each thread of a client has in progress
  plan,     \* the methods each thread has yet to call
  request,  \* the values a client has written and the manager has not read
  reply,    \* the values the manager has written and the client has not read
  serve,    \* where the ServeConn of a client is
  live,     \* the clients whose process runs
  services, \* managerServices
  events,   \* the clients whose service still has its events pipe
  writers,  \* goroutines of notifyAll that have a notification to write
  notes,    \* how many notifications there were
  written,  \* the notifications written to each client that runs
  haveQuit, \* haveQuit
  quitSent, \* quitManagersChan
  quitLost, \* a Quit has failed after it was the first
  manager   \* the manager's service: running, stopping, or stopped

clientVars == <<call, plan, request, reply, live>>
noteVars == <<writers, notes, written>>
quitVars == <<haveQuit, quitSent, quitLost, manager>>
vars == <<clientVars, serve, services, events, noteVars, quitVars>>

Value(type, id) == [type |-> type, id |-> id]
Reading == [at |-> "method", method |-> None, id |-> None, n |-> 0]

Init ==
  /\ call = [c \in Clients |-> [h \in Threads[c] |-> None]]
  /\ plan \in Plans
  /\ request = [c \in Clients |-> <<>>]
  /\ reply = [c \in Clients |-> <<>>]
  /\ serve = [c \in Clients |-> [Reading EXCEPT !.at = "start"]]
  /\ live = Clients
  /\ services = {}
  /\ events = Clients
  /\ writers = {}
  /\ notes = 0
  /\ written = [c \in Clients |-> {}]
  /\ haveQuit = FALSE
  /\ quitSent = FALSE
  /\ quitLost = FALSE
  /\ manager = "running"

-----------------------------------------------------------------------------
(* The client.  Its functions hold rpcMutex until they return.             *)

\* Mutant of MutexFree: the function takes no lock.
NoMutex(c) == TRUE

MutexFree(c) == \A h \in Threads[c] : call[c][h] = None

Sent(k) == k.sent = Len(ClientCalls[k.method].args)
Awaits(k) == k.got < Len(ClientCalls[k.method].results)
Expected(k) == ClientCalls[k.method].results[k.got + 1]

\* The call has come to k: it returns when nothing is left to write or read.
Goes(c, h, k) ==
  call' = [call EXCEPT ![c][h] = IF Sent(k) /\ ~Awaits(k) THEN None ELSE k]

\* What numbers the next call of a thread.
Id(c, h) == <<h, Len(plan[c][h])>>

Begin(c, h) ==
  /\ c \in live /\ plan[c][h] # <<>>
  /\ call[c][h] = None /\ MutexFree(c)
  /\ plan' = [plan EXCEPT ![c][h] = Tail(@)]
  /\ Goes(c, h, [method |-> Head(plan[c][h]), id |-> Id(c, h), sent |-> 0, got |-> 0])
  /\ request' = [request EXCEPT ![c] = Append(@, Value(Head(plan[c][h]), Id(c, h)))]
  /\ UNCHANGED <<reply, live, serve, services, events, noteVars, quitVars>>

Encode(c, h) ==
  /\ c \in live /\ call[c][h] # None
  /\ LET k == call[c][h]
         args == ClientCalls[k.method].args
     IN  /\ ~Sent(k)
         /\ Goes(c, h, [k EXCEPT !.sent = @ + 1])
         /\ request' = [request EXCEPT ![c] = Append(@, Value(args[k.sent + 1], k.id))]
  /\ UNCHANGED <<plan, reply, live, serve, services, events, noteVars, quitVars>>

\* A value of another type is an error, with which the call returns at once.
Decode(c, h) ==
  /\ c \in live /\ call[c][h] # None
  /\ LET k == call[c][h]
     IN  /\ Sent(k) /\ Awaits(k) /\ reply[c] # <<>>
         /\ IF Head(reply[c]).type = Expected(k) THEN Goes(c, h, [k EXCEPT !.got = @ + 1])
            ELSE call' = [call EXCEPT ![c][h] = None]
  /\ reply' = [reply EXCEPT ![c] = Tail(@)]
  /\ UNCHANGED <<plan, request, live, serve, services, events, noteVars, quitVars>>

\* The UI process ends, whatever its threads were doing.
Exit(c) ==
  /\ c \in live
  /\ live' = live \ {c}
  /\ call' = [call EXCEPT ![c] = [h \in Threads[c] |-> None]]
  /\ plan' = [plan EXCEPT ![c] = [h \in Threads[c] |-> <<>>]]
  /\ reply' = [reply EXCEPT ![c] = <<>>]
  /\ written' = [written EXCEPT ![c] = {}]
  /\ UNCHANGED <<request, serve, services, events, writers, notes, quitVars>>

-----------------------------------------------------------------------------
(* ServeConn, on the goroutine of IPCServerListen.                         *)

Listen(c) ==
  /\ serve[c].at = "start"
  /\ services' = services \cup {c}
  /\ serve' = [serve EXCEPT ![c] = Reading]
  /\ UNCHANGED <<clientVars, events, noteVars, quitVars>>

\* Mutant of Leave: the service stays in managerServices.
LeaveStays(c) ==
  /\ serve[c].at = "leave"
  /\ serve' = [serve EXCEPT ![c].at = "gone"]
  /\ events' = events \ {c}
  /\ UNCHANGED <<clientVars, services, noteVars, quitVars>>

\* ServeConn has returned: the service is forgotten.
Leave(c) ==
  /\ serve[c].at = "leave"
  /\ serve' = [serve EXCEPT ![c].at = "gone"]
  /\ services' = services \ {c}
  /\ events' = events \ {c}
  /\ UNCHANGED <<clientVars, noteVars, quitVars>>

\* ServeConn returns when no value is to come, when one is of another type, and
\* when it is the number of no method.
Broken(c) == request[c] = <<>> /\ c \notin live

GiveUp(c) == serve' = [serve EXCEPT ![c].at = "leave"]

\* Mutant of Read: a second argument is forgotten.
ReadOne(c, k) ==
  serve' = [serve EXCEPT ![c] =
    IF k.n = 1 \/ ServerCases[k.method].args = <<>> THEN [k EXCEPT !.at = "run"] ELSE k]

\* The method runs when its last argument is read.
Read(c, k) ==
  serve' = [serve EXCEPT ![c] =
    IF k.n = Len(ServerCases[k.method].args) THEN [k EXCEPT !.at = "run"] ELSE k]

ReadMethod(c) ==
  /\ serve[c].at = "method"
  /\ \/ /\ request[c] # <<>>
        /\ LET v == Head(request[c])
           IN  IF v.type \in DOMAIN ServerCases
               THEN Read(c, [at |-> "args", method |-> v.type, id |-> v.id, n |-> 0])
               ELSE GiveUp(c)
        /\ request' = [request EXCEPT ![c] = Tail(@)]
     \/ Broken(c) /\ GiveUp(c) /\ UNCHANGED request
  /\ UNCHANGED <<call, plan, reply, live, services, events, noteVars, quitVars>>

ReadArgument(c) ==
  /\ serve[c].at = "args"
  /\ \/ /\ request[c] # <<>>
        /\ IF Head(request[c]).type = ServerCases[serve[c].method].args[serve[c].n + 1]
           THEN Read(c, [serve[c] EXCEPT !.n = @ + 1])
           ELSE GiveUp(c)
        /\ request' = [request EXCEPT ![c] = Tail(@)]
     \/ Broken(c) /\ GiveUp(c) /\ UNCHANGED request
  /\ UNCHANGED <<call, plan, reply, live, services, events, noteVars, quitVars>>

\* Mutant of Write: nothing is written after the first result.
WriteOne(c, k) ==
  serve' = [serve EXCEPT ![c] =
    IF k.n = 1 \/ ServerCases[k.method].results = <<>> THEN Reading ELSE k]

\* What is written next, or the next method is read.
Write(c, k) ==
  serve' = [serve EXCEPT ![c] =
    IF k.n = Len(ServerCases[k.method].results) THEN Reading ELSE k]

Answer(c) == Write(c, [serve[c] EXCEPT !.at = "results", !.n = 0])

\* The method of the manager returns; Quit has steps of its own.
RunMethod(c) ==
  /\ serve[c].at = "run" /\ serve[c].method # "Quit"
  /\ Answer(c)
  /\ UNCHANGED <<clientVars, services, events, noteVars, quitVars>>

\* A write fails when the client's process has ended.
WriteResult(c) ==
  /\ serve[c].at = "results"
  /\ \/ /\ c \in live
        /\ reply' = [reply EXCEPT ![c] = Append(@,
             Value(ServerCases[serve[c].method].results[serve[c].n + 1], serve[c].id))]
        /\ Write(c, [serve[c] EXCEPT !.n = @ + 1])
     \/ c \notin live /\ GiveUp(c) /\ UNCHANGED reply
  /\ UNCHANGED <<call, plan, request, live, services, events, noteVars, quitVars>>

-----------------------------------------------------------------------------
(* Quit: only the first one goes on, and it forgets its client before the  *)
(* manager begins to stop.                                                 *)

Quitting(c) == serve[c].at = "run" /\ serve[c].method = "Quit"

QuitRefused(c) ==
  /\ Quitting(c)
  /\ c \notin Elevated \/ haveQuit
  /\ Answer(c)
  /\ UNCHANGED <<clientVars, services, events, noteVars, quitVars>>

QuitClaimed(c) ==
  /\ Quitting(c)
  /\ c \in Elevated /\ ~haveQuit
  /\ haveQuit' = TRUE
  /\ serve' = [serve EXCEPT ![c].at = "forget"]
  /\ UNCHANGED <<clientVars, services, events, noteVars, quitSent, quitLost, manager>>

\* Mutant of QuitForgets: Quit ends with the process that asked for it.
QuitForgetsOfLive(c) ==
  /\ serve[c].at = "forget"
  /\ events' = events \ {c}
  /\ services' = services \ {c}
  /\ serve' = [serve EXCEPT ![c].at = IF c \in live THEN "uninstall" ELSE "leave"]
  /\ UNCHANGED <<clientVars, noteVars, quitVars>>

QuitForgets(c) ==
  /\ serve[c].at = "forget"
  /\ events' = events \ {c}
  /\ services' = services \ {c}
  /\ serve' = [serve EXCEPT ![c].at = "uninstall"]
  /\ UNCHANGED <<clientVars, noteVars, quitVars>>

\* The tunnels are uninstalled, and the manager's service is told, unless the
\* tunnels cannot be listed.
QuitSends(c) ==
  /\ serve[c].at = "uninstall"
  /\ \/ quitSent' = TRUE /\ UNCHANGED quitLost
     \/ quitLost' = TRUE /\ UNCHANGED quitSent
  /\ Answer(c)
  /\ UNCHANGED <<clientVars, services, events, noteVars, haveQuit, manager>>

-----------------------------------------------------------------------------
(* Notifications: notifyAll starts a goroutine for each client it knows.   *)

\* Notification n goes to the clients of managerServices, or to those of them
\* with an elevated token.
NotifyAll(n, adminOnly) ==
  writers' = writers \cup
    {[to |-> c, note |-> n] : c \in IF adminOnly THEN services \cap Elevated ELSE services}

Notify ==
  /\ manager = "running"
  /\ notes < MaxNotes
  /\ notes' = notes + 1
  /\ \E adminOnly \in BOOLEAN : NotifyAll(notes + 1, adminOnly)
  /\ UNCHANGED <<clientVars, serve, services, events, written, quitVars>>

\* Mutant of WriteEvent: the events pipe of the service is not looked at.
WriteEventAnyway(w) ==
  /\ w \in writers
  /\ writers' = writers \ {w}
  /\ written' = IF w.to \in live THEN [written EXCEPT ![w.to] = @ \cup {w.note}] ELSE written
  /\ UNCHANGED <<clientVars, serve, services, events, notes, quitVars>>

WriteEvent(w) ==
  /\ w \in writers
  /\ writers' = writers \ {w}
  /\ written' = IF w.to \in events \cap live THEN [written EXCEPT ![w.to] = @ \cup {w.note}] ELSE written
  /\ UNCHANGED <<clientVars, serve, services, events, notes, quitVars>>

-----------------------------------------------------------------------------
(* The manager's service stops: it says so, waits a little, and kills the  *)
(* UI processes that are left.                                             *)

Stopping == 0   \* the notification that the manager stops

BeginStop ==
  /\ manager = "running"
  /\ manager' = "stopping"
  /\ NotifyAll(Stopping, FALSE)
  /\ UNCHANGED <<clientVars, serve, services, events, notes, written, haveQuit, quitLost>>

TakeQuit == quitSent /\ BeginStop /\ quitSent' = FALSE

ServiceStop == BeginStop /\ UNCHANGED quitSent

Kill ==
  /\ manager = "stopping"
  /\ manager' = "stopped"
  /\ live' = {}
  /\ call' = [c \in Clients |-> [h \in Threads[c] |-> None]]
  /\ UNCHANGED <<plan, request, reply, serve, services, events, noteVars, haveQuit, quitSent, quitLost>>

ClientStep(c, h) == Encode(c, h) \/ Decode(c, h)

ServeStep(c) ==
  \/ Listen(c) \/ Leave(c)
  \/ ReadMethod(c) \/ ReadArgument(c) \/ RunMethod(c) \/ WriteResult(c)
  \/ QuitRefused(c) \/ QuitClaimed(c) \/ QuitForgets(c) \/ QuitSends(c)

Running == manager # "stopped"

Next ==
  /\ Running
  /\ \/ \E c \in Clients : \E h \in Threads[c] :
          Begin(c, h) \/ ClientStep(c, h)
     \/ \E c \in Clients : Exit(c) \/ ServeStep(c)
     \/ Notify
     \/ \E w \in writers : WriteEvent(w)
     \/ TakeQuit \/ ServiceStop \/ Kill

Spec == Init /\ [][Next]_vars

\* Goroutines and threads that can go on do: the pipes of a live process are
\* read, a method of the manager ends, and the service's loop takes what is
\* sent to it.
Fairness ==
  /\ \A c \in Clients : WF_vars(Running /\ ServeStep(c))
  /\ \A c \in Clients : \A h \in Threads[c] : WF_vars(Running /\ ClientStep(c, h))
  /\ WF_vars(Running /\ TakeQuit)
  /\ WF_vars(Running /\ Kill)

FairSpec == Spec /\ Fairness

-----------------------------------------------------------------------------
(* Properties.                                                             *)

\* The type of the state (the variables of ipc_client.go and ipc_server.go).
TypeOK ==
  /\ \A c \in Clients : call[c] \in [Threads[c] -> Calls \cup {None}]
  /\ \A c \in Clients : plan[c] \in [Threads[c] -> Seq(Methods)]
  /\ \A c \in Clients : serve[c].at \in {"start", "method", "args", "run", "results", "forget",
                                         "uninstall", "leave", "gone"}
  /\ live \subseteq Clients /\ services \subseteq Clients /\ events \subseteq Clients
  /\ \A w \in writers : w.to \in Clients /\ w.note \in 0..MaxNotes
  /\ notes \in 0..MaxNotes /\ written \in [Clients -> SUBSET (0..MaxNotes)]
  /\ services \subseteq {c \in Clients : serve[c].at \notin {"start", "gone"}}
  /\ haveQuit \in BOOLEAN /\ quitSent \in BOOLEAN /\ quitLost \in BOOLEAN
  /\ manager \in {"running", "stopping", "stopped"}

\* The value a thread reads next was written for its own call and has the type
\* it decodes into, however the calls of the threads and the methods without
\* an answer follow each other (rpcMutex, ipc_client.go and ServeConn).
OwnReplies ==
  \A c \in Clients : \A h \in Threads[c] :
    LET k == call[c][h]
    IN  k # None /\ reply[c] # <<>> =>
          reply[c][1].id = k.id /\ Sent(k) /\ Awaits(k) /\ reply[c][1].type = Expected(k)

\* ServeConn never gives up a client that still runs (its returns are for
\* values it cannot decode and methods it does not know).
LiveIsServed == \A c \in live : serve[c].at \notin {"leave", "gone"}

\* A call returns, unless the process that made it is gone: client and manager
\* never wait for each other.
EveryCallReturns ==
  \A c \in Clients : \A h \in Threads[c] : call[c][h] # None ~> call[c][h] = None

\* No notification reaches a client whose Quit is past removing it ("Work
\* around potential race condition of delivering messages to the wrong
\* process", ipc_server.go:273), not even one whose goroutine was started
\* before.
QuitterHearsNothing ==
  [][\A c \in Clients \ services :
       serve[c].at # "start" => written'[c] \subseteq written[c]]_vars

\* The first Quit ends the manager, even if the client that asked for it dies
\* before it is answered, unless the tunnels cannot be listed: then no later
\* one can (ManagerService.Quit).
QuitEnds == haveQuit ~> (manager = "stopped" \/ quitLost)

\* Nobody waits for ever: neither a call, nor the user who has quit.
CallsEnd == EveryCallReturns /\ QuitEnds
=============================================================================
