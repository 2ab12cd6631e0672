# A verification of the AmneziaWG client for Windows

TLA+ modules, TLC runs and TLAPS proofs about the manager service in `src/manager`, the UI
in `src/ui` and what they share: the process that installs and watches tunnel services,
routes traffic by domain name, filters ports and keeps a UI in every session, and the UI
processes that show and change all of it through calls. All line numbers are of this
repository.

## 1. The system

| Part | State it keeps | Operations | Interacts with |
|---|---|---|---|
| Domain routing manager (`domainrouting.go`) | `m.mu` over configuration, bound tunnel, default route, learned routes, saved DNS servers; `domain-routing.json`; marks and networks in the tunnels' own files | `SetMode`, `SetRules`, `SetDNSSettings`, `SetExcludeLoopback`, `SetDisableIPv6`, `ClearAllRoutes`, `OnTunnelStateChange`, `PrepareTunnelConfigForStart`, `decideRoute`, `addRouteForIP`, expiry and repair loops | called by RPCs, trackers, DNS queries and two tickers; calls Windows for routes and DNS |
| DNS proxy (`domainrouting_dnsproxy.go`) | one goroutine for each query, no state of its own | `handleDNSQuery` | takes `m.mu` several times for each query |
| Tunnel services (`install.go`, `ipc_server.go`) | services of Windows | `Start`, `Stop`, `InstallTunnel`, `UninstallTunnel` | called by UI clients; starts trackers |
| Trackers (`tunneltracker.go`) | `trackedTunnels`, one goroutine and one subscription for each service | scan, `trackTunnelService`, `trackService`, callbacks on system threads | tells the managers and clients of state changes |
| Port firewall (`portfirewall.go`) | `m.mu` over mode, rules, active tunnel; `port-firewall.json`; rules in Windows Firewall | `SetRules`, `OnTunnelStateChange`, `init` | called by trackers and RPCs; runs PowerShell |
| UI sessions (`service.go`, `uiprocess.go`) | `procs`, `aliveSessions`, `stoppingManager` | `startProcess` for each session, logon, logoff, stop | Windows sessions and processes |
| IPC (`ipc_server.go`, `ipc_client.go`) | two pipes and a mutex for each client, connected clients, `haveQuit` | RPCs, notifications, `Quit` | UI processes |
| Connections to tunnels (`ipc_uapi.go`) | a map of connections, with a lock of its own and one for each | connect, disconnect, `RuntimeConfig` | tunnel services; all clients |
| DNS log (`dnslog.go`, `ui/dnslogpage.go`) | entries; the page's copy, rows and last count | log, clear, incremental refresh, filter, sort | DNS proxy, UI |
| Local DNS records (`blocklist.go`) | records and their file | set, look up | DNS proxy |
| Ring logger (`ringlogger`, `ui/logpage.go`) | a ring of lines in a file mapped by all processes | write, follow from a cursor, save | every process |
| Updater (`updater`, `updatestate.go`, `ui/ui.go`, `ui/updatepage.go`) | `updateInProgress`, progress channels, temporary file | check, download, verify, install, notify | UI through the manager |
| Tunnel list and tray menu (`ui/listview.go`, `ui/tray.go`, `ui/tunnelspage.go`) | the rows, the menu, a count of suspensions | load, edit, delete, import | notifications; calls from several threads |
| Tunnel view (`ui/confview.go`) | the tunnel shown, its status and configuration, a group for each peer | `SetTunnel`, notifications, a ticker | calls from three kinds of goroutines |
| Editor (`ui/editdialog.go`, `ui/syntax`) | the text, what it means for the box and the buttons | type, tick, save; highlight | stored tunnels |
| Routing page (`ui/domainroutingpage.go`) | controls, status | load, set mode, tick, apply | manager, other sessions' pages |

What is hard to get right is where these parts meet:

- every operation of the domain routing manager is atomic under its lock, but a query
  takes the lock four or more times and uses what it read before; trackers change
  `trackedTunnels` under another lock and call the managers without it;
- what the manager does to routes, adapters, files and the firewall outlives what it
  remembers;
- Windows refuses, undoes or delays any of it: routes are lost when the machine sleeps,
  adapters go with their service, a deleted service stays while one handle is open;
- a pipe carries bare values: client and server agree on where a call ends, or all later
  calls of the process are wrong;
- the UI asks in goroutines and shows the answers later, on its own thread, in whatever
  order they come; notifications overtake one another;
- two clients, callbacks of the system, session changes and the start-up of the manager
  itself run at the same time.

Correct means: **domain routing** — whatever was added or redirected is on the books and
is taken back, settings are respected, and the tunnels' files come back to what their user
wrote; **DNS proxy** — every query is answered, and by its mode's rule; **tunnel services**
— each running service is tracked, no tracker outlives its service's name, no deleted
service is held up, tunnels that intersect do not run together; **port firewall** — the
active tunnel's blocked ports are the ones the settings mean; **sessions** — a logged-on
user has a UI, a logged-off one no goroutine, and the service can stop; **IPC** — a call
gets its own answer and returns, `Quit` ends the manager; **connections** — none is lost or
closed under a call, and nobody waits for ever; **log** — a reader sees every line once and
in order; **updater** — only newer, authentic versions, and every update ends; **pages** —
they show what is or was so, and come to show what is. The hazards, each at its line, are in
`PROJECT.json`.

## 2. The modules

### The manager

`DomainRouting` is the core. An exported method, which holds `m.mu` from start to end, is
one action under the method's name; the unexported `...Locked` methods are operators that
these actions are made of. `cfg` stands for `m.config`, `m.mode`, `m.listMode`, `m.rules`
and `m.routeTunnel`, always assigned together; `file` and `fileNewer` for
`domain-routing.json` and its time stamp; `routeEntries`, `activeTunnel`, `tunDNSState` and
`defaultDNSState` for the fields of that name. `dns` and `sysRoutes` are what Windows has:
the servers of each adapter, abstracted to its own, none, or 127.0.0.1, and the /32 routes.
The manager's own route, for 127.0.0.1 over the loopback adapter, is a flag of the manager
(`loopbackRouteAdded`) and one of Windows (`loopbackThere`); whether the option for it is set
when a tunnel is bound is a choice of the constant `LoopbackInputs`.
Times to live become "expires at some time"; domain matching becomes membership. A state
change is recorded in `tracked` by one step (`Track`) and delivered by another
(`OnTunnelStarted`, `OnTunnelStopped`), as in `tunneltracker.go` 246-252.

What can go wrong is a value of the constant `Faults`: a save, a DNS change, an added or
deleted route that fails, a route that Windows drops, no default route, a busy port, a file
that another program edits, a tunnel that is reported before the start-up, a crash. Each run
and each theorem names the faults its properties survive.

`DnsProxy` extends it with the queries: `Receive`, `Decide`, `ReadMode`, `Exchange`,
`CheckTunnel`, `AddRoute` for each address and `Reply` are the critical sections of
`handleDNSQuery`, in its order, with everything else in between. `ManagerSpec` is
`DomainRouting`'s specification, seen through the proxy's variables (the refinement is the
identity on `vars`): the proxy uses the manager only through its operations.

`TunnelConfigs` is the other side of the settings: what they make of the stored
configurations. The default route becomes thirty-two networks without 127.0.0.1 and comes
back (`ExcludeLoopback`, `RestoreLoopback`), IPv6 is taken out at a start, and the selected
tunnel is marked with `Table = off` until another one is (`Sync`, in which `Mark` is for the new
one). Each load and save of a file is a step; the user edits and deletes the same files; the
settings are saved after the files. Every load and save may fail, and what was assigned before
the error stays assigned, as in the code. The networks are seven: four say which of the two
forms of the default route is there, whole or in part; `Inputs` are the lists that users
write. The constant `Disturbances` has these failures and what nothing in the code prevents
(see section 6). `excused` has the files that need not follow the setting, because they were
edited since or could not be loaded or saved, and `stranded` the tunnels of whose mark the
settings have lost track.

`TunnelServices` has the service control manager (a service, its mark for deletion, its open
handles and undelivered notifications), `InstallTunnel`, `UninstallTunnel`, `Start` and its
goroutine, the scan, and trackers with the two threads on which a callback may run. A
callback is two steps, `Compare` (which enters the state in `trackedTunnels`) and `Report`
(listeners, `lastState`); the deferred calls of `trackTunnelService` are two more, `Unlist`
and `CloseService`.

`PortRanges` is the arithmetic: normalising, sorting, merging, complementing, the loops as
recursive functions, beside a reference in sets of ports. `PortFirewall` is the manager on top
of it, with scripts that fail in part (`Remains`). `UISessions` has `managerService.Execute` as a thread and
`startProcess` as one goroutine for each session. Every call of Windows in it may fail, which
ends the goroutine (`GiveUp`).

### Between the processes

`ManagerIpc` has the pipes as sequences of values, each of a Go type and of a call. Two
tables, `ClientCalls` from `ipc_client.go` and `ServerCases` from `ServeConn`, say for each
of the thirty-odd methods what is written and read. That they are the same is an assumption
without parameters, which TLC evaluates (`SameMethods`); that calls of several threads do not
mix is a property of the mutex. A call, the serving of one, a notification and `Quit` go on in
steps, and clients die.

`TunnelPipes` has the readers-writer lock of the map and the mutexes of the connections,
with Go's rule that a waiting writer keeps new readers out, and tunnels that end and come
back. `RingLog` has the writer's atomic operations as steps and a reader that copies line
by line; a line is the number of its write. `Updater` has the goroutine of an update, its
channel of limited capacity and the goroutine that empties it, and UI processes that
register, ask and are notified in any order; versions are sequences of numbers.

### The pages

`Mirror` is what a view promises: it shows a value that its thing has or had, turns to no
thing but the chosen one, and comes to show the value there is. It is the abstract
specification of the status line and the configuration of `ConfView`, of list and menu of
`TunnelsPage` and of the page of `DnsLog`: each instantiates it with a refinement mapping,
and the instance's `Spec` is the property.

`ConfView` has the events goroutine, the ticker and a goroutine for each `SetTunnel`, which
ask and then post to the UI thread. `PeerViews` is the part of `setTunnel` that finds a group
for each peer: one step, with the order of Go's maps left open. `TunnelsPage` has the array
behind the slice of rows, since a pointer into it is kept while rows move (`Capacity` is what
`append` makes of a slice's length: any function that is at least that); loads that read on
one thread and change rows on another; edits, deletions and imports. `RoutingPage` has a
value for each kind of setting. `EditDialog` has a text as what the program asks of it: a key,
allowed IPs, the number of peers, `Table = off`, errors.

`Highlighter` reads a text of tokens and colours it; `Grammar`, a reference in another style
(lines, pieces, trimmed pieces), says what the colours are to be. `AddressText` has
`isValidIPv6` character by character with a recursive operator beside the grammar of
addresses: groups, one gap, at most eight.

### Proofs and instances

`ProcessParts` and `SettingsParts` put components that share no state into one
specification: `RingLog`, `Updater`, `UISessions` and `TunnelPipes` into the first,
`PeerViews`, `TunnelConfigs` and `PortFirewall` into the second. The initial state picks a
part, only that part takes steps, and the others stay where they began. A behaviour of such a
sum is a behaviour of a part, all parts are explored completely, and nothing interleaves that
could not: it is the sum of the models, not their product. What is proved of the sum is proved
of each part, by an invariant of that part alone. `UIParts` extends `SettingsParts` in the
same way, with the windows that share no state: `ConfView`, `EditDialog`, `RoutingPage` and
`DnsLog`.

Modules `MC...` hold values of constants for TLC. `MCProcesses` and `MCSettings` are the
instances of the sums: they add the fairness of each part while it is the one that runs, the
restriction that the parts that do not run are in one initial state (`OthersRest`), and, in
`MCSettings`, two further parts that no proof is about, `Highlighter` and `AddressText`.
(`Others` names all parts but those of `SettingsParts`.) `TunnelConfigs` is its own instance
in `TC_v6`.

Proofs are in `DomainRoutingProofs`, `DnsProxyProofs`, `TunnelServicesProofs`,
`ManagerIpcProofs`, `ProcessPartsProofs`, `TunnelsPageProofs`, `SettingsPartsProofs` and
`UIPartsProofs`.

## 3. The runs

| Run | Instance | Shows |
|---|---|---|
| `DR_live` | 2 tunnels, 1 adapter, 1 address, two rule lists, all four modes, the loopback option on and off, the six faults that change nothing behind the manager's back | `RoutesOnBooks`, `RedirectionKept`, `ActiveIsStarted`, `SettingsHold`, and with fairness `TunnelsLetGo` |
| `DP_live` | 1 query, 2 domains that share one of 2 addresses, 1 tunnel, block and direct rules, two modes; refused routes, no default route, crashes, edits of the file | `RouteErrorsDecideReply`, `EveryQueryEnds`, `ManagerSpec` |
| `TS_track` | 1 tunnel, 2 clients, 2 pending calls of `trackTunnelService`, 1 stopping goroutine | `TrackedServiceStays`, `RunningIsTracked`, `DeletedServiceGoes` |
| `IPC_calls` | 2 clients, one of 2 threads, a pair of calls of every shape or three `Quit`s, 1 notification | `OwnReplies`, `LiveIsServed`, `CallsEnd`, `QuitterHearsNothing` |
| `TL_lists` | 2 names, 2 inputs of the user and other sessions, an import of two files | `ListsMirror`: `MenuMirrors` and `ListMirrors` |
| `ST_parts` | nine parts: `ConfView` (2 tunnels, 2 inputs), `PeerViews` (3 keys, 2 peers), `EditDialog`, `Highlighter` (3 tokens after 3 beginnings), `AddressText` (17 tokens), `RoutingPage` (2 values, 3 goroutines, 2 inputs), `DnsLog` (4 entries, 4 inputs), `TunnelConfigs` (2 tunnels, 4 inputs, a list with the default route and two with parts of its replacement, failing loads and saves), `PortFirewall` (2 tunnels, 5 ports, failing scripts and saves, crashes) | `ViewMirrors`, `PeersShown`, `TickMeansBlocked`, `TextsRead`, `RoutingPageFollows`, `PageMirrors`, `TableOffComesBack`, `ConfigsFollow`, `ListedPortsOnly`, `SettingsOfTheActive`; and the range arithmetic on every sequence of up to 3 ranges |
| `OS_parts` | four parts: `RingLog` (3 lines, 4 writes, 2 at a time), `Updater` (2 updates, 5 lists of versions, channel of 2), `UISessions` (2 sessions), `TunnelPipes` (2 callers) | `LogInOrder`, `LogFollowed`, `InstallsNewer`, `UpdateComes`, `AliveIsServed`, `SessionsGoOn`, `PipesServe` |
| `DR_rules`, `DP_strict`, `TS_both`, `TL_edit`, `TC_v6` | small instances | the findings of section 5 |

Each also checks the type invariant of its modules. A property of a sum module names those
of the parts it is made of, and several are conjunctions of what belongs together: the named
parts are defined, each with its comment, in the component's module. Every definition whose
comment says "Mutant of" is a plausible bug, and TLC finds a property of a run violated with
it; `PROJECT.json` lists one for each property.

Why the bounds are enough. Two tunnels give every handover: fallback, refused report,
selected and other, mark here and mark there. One address suffices for the books, because
entries of different addresses never meet; two are needed where several answers of one query
do (`DP_*`). Two clients and two pending trackers give every overlap of an installation with
another and with the scan for one service name. Three ranges over five ports contain every
way in which two ranges can touch a third, with both ends of the port space. Four inputs are
a mode, two selections and a start: enough for a mark that cannot be taken back and is then
forgotten. Calls between client and server are of six shapes (argument or not, result or not, error or not), and two
threads with one call each give all the ways in which two calls can mix, in both orders. A
ring of three lines and two writers laps itself. The highlighter's decisions look at one
token and at the last one that was not a blank. An address of eight groups and a gap has
seventeen tokens. Two sessions show that one does not disturb the other. Counters of inputs
are bounded in their guards, and named.

Two properties speak of one session or caller instead of all (`SessionsGoOn`, `PipesServe`):
the module treats them alike. Symmetry is used only in runs without temporal properties.
Deadlock is not checked where the system may rest (settings unchanged, no tunnel running,
service stopped): the liveness properties say what must not rest.

Fairness. Trackers, goroutines, the UI's thread and the system's threads are scheduled, so
their steps are weakly fair: `OnTunnel...` and `Track` for each tunnel; a query's step,
because `m.mu` is never held while waiting and an exchange has a timeout; every step of a
tracker, of `InstallTunnel` and of the stopping goroutine; a service that is starting or
stopping gets done; the two sides of a call; the goroutines of an update and of a page; the
tickers; Windows ends the processes of a session that logged off. Who waits for a lock of
Go gets it (strong fairness of `Step` in `TunnelPipes`): a mutex that has been waited for
longer than a millisecond is handed to the first in the queue. Users, settings, services
that run, notifications that nobody caused, and faults are never fair.

Some properties say `[]<>` or `<>[]` where "leads to" would be meant. Where the condition, once
true, stays so until the consequence, they are the same, and TLC checks them faster.

## 4. What is proved

| Theorem | Statement | Left out |
|---|---|---|
| `DomainRoutingProofs!TypeCorrect` | `Spec => []TypeOK` | nothing |
| `DomainRoutingProofs!RoutesFollowBinding` | no route of an earlier binding is on the books | nothing |
| `DomainRoutingProofs!NoRouteLeftBehind` | every /32 route in the system table is on the books | `deleteFails`, `crash` |
| `DomainRoutingProofs!RoutesAreOnBooks` | both, and the manager's route for 127.0.0.1 is there only on record and with a tunnel bound, as the run `DR_live` checks it (`RoutesOnBooks`) | `deleteFails`, `crash` |
| `DomainRoutingProofs!BoundTunnelRuns` | the bound tunnel is tracked as started, or its stop is about to be reported (`ActiveIsStarted`) | nothing |
| `DomainRoutingProofs!RedirectionOnRecord` | a redirected adapter has a saved state | `restoreFails`, `crash` |
| `DomainRoutingProofs!RedirectionIsServed` | DNS is redirected only with a proxy and a bound tunnel | `restoreFails`, `crash` |
| `DomainRoutingProofs!RedirectionIsKept` | both, as `DR_live` checks them (`RedirectionKept`) | `restoreFails`, `crash` |
| `DomainRoutingProofs!OnlySelectedIsBound` | with a tunnel selected, no other one is bound | `fileEdit`, `earlyNotify` |
| `DomainRoutingProofs!OffMeansOff` | in mode off no route is kept and nothing is redirected | `fileEdit`, `saveFails`, `restoreFails`, `crash` |
| `DomainRoutingProofs!ServersAreKept` | no redirection loses an adapter's DNS server | `dnsReadFails`, `restoreFails`, `crash` |
| `DomainRoutingProofs!SettingsAreRespected` | the last three, as `DR_live` checks them (`SettingsHold`) | all of the last three |
| `DnsProxyProofs!ProxyTypeCorrect` | manager and queries are of their types | nothing |
| `DnsProxyProofs!ProxyImplementsManager` | the proxy is the manager with its operations called by queries (`ManagerSpec`) | nothing |
| `DnsProxyProofs!RouteErrorsDecide` | a query fails for its routes exactly in strict mode with an address refused | nothing |
| `DnsProxyProofs!RoutesFollowBindingWithQueries` | `RoutesFollowBinding` holds under queries | nothing |
| `TunnelServicesProofs!TypeCorrect` | services, handles, trackers and requests are of their types (`TypeOK`) | nothing |
| `TunnelServicesProofs!ServiceStays` | no service goes under its tracker or who is about to track it (`TrackedServiceStays`) | nothing |
| `ManagerIpcProofs!TypeCorrect` | pipes, calls and servers are of their types (`TypeOK`) | nothing |
| `ManagerIpcProofs!RepliesAreOwn` | what a thread decodes was written for its call, and is of the type it expects (`OwnReplies`) | nothing |
| `ManagerIpcProofs!LiveAreServed` | the server gives up no client that lives (`LiveIsServed`) | nothing |
| `ManagerIpcProofs!ForgottenHearNothing` | nothing is written to a client that has quit, an action property (`QuitterHearsNothing`) | nothing |
| `ProcessPartsProofs!PipesAreKept` | no connection is lost, closed under a call or used by two (`PipesKept`) | nothing |
| `ProcessPartsProofs!PartsTyped` | the types of log, updates, sessions and connections (`TypeOK`), with: no two writers have one index, one update at most goes on, its channel is not overfilled | nothing |
| `ProcessPartsProofs!ServedAreAlive` | a session marked as served has its goroutine (`AliveIsServed`) | nothing |
| `ProcessPartsProofs!OneGoroutineEach` | `startProcess` starts only for a session no goroutine runs it for, an action property | nothing |
| `ProcessPartsProofs!NewerIsInstalled` | only a listed, authentic version is installed, and one greater in the first part that differs (`InstallsNewer`) | nothing |
| `SettingsPartsProofs!PartsTyped` | the types of groups, configurations and rules (`TypeOK`) | nothing |
| `SettingsPartsProofs!RangesMeanTheRules` | the ranges to block are the ports the mode means, for any rules | nothing |
| `SettingsPartsProofs!BlockedAsListed` | the blocked ports of the active tunnel are those of the settings, unless the last script failed (`ListedPortsOnly`) | `earlyReport` |
| `SettingsPartsProofs!SavedAndReported` | the saved settings are those in force, unless the last save failed; the active tunnel was reported (`SettingsOfTheActive`) | nothing |
| `SettingsPartsProofs!TablesComeBack` | a tunnel that is not managed has its user's table, unless the settings have lost track of it (`TableOffComesBack`) | `torn`, `delete` |
| `SettingsPartsProofs!NoneIsStranded` | they lose track of none | all but `overlap` |
| `SettingsPartsProofs!NetworksStay` | rewriting the default route, or what the code takes for it, loses and adds no network in lists without ::/0 (the first half of `ConfigsFollow`) | `torn` |
| `SettingsPartsProofs!RoutesFollow` | and files that nobody edited, and that were loaded and saved, follow the setting (`ConfigsFollow`) | `torn`, `overlap`, `crash` |
| `SettingsPartsProofs!PeersAreShown` | the groups shown are those of the peers (`PeersShown`) | nothing |
| `ProcessPartsProofs!LinesAreInOrder` | the page shows, and a file has, consecutive lines, each once and whole, unless a named race met them (`LogInOrder`) | nothing |
| `TunnelsPageProofs!TypeCorrect` | the rows are sorted, none is there twice, loads and notifications are of their types (`TypeOK`) | nothing |
| `TunnelsPageProofs!ListIsAMirror` | the list shows what there is or was: the safety half of `ListMirrors` | nothing |
| `TunnelsPageProofs!MenuIsAMirror` | and so does the tray's menu: that of `MenuMirrors` | nothing |
| `UIPartsProofs!StatusIsAMirror` | the status line turns to the selected tunnel only, and shows a state it has or had: the safety half of `StatusMirrors` | nothing |
| `UIPartsProofs!ConfigIsAMirror` | and so does the configuration: that of `ConfigMirrors` | nothing |
| `UIPartsProofs!TicksAreSafe` | a tick of the box changes no route, and the box is true after it (`TickMeansBlocked`) | nothing |
| `UIPartsProofs!OneSaveAtATime` | the routing page's controls are disabled exactly while one save is under way, the first part of `RoutingPageFollows` | nothing |
| `UIPartsProofs!PageIsAMirror` | the page of the DNS log shows entries that the log has had together, except from another window's clearing to the next full load: the safety half of `PageMirrors` | nothing |

The last column has the faults (of `Faults`; of `Disturbances` for `TunnelConfigs`) that a
theorem excludes; every other one may happen at any time. Each excluded fault is a real
counterexample (but for `torn` in `NoneIsStranded`, whose proof only rests on a layer that
needs it excluded): with it alone added to an instance TLC finds the property violated (for the
selected tunnel and for mode off with an edited file, the instance's files must name a tunnel
and be off). The theorems hold for every set of
tunnels, adapters, addresses, rules, queries, clients, threads, sessions, updates, versions,
callers, connections, peers, ports, keys, queries and lines, and for every bound. What is
assumed of the constants is `ConstantsAssumption` of `DomainRouting` and of the two sums, and
`WindowsAssumption` of `UIParts` (these conjoin the assumptions of the components),
`ResolvesAssumption`, `TunnelsAssumption`, `IpcAssumption`, `SameMethods`,
`TunnelPipesAssumption` and `TunnelsPageAssumption`: the inputs are of their types, names that stand
beside each other differ, bounds are numbers. TLC evaluates each in a run.

The arguments:

- *Types of the manager.* By cases of `Next`, one lemma for each group of actions; the
  operators `Deactivate`, `Activate`, `ApplyMode` have lemmas of their own.
- *Routes.* Every step treats the books in one of a few ways (`StepKinds`): it clears
  them, leaves them while routes may go, lets entries expire, repairs them, adds one, or is
  a crash. `RoutesOfBinding` and `NoOrphanRoutes` are each inductive beside the type
  invariant, because an entry is made and added to Windows under one lock, and because a
  change of binding always clears. `LoopbackOnBooks` is inductive alone: the manager's own
  route is added after the old one was taken back, and both under the lock of the binding.
- *The bound tunnel.* `ActiveIsStarted` alone is not inductive: a report might come when it
  is no longer true. `ActiveInv` adds `NoteMatches`: what is about to be reported of a
  tunnel is what it is tracked as.
- *Redirection.* `RedirectInv` joins the two halves: what is restored must be on record for
  the redirection to end, and `RestoreClears` says that restoring without failure leaves no
  adapter redirected.
- *Settings.* `SelectedInv` adds to `SelectedTunnelOnly`, and `OffInv` to `OffIsClean`, that
  the file is not newer than what was read, and that before the start-up there is no setting
  to violate. `OffInv` needs `RedirectInv`, for what a restore leaves. `ServersInv` adds to
  `DNSNotLost` that the default adapter's servers on record are its own. The three are proved
  apart, each under the faults it survives.
- *Queries.* `QueryInv` says for each place in `handleDNSQuery` what its local variables
  mean; `RouteErrorsDecideReply` is its last clause. The implementation follows step by step.
- *Services.* A service goes only when its last handle closes, so that what must be known is
  who holds one. `TrackerHolds` says it of a tracker from its first step to its last,
  `StarterHolds` of a goroutine between `CreateService` or `OpenService` and the tracker;
  `CallsOfSubscribed` says that callbacks run only while the tracker is subscribed, so that
  none enters a tunnel in `trackedTunnels` after `Unlist`.
- *Calls.* The pipe from a client is a word of a language: a function of `Parses` gives each
  value its method and its number in the call, and `ParsedBy` says that the values follow one
  another as the calls do. `Sync` relates it to the place at which the server reads and to
  the thread that calls: while there is something to read nothing is answered, and when there
  is nothing, either no thread calls or one of them waits, with exactly the values in the
  answer pipe that it has yet to read (`Waits`, `Answered`). With several threads only the
  mutex makes that true (`CallsRight`). `ServeRight` keeps the server inside its table's entry,
  and `EventsOfServices` says that the pipe of notifications goes with the client's entry.
- *Connections.* `PipesKept` is inductive with the types of the calls: a connection that a
  call uses has an owner, the owner's place in the call says whether it is in the map, and
  only who holds the lock of the map for writing takes one out.
- *Sessions.* `GoroutinesThere` places the goroutine of a session that is marked or has a
  process. That none starts where one runs needs the session changes on their way too: of one
  session, a logon comes before its logoff and once (`EventsInOrder`), so that a goroutine
  that goes on although its session is not marked any more has no logon to come
  (`OldGoroutines`).
- *Updates.* `UpdatesInv` says what is known of an update's version at each place in
  `DownloadVerifyAndExecute` (`Checked`), and that one at most goes on (`OneGoing`). `versionNewerThanUs` goes through two versions
  part by part: its result is read off the first part that differs.
- *The log.* Writers hold different indices, none above `nextIndex`, and so do the lines
  and their copies (`RingInv`). For the order: of the last writes, as many as there are
  places, each is in its own place unless it is still being written; what a copy of the ring
  has of them is what was there when it passed; the page and the file take from a copy runs of
  such lines. That two writes share a place only when a multiple of the ring's size is between
  them is arithmetic of remainders, with lemmas of its own.
- *Ports.* Merging keeps the union of the ranges and makes their ends increase with a gap
  between (`RangesMeanTheRules` and the lemmas before it); complementing a sequence like
  that takes each gap. `RulesInv` then says which ranges the firewall has, for each outcome
  of the last script.
- *Configurations.* `FilesInv` has three layers. As long as no file changes between a load
  and its save, one at a time is on its way (`OneHeld`) and its networks are the user's or
  the rewritten ones (`NetsKept`, for any lists: what the code takes for the default route is
  the same before and after). Where also the managed tunnel is not deleted, only a managed
  or a stranded tunnel is marked (`ManagedIs`), and what the user's table was can be told from
  the mark (`TablesKept`), through failures and restarts. Where there is one goroutine and
  no restart in the middle, it does what is set (`OneJob`) and is there while a file that is not
  excused does not follow (`FollowedUp`). The layers need nothing of each other, so that each
  disturbance is excluded only where it does harm. `Tracked` says that without failures a
  tunnel is only managed while it is selected, so that no start records another one over it.
- *Peers.* In the loop of `setTunnel` over the peers of the new configuration, after n of
  them: map and groups match each other (`Matched`), the groups show the first n peers
  (`ShowFirst`), the groups still to be reused are of no peer so far (`AdminLoop`; `OneLoop`
  for a limited user, whose peers all have one key).
- *Rows.* The array behind the list and the slice of it are kept apart, since pointers go
  to the first. `RowsKept` says that the slice is sorted and has no tunnel twice, through
  binary search, insertion, deletion and the growth of the array; `HistoryKept` that every
  list on its way to the page is one that there was. What each goroutine holds between its
  call and its post is of its type (`ListenerTyped`, `PostsTyped`, `EditTyped`, `JobTyped`).
  The steps of the page then map to those of `Mirror`, one by one.
- *The view of a tunnel.* `ViewInv`: whatever is on its way to the view, with a goroutine
  that has asked, in a notification or posted to the UI's thread, is of a tunnel and says what
  that tunnel has or had. Nothing is said of the order, which may be any. A step then does one
  of a few things to each of the two mirrors (`Changed`, `Turned`, `Blanked`, `Ran`).
- *The dialog.* Blocking writes the halves of a default route in place of the whole and
  unblocking the reverse; both cover the same routes (`Cover`), by cases of the two families.
  The box is what the text is evaluated to after each change.
- *The DNS log's page.* `CopyKept`: while no other window has cleared the log, the page's
  copy is entries that the log had together, it has the first `known` of those there are, and
  a count that was read is not too large. So what `GetEntriesSinceIndex` returns completes the
  copy, even if more was logged between the two calls. This is of the set of entries: some may
  be added twice (`OnlyNewAdded`, section 5).
- *The routing page.* `OneSave` counts the goroutines that save by what they are (`Saves`);
  a goroutine only ever turns into one that does not, and a new one that does begins with a
  click that the controls allow once.

*Loops.* The loops over rules, ranges, parts of versions and peers are recursive functions.
That such a function is what its equation says, and what holds after n rounds, is proved with
the principle of the least number, which follows from `NatLessThanWellFounded` for one set at
a time (`LeastOf` in the proof modules): the set of rounds where the statement fails has a
least member, and the round before it gives the contradiction. No operator is passed to a
library's theorem.

Only model-checked: everything under fairness (`TunnelsLetGo`, `EveryQueryEnds`,
`RunningIsTracked`, `DeletedServiceGoes`, `CallsEnd`, that the mirrors and the routing page
come to show what there is, `CallReturns` of `PipesServe` and the rest), which is out of the
prover's reach; `TextsRead`, because the text of addresses is read by a recursive operator, and
the highlighter's coloring is a fold whose reference is in another style; and the rows of the
DNS log's page (`TypeOK` of `DnsLog`), which are sorted by a recursive operator of a library.
`IntersectingStopped` and
the other properties of section 5 are false.


## 5. Where code and text disagree

Five runs expect a violation.

- `DR_rules`: "Flush previously learned routes so the new rules apply immediately"
  (`domainrouting.go:524`). `SetRules` does not apply the mode: with no effective rules at
  the time of binding, DNS was not redirected, and the new rules see no query.
- `DP_strict`: "Routes are added for matching domains. If route cannot be added, DNS query
  fails." (`ui/domainroutingpage.go:147`). A known route that was lost and cannot be added
  again is only logged, and the query answered.
- `TS_both`: "Figure out which tunnels have intersecting addresses/routes and stop those."
  (`ipc_server.go:118`). Two starts at a time each look before the other's tunnel is listed.
- `TL_edit`: "Edit &selected tunnel…" (`ui/tunnelspage.go:265`). The pointer that
  `CurrentTunnel` returns is to a row of the model's slice; after the dialog it may hold
  another tunnel, which is deleted.
- `TC_v6`: the comments of `domainrouting.go:1409` and 1420 say that 0.0.0.0/0 is replaced.
  The test is true of `::/0` as well, which is replaced by networks of IPv4.

Statements of the same kind that have a definition in their module, and a counterexample
when it is checked, but no run:

- `RestoredFromPattern` (`TunnelConfigs`): "hasLoopbackExcludedPattern checks whether the list
  contains our pattern for excluding loopback" (`domainrouting.go:1465`, in Russian). It looks
  for two of the thirty-two networks (1466-1480): a list of a user's own that has 0.0.0.0/2
  and 128.0.0.0/1 and not the rest is widened to 0.0.0.0/0 when the option is switched off.
  With the input `{"lan", "low", "high"}` TLC finds it in three steps of one tunnel.
- `SelectedIsBound` (`DomainRouting`): "Choose which tunnel should receive filtered domain
  traffic" (`ui/domainroutingpage.go:252`). Selecting a tunnel that runs binds it only if
  another one is bound (`SetDNSSettings`, 567); else it waits for its next start.
- `OnlyClicked` (`RoutingPage`): a load that sets a check box calls its handler, which sends
  what was read back to the manager.
- `OnlyNewAdded` (`DnsLog`): "Only new entries are added" (`ui/dnslogpage.go:496`, in
  Russian). The count is read before the entries: one that is logged between the two calls
  is added now and again with the next ones.
- `CanTryAgain` (`Updater`): "Please try again" (`ui/updatepage.go:105`). The button
  stays hidden when an "activity" is shown after the "error" it overtook, and when a click
  comes before the failed update has given back its flag, and so is ignored.
- `TickedEngages` (`EditDialog`): the tooltip of the box (`ui/editdialog.go:133`) describes
  when untunnelled traffic is blocked; the box stays ticked when `Table = off` is typed, of
  which nothing is published.
- `ListedPortsOnly` (`PortFirewall`) with the fault `earlyReport`: trackers start before the
  firewall's settings are loaded (`service.go` 65 and 76), and a report that comes between
  is used up with mode off.

## 6. What is assumed

- The service control manager does what its documentation says: a service marked for
  deletion goes when its last handle closes, notifications are in order for one
  subscription, and a callback runs on a thread of the pool.
- Reports of one tunnel reach `DomainRouting` and `PortFirewall` in order. `TunnelServices`
  shows that the two threads of a tracker can report out of order; the three are not composed.
- `InstallTunnel`'s wait for the old service (four seconds) may end at any time; entries of
  routes expire at any time; a session's number is not used again while its goroutine runs.
- A PowerShell script that fails leaves any prefix of what it was to change (`Remains`).
- `TunnelConfigs` runs with loads and saves that fail (`fileFails`, `saveFails`), and without
  the other `Disturbances`: a file that changes between a load and its save (`torn`), two
  updates of all files at a time (`overlap`), a crash in the middle of one (`crash`), the
  deletion of the selected tunnel (`delete`). Each can really happen, and with each TLC finds
  that `TableOffComesBack` or `ConfigsFollow` is violated, but for what section 4 says is
  survived.
- `TableOffComesBack` exempts the tunnels in `stranded`. A tunnel gets there in two ways, and
  keeps the mark until its user edits it. If it cannot be restored
  (`domainrouting.go:1017-1019`: `Sync` returns with the old tunnel still managed), the start of
  the tunnel selected now (994-996) overwrites the one that is managed and the original value.
  If the settings could not be saved, or not before a crash, a restart loads the older ones,
  of another tunnel.
  Both are behaviours of the code that no text excludes; the property says that there is no
  third way, and `NoneIsStranded` that without failures and crashes there is none.
- `ConfigsFollow` says nothing of a file while it is in `excused`: of one that could not be
  loaded or saved (449, 458) nothing tries again until the setting changes.
- What a stored list with a part of the pattern means is what the code takes it for: two
  networks stand for the default route (`Default`). So `ConfigsFollow` does not say that a
  user's list with those two and not the rest keeps its meaning: `RestoredFromPattern` does,
  and is violated (section 5).
- A save of a configuration that fails leaves its file as it was (`conf`, which does it, is not
  in this repository).
- Windows does not take away the manager's route for 127.0.0.1 by itself.
- The tracker's wait for a service to leave its stopped state, four seconds
  (`tunneltracker.go:197`), outlasts the start of a new service by the client that has just
  created it (`PollEnds`).
- In `UISessions` a call of Windows that fails (`service.go` 95-155, 179-199, 204-232) ends the
  goroutine of its session, which then has no UI until its next logon. `UIComesBack`
  says so (`failed`): a UI that ended comes back, unless such a call failed since. A
  failing `proc.Wait` (239), after which a second UI would be launched, is left out.
- `StopEnds` says that the stop waits for nothing but the UI of a user who is logged on, whose
  goroutine was between its look at `stoppingManager` and the entry in `procs` when the
  processes were killed. This wait itself is what the code does (`service.go:348`).
- `PeerViews` is given an administrator's configurations with one peer to a key.
- The routing page's calls succeed, but for saves: the defaults that it shows for what could
  not be read (`ui/domainroutingpage.go:514-548`) are left out. So is a failing
  `IPCClientTunnels` in the list and the menu (`ui/listview.go:218`, `ui/tray.go:186`), which
  leaves them as they are until the next notification.
- No writer of the log dies between adding to `nextIndex` and its stamp. The place of one that
  does keeps an old line, which the page shows again, or an empty one, at which the page waits
  until the ring has gone round.
- An update's goroutine is started directly. `DownloadVerifyAndExecute` starts it as another
  user, which may fail (`updater/downloader.go:185-194`), only without a token: from the
  command line (`main.go:298`) and in a test, not for the manager (`ipc_server.go:303`).
- `FromWgQuick`, whose source is not in this repository, refuses what the highlighter marks
  and a text without a private key (`Parses` in `EditDialog`).
- Pointers to tunnels are names in `ConfView`. `TunnelsPage` keeps them as positions.
- Notifications are not given up: the deadline of a second for their write
  (`ipc_server.go:697`) is in no module. In `ManagerIpc` a client that lives reads its events.
- `TunnelPipes` has one tunnel: the map has one lock, and connections of different tunnels
  meet nowhere else. After a read that timed out the connection stays in the map, so that a
  late answer is read by the next call; what an answer says is not modelled.
- `Delete` of `TunnelsPage` takes any rows there are when the question is answered. `onDelete`
  keeps the selected indices over the question and reads the rows after it
  (`ui/tunnelspage.go:538`): rows that moved in between are among those the model takes; an
  index that is beyond them by then would panic, and the model does not show that.
- `PageMirrors` says nothing of the time between another window's clearing of the log and
  the next full load: the page learns of it only by the count.
- Users, files and Windows are free: every setting at any time, within the inputs' bounds.

## 7. What is not modelled

Not modelled, because there is no state to explore or it is outside Go: elevation, service
names and registry, localisation (generated), the program's entry, the installer in C, build
scripts, layout and drawing of windows, file dialogs, and what HTTP, signatures and the MSI
do beyond success and failure.

Not modelled, although it is code of this repository:

- Local DNS records (`blocklist.go`): a list behind one lock, saved as a whole; a query of
  `DnsProxy` may be answered at once for one. `LookupLocalDNS` (125-142) returns the first
  record whose domain is the name or a suffix of it: a general record hides a more specific
  one that comes later.
- The pages for DNS records and ports, which send what they are told; a box of the first is
  read by nobody, and the second does not say that something is unsaved.
- Which upstream server a query goes to, and the dialers: `Exchange` is an answer or none.
- Refusals to limited users: `ServeConn` refuses some methods without the elevated token;
  the methods for routing and ports are not among them.
- The Windows 7 path of trackers, `WaitForStop` and `Delete` of services, disabled services.
- Of the highlighter: the values whose check is one call, and `highlightASecConfig`. Its
  `DNS` span accepts `a,,b`, which the parser refuses; `SpansAreGrammar` is about spans and
  does not say that the two agree.
- Parsing of domain lists, and that a domain matches a rule's suffix.
- `removeAllowedIPRoutesForConfigLocked` (`domainrouting.go:1045-1047`), which takes the routes
  of its allowed IPs from a tunnel that runs when it is selected: Windows has them from the
  tunnel's own process.

Hazards of the code that no property covers, beside the four with a note in `PROJECT.json`:

- a session that logs on between the enumeration and the Running status (`service.go:325`);
- the wait for the old service cannot tell it from another client's new one of the same
  name (`install.go:153`), so an `InstallTunnel` may wait for it;
- a service told to stop while it starts is only marked (`ipc_server.go:148`);
- the two threads of a tracker share `lastState` (`tunneltracker.go:246`);
- a query decided under old rules adds its route after `SetRules` has flushed
  (`domainrouting_dnsproxy.go:239`);
- a crash with adapters redirected: nothing remembers the servers (`domainrouting.go:730`);
- `SetMode(off)` returns early when saving fails, with DNS redirected (502);
- `decideRoute` reloads a changed file without applying its mode (887);
- a tunnel reported before `InitDomainRouting` is bound with mode off (`service.go:73`);
- a failed activation has already taken back the routes of the tunnel bound so far (613);
- the default route is not looked at again after binding (621).

Each of these is a behaviour of a model (a fault, or a step in between): what they lack is a
text that says it should be otherwise, or a property that survives them.

## 8. The plan

Written: the manager (`DomainRouting`, `DnsProxy`, `TunnelServices`, `PortRanges` and
`PortFirewall`, `UISessions`, `TunnelConfigs`), what goes on between processes (`ManagerIpc`,
`RingLog`, `Updater`, `TunnelPipes`) and the pages (`Mirror` with `ConfView`, `TunnelsPage` and
`DnsLog`, `EditDialog`, `Highlighter`, `AddressText`, `PeerViews`, `RoutingPage`); proofs of
every safety invariant the runs check but `TextsRead`, of the types of all parts but the rows
of `DnsLog`, and of the safety half of every mirror.

Left, in the order of what it would add:

1. reports out of order: `TunnelServices` composed with `DomainRouting` or `PortFirewall`;
2. the deletion of tunnels with the indices it keeps over the question;
3. `TextsRead`: `Highlighter` and its `Grammar` as recursive functions over one text;
4. the local records, with the order in which they are looked up.
