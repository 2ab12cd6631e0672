---------------------------- MODULE TunnelConfigs ---------------------------
(***************************************************************************)
(* What the domain routing manager does to the stored configurations of    *)
(* the tunnels (manager/domainrouting.go, Start in manager/ipc_server.go): *)
(* it takes the loopback address and IPv6 out of their allowed IPs, puts   *)
(* the default route back, and marks the tunnel selected for filtered      *)
(* traffic with "Table = off" as long as it is selected.  The user edits   *)
(* the same files.                                                         *)
(***************************************************************************)
EXTENDS Naturals, FiniteSets

CONSTANTS
  Tunnels, None,
  Inputs,       \* the lists of networks that users write
  Disturbances, \* which of the program's races and faults may happen, see below
  MaxInputs     \* bound on what the user does

(* "torn": a file may change between a reader's load and its save          *)
(* "overlap": two goroutines of updateAllTunnelConfigs at a time           *)
(* "crash": the manager may be restarted in the middle of an operation     *)
(* "delete": the selected tunnel is deleted                                *)
(* "fileFails": a tunnel's configuration cannot be loaded, or not saved    *)
(* "saveFails": the settings cannot be saved                               *)
DisturbanceKinds == {"torn", "overlap", "crash", "delete", "fileFails", "saveFails"}
FileFails == "fileFails" \in Disturbances

(* 0.0.0.0/0 and ::/0; 0.0.0.0/2, 128.0.0.0/1 and the thirty networks      *)
(* between them but for 127.0.0.1; another IPv4 and another IPv6 network.  *)
Excluding == {"low", "high", "between"}
IPv6 == {"v6all", "lan6"}
Nets == {"v4all", "lan"} \cup Excluding \cup IPv6
Files == [ips : SUBSET Nets, tableOff : BOOLEAN]

TunnelConfigsAssumption ==
  /\ None \notin Tunnels \cup Files
  /\ Inputs \subseteq SUBSET Nets
  /\ Disturbances \subseteq DisturbanceKinds /\ MaxInputs \in Nat

Settings ==
  [mode : {"off", "on"}, routeTunnel : Tunnels \cup {None}, excludeLoopback : BOOLEAN,
   disableIPv6 : BOOLEAN, managed : Tunnels \cup {None}, original : BOOLEAN]
\* loadConfigLocked without a file.
Defaults ==
  [mode |-> "off", routeTunnel |-> None, excludeLoopback |-> TRUE,
   disableIPv6 |-> TRUE, managed |-> None, original |-> FALSE]

VARIABLES
  file,     \* the stored configuration of each tunnel, or None
  config,   \* the manager's settings
  saved,    \* the settings' file
  unsaved,  \* the manager's lock is held: the configurations are synced, config is not saved
  jobs,     \* the goroutines of updateAllTunnelConfigs
  held,     \* the configurations loaded, modified and not saved yet
  wanted,   \* what the user wrote last in each file
  excused,  \* the tunnels edited, or not saved, since excludeLoopback changed
  stripped, \* the tunnels started without IPv6 since
  stranded, \* the tunnels of whose mark the settings have lost track
  inputs

settings == <<config, saved, unsaved>>
user == <<wanted, inputs>>
vars == <<file, settings, jobs, held, excused, stripped, stranded, user>>

Init ==
  /\ file \in [Tunnels -> {[ips |-> S, tableOff |-> FALSE] : S \in Inputs}]
  /\ wanted = file
  /\ config = Defaults /\ saved = Defaults /\ unsaved = FALSE
  /\ jobs = {} /\ held = {} /\ excused = Tunnels /\ stripped = {} /\ stranded = {} /\ inputs = 0

Input == inputs < MaxInputs /\ inputs' = inputs + 1
MayWrite == held = {} \/ "torn" \in Disturbances

\* saveConfigLocked, which writes all the settings.
Saves(c) == saved' \in {c} \cup (IF "saveFails" \in Disturbances THEN {saved} ELSE {})

-----------------------------------------------------------------------------
\* excludeLoopbackFromConfig and ExcludeLoopbackFromAllowedIPs: IsUnspecified and
\* a length of 0 is true of ::/0 as well.
ExcludeLoopback(S) ==
  IF S \cap {"v4all", "v6all"} = {} THEN S ELSE (S \ {"v4all", "v6all"}) \cup Excluding

\* RestoreLoopbackToAllowedIPs and hasLoopbackExcludedPattern, which looks for two
\* of the networks and takes them for the whole pattern.
RestoreLoopback(S) == IF {"low", "high"} \subseteq S THEN (S \ Excluding) \cup {"v4all"} ELSE S

\* DisableIPv6FromConfig.
DisableIPv6(S) == S \ IPv6

TableOff(f, t, b) == [f EXCEPT ![t].tableOff = b]

-----------------------------------------------------------------------------
(* syncManagedRouteTunnelLocked, with the settings c.  Its errors are      *)
(* logged: what was assigned before one stays assigned.                    *)

Target(c) == IF c.mode = "off" THEN None ELSE c.routeTunnel

\* Mutant of Mark: the target is managed before its configuration is loaded.
MarkUnseen(c, f) ==
  IF Target(c) \in {None, c.managed} THEN config' = c /\ file' = f
  ELSE /\ config' = [c EXCEPT !.managed = Target(c)]
       /\ file' = IF f[Target(c)] = None THEN f ELSE TableOff(f, Target(c), TRUE)

\* The target gets the mark; when its save fails it is managed all the same.
Mark(c, f) ==
  LET target == Target(c)
  IN  IF target \in {None, c.managed} THEN config' = c /\ file' = f
      ELSE \/ (f[target] = None \/ FileFails) /\ config' = c /\ file' = f
           \/ /\ f[target] # None
              /\ config' = [c EXCEPT !.managed = target, !.original = f[target].tableOff]
              /\ file' \in {TableOff(f, target, TRUE)} \cup (IF FileFails THEN {f} ELSE {})

\* Mutant of Sync: what was managed is forgotten, not restored.
SyncForgets(c) == Mark([c EXCEPT !.managed = IF @ = Target(c) THEN @ ELSE None], file)

\* restoreTunnelTableOff for what was managed before, and the mark for the target.
Sync(c) ==
  LET stale == c.managed \notin {None, Target(c)}
  IN  \/ /\ stale /\ (file[c.managed] = None \/ FileFails)
         /\ config' = c /\ UNCHANGED file
      \/ /\ stale /\ file[c.managed] # None
         /\ Mark([c EXCEPT !.managed = None, !.original = FALSE], TableOff(file, c.managed, c.original))
      \/ ~ stale /\ Mark(c, file)

SetAndSync(c) ==
  /\ Input /\ ~ unsaved /\ MayWrite
  /\ Sync(c)
  /\ unsaved' = TRUE
  /\ UNCHANGED <<saved, jobs, held, wanted, excused, stripped, stranded>>

SetMode(m) == m # config.mode /\ SetAndSync([config EXCEPT !.mode = m])
SetDNSSettings(t) == SetAndSync([config EXCEPT !.routeTunnel = t])

SaveConfig ==
  /\ unsaved /\ unsaved' = FALSE /\ Saves(config)
  /\ UNCHANGED <<file, config, jobs, held, excused, stripped, stranded, user>>

-----------------------------------------------------------------------------
\* SetExcludeLoopback leaves the files to a goroutine, if it can save the settings.
SetExcludeLoopback ==
  /\ Input /\ ~ unsaved
  /\ jobs = {} \/ "overlap" \in Disturbances
  /\ config' = [config EXCEPT !.excludeLoopback = ~ @]
  /\ \/ /\ saved' = config' /\ excused' = {}
        /\ LET todo == {t \in Tunnels : file[t] # None}
           IN  jobs' = IF todo = {} THEN jobs
                       ELSE jobs \cup {[exclude |-> config'.excludeLoopback, todo |-> todo]}
     \/ /\ "saveFails" \in Disturbances
        /\ excused' = Tunnels /\ UNCHANGED <<saved, jobs>>
  /\ UNCHANGED <<file, unsaved, held, wanted, stripped, stranded>>

SetDisableIPv6 ==
  /\ Input /\ ~ unsaved
  /\ config' = [config EXCEPT !.disableIPv6 = ~ @] /\ Saves(config')
  /\ UNCHANGED <<file, unsaved, jobs, held, wanted, excused, stripped, stranded>>

\* A configuration is loaded, modified and, if it differs, to be saved.
Hold(t, ips, off) ==
  held' = IF file[t] = [ips |-> ips, tableOff |-> off] THEN held
          ELSE held \cup {[t |-> t, file |-> [ips |-> ips, tableOff |-> off]]}

\* Mutant of Modified: the default route is not put back.
ModifiedOneWay(j, S) == ExcludeLoopback(S)
Modified(j, S) == IF j.exclude THEN ExcludeLoopback(S) ELSE RestoreLoopback(S)

\* One round of updateAllTunnelConfigs; a file that cannot be loaded is passed over.
UpdateTunnelConfig(j, t) ==
  /\ t \in j.todo /\ MayWrite
  /\ jobs' = (jobs \ {j}) \cup (IF j.todo = {t} THEN {} ELSE {[j EXCEPT !.todo = @ \ {t}]})
  /\ \/ file[t] # None /\ Hold(t, Modified(j, file[t].ips), file[t].tableOff) /\ UNCHANGED excused
     \/ file[t] = None /\ UNCHANGED <<held, excused>>
     \/ FileFails /\ excused' = excused \cup {t} /\ UNCHANGED held
  /\ UNCHANGED <<file, settings, stripped, stranded, user>>

\* PrepareTunnelConfigForStart: whether t gets the mark, and the settings that say so.
Selected(t) == config.mode # "off" /\ config.routeTunnel = t
Prepared(t) ==
  IF Selected(t) /\ config.managed # t
  THEN [config EXCEPT !.managed = t, !.original = file[t].tableOff] ELSE config

\* Start, as far as it is about the configuration.  If another tunnel is still managed,
\* because it could not be restored, its mark and what is to be put back are forgotten.
Start(t) ==
  LET S == IF config.excludeLoopback THEN ExcludeLoopback(file[t].ips) ELSE file[t].ips
  IN  /\ Input /\ ~ unsaved /\ MayWrite /\ file[t] # None
      /\ config' = Prepared(t)
      /\ IF config' = config THEN UNCHANGED saved ELSE Saves(config')
      /\ Hold(t, IF config.disableIPv6 THEN DisableIPv6(S) ELSE S, Selected(t) \/ file[t].tableOff)
      /\ stripped' = IF config.disableIPv6 THEN stripped \cup {t} ELSE stripped
      /\ stranded' = IF config'.managed = config.managed THEN stranded
                     ELSE stranded \cup ({config.managed} \ {None})
      /\ UNCHANGED <<file, unsaved, jobs, wanted, excused>>

\* Save of what was loaded, however old it is.
Save(h) ==
  /\ h \in held /\ held' = held \ {h}
  /\ \/ file' = [file EXCEPT ![h.t] = h.file] /\ UNCHANGED excused
     \/ FileFails /\ excused' = excused \cup {h.t} /\ UNCHANGED file
  /\ UNCHANGED <<settings, jobs, stripped, stranded, user>>

-----------------------------------------------------------------------------
\* The user creates a tunnel or saves its editor.  Of the selected tunnel the
\* editor shows the mark, and the user leaves it.
Edit(t, S) ==
  /\ Input /\ MayWrite
  /\ file' \in {[file EXCEPT ![t] = [ips |-> S, tableOff |-> b]] :
                  b \in IF config.managed = t /\ file[t] # None THEN {file[t].tableOff} ELSE BOOLEAN}
  /\ wanted' = [wanted EXCEPT ![t].ips = S,
                              ![t].tableOff = IF config.managed = t /\ file[t] # None THEN @
                                              ELSE file'[t].tableOff]
  /\ excused' = excused \cup {t} /\ stripped' = stripped \ {t}
  /\ stranded' = IF config.managed = t THEN stranded ELSE stranded \ {t}
  /\ UNCHANGED <<settings, jobs, held>>

Delete(t) ==
  /\ Input /\ MayWrite /\ file[t] # None
  /\ t # config.managed \/ "delete" \in Disturbances
  /\ file' = [file EXCEPT ![t] = None]
  /\ UNCHANGED <<settings, jobs, held, wanted, excused, stripped, stranded>>

\* The settings are loaded again, as they were last saved; goroutines and what they
\* hold are gone.
Restart ==
  /\ Input
  /\ (~ unsaved /\ jobs = {} /\ held = {}) \/ "crash" \in Disturbances
  /\ config' = saved /\ unsaved' = FALSE /\ jobs' = {} /\ held' = {}
  /\ stranded' = IF saved.managed = config.managed /\ saved.original = config.original THEN stranded
                 ELSE stranded \cup ({saved.managed, config.managed} \ {None})
  /\ excused' = IF saved.excludeLoopback = config.excludeLoopback THEN excused ELSE Tunnels
  /\ UNCHANGED <<file, saved, wanted, stripped>>

Next ==
  \/ \E m \in {"off", "on"} : SetMode(m)
  \/ \E t \in Tunnels \cup {None} : SetDNSSettings(t)
  \/ SaveConfig
  \/ SetExcludeLoopback \/ SetDisableIPv6
  \/ \E j \in jobs : \E t \in j.todo : UpdateTunnelConfig(j, t)
  \/ \E t \in Tunnels : Start(t)
  \/ \E h \in held : Save(h)
  \/ \E t \in Tunnels, S \in Inputs : Edit(t, S)
  \/ \E t \in Tunnels : Delete(t)
  \/ Restart

Spec == Init /\ [][Next]_vars

-----------------------------------------------------------------------------
\* A tunnel that is managed has a configuration, and one configuration at a time is on
\* its way to its file (syncManagedRouteTunnelLocked, updateAllTunnelConfigs).
TypeOK ==
  /\ file \in [Tunnels -> Files \cup {None}] /\ wanted \in [Tunnels -> Files]
  /\ config \in Settings /\ saved \in Settings
  /\ excused \subseteq Tunnels /\ stripped \subseteq Tunnels /\ stranded \subseteq Tunnels
  /\ Disturbances \cap {"torn", "delete"} = {} =>
       /\ config.managed \notin stranded \cup {None} => file[config.managed] # None
       /\ Cardinality(held) =< 1

\* Whatever the order of selections, modes, starts and edits, and whichever loads and
\* saves fail: a tunnel that is not managed has the table its user gave it, not the
\* mark of an earlier selection, unless the settings have lost track of it.  They do
\* so in two ways: a start records the tunnel selected now over one that could not be
\* restored, or a restart finds settings whose save had failed, or had not come yet
\* (syncManagedRouteTunnelLocked, restoreTunnelTableOff, PrepareTunnelConfigForStart).
TableOffComesBack ==
  \A t \in Tunnels \ stranded :
    t # config.managed /\ file[t] # None /\ held = {} => file[t].tableOff = wanted[t].tableOff

\* The default route, whole or without loopback.  What is more specific is part of it.
\* A list with 0.0.0.0/2 and 128.0.0.0/1 is one for hasLoopbackExcludedPattern.
Pattern == {"low", "high"}
Default(S) == IF "v4all" \in S \/ Pattern \subseteq S THEN (S \ Excluding) \cup {"v4all"} ELSE S

\* Taking loopback out and putting it back any number of times loses no network and
\* adds none to what the code takes for the default route, but for IPv6 when the tunnel
\* was started without (excludeLoopbackFromConfig, RestoreLoopbackToAllowedIPs).  Lists
\* with ::/0 are left to IPv6Kept, and the list that is taken for the default route
\* without being it to RestoredFromPattern.
NetworksKept ==
  \A t \in Tunnels :
    file[t] # None /\ "v6all" \notin wanted[t].ips =>
      Default(file[t].ips) \in {Default(wanted[t].ips)}
                           \cup (IF t \in stripped THEN {Default(wanted[t].ips) \ IPv6} ELSE {})

\* Once the goroutine has gone through them, the files that no user has changed since,
\* and that could be loaded and saved, follow the setting (updateAllTunnelConfigs).
ConfigsFollow ==
  \A t \in Tunnels :
    jobs = {} /\ held = {} /\ t \notin excused /\ file[t] # None =>
      IF config.excludeLoopback THEN "v4all" \notin file[t].ips ELSE ~ Pattern \subseteq file[t].ips

\* Only 0.0.0.0/0 is replaced: the IPv6 networks of a tunnel stay unless it was
\* started while IPv6 is disabled (excludeLoopbackFromConfig, "Check 0.0.0.0/0").
IPv6Kept ==
  \A t \in Tunnels :
    file[t] # None /\ t \notin stripped => wanted[t].ips \cap IPv6 \subseteq file[t].ips

\* 0.0.0.0/0 is put back only for the pattern that stands for it: it is in a file only
\* if its user wrote it or all the networks around loopback
\* (hasLoopbackExcludedPattern, "checks whether the list contains our pattern").
RestoredFromPattern ==
  \A t \in Tunnels :
    file[t] # None /\ "v4all" \in file[t].ips =>
      wanted[t].ips \cap {"v4all", "v6all"} # {} \/ Excluding \subseteq wanted[t].ips
=============================================================================
