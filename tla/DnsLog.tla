------------------------------- MODULE DnsLog -------------------------------
(***************************************************************************)
(* The log of DNS queries the manager keeps (manager/dnslog.go) and the    *)
(* page that follows it (ui/dnslogpage.go).  The page asks for the count   *)
(* and then for what is new, by calls of their own: queries are logged,    *)
(* and other windows clear the log, in between.                            *)
(*                                                                         *)
(* An entry is the number of its query; the filter, when there is one,     *)
(* lets the odd ones through.  A call fails only when the window's pipe    *)
(* has broken, which ends the window (ManagerIpc, UISessions).             *)
(***************************************************************************)
EXTENDS Naturals, Sequences, SequencesExt

CONSTANTS
  MaxLogged,  \* bound on the queries that are logged
  MaxInputs,  \* bound on the inputs of the page and of other windows
  None

DnsLogAssumption == {MaxLogged, MaxInputs} \subseteq Nat /\ None # "log"

VARIABLES
  entries, \* the log
  enabled, \* whether queries are logged
  logged,  \* how many queries were
  had,     \* history: the sets of entries the log has had
  all,     \* the page's copy, allEntries
  rows,    \* the rows of its table
  filter,  \* whether there is a filter
  sorted,  \* whether the user has sorted the table
  down,    \* and whether downwards
  known,   \* lastKnownCount
  page,    \* the call the page is to make next, and the count it has read
  lost,    \* history: another window has cleared the log, and the page's copy
           \* has not been replaced since
  inputs

log == <<entries, enabled, logged, had>>
table == <<all, rows, filter, sorted, down>>
vars == <<log, table, known, page, lost, inputs>>

Doing(at, n) == [at |-> at, count |-> n]
Idle == Doing("idle", 0)

Init ==
  /\ entries = <<>> /\ enabled \in BOOLEAN /\ logged = 0 /\ had = {{}}
  /\ all = <<>> /\ rows = <<>> /\ filter = FALSE /\ sorted = FALSE /\ down = FALSE
  /\ known = 0 /\ page = Idle
  /\ lost = FALSE
  /\ inputs = 0

Input == inputs < MaxInputs /\ inputs' = inputs + 1

-----------------------------------------------------------------------------
(* DNSLogger.                                                              *)

Log ==
  /\ enabled /\ logged < MaxLogged
  /\ logged' = logged + 1
  /\ entries' = Append(entries, logged')
  /\ had' = had \cup {Range(entries')}
  /\ UNCHANGED <<enabled, table, known, page, lost, inputs>>

Cleared == entries' = <<>> /\ had' = had \cup {{}} /\ UNCHANGED <<enabled, logged>>

\* Another window's page does it.
ClearElsewhere ==
  /\ Input
  /\ Cleared
  /\ lost' = TRUE
  /\ UNCHANGED <<table, known, page>>

\* Mutant of Since: the first of the new entries is left out.
SinceNext(n) == IF n + 1 >= Len(entries) THEN <<>> ELSE SubSeq(entries, n + 2, Len(entries))

\* GetEntriesSinceIndex.
Since(n) == IF n >= Len(entries) THEN <<>> ELSE SubSeq(entries, n + 1, Len(entries))

-----------------------------------------------------------------------------
(* The model of the table.                                                 *)

Passes(e, f) == ~f \/ e % 2 = 1

\* applyFilter: what passes, by the column and order of the table.
Arranged(es, f, d) ==
  SortSeq(SelectSeq(es, LAMBDA e : Passes(e, f)), LAMBDA a, b : IF d THEN a > b ELSE a < b)

SetEntries(es) ==
  /\ all' = es
  /\ rows' = Arranged(es, filter, down)
  /\ UNCHANGED <<filter, sorted, down>>

\* Mutant of AppendEntries: new rows are appended without a look at the filter.
AppendUnfiltered(es) ==
  /\ all' = all \o es
  /\ rows' = rows \o es
  /\ UNCHANGED <<filter, sorted, down>>

AppendEntries(es) ==
  /\ all' = all \o es
  /\ rows' = IF filter \/ sorted THEN Arranged(all', filter, down) ELSE rows \o es
  /\ UNCHANGED <<filter, sorted, down>>

-----------------------------------------------------------------------------
(* The page, on the UI thread, which waits in its calls.                   *)

\* refreshLog, and the same where the other functions load everything: the
\* count is that of what was read, or the one read before.
Reload(count) ==
  /\ SetEntries(entries)
  /\ known' = count
  /\ lost' = (lost /\ count > Len(entries))
  /\ page' = Idle

Refresh ==
  /\ Input
  /\ page = Idle
  /\ Reload(Len(entries))
  /\ UNCHANGED log

\* The ticker's look at the count.
Count ==
  /\ page = Idle
  /\ Len(entries) # known
  /\ page' = Doing(IF Len(entries) < known THEN "shrunk" ELSE "grown", Len(entries))
  /\ UNCHANGED <<log, table, known, lost, inputs>>

LoadShrunk ==
  /\ page.at = "shrunk"
  /\ Reload(page.count)
  /\ UNCHANGED <<log, inputs>>

LoadNew ==
  /\ page.at = "grown"
  /\ LET new == Since(known)
     IN  IF new = <<>>
         THEN page' = Doing("none new", 0) /\ UNCHANGED <<table, known>>
         ELSE AppendEntries(new) /\ known' = page.count /\ page' = Idle
  /\ UNCHANGED <<log, lost, inputs>>

LoadAll ==
  /\ page.at = "none new"
  /\ Reload(Len(entries))
  /\ UNCHANGED <<log, inputs>>

\* clearLog, up to its refreshLog.
Clear ==
  /\ Input
  /\ page = Idle
  /\ Cleared
  /\ known' = 0
  /\ page' = Doing("none new", 0)
  /\ UNCHANGED <<table, lost>>

\* onEnabledChanged.  The box of a new page is ticked, whatever the manager does.
SetEnabled ==
  /\ Input
  /\ page = Idle
  /\ enabled' = ~enabled
  /\ UNCHANGED <<entries, logged, had, table, known, page, lost>>

SetFilterText ==
  /\ Input
  /\ page = Idle
  /\ filter' = ~filter
  /\ rows' = Arranged(all, filter', down)
  /\ UNCHANGED <<log, all, sorted, down, known, page, lost>>

\* The rows that are there are sorted; a filter stays as it is.
Sort ==
  /\ Input
  /\ page = Idle
  /\ sorted' = TRUE
  /\ down' \in BOOLEAN
  /\ rows' = Arranged(rows, FALSE, down')
  /\ UNCHANGED <<log, all, filter, known, page, lost>>

-----------------------------------------------------------------------------
Refreshing == Count \/ LoadShrunk \/ LoadNew \/ LoadAll

Next ==
  \/ Log \/ ClearElsewhere
  \/ Refreshing
  \/ Refresh \/ Clear \/ SetEnabled \/ SetFilterText \/ Sort

Spec == Init /\ [][Next]_vars

\* The ticker goes on for ever (autoRefreshLoop).
Fairness == WF_vars(Refreshing)

FairSpec == Spec /\ Fairness

-----------------------------------------------------------------------------
(* Properties.                                                             *)

\* The type of the state; the rows are those entries of the copy that pass the
\* filter (DNSLogPage and its model).
TypeOK ==
  /\ IsInjective(entries) /\ Range(entries) \subseteq 1..logged
  /\ Range(all) \subseteq 1..logged
  /\ Range(rows) = {e \in Range(all) : Passes(e, filter)}
  /\ Len(rows) = Len(SelectSeq(all, LAMBDA e : Passes(e, filter)))
  /\ known \in 0..MaxLogged
  /\ page.at \in {"idle", "shrunk", "grown", "none new"} /\ page.count \in 0..MaxLogged

Page == INSTANCE Mirror WITH
  Things <- {"log"}, Values <- SUBSET (1..MaxLogged),
  value <- [t \in {"log"} |-> Range(entries)], had <- [t \in {"log"} |-> had],
  chosen <- IF lost THEN None ELSE "log",
  shown <- IF lost THEN [thing |-> None, value |-> None]
           ELSE [thing |-> "log", value |-> Range(all)]

\* The page mirrors the log, through queries that are logged while it reads and
\* through its own clearing of it: it shows entries the log has had together,
\* and comes to show those it has.  It is free of that from when another window
\* clears the log until it loads all of it again (ui/dnslogpage.go).
PageMirrors == Page!Spec

\* "Only new entries are added" (a comment of incrementalRefresh,
\* ui/dnslogpage.go:496, in Russian): no entry is shown twice.
OnlyNewAdded == IsInjective(all)
=============================================================================
