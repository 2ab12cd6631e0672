---------------------------- MODULE TunnelsPage ----------------------------
(***************************************************************************)
(* The list of tunnels (ui/listview.go), the tray's menu of them           *)
(* (ui/tray.go) and what an administrator does to the list: editing the    *)
(* current tunnel, deleting the selected ones, importing files             *)
(* (ui/tunnelspage.go).  Each is a dialog on the UI thread and then a      *)
(* goroutine; other sessions change the stored tunnels too.  List and menu *)
(* follow the manager's notification that the tunnels have changed: they   *)
(* ask for the names and post the change of their rows to the UI thread.   *)
(*                                                                         *)
(* A tunnel is its name, a number, in the order of TunnelNameIsLess.       *)
(***************************************************************************)
EXTENDS Naturals, Sequences, FiniteSets, Functions

CONSTANTS
  Capacity(_), \* how many rows append allocates, to hold so many
  N,          \* names are 1..N
  Files,      \* the names of the configurations of each import, as read
  MaxInputs,  \* bound on the user's dialogs and on what other sessions do
  None

ASSUME TunnelsPageAssumption ==
  /\ N \in Nat /\ MaxInputs \in Nat /\ None \notin 1..N
  /\ \A f \in Files : f \in Seq(1..N)
  /\ \A n \in 0..N : Capacity(n) \in Nat /\ Capacity(n) >= n

Names == 1..N

VARIABLES
  stored,    \* the stored configurations, by name
  had,       \* history: what stored has been
  mem,       \* the array behind the slice tv.model.tunnels
  len,       \* how many of it are rows
  menu,      \* tray.tunnels
  changed,   \* a notification of changed tunnels is in the events pipe
  listener,  \* what the events goroutine is at, and the names it has read
  suspended, \* tv.tunnelsUpdateSuspended
  posts,     \* the functions that Synchronize has queued
  edit,      \* the edit dialog, and then its goroutine
  job,       \* the goroutine of a deletion or an import
  stale,     \* history: a job's last load was out of date when it was posted
  inputs     \* how many inputs there were

list == <<mem, len, menu>>
vars == <<stored, had, list, changed, listener, suspended, posts, edit, job, stale, inputs>>

Rows == {mem[i] : i \in 1..len}
Ascending(s) == \A i, j \in DOMAIN s : i < j => s[i] < s[j]
Sorted(S) == CHOOSE s \in Bijection(1..Cardinality(S), S) : Ascending(s)

\* A new array with these rows.
Array(rows) == [i \in 1..Capacity(Len(rows)) |-> IF i <= Len(rows) THEN rows[i] ELSE 0]

IdleListener == [at |-> "idle", names |-> {}]
NoEdit == [at |-> "none", slot |-> 0, name |-> None, asked |-> None, new |-> None]
NoJob == [does |-> "nothing", at |-> "none", names |-> <<>>, existing |-> {}, read |-> {}]

Init ==
  /\ stored \in SUBSET Names
  /\ had = {stored}
  /\ len = Len(Sorted(stored))
  /\ mem = Array(Sorted(stored))
  /\ menu = stored
  /\ changed = FALSE /\ listener = IdleListener /\ suspended = 0 /\ posts = <<>>
  /\ edit = NoEdit /\ job = NoJob /\ stale = FALSE /\ inputs = 0

-----------------------------------------------------------------------------
(* The store, and the notification that it has changed.                    *)

Input == inputs < MaxInputs /\ inputs' = inputs + 1

Store(S) ==
  /\ stored' = S
  /\ had' = had \cup {S}
  /\ changed' = (changed \/ S # stored)

OtherSession ==
  /\ Input
  /\ \E n \in Names : Store(IF n \in stored THEN stored \ {n} ELSE stored \cup {n})
  /\ UNCHANGED <<list, listener, suspended, posts, edit, job, stale>>

-----------------------------------------------------------------------------
(* The events goroutine calls the list's onTunnelsChange and the tray's,   *)
(* one after the other in either order.                                    *)

Posts(what, S) == posts' = Append(posts, [does |-> what, names |-> S])

TakeEvent ==
  /\ listener.at = "idle" /\ changed
  /\ changed' = FALSE
  /\ \E view \in {"rows", "menu"} : listener' = [at |-> "first", names |-> {}, view |-> view]
  /\ UNCHANGED <<stored, had, list, suspended, posts, edit, job, stale, inputs>>

\* Load(true), unless updates are suspended; the tray always loads.
ListenerReads ==
  /\ listener.at \in {"first", "second"}
  /\ listener' =
       IF listener.view = "rows" /\ suspended > 0
       THEN IF listener.at = "first" THEN [listener EXCEPT !.at = "second", !.view = "menu"] ELSE IdleListener
       ELSE [listener EXCEPT !.at = IF listener.at = "first" THEN "post1" ELSE "post2", !.names = stored]
  /\ UNCHANGED <<stored, had, list, changed, suspended, posts, edit, job, stale, inputs>>

ListenerPosts ==
  /\ listener.at \in {"post1", "post2"}
  /\ Posts(listener.view, listener.names)
  /\ listener' =
       IF listener.at = "post2" THEN IdleListener
       ELSE [at |-> "second", names |-> {}, view |-> IF listener.view = "rows" THEN "menu" ELSE "rows"]
  /\ UNCHANGED <<stored, had, list, changed, suspended, edit, job, stale, inputs>>

-----------------------------------------------------------------------------
(* The UI thread: the functions that were posted.                          *)

\* Rows are removed in place, from the last, as long as S has not their tunnels:
\* what comes after a row moves, and the rest of the array keeps what it held.
RemoveRow(r, i) ==
  [mem |-> [k \in DOMAIN r.mem |-> IF i <= k /\ k < r.len THEN r.mem[k + 1] ELSE r.mem[k]],
   len |-> r.len - 1]
RemoveRows(S) ==
  LET after[n \in 0..len] ==
        IF n = 0 THEN [mem |-> mem, len |-> len]
        ELSE IF mem[len + 1 - n] \in S THEN after[n - 1] ELSE RemoveRow(after[n - 1], len + 1 - n)
  IN  after[len]

\* A pointer into the array that append leaves, when it is full, keeps its tunnel:
\* a row that was there or, in the order of the map, one that was added.
Freeze(kept, added) ==
  IF edit.slot = 0 THEN UNCHANGED edit
  ELSE \E n \in IF edit.slot <= kept.len THEN {kept.mem[edit.slot]} ELSE added :
         edit' = [edit EXCEPT !.slot = 0, !.name = n]

\* In place of the rows there are those of S, in the array or in a new one.
Replace(rows, kept, added) ==
  /\ len' = Len(rows)
  /\ IF Len(rows) <= Len(mem)
     THEN mem' = [i \in DOMAIN mem |-> IF i <= Len(rows) THEN rows[i] ELSE kept.mem[i]] /\ UNCHANGED edit
     ELSE mem' = Array(rows) /\ Freeze(kept, added)

\* Mutant of RunRows: the rows that are added are not sorted in.
RunRowsUnsorted(S) ==
  LET kept == RemoveRows(S)
  IN  Replace(SubSeq(kept.mem, 1, kept.len) \o Sorted(S \ Rows), kept, S \ Rows)

RunRows(S) ==
  LET kept == RemoveRows(S)
  IN  IF S \subseteq Rows THEN mem' = kept.mem /\ len' = kept.len /\ UNCHANGED edit
      ELSE Replace(Sorted(S), kept, S \ Rows)

RunPost ==
  /\ posts # <<>>
  /\ LET p == Head(posts)
     IN  IF p.does = "rows" THEN RunRows(p.names) /\ UNCHANGED menu
         ELSE menu' = p.names /\ UNCHANGED <<mem, len, edit>>
  /\ posts' = Tail(posts)
  /\ UNCHANGED <<stored, had, changed, listener, suspended, job, stale, inputs>>

-----------------------------------------------------------------------------
(* onEditTunnel: the dialog has a pointer to the tunnel of the row that is *)
(* selected.                                                               *)

OpenEdit ==
  /\ Input
  /\ edit = NoEdit
  /\ \E i \in 1..len :
       edit' = [NoEdit EXCEPT !.at = "dialog", !.slot = i, !.asked = mem[i],
                              !.new = IF mem[i] \in stored THEN mem[i] ELSE None]
  /\ UNCHANGED <<stored, had, list, changed, listener, suspended, posts, job, stale>>

\* Save: another name must not be that of a stored tunnel.  Or the dialog is cancelled.
CloseEdit ==
  /\ edit.at = "dialog"
  /\ \/ \E n \in Names :
          /\ n = edit.new \/ n \notin stored
          /\ edit' = [edit EXCEPT !.at = "delete", !.new = n]
     \/ edit' = NoEdit
  /\ UNCHANGED <<stored, had, list, changed, listener, suspended, posts, job, stale, inputs>>

\* The tunnel the pointer of the goroutine points to.
Pointed == IF edit.slot = 0 THEN edit.name ELSE mem[edit.slot]

\* Delete by name; an error is not looked at.
EditDeletes ==
  /\ edit.at = "delete"
  /\ \/ Store(stored \ {Pointed})
     \/ UNCHANGED <<stored, had, changed>>
  /\ edit' = [edit EXCEPT !.at = "create"]
  /\ UNCHANGED <<list, listener, suspended, posts, job, stale, inputs>>

EditCreates ==
  /\ edit.at = "create"
  /\ \/ Store(stored \cup {edit.new})
     \/ UNCHANGED <<stored, had, changed>>
  /\ edit' = NoEdit
  /\ UNCHANGED <<list, listener, suspended, posts, job, stale, inputs>>

-----------------------------------------------------------------------------
(* onDelete and importFiles.  Each suspends the list's updates, acts on    *)
(* one tunnel after the other, and resumes them; each change of the        *)
(* suspension loads the list.                                              *)

\* The names of the rows that are selected are taken when the question is
\* answered, on the thread that shows it.
Delete ==
  /\ Input
  /\ job = NoJob
  /\ \E S \in SUBSET (1..len) \ {{}} :
       job' = [NoJob EXCEPT !.does = "delete", !.at = "suspend", !.names = [i \in 1..Len(Sorted(S)) |-> mem[Sorted(S)[i]]]]
  /\ UNCHANGED <<stored, had, list, changed, listener, suspended, posts, edit, stale>>

\* The last name comes first; of those that are the same, any.
Import ==
  /\ Input
  /\ job = NoJob
  /\ \E f \in Files : \E p \in Bijection(DOMAIN f, DOMAIN f) :
       /\ \A i, j \in DOMAIN f : i < j => f[p[i]] >= f[p[j]]
       /\ job' = [NoJob EXCEPT !.does = "import", !.at = "suspend", !.names = [i \in DOMAIN f |-> f[p[i]]],
                              !.existing = stored]
  /\ UNCHANGED <<stored, had, list, changed, listener, suspended, posts, edit, stale>>

\* Mutant of Suspend: the list is not loaded when the updates are resumed.
SuspendNoReload ==
  /\ job.at \in {"suspend", "resume"}
  /\ suspended' = IF job.at = "suspend" THEN suspended + 1 ELSE suspended - 1
  /\ job' = IF job.at = "suspend" THEN [job EXCEPT !.at = "load"] ELSE NoJob
  /\ UNCHANGED <<stored, had, list, changed, listener, posts, edit, stale, inputs>>

Suspend ==
  /\ job.at \in {"suspend", "resume"}
  /\ suspended' = IF job.at = "suspend" THEN suspended + 1 ELSE suspended - 1
  /\ job' = [job EXCEPT !.at = IF job.at = "suspend" THEN "load" ELSE "reload"]
  /\ UNCHANGED <<stored, had, list, changed, listener, posts, edit, stale, inputs>>

JobReads ==
  /\ job.at \in {"load", "reload"}
  /\ job' = [job EXCEPT !.read = stored, !.at = IF job.at = "load" THEN "post" ELSE "last post"]
  /\ UNCHANGED <<stored, had, list, changed, listener, suspended, posts, edit, stale, inputs>>

JobPosts ==
  /\ job.at \in {"post", "last post"}
  /\ Posts("rows", job.read)
  /\ job' = IF job.at = "last post" THEN NoJob
            ELSE [job EXCEPT !.read = {}, !.at = IF job.names = <<>> THEN "resume" ELSE "act"]
  /\ stale' = (stale \/ (job.at = "last post" /\ job.read # stored))
  /\ UNCHANGED <<stored, had, list, changed, listener, suspended, edit, inputs>>

\* An existing name is passed over; Create overwrites.  Either may fail.
JobActs ==
  /\ job.at = "act"
  /\ LET n == Head(job.names)
     IN  \/ job.does = "delete" /\ Store(stored \ {n})
         \/ job.does = "import" /\ n \notin job.existing /\ Store(stored \cup {n})
         \/ UNCHANGED <<stored, had, changed>>
  /\ job' = [job EXCEPT !.names = Tail(@), !.at = IF Len(job.names) = 1 THEN "resume" ELSE "act"]
  /\ UNCHANGED <<list, listener, suspended, posts, edit, stale, inputs>>

Listener == TakeEvent \/ ListenerReads \/ ListenerPosts
EditStep == EditDeletes \/ EditCreates
JobStep == Suspend \/ JobReads \/ JobPosts \/ JobActs

Next ==
  \/ OtherSession
  \/ Listener \/ RunPost
  \/ OpenEdit \/ CloseEdit \/ EditStep
  \/ Delete \/ Import \/ JobStep

Spec == Init /\ [][Next]_vars

\* Goroutines go on, and what is posted is run.
Fairness == WF_vars(Listener) /\ WF_vars(RunPost) /\ WF_vars(EditStep) /\ WF_vars(JobStep)

FairSpec == Spec /\ Fairness

-----------------------------------------------------------------------------
(* Properties.                                                             *)

\* The type of the state; the rows have each tunnel once, in order, and the
\* pointer of an edit is to a place that has had a tunnel (ListModel).
TypeOK ==
  /\ stored \subseteq Names /\ menu \subseteq Names /\ had \subseteq SUBSET Names
  /\ mem \in Seq(Names \cup {0}) /\ len \in 0..Len(mem)
  /\ Rows \subseteq Names /\ \A i, j \in 1..len : i < j => mem[i] < mem[j]
  /\ edit.slot \in 0..Len(mem) /\ (edit.at # "none" => Pointed \in Names)
  /\ suspended = IF job.at \in {"load", "post", "act", "resume"} THEN 1 ELSE 0
  /\ \A i \in 1..Len(posts) : posts[i].names \subseteq Names

List == INSTANCE Mirror WITH
  Things <- {1}, Values <- SUBSET Names, value <- <<stored>>, had <- <<had>>,
  chosen <- IF stale THEN None ELSE 1, shown <- [thing |-> 1, value |-> Rows]

Menu == INSTANCE Mirror WITH
  Things <- {1}, Values <- SUBSET Names, value <- <<stored>>, had <- <<had>>,
  chosen <- 1, shown <- [thing |-> 1, value |-> menu]

\* The tray's menu mirrors the stored tunnels, however they are changed: only
\* the events goroutine loads it, and posts a later load later (Tray.onTunnelsChange).
MenuMirrors == Menu!Spec

\* So does the list, though its updates are suspended while tunnels are deleted
\* or imported, as long as no deletion or import posts names that have changed
\* since it read them (ListView.SetSuspendTunnelsUpdate).
ListMirrors == List!Spec

\* An edit deletes no tunnel but the one its dialog was opened for ("Edit
\* &selected tunnel", ui/tunnelspage.go:265).
EditsSelected ==
  [][edit.at = "delete" /\ edit'.at = "create" => stored \ stored' \subseteq {edit.asked}]_vars
=============================================================================
