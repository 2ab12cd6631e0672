----------------------------- MODULE RoutingPage ----------------------------
(***************************************************************************)
(* The page of the domain routing settings (ui/domainroutingpage.go).  It  *)
(* asks the manager and tells it from goroutines: what they have read is   *)
(* put on the page by the UI's thread when they are done, in any order.    *)
(* The manager's part is its settings, a value each; the other sessions'   *)
(* pages change them as well.                                              *)
(***************************************************************************)
EXTENDS Naturals, Sequences, FiniteSets, FiniteSetsExt

CONSTANTS
  Values,    \* of a setting
  None,
  MaxCalls,  \* bound on the goroutines that run at a time
  MaxInputs  \* bound on clicks, on what is written, and on the other sessions

\* The order in which they are loaded: the mode, a check box that has a handler of
\* its own (localhost, and IPv6 likewise), and the rules (the settings of the DNS
\* lookup are loaded, written and applied after them, and likewise).
Fields == <<"mode", "box", "rules">>
Settings == [{"mode", "box", "rules"} -> Values]

VARIABLES
  manager, \* the manager's settings
  page,    \* what the page shows of them
  status,  \* the mode the status line tells of
  enabled, \* Apply and the mode buttons are enabled
  calls,   \* the goroutines, or None
  clicked, \* what the user chose of the check box last
  inputs

vars == <<manager, page, status, enabled, calls, clicked, inputs>>

Load(read) == [kind |-> "load", read |-> read]
Status(v) == [kind |-> "status", value |-> v]
Set(v, result) == [kind |-> "set", value |-> v, result |-> result]
SetBox(v) == [kind |-> "box", value |-> v]
Apply(v, result) == [kind |-> "apply", value |-> v, result |-> result]

\* The goroutines there may be, at any point of theirs.
Goroutines ==
  {Load(read) : read \in UNION {[1..n -> Values] : n \in 0..Len(Fields)}}
  \cup {Status(v) : v \in Values \cup {None}} \cup {SetBox(v) : v \in Values}
  \cup {Set(v, r) : v \in Values, r \in {None, "ok", "failed"}}
  \cup {Apply(v, r) : v \in Values, r \in {None, "ok", "failed"}}

RoutingPageAssumption ==
  /\ MaxCalls \in Nat
  /\ None \notin Values /\ None \notin Goroutines
  /\ None \notin {"load", "status", "set", "box", "apply"}

Kind(c) == IF calls[c] = None THEN None ELSE calls[c].kind
Free == {c \in 1..MaxCalls : calls[c] = None}
\* With a new goroutine, and with two.
Go(g) == Free # {} /\ calls' = [calls EXCEPT ![Min(Free)] = g]
GoBoth(g, h) ==
  /\ Cardinality(Free) > 1
  /\ calls' = [calls EXCEPT ![Min(Free)] = g, ![Min(Free \ {Min(Free)})] = h]
Saving == {c \in 1..MaxCalls : Kind(c) \in {"set", "apply"}}
Input == inputs < MaxInputs /\ inputs' = inputs + 1

\* The page is made with what loadCurrentSettingsSync has read, and its check
\* boxes, made empty, have their handlers run for what it sets.
Init ==
  /\ \E v \in Values : manager = [f \in {"mode", "box", "rules"} |-> v]
  /\ page = manager /\ status = page["mode"] /\ clicked = page["box"]
  /\ enabled = TRUE
  /\ calls = [c \in 1..MaxCalls |-> IF c = 1 THEN SetBox(page["box"]) ELSE None]
  /\ inputs = 0

-----------------------------------------------------------------------------
\* The user.
ClickMode ==
  /\ Input /\ enabled
  /\ \E v \in Values \ {page["mode"]} :
       page' = [page EXCEPT !["mode"] = v] /\ Go(Set(v, None))
  /\ enabled' = FALSE
  /\ UNCHANGED <<manager, status, clicked>>

ClickBox ==
  /\ Input
  /\ \E v \in Values \ {page["box"]} :
       page' = [page EXCEPT !["box"] = v] /\ Go(SetBox(v)) /\ clicked' = v
  /\ UNCHANGED <<manager, status, enabled>>

Write ==
  /\ Input
  /\ \E v \in Values \ {page["rules"]} : page' = [page EXCEPT !["rules"] = v]
  /\ UNCHANGED <<manager, status, enabled, calls, clicked>>

OnApply ==
  /\ Input /\ enabled
  /\ Go(Apply(page["rules"], None))
  /\ enabled' = FALSE
  /\ UNCHANGED <<manager, page, status, clicked>>

\* Another session's page.
Other ==
  /\ Input
  /\ \E f \in {"mode", "rules"}, v \in Values : manager' = [manager EXCEPT ![f] = v]
  /\ manager' # manager
  /\ UNCHANGED <<page, status, enabled, calls, clicked>>

\* onTunnelChange, for a notification of any tunnel.
OnTunnelChange ==
  /\ GoBoth(Status(None), Load(<<>>))
  /\ UNCHANGED <<manager, page, status, enabled, clicked, inputs>>

-----------------------------------------------------------------------------
\* The goroutines: one call to the manager each.  A setting that could not be
\* saved is in force, and refused all the same.
CallNext(c) ==
  LET g == calls[c] IN
  /\ \/ /\ Kind(c) = "load" /\ Len(g.read) < Len(Fields)
        /\ calls' = [calls EXCEPT ![c].read = Append(@, manager[Fields[Len(@) + 1]])]
        /\ UNCHANGED manager
     \/ /\ Kind(c) = "status" /\ g.value = None
        /\ calls' = [calls EXCEPT ![c].value = manager["mode"]]
        /\ UNCHANGED manager
     \/ /\ c \in Saving /\ g.result = None
        /\ manager' = [manager EXCEPT ![IF Kind(c) = "set" THEN "mode" ELSE "rules"] = g.value]
        /\ \E r \in {"ok", "failed"} : calls' = [calls EXCEPT ![c].result = r]
     \/ /\ Kind(c) = "box"
        /\ manager' = [manager EXCEPT !["box"] = g.value]
        /\ calls' = [calls EXCEPT ![c] = None]
  /\ UNCHANGED <<page, status, enabled, clicked, inputs>>

\* Mutant of Loaded: the rules that are being edited are left alone.
LoadedButRules(read) ==
  page' = [page EXCEPT !["mode"] = read[1], !["box"] = read[2]]

\* applyLoadedSettings.
Loaded(read) ==
  page' = [f \in DOMAIN page |-> read[CHOOSE i \in DOMAIN Fields : Fields[i] = f]]

\* On the UI's thread.  The check box's handler, which has no look at loading,
\* tells the manager what has just been loaded.
PutLoaded(c) ==
  /\ Kind(c) = "load" /\ Len(calls[c].read) = Len(Fields)
  /\ Loaded(calls[c].read)
  /\ status' = calls[c].read[1]
  /\ calls' = [calls EXCEPT ![c] = IF page'["box"] = page["box"] THEN None ELSE SetBox(page'["box"])]
  /\ UNCHANGED <<manager, enabled, clicked, inputs>>

PutStatus(c) ==
  /\ Kind(c) = "status" /\ calls[c].value # None
  /\ status' = calls[c].value
  /\ calls' = [calls EXCEPT ![c] = None]
  /\ UNCHANGED <<manager, page, enabled, clicked, inputs>>

\* Mutant of PutModeResult: an error is shown before the controls come back.
PutModeResultOrStay(c) ==
  /\ Kind(c) = "set" /\ calls[c].result # None
  /\ enabled' = (calls[c].result = "ok")
  /\ calls' = [calls EXCEPT ![c] = IF calls[c].result = "ok" THEN Status(None) ELSE Load(<<>>)]
  /\ UNCHANGED <<manager, page, status, clicked, inputs>>

\* The ends of onModeChanged and of onApply.
PutModeResult(c) ==
  /\ Kind(c) = "set" /\ calls[c].result # None
  /\ enabled' = TRUE
  /\ calls' = [calls EXCEPT ![c] = IF calls[c].result = "ok" THEN Status(None) ELSE Load(<<>>)]
  /\ UNCHANGED <<manager, page, status, clicked, inputs>>

PutApplied(c) ==
  /\ Kind(c) = "apply" /\ calls[c].result # None
  /\ enabled' = TRUE
  /\ calls' = [calls EXCEPT ![c] = None]
  /\ UNCHANGED <<manager, page, status, clicked, inputs>>

Goroutine(c) == CallNext(c) \/ PutLoaded(c) \/ PutStatus(c) \/ PutModeResult(c) \/ PutApplied(c)

Next ==
  \/ ClickMode \/ ClickBox \/ Write \/ OnApply
  \/ Other \/ OnTunnelChange
  \/ \E c \in 1..MaxCalls : Goroutine(c)

Spec == Init /\ [][Next]_vars
\* The manager answers, and the UI's thread runs what it is given.
FairSpec == Spec /\ \A c \in 1..MaxCalls : WF_vars(Goroutine(c))

-----------------------------------------------------------------------------
\* While a save is under way, and only then, no other can be begun
\* (setControlsEnabled).
TypeOK ==
  /\ manager \in Settings /\ page \in Settings /\ status \in Values
  /\ \A c, d \in Saving : c = d
  /\ enabled <=> Saving = {}

\* However its calls end, the page's controls come back (onModeChanged, onApply).
ControlsReturn == []<>enabled

\* When nobody changes a setting any more and tunnels go on being reported, the
\* page comes to show the manager's settings for good, whatever loads and saves
\* were under way and in whatever order they end (onTunnelChange).  The check
\* boxes are another matter: see OnlyClicked.
PageFollows ==
  []<><<OnTunnelChange>>_vars =>
    <>[](status = manager["mode"] /\ \A f \in {"mode", "rules"} : page[f] = manager[f])

\* What the user chose of a check box is what the manager does, once the calls
\* are done: loading the page sets the check box without its handler telling the
\* manager (the field loading, "suppresses the handlers").
OnlyClicked == (\A c \in 1..MaxCalls : calls[c] = None) => manager["box"] = clicked
=============================================================================
