------------------------------- MODULE Mirror -------------------------------
(***************************************************************************)
(* What a view of the UI promises.  Things (tunnels, or the one list of    *)
(* them) have values that change; one of them may be chosen, and the view  *)
(* shows a value.  It never shows what a thing has not had, it turns to no *)
(* thing but the chosen one, and it comes to show what the chosen one has. *)
(* It may lag, skip values, and show an older value after a newer one.     *)
(***************************************************************************)
CONSTANTS Things, Values, None

VARIABLES
  value,   \* the value of each thing
  had,     \* the values each thing has had
  chosen,  \* the thing the view is to show, or None
  shown    \* the thing and the value that are shown

vars == <<value, had, chosen, shown>>

Shows(t, v) == [thing |-> t, value |-> v]
Blank == Shows(None, None)

Init ==
  /\ value \in [Things -> Values]
  /\ had = [t \in Things |-> {value[t]}]
  /\ chosen \in Things \cup {None}
  /\ shown \in {Blank} \cup {Shows(t, value[t]) : t \in Things}

Becomes(t, v) ==
  /\ value' = [value EXCEPT ![t] = v]
  /\ had' = [had EXCEPT ![t] = @ \cup {v}]

Change ==
  /\ \E t \in Things, v \in Values : Becomes(t, v)
  /\ UNCHANGED <<chosen, shown>>

\* A view may turn to a thing before it shows it, or at once.
Choose ==
  /\ chosen' \in Things \cup {None}
  /\ \/ UNCHANGED shown
     \/ chosen' # None /\ shown' \in {Shows(chosen', v) : v \in had[chosen']}
  /\ UNCHANGED <<value, had>>

Show ==
  /\ \/ \E t \in Things : chosen \in {t, None} /\ shown' \in {Shows(t, v) : v \in had[t]}
     \/ chosen = None /\ shown' = Blank
  /\ UNCHANGED <<value, had, chosen>>

\* What is lost to the view may be lost for a while, not for ever.
ShowNow ==
  /\ chosen # None
  /\ shown' = Shows(chosen, value[chosen])
  /\ UNCHANGED <<value, had, chosen>>

\* A click both chooses no thing and blanks the view, or a change of the thing
\* frees the view of it.
ChooseNone ==
  /\ chosen' = None /\ shown' = Blank
  /\ \/ UNCHANGED <<value, had>>
     \/ \E t \in Things, v \in Values : Becomes(t, v)

Next == Change \/ Choose \/ Show \/ ShowNow \/ ChooseNone

Safety == Init /\ [][Next]_vars
Spec == Safety /\ WF_vars(ShowNow)
=============================================================================
