----------------------------- MODULE EditDialog -----------------------------
(***************************************************************************)
(* The editor of a tunnel's configuration (ui/editdialog.go): what the     *)
(* text's highlighter (ui/syntax/syntaxedit.go) tells the dialog, its      *)
(* public key, its Save button and its check box for the kill-switch,      *)
(* which the user may tick to have the allowed IPs of the text rewritten.  *)
(*                                                                         *)
(* A text is what they look at: whether it has errors, its first private   *)
(* key, how many peers it has, the default routes and their halves among   *)
(* the allowed IPs, and whether its table is off.                          *)
(***************************************************************************)
EXTENDS Naturals

CONSTANTS
  Keys,       \* the private keys
  NoKey,      \* no private key: its public key is unknown
  OtherIP,    \* an allowed IP that is none of the default routes
  Taken,      \* the names of the stored tunnels
  OwnName,    \* the name of the tunnel that is edited
  FreeName

EditDialogAssumption == NoKey \notin Keys /\ FreeName \notin Taken \cup {OwnName}

(* 0.0.0.0/0 and ::/0, and the halves of each.                             *)
Whole(f) == <<f, "all">>
Half(f, h) == <<f, h>>
Halves(f) == {Half(f, "low"), Half(f, "high")}
Families == {"v4", "v6"}
IPs == {Whole(f) : f \in Families} \cup UNION {Halves(f) : f \in Families} \cup {OtherIP}

Texts ==
  [errors : BOOLEAN, key : Keys \cup {NoKey}, peers : 0..2, ips : SUBSET IPs, tableOff : BOOLEAN]

\* Allowed IPs are those of a peer.
Wellformed(t) == t.peers = 0 => t.ips = {}
\* Whether FromWgQuick takes the text.  It refuses one without a private key, which
\* the highlighter does not mark.
Parses(t) == ~t.errors /\ t.key # NoKey
Empty == [errors |-> FALSE, key |-> NoKey, peers |-> 0, ips |-> {}, tableOff |-> FALSE]

VARIABLES
  text,     \* the text of the editor
  blocking, \* se.lastBlockState
  clean,    \* se.haveErrors, which is true when there are none
  visible,  \* the check box is visible
  checked,  \* and checked
  pubkey,   \* the private key whose public key is shown, or NoKey
  saving,   \* the Save button is enabled
  result    \* the name the dialog has ended with, or "open"

editor == <<text, blocking, clean, visible, checked, pubkey, saving>>
vars == <<editor, result>>

-----------------------------------------------------------------------------
(* evaluateUntunneledBlocking.  It stops at an error and at a second peer, *)
(* and says nothing of a text whose table is off.                          *)

HasWhole(S) == \E f \in Families : Whole(f) \in S
HasHalves(S) == \E f \in Families : Halves(f) \subseteq S

BlockState(t) ==
  IF t.errors \/ t.peers = 2 THEN "inevaluable"
  ELSE IF HasWhole(t.ips) THEN "blocking"
  ELSE IF HasHalves(t.ips) THEN "not blocking"
  ELSE "inevaluable"

Silent(t) == ~t.errors /\ t.peers # 2 /\ t.tableOff

\* The box of the dialog, and the last state that was published.
Box(b, v, c) == [blocking |-> b, visible |-> v, checked |-> c]

\* onBlockUntunneledTrafficStateChanged, when the state has changed.
Evaluate(box, t) ==
  LET s == BlockState(t)
  IN  IF Silent(t) \/ s = box.blocking THEN box
      ELSE IF s = "inevaluable" THEN Box(s, FALSE, box.checked)
      ELSE Box(s, TRUE, s = "blocking")

\* Mutant of Highlight: the Save button, once disabled, stays so.
HighlightKeepsSave(box, t) ==
  LET b == Evaluate(box, t)
  IN  /\ blocking' = b.blocking /\ visible' = b.visible /\ checked' = b.checked
      /\ clean' = ~t.errors
      /\ saving' = (saving /\ ~t.errors)
      /\ pubkey' = t.key

\* The editor has a new text: it is highlighted, and the dialog hears of it.
Highlight(box, t) ==
  LET b == Evaluate(box, t)
  IN  /\ blocking' = b.blocking /\ visible' = b.visible /\ checked' = b.checked
      /\ clean' = ~t.errors
      /\ saving' = ~t.errors
      /\ pubkey' = t.key

Init ==
  /\ text \in {t \in Texts : Wellformed(t) /\ Parses(t)}
  /\ LET b == Evaluate(Box("inevaluable", FALSE, FALSE), text)
     IN  blocking = b.blocking /\ visible = b.visible /\ checked = b.checked
  /\ clean = ~text.errors /\ saving = ~text.errors
  /\ pubkey = text.key
  /\ result = "open"

-----------------------------------------------------------------------------
\* A change of the text: of one of the things it is made of.
Type ==
  /\ \/ \E e \in BOOLEAN : text' = [text EXCEPT !.errors = e]
     \/ \E k \in Keys \cup {NoKey} : text' = [text EXCEPT !.key = k]
     \/ \E n \in 0..2 : text' = [text EXCEPT !.peers = n]
     \/ \E S \in SUBSET IPs : text' = [text EXCEPT !.ips = S]
     \/ \E o \in BOOLEAN : text' = [text EXCEPT !.tableOff = o]
  /\ text' # text /\ Wellformed(text')
  /\ Highlight(Box(blocking, visible, checked), text')
  /\ UNCHANGED result

(* onBlockUntunneledTrafficCBCheckedChanged.                               *)

\* The pairs of halves become default routes; every other allowed IP stays.
Block(S) ==
  (S \ UNION {Halves(f) : f \in {g \in Families : Halves(g) \subseteq S}})
    \cup {Whole(f) : f \in {g \in Families : Halves(g) \subseteq S}}

\* Mutant of Unblock: the first halves alone take the place of the default routes.
UnblockLow(S) ==
  (S \ {Whole(f) : f \in Families}) \cup {Half(f, "low") : f \in {g \in Families : Whole(g) \in S}}

\* The default routes become their halves.
Unblock(S) ==
  (S \ {Whole(f) : f \in Families}) \cup UNION {Halves(f) : f \in {g \in Families : Whole(g) \in S}}

\* Mutant of HighlightAgain: the text is set once more, which changes nothing.
HighlightAgainOnly(box, t) == Highlight(box, t)

\* The text is taken away and put back, for the box to be set again.
HighlightAgain(box, t) == Highlight(Evaluate(box, Empty), t)

Tick ==
  /\ visible
  /\ LET block == ~checked
         box == Box(blocking, visible, block)
     IN  \/ /\ Parses(text) /\ text.peers = 1
            /\ IF block THEN HasHalves(text.ips) ELSE HasWhole(text.ips)
            /\ text' = [text EXCEPT !.ips = IF block THEN Block(@) ELSE Unblock(@)]
            /\ Highlight(box, text')
         \/ /\ ~Parses(text) \/ text.peers # 1 \/ ~(IF block THEN HasHalves(text.ips) ELSE HasWhole(text.ips))
            /\ HighlightAgain(box, text)
            /\ UNCHANGED text
  /\ UNCHANGED result

\* onSaveButtonClicked.  The name of another stored tunnel is refused, and so is
\* a text that does not parse.
Save(name) ==
  /\ saving
  /\ name = OwnName \/ name \notin Taken
  /\ Parses(text)
  /\ result' = name
  /\ UNCHANGED editor

Cancel == result' = "cancelled" /\ UNCHANGED editor

Next == result = "open" /\ (Type \/ Tick \/ (\E n \in Taken \cup {OwnName, FreeName} : Save(n)) \/ Cancel)

Spec == Init /\ [][Next]_vars

-----------------------------------------------------------------------------
(* Properties.                                                             *)

\* The type of the state; what is shown of the key and of the Save button
\* follows the text (EditDialog).
TypeOK ==
  /\ text \in Texts /\ Wellformed(text)
  /\ blocking \in {"inevaluable", "blocking", "not blocking"}
  /\ visible = (blocking # "inevaluable") /\ checked \in BOOLEAN
  /\ pubkey = text.key /\ saving = clean /\ clean = ~text.errors
  /\ result \in Taken \cup {OwnName, FreeName, "open", "cancelled"}

\* The addresses the allowed IPs cover.
Cover(S) ==
  (S \ {Whole(f) : f \in Families}) \cup UNION {Halves(f) : f \in {g \in Families : Whole(g) \in S}}

\* To tick the box changes how the allowed IPs are written and not what they
\* allow (onBlockUntunneledTrafficCBCheckedChanged).
TickKeepsRoutes == [][Tick => Cover(text'.ips) = Cover(text.ips)]_vars

\* After a tick the box is hidden or says whether there is a default route,
\* also when the text could not be changed.
TickIsTrue == [][Tick => ~visible' \/ checked' = HasWhole(text'.ips)]_vars

\* The tunnel service blocks untunnelled traffic "when a configuration has
\* exactly one peer, and that peer has an allowed IPs containing at least one
\* of 0.0.0.0/0 or ::/0, and the interface does not have table off", as the tool
\* tip of the box says (ui/editdialog.go:133): the box is ticked for no other.
Engages(t) == ~t.errors /\ t.peers = 1 /\ HasWhole(t.ips) /\ ~t.tableOff
TickedEngages == visible /\ checked => Engages(text)
=============================================================================
