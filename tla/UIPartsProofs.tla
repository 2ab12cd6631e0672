---------------------------- MODULE UIPartsProofs ----------------------------
(***************************************************************************)
(* Proofs about the windows of UIParts, for any constants: the dialog that *)
(* edits a tunnel, the view of a tunnel, and the pages of the routing      *)
(* settings and of the DNS log.                                            *)
(***************************************************************************)
EXTENDS UIParts, Integers, TLAPS, SequenceTheorems, WellFoundedInduction, FiniteSetTheorems

-----------------------------------------------------------------------------
(* EditDialog: the allowed IPs.                                            *)

LEMMA FamilyParts ==
  ASSUME NEW f \in Dialog!Families, NEW g \in Dialog!Families
  PROVE  /\ Dialog!Whole(f) \notin Dialog!Halves(g)
         /\ Dialog!Whole(f) = Dialog!Whole(g) => f = g
         /\ \A x \in Dialog!Halves(f) : x \in Dialog!Halves(g) => f = g
BY DEF Dialog!Whole, Dialog!Half, Dialog!Halves, Dialog!Families

LEMMA UnblockHas ==
  ASSUME NEW S, NEW x
  PROVE  x \in Dialog!Unblock(S) <=>
           \/ x \in S /\ \A f \in Dialog!Families : x # Dialog!Whole(f)
           \/ \E f \in Dialog!Families : Dialog!Whole(f) \in S /\ x \in Dialog!Halves(f)
BY DEF Dialog!Unblock

LEMMA CoverIsUnblock == ASSUME NEW S PROVE Dialog!Cover(S) = Dialog!Unblock(S)
BY DEF Dialog!Cover, Dialog!Unblock

LEMMA BlockHas ==
  ASSUME NEW S, NEW x
  PROVE  x \in Dialog!Block(S) <=>
           \/ x \in S /\ \A f \in Dialog!Families : Dialog!Halves(f) \subseteq S => x \notin Dialog!Halves(f)
           \/ \E f \in Dialog!Families : Dialog!Halves(f) \subseteq S /\ x = Dialog!Whole(f)
BY DEF Dialog!Block

LEMMA CoverKept ==
  ASSUME NEW S
  PROVE  /\ Dialog!Cover(Dialog!Unblock(S)) = Dialog!Cover(S)
         /\ Dialog!Cover(Dialog!Block(S)) = Dialog!Cover(S)
<1>1. Dialog!Unblock(Dialog!Unblock(S)) = Dialog!Unblock(S)
  <2>1. \A f \in Dialog!Families : Dialog!Whole(f) \notin Dialog!Unblock(S)
    BY UnblockHas, FamilyParts
  <2>2. ASSUME NEW x PROVE x \in Dialog!Unblock(Dialog!Unblock(S)) <=> x \in Dialog!Unblock(S)
    BY <2>1, UnblockHas
  <2> QED
    BY <2>2
<1>2. \A f \in Dialog!Families :
        Dialog!Whole(f) \in Dialog!Block(S) <=> Dialog!Whole(f) \in S \/ Dialog!Halves(f) \subseteq S
  BY BlockHas, FamilyParts
<1>3. ASSUME NEW x PROVE x \in Dialog!Unblock(Dialog!Block(S)) <=> x \in Dialog!Unblock(S)
  <2>1. x \in Dialog!Unblock(Dialog!Block(S)) <=>
           \/ x \in Dialog!Block(S) /\ \A f \in Dialog!Families : x # Dialog!Whole(f)
           \/ \E f \in Dialog!Families : Dialog!Whole(f) \in Dialog!Block(S) /\ x \in Dialog!Halves(f)
    BY UnblockHas
  <2>2. x \in Dialog!Unblock(S) <=>
           \/ x \in S /\ \A f \in Dialog!Families : x # Dialog!Whole(f)
           \/ \E f \in Dialog!Families : Dialog!Whole(f) \in S /\ x \in Dialog!Halves(f)
    BY UnblockHas
  <2>3. CASE \E f \in Dialog!Families : Dialog!Halves(f) \subseteq S /\ x \in Dialog!Halves(f)
    <3>1. PICK f \in Dialog!Families : Dialog!Halves(f) \subseteq S /\ x \in Dialog!Halves(f)
      BY <2>3
    <3>2. x \in S /\ \A g \in Dialog!Families : x # Dialog!Whole(g)
      BY <3>1, FamilyParts
    <3>3. Dialog!Whole(f) \in Dialog!Block(S)
      BY <1>2, <3>1
    <3> QED
      BY <2>1, <2>2, <3>1, <3>2, <3>3
  <2>4. CASE \A f \in Dialog!Families : Dialog!Halves(f) \subseteq S => x \notin Dialog!Halves(f)
    <3>1. (\A f \in Dialog!Families : x # Dialog!Whole(f)) => (x \in Dialog!Block(S) <=> x \in S)
      BY <2>4, BlockHas
    <3>2. \A f \in Dialog!Families :
            x \in Dialog!Halves(f) => (Dialog!Whole(f) \in Dialog!Block(S) <=> Dialog!Whole(f) \in S)
      BY <1>2, <2>4
    <3> QED
      BY <2>1, <2>2, <3>1, <3>2
  <2> QED
    BY <2>3, <2>4
<1> QED
  BY <1>1, <1>3, CoverIsUnblock

LEMMA WholesOf ==
  ASSUME NEW S
  PROVE  /\ ~Dialog!HasWhole(Dialog!Unblock(S))
         /\ Dialog!HasHalves(S) => Dialog!HasWhole(Dialog!Block(S))
<1>1. \A f \in Dialog!Families : Dialog!Whole(f) \notin Dialog!Unblock(S)
  BY UnblockHas, FamilyParts
<1>2. \A f \in Dialog!Families : Dialog!Halves(f) \subseteq S => Dialog!Whole(f) \in Dialog!Block(S)
  BY BlockHas
<1> QED
  BY <1>1, <1>2 DEF Dialog!HasWhole, Dialog!HasHalves

LEMMA IPsStay ==
  ASSUME NEW S \in SUBSET Dialog!IPs
  PROVE  Dialog!Unblock(S) \in SUBSET Dialog!IPs /\ Dialog!Block(S) \in SUBSET Dialog!IPs
BY DEF Dialog!Unblock, Dialog!Block, Dialog!IPs

-----------------------------------------------------------------------------
(* EditDialog: the box and the dialog.                                     *)

BoxStates == {"inevaluable", "blocking", "not blocking"}

LEMMA StateOfText ==
  ASSUME NEW t
  PROVE  /\ Dialog!BlockState(t) \in BoxStates
         /\ Dialog!BlockState(t) # "inevaluable" =>
              (Dialog!BlockState(t) = "blocking" <=> Dialog!HasWhole(t.ips))
BY DEF Dialog!BlockState, BoxStates

\* The box that is published is of its type: visible when there is something to say.
GoodBox(b) ==
  b.blocking \in BoxStates /\ b.visible = (b.blocking # "inevaluable") /\ b.checked \in BOOLEAN

LEMMA EvaluateGood ==
  ASSUME NEW b, GoodBox(b), NEW t PROVE GoodBox(Dialog!Evaluate(b, t))
<1> DEFINE s == Dialog!BlockState(t)
<1>1. s \in BoxStates
  BY StateOfText
<1>2. GoodBox(Dialog!Box(s, FALSE, b.checked)) \/ s # "inevaluable"
  BY <1>1 DEF GoodBox, Dialog!Box
<1>3. GoodBox(Dialog!Box(s, TRUE, s = "blocking")) \/ s = "inevaluable"
  BY <1>1 DEF GoodBox, Dialog!Box
<1> QED
  BY <1>2, <1>3 DEF Dialog!Evaluate

LEMMA HighlightTyped ==
  ASSUME NEW b, GoodBox(b), text' \in Dialog!Texts, Dialog!Wellformed(text'),
         Dialog!Highlight(b, text'),
         result' \in Taken \cup {OwnName, FreeName, "open", "cancelled"}
  PROVE  Dialog!TypeOK'
<1>1. GoodBox(Dialog!Evaluate(b, text'))
  BY EvaluateGood
<1>2. /\ blocking' \in BoxStates /\ boxVisible' = (blocking' # "inevaluable") /\ checked' \in BOOLEAN
  BY <1>1 DEF GoodBox, Dialog!Highlight
<1> QED
  BY <1>2 DEF Dialog!TypeOK, Dialog!Highlight, BoxStates, Dialog!Texts

LEMMA DialogInit == Dialog!Init => Dialog!TypeOK
<1> SUFFICES ASSUME Dialog!Init PROVE Dialog!TypeOK
  OBVIOUS
<1> DEFINE b == Dialog!Box("inevaluable", FALSE, FALSE)
<1>1. GoodBox(b)
  BY DEF GoodBox, Dialog!Box, BoxStates
<1>2. GoodBox(Dialog!Evaluate(b, text))
  BY <1>1, EvaluateGood
<1>3. blocking \in BoxStates /\ boxVisible = (blocking # "inevaluable") /\ checked \in BOOLEAN
  BY <1>2 DEF GoodBox, Dialog!Init
<1> QED
  BY <1>3 DEF Dialog!TypeOK, Dialog!Init, BoxStates

LEMMA BoxIsGood ==
  ASSUME Dialog!TypeOK, NEW c \in BOOLEAN PROVE GoodBox(Dialog!Box(blocking, boxVisible, c))
BY DEF Dialog!TypeOK, GoodBox, Dialog!Box, BoxStates

LEMMA TypeTyped == ASSUME Dialog!TypeOK, Dialog!Type PROVE Dialog!TypeOK'
<1>1. text' \in Dialog!Texts
  BY DEF Dialog!Type, Dialog!TypeOK, Dialog!Texts
<1>2. GoodBox(Dialog!Box(blocking, boxVisible, checked))
  BY BoxIsGood DEF Dialog!TypeOK
<1> QED
  BY <1>1, <1>2, HighlightTyped DEF Dialog!Type, Dialog!TypeOK

\* A tick with one peer writes its allowed IPs anew; any other leaves the text.
Rewrites(block) ==
  /\ ~text.errors /\ text.peers = 1
  /\ IF block THEN Dialog!HasHalves(text.ips) ELSE Dialog!HasWhole(text.ips)

LEMMA TickParts ==
  ASSUME Dialog!TypeOK, Dialog!Tick
  PROVE  \E block \in BOOLEAN :
           \/ /\ Rewrites(block)
              /\ text' = [text EXCEPT !.ips = IF block THEN Dialog!Block(@) ELSE Dialog!Unblock(@)]
              /\ Dialog!Highlight(Dialog!Box(blocking, boxVisible, block), text')
           \/ /\ text' = text
              /\ Dialog!HighlightAgain(Dialog!Box(blocking, boxVisible, block), text)
<1> DEFINE block == ~checked
           box == Dialog!Box(blocking, boxVisible, block)
           halved == IF block THEN Dialog!HasHalves(text.ips) ELSE Dialog!HasWhole(text.ips)
<1>1. block \in BOOLEAN
  OBVIOUS
<1>2. \/ /\ ~text.errors /\ text.peers = 1 /\ halved
         /\ text' = [text EXCEPT !.ips = IF block THEN Dialog!Block(@) ELSE Dialog!Unblock(@)]
         /\ Dialog!Highlight(box, text')
      \/ Dialog!HighlightAgain(box, text) /\ text' = text
  BY DEF Dialog!Tick, Dialog!Parses
<1> HIDE DEF block
<1> QED
  BY <1>1, <1>2 DEF Rewrites

LEMMA TickTyped == ASSUME Dialog!TypeOK, Dialog!Tick PROVE Dialog!TypeOK'
<1>1. PICK block \in BOOLEAN :
        \/ /\ Rewrites(block)
           /\ text' = [text EXCEPT !.ips = IF block THEN Dialog!Block(@) ELSE Dialog!Unblock(@)]
           /\ Dialog!Highlight(Dialog!Box(blocking, boxVisible, block), text')
        \/ /\ text' = text
           /\ Dialog!HighlightAgain(Dialog!Box(blocking, boxVisible, block), text)
  BY TickParts
<1> DEFINE b == Dialog!Box(blocking, boxVisible, block)
<1>2. GoodBox(b)
  BY BoxIsGood
<1>3. result' \in Taken \cup {OwnName, FreeName, "open", "cancelled"}
  BY DEF Dialog!Tick, Dialog!TypeOK
<1> HIDE DEF b
<1>4. CASE /\ Rewrites(block)
           /\ text' = [text EXCEPT !.ips = IF block THEN Dialog!Block(@) ELSE Dialog!Unblock(@)]
           /\ Dialog!Highlight(b, text')
  <2>1. text.ips \in SUBSET Dialog!IPs
    BY DEF Dialog!TypeOK, Dialog!Texts
  <2>2. (IF block THEN Dialog!Block(text.ips) ELSE Dialog!Unblock(text.ips)) \in SUBSET Dialog!IPs
    BY <2>1, IPsStay
  <2>3. text' \in Dialog!Texts /\ text'.peers = 1
    BY <1>4, <2>2 DEF Dialog!TypeOK, Dialog!Texts, Rewrites
  <2> QED
    BY <1>2, <1>3, <1>4, <2>3, HighlightTyped DEF Dialog!Wellformed
<1>5. CASE text' = text /\ Dialog!HighlightAgain(b, text)
  <2>1. GoodBox(Dialog!Evaluate(b, Dialog!Empty))
    BY <1>2, EvaluateGood
  <2> QED
    BY <1>3, <1>5, <2>1, HighlightTyped DEF Dialog!HighlightAgain, Dialog!TypeOK
<1> QED
  BY <1>1, <1>4, <1>5 DEF b

LEMMA DialogNext == ASSUME Dialog!TypeOK, Dialog!Next PROVE Dialog!TypeOK'
<1>1. CASE Dialog!Type
  BY <1>1, TypeTyped
<1>2. CASE Dialog!Tick
  BY <1>2, TickTyped
<1>3. ASSUME NEW n \in Taken \cup {OwnName, FreeName}, Dialog!Save(n) PROVE Dialog!TypeOK'
  BY <1>3 DEF Dialog!Save, Dialog!TypeOK, Dialog!editor
<1>4. CASE Dialog!Cancel
  BY <1>4 DEF Dialog!Cancel, Dialog!TypeOK, Dialog!editor
<1> QED
  BY <1>1, <1>2, <1>3, <1>4 DEF Dialog!Next

\* What the box says after it has been evaluated with a text.
LEMMA EvaluatedBox ==
  ASSUME NEW b, NEW t, GoodBox(b)
  PROVE  \/ Dialog!Evaluate(b, t) = b
         \/ ~Dialog!Evaluate(b, t).visible
         \/ Dialog!Evaluate(b, t).checked = Dialog!HasWhole(t.ips)
<1> DEFINE s == Dialog!BlockState(t)
<1>1. CASE Dialog!Silent(t) \/ s = b.blocking
  BY <1>1 DEF Dialog!Evaluate
<1>2. CASE ~(Dialog!Silent(t) \/ s = b.blocking) /\ s = "inevaluable"
  BY <1>2 DEF Dialog!Evaluate, Dialog!Box
<1>3. CASE ~(Dialog!Silent(t) \/ s = b.blocking) /\ s # "inevaluable"
  <2>1. Dialog!Evaluate(b, t).checked = (s = "blocking")
    BY <1>3 DEF Dialog!Evaluate, Dialog!Box
  <2>2. (s = "blocking") = Dialog!HasWhole(t.ips)
    BY <1>3, StateOfText DEF Dialog!HasWhole
  <2> QED
    BY <2>1, <2>2
<1> QED
  BY <1>1, <1>2, <1>3

LEMMA EmptySays ==
  ASSUME NEW b, GoodBox(b) PROVE ~Dialog!Evaluate(b, Dialog!Empty).visible
<1> DEFINE e == Dialog!Evaluate(b, Dialog!Empty)
<1>1. ~Dialog!HasWhole({}) /\ ~Dialog!HasHalves({})
  BY DEF Dialog!HasWhole, Dialog!HasHalves, Dialog!Halves
<1>2. Dialog!BlockState(Dialog!Empty) = "inevaluable" /\ ~Dialog!Silent(Dialog!Empty)
  BY <1>1 DEF Dialog!BlockState, Dialog!Silent, Dialog!Empty
<1>3. e.blocking = "inevaluable"
  BY <1>2 DEF Dialog!Evaluate, Dialog!Box
<1>4. e.visible = (e.blocking # "inevaluable")
  BY EvaluateGood DEF GoodBox
<1> HIDE DEF e
<1>5. ~e.visible
  BY <1>3, <1>4
<1> QED
  BY <1>5 DEF e

LEMMA TickSays ==
  ASSUME Dialog!TypeOK, Dialog!Tick
  PROVE  /\ Dialog!Cover(text'.ips) = Dialog!Cover(text.ips)
         /\ ~boxVisible' \/ checked' = Dialog!HasWhole(text'.ips)
<1>1. PICK block \in BOOLEAN :
        \/ /\ Rewrites(block)
           /\ text' = [text EXCEPT !.ips = IF block THEN Dialog!Block(@) ELSE Dialog!Unblock(@)]
           /\ Dialog!Highlight(Dialog!Box(blocking, boxVisible, block), text')
        \/ /\ text' = text
           /\ Dialog!HighlightAgain(Dialog!Box(blocking, boxVisible, block), text)
  BY TickParts
<1> DEFINE b == Dialog!Box(blocking, boxVisible, block)
<1>2. GoodBox(b) /\ b.checked = block
  BY BoxIsGood DEF Dialog!Box
<1> HIDE DEF b
<1>3. CASE /\ Rewrites(block)
           /\ text' = [text EXCEPT !.ips = IF block THEN Dialog!Block(@) ELSE Dialog!Unblock(@)]
           /\ Dialog!Highlight(b, text')
  <2>1. text'.ips = IF block THEN Dialog!Block(text.ips) ELSE Dialog!Unblock(text.ips)
    BY <1>3 DEF Dialog!TypeOK, Dialog!Texts
  <2>2. Dialog!Cover(text'.ips) = Dialog!Cover(text.ips)
    BY <2>1, CoverKept
  <2>3. block = Dialog!HasWhole(text'.ips)
    <3>1. CASE block
      BY <1>3, <2>1, <3>1, WholesOf DEF Rewrites
    <3>2. CASE ~block
      <4>1. ~Dialog!HasWhole(text'.ips) /\ Dialog!HasWhole(text'.ips) \in BOOLEAN
        BY <2>1, <3>2, WholesOf DEF Dialog!HasWhole
      <4> QED
        BY <3>2, <4>1
    <3> QED
      BY <3>1, <3>2
  <2>4. boxVisible' = Dialog!Evaluate(b, text').visible /\ checked' = Dialog!Evaluate(b, text').checked
    BY <1>3 DEF Dialog!Highlight
  <2> QED
    BY <1>2, <2>2, <2>3, <2>4, EvaluatedBox
<1>4. CASE text' = text /\ Dialog!HighlightAgain(b, text)
  <2> DEFINE e == Dialog!Evaluate(b, Dialog!Empty)
  <2>1. GoodBox(e) /\ ~e.visible
    BY <1>2, EvaluateGood, EmptySays
  <2>2. boxVisible' = Dialog!Evaluate(e, text).visible /\ checked' = Dialog!Evaluate(e, text).checked
    BY <1>4 DEF Dialog!Highlight, Dialog!HighlightAgain
  <2> HIDE DEF e
  <2> QED
    BY <1>4, <2>1, <2>2, EvaluatedBox
<1> QED
  BY <1>1, <1>3, <1>4 DEF b

LEMMA DialogKept == Dialog!TypeOK /\ [UINext]_uiVars => Dialog!TypeOK'
<1> SUFFICES ASSUME Dialog!TypeOK, [UINext]_uiVars PROVE Dialog!TypeOK'
  OBVIOUS
<1>1. CASE Dialog!Next
  BY <1>1, DialogNext
<1>2. CASE UNCHANGED dialogVars
  BY <1>2 DEF dialogVars, Dialog!TypeOK
<1> QED
  BY <1>1, <1>2 DEF UINext, InView, InDialog, InPage, InQueries, uiVars, windowVars

\* To tick the box for the kill-switch never changes what the allowed IPs allow, and
\* the box is hidden or true after it, for any set of keys and names; what is shown of
\* the key and of Save follows the text (onBlockUntunneledTrafficCBCheckedChanged).
THEOREM TicksAreSafe == UISpec => TickMeansBlocked
<1>1. UIInit => Dialog!TypeOK
  BY DialogInit DEF UIInit
<1>2. Dialog!TypeOK /\ [UINext]_uiVars =>
        /\ Dialog!TypeOK'
        /\ [Dialog!Tick => Dialog!Cover(text'.ips) = Dialog!Cover(text.ips)]_(Dialog!vars)
        /\ [Dialog!Tick => ~boxVisible' \/ checked' = Dialog!HasWhole(text'.ips)]_(Dialog!vars)
  BY DialogKept, TickSays
<1> QED
  BY <1>1, <1>2, PTL DEF UISpec, TickMeansBlocked, Dialog!TickKeepsRoutes, Dialog!TickIsTrue

-----------------------------------------------------------------------------
(* ConfView: whatever is on its way to the view is of a tunnel, and says   *)
(* what that tunnel has or had.                                            *)

Notes == [tunnel : Tunnels, state : View!States]
NotesHad == {w \in Notes : w.state \in had[w.tunnel]}

ConfigsHad(t) == {View!ConfigOf(s) : s \in had[t]}

StatusPosts == [does : {"status"}, tunnel : Tunnels, state : View!States]
ViewPosts == [does : {"set"}, tunnel : Tunnels, state : View!States, config : {"stored", "runtime"}]
PostsHad ==
  {p \in StatusPosts : p.state \in had[p.tunnel]}
    \cup {p \in ViewPosts : p.state \in had[p.tunnel] /\ p.config \in ConfigsHad(p.tunnel)}

\* A goroutine that has read the state, and one that has not.
KnowsState(g) == g.at = "config" /\ g.tunnel \in Tunnels /\ g.state \in had[g.tunnel]
AsksState(g) == g.at = "state" /\ g.tunnel \in Tunnels

ManagerKnown ==
  /\ state \in [Tunnels -> View!States] /\ had \in [Tunnels -> SUBSET View!States]
  /\ \A t \in Tunnels : state[t] \in had[t]
  /\ writers \subseteq NotesHad

AskersKnown ==
  /\ events \in Seq(NotesHad) /\ (listener # None => listener \in NotesHad)
  /\ (ticker = View!Idle \/ KnowsState(ticker))
  /\ \A g \in setters : KnowsState(g) \/ AsksState(g)

ViewKnown ==
  /\ tunnel \in Tunnels \cup {None} /\ visible \in BOOLEAN
  /\ status.thing \in Tunnels \cup {None} /\ config.thing \in Tunnels \cup {None}

ViewInv == ManagerKnown /\ AskersKnown /\ posts \in Seq(PostsHad) /\ ViewKnown

LEMMA NoneIsNoTunnel == None \notin Tunnels
BY WindowsAssumption DEF View!ConfViewAssumption

LEMMA ViewTyped == ViewInv => View!TypeOK
BY DEF ViewInv, ManagerKnown, AskersKnown, ViewKnown, View!TypeOK, NotesHad, Notes,
       KnowsState, AsksState, View!Idle, View!Asking

LEMMA ViewInit == View!Init => ViewInv
<1> SUFFICES ASSUME View!Init PROVE ViewInv
  OBVIOUS
<1>1. ManagerKnown
  BY DEF View!Init, ManagerKnown
<1>2. AskersKnown
  BY DEF View!Init, AskersKnown
<1>3. posts \in Seq(PostsHad)
  BY DEF View!Init
<1>4. ViewKnown
  BY DEF View!Init, ViewKnown, View!Blank, View!Shows
<1> QED
  BY <1>1, <1>2, <1>3, <1>4 DEF ViewInv

\* What a tunnel has had stays so.
HadGrows == had \in [Tunnels -> SUBSET View!States] /\ had' \in [Tunnels -> SUBSET View!States]
            /\ \A t \in Tunnels : had[t] \subseteq had'[t]

LEMMA KnownStays ==
  ASSUME HadGrows
  PROVE  /\ NotesHad \subseteq NotesHad' /\ PostsHad \subseteq PostsHad'
         /\ \A g : KnowsState(g) => KnowsState(g)'
<1>1. NotesHad \subseteq NotesHad'
  BY DEF HadGrows, NotesHad, Notes
<1>2. \A t \in Tunnels : ConfigsHad(t) \subseteq ConfigsHad(t)'
  BY DEF HadGrows, ConfigsHad
<1>3. PostsHad \subseteq PostsHad'
  BY <1>2 DEF HadGrows, PostsHad, StatusPosts, ViewPosts
<1> QED
  BY <1>1, <1>3 DEF HadGrows, KnowsState

LEMMA SeqsGrow == ASSUME NEW S, NEW T, S \subseteq T, NEW s \in Seq(S) PROVE s \in Seq(T)
BY SeqDef

LEMMA FetchHad ==
  ASSUME ManagerKnown, NEW t \in Tunnels, NEW s \in had[t]
  PROVE  View!SetTunnelTo(t, s) \in PostsHad
<1>1. s \in View!States /\ state[t] \in had[t] /\ state[t] \in View!States
  BY DEF ManagerKnown
<1>2. View!FetchConfig(t, s) \in ConfigsHad(t) /\ View!FetchConfig(t, s) \in {"stored", "runtime"}
  <2>1. CASE s = "started"
    BY <1>1, <2>1 DEF View!FetchConfig, ConfigsHad, View!ConfigOf
  <2>2. CASE s # "started"
    BY <1>1, <2>2 DEF View!FetchConfig, ConfigsHad, View!ConfigOf
  <2> QED
    BY <2>1, <2>2
<1> QED
  BY <1>1, <1>2 DEF View!SetTunnelTo, PostsHad, ViewPosts

LEMMA StatusHad ==
  ASSUME NEW e \in NotesHad PROVE View!UpdateStatus(e) \in PostsHad
BY DEF NotesHad, Notes, View!UpdateStatus, PostsHad, StatusPosts

LEMMA HadSame ==
  ASSUME ManagerKnown, UNCHANGED had
  PROVE  /\ NotesHad' = NotesHad /\ PostsHad' = PostsHad
         /\ \A g : KnowsState(g)' <=> KnowsState(g)
BY DEF NotesHad, PostsHad, ConfigsHad, KnowsState

LEMMA ChangeKeeps == ASSUME ViewInv, NEW t \in Tunnels, View!Change(t) PROVE ViewInv'
<1>1. PICK s \in View!States :
        /\ state' = [state EXCEPT ![t] = s]
        /\ had' = [had EXCEPT ![t] = @ \cup {s}]
        /\ writers' = writers \cup {[tunnel |-> t, state |-> s]}
  BY DEF View!Change
<1>2. HadGrows
  BY <1>1 DEF ViewInv, ManagerKnown, HadGrows
<1>3. ManagerKnown'
  <2>1. [tunnel |-> t, state |-> s] \in NotesHad'
    BY <1>1, <1>2 DEF NotesHad, Notes, HadGrows, ViewInv, ManagerKnown
  <2>2. writers' \subseteq NotesHad'
    BY <1>1, <1>2, <2>1, KnownStays DEF ViewInv, ManagerKnown
  <2>3. \A u \in Tunnels : state'[u] \in had'[u]
    BY <1>1 DEF ViewInv, ManagerKnown
  <2> QED
    BY <1>1, <1>2, <2>2, <2>3 DEF ViewInv, ManagerKnown, HadGrows
<1>4. AskersKnown'
  <2>1. events' \in Seq(NotesHad')
    BY <1>2, KnownStays, SeqsGrow DEF ViewInv, AskersKnown, View!Change
  <2> QED
    BY <1>2, <2>1, KnownStays DEF ViewInv, AskersKnown, AsksState, View!Change, View!Idle, View!Asking
<1>5. posts' \in Seq(PostsHad')
  BY <1>2, KnownStays, SeqsGrow DEF ViewInv, View!Change
<1> QED
  BY <1>3, <1>4, <1>5 DEF ViewInv, ViewKnown, View!Change, View!view

LEMMA WriteEventKeeps ==
  ASSUME ViewInv, NEW w \in writers, View!WriteEvent(w) PROVE ViewInv'
<1>1. UNCHANGED <<state, had>>
  BY DEF View!WriteEvent
<1>2. NotesHad' = NotesHad /\ PostsHad' = PostsHad /\ \A g : KnowsState(g)' <=> KnowsState(g)
  BY <1>1, HadSame DEF ViewInv
<1>3. ManagerKnown'
  BY <1>1, <1>2 DEF ViewInv, ManagerKnown, View!WriteEvent
<1>4. events' \in Seq(NotesHad)
  <2>1. w \in NotesHad /\ events \in Seq(NotesHad)
    BY DEF ViewInv, ManagerKnown, AskersKnown
  <2> QED
    BY <2>1 DEF View!WriteEvent
<1> QED
  BY <1>2, <1>3, <1>4
  DEF ViewInv, AskersKnown, ViewKnown, AsksState, View!WriteEvent, View!view, View!Idle, View!Asking

LEMMA ListenerKeeps ==
  ASSUME ViewInv, View!ReceiveEvent \/ View!FinishEvent PROVE ViewInv'
<1>1. UNCHANGED <<state, had, writers>>
  BY DEF View!ReceiveEvent, View!FinishEvent, View!manager
<1>2. NotesHad' = NotesHad /\ PostsHad' = PostsHad /\ \A g : KnowsState(g)' <=> KnowsState(g)
  BY <1>1, HadSame DEF ViewInv
<1>3. ManagerKnown'
  BY <1>1, <1>2 DEF ViewInv, ManagerKnown
<1>4. CASE View!ReceiveEvent
  <2>1. Head(events) \in NotesHad /\ events' \in Seq(NotesHad)
    BY <1>4 DEF ViewInv, AskersKnown, View!ReceiveEvent
  <2>2. posts' \in Seq(PostsHad)
    BY <1>4, <2>1, StatusHad DEF ViewInv, View!ReceiveEvent
  <2>3. listener' # None => listener' \in NotesHad
    BY <1>4, <2>1 DEF View!ReceiveEvent
  <2> QED
    BY <1>2, <1>3, <1>4, <2>1, <2>2, <2>3
    DEF ViewInv, AskersKnown, ViewKnown, AsksState, View!ReceiveEvent, View!view, View!Idle, View!Asking
<1>5. CASE View!FinishEvent
  <2>1. listener \in NotesHad
    BY <1>5 DEF ViewInv, AskersKnown, View!FinishEvent
  <2>2. View!SetTunnelTo(listener.tunnel, listener.state) \in PostsHad
    BY <2>1, FetchHad DEF ViewInv, NotesHad, Notes
  <2>3. posts' \in Seq(PostsHad)
    BY <1>5, <2>2 DEF ViewInv, View!FinishEvent
  <2> QED
    BY <1>2, <1>3, <1>5, <2>3
    DEF ViewInv, AskersKnown, ViewKnown, AsksState, View!FinishEvent, View!view, View!Idle, View!Asking
<1> QED
  BY <1>4, <1>5

LEMMA TickerKeeps ==
  ASSUME ViewInv, View!Tick \/ View!TickerConfig PROVE ViewInv'
<1>1. UNCHANGED <<state, had, writers>>
  BY DEF View!Tick, View!TickerConfig, View!manager
<1>2. NotesHad' = NotesHad /\ PostsHad' = PostsHad /\ \A g : KnowsState(g)' <=> KnowsState(g)
  BY <1>1, HadSame DEF ViewInv
<1>3. ManagerKnown'
  BY <1>1, <1>2 DEF ViewInv, ManagerKnown
<1>4. CASE View!Tick
  <2>1. KnowsState(ticker')
    BY <1>4 DEF ViewInv, ManagerKnown, ViewKnown, KnowsState, View!Tick, View!Asking
  <2> QED
    BY <1>1, <1>2, <1>3, <1>4, <2>1
    DEF ViewInv, AskersKnown, ViewKnown, KnowsState, AsksState, View!Tick, View!view
<1>5. CASE View!TickerConfig
  <2>1. KnowsState(ticker)
    BY <1>5 DEF ViewInv, AskersKnown, View!TickerConfig, View!Idle, View!Asking
  <2>2. posts' \in Seq(PostsHad)
    BY <1>5, <2>1, FetchHad DEF ViewInv, KnowsState, View!TickerConfig
  <2> QED
    BY <1>2, <1>3, <1>5, <2>2
    DEF ViewInv, AskersKnown, ViewKnown, AsksState, View!TickerConfig, View!view, View!Idle, View!Asking
<1> QED
  BY <1>4, <1>5

LEMMA SetterKeeps ==
  ASSUME ViewInv, NEW g \in setters, View!SetterState(g) \/ View!SetterConfig(g) PROVE ViewInv'
<1>1. UNCHANGED <<state, had, writers>>
  BY DEF View!SetterState, View!SetterConfig, View!manager
<1>2. NotesHad' = NotesHad /\ PostsHad' = PostsHad /\ \A h : KnowsState(h)' <=> KnowsState(h)
  BY <1>1, HadSame DEF ViewInv
<1>3. ManagerKnown'
  BY <1>1, <1>2 DEF ViewInv, ManagerKnown
<1>4. CASE View!SetterState(g)
  <2>1. g.tunnel \in Tunnels
    BY <1>4 DEF ViewInv, AskersKnown, KnowsState, AsksState, View!SetterState
  <2>2. KnowsState(View!Asking(g.tunnel, state[g.tunnel], "config"))
    BY <2>1 DEF ViewInv, ManagerKnown, KnowsState, View!Asking
  <2>3. \A h \in setters' : KnowsState(h) \/ AsksState(h)
    BY <1>4, <2>2 DEF ViewInv, AskersKnown, View!SetterState
  <2> QED
    BY <1>2, <1>3, <1>4, <2>3
    DEF ViewInv, AskersKnown, ViewKnown, AsksState, View!SetterState, View!view, View!Idle, View!Asking
<1>5. CASE View!SetterConfig(g)
  <2>1. KnowsState(g)
    BY <1>5 DEF ViewInv, AskersKnown, AsksState, View!SetterConfig
  <2>2. posts' \in Seq(PostsHad)
    BY <1>5, <2>1, FetchHad DEF ViewInv, KnowsState, View!SetterConfig
  <2> QED
    BY <1>2, <1>3, <1>5, <2>2
    DEF ViewInv, AskersKnown, ViewKnown, AsksState, View!SetterConfig, View!view, View!Idle, View!Asking
<1> QED
  BY <1>4, <1>5

LEMMA ThreadKeeps ==
  ASSUME ViewInv,
         (\E t \in Tunnels \cup {None} : View!Select(t)) \/ View!Hide \/ View!Unhide \/ View!RunPost
  PROVE  ViewInv'
<1>1. UNCHANGED <<state, had, writers>>
  BY DEF View!Select, View!Hide, View!Unhide, View!RunPost, View!manager
<1>2. NotesHad' = NotesHad /\ PostsHad' = PostsHad /\ \A g : KnowsState(g)' <=> KnowsState(g)
  BY <1>1, HadSame DEF ViewInv
<1>3. ManagerKnown'
  BY <1>1, <1>2 DEF ViewInv, ManagerKnown
<1>4. ASSUME NEW t \in Tunnels \cup {None}, View!SetTunnel(t)
      PROVE  /\ tunnel' = t /\ (\A g \in setters' : KnowsState(g) \/ AsksState(g))
             /\ status'.thing \in Tunnels \cup {None} /\ config'.thing \in Tunnels \cup {None}
  <2>1. CASE t = None
    BY <1>4, <2>1 DEF View!SetTunnel, View!Blank, View!Shows, ViewInv, AskersKnown
  <2>2. CASE t # None
    <3>1. AsksState(View!Asking(t, None, "state"))
      BY <2>2 DEF AsksState, View!Asking
    <3> QED
      BY <1>4, <2>2, <3>1 DEF View!SetTunnel, ViewInv, AskersKnown, ViewKnown
  <2> QED
    BY <2>1, <2>2
<1>5. ASSUME NEW t \in Tunnels \cup {None}, View!Select(t) PROVE ViewInv'
  <2>1. /\ tunnel' = t /\ \A g \in setters' : KnowsState(g) \/ AsksState(g)
        /\ status'.thing \in Tunnels \cup {None} /\ config'.thing \in Tunnels \cup {None}
    BY <1>4, <1>5 DEF View!Select
  <2> QED
    BY <1>2, <1>3, <1>5, <2>1 DEF ViewInv, AskersKnown, ViewKnown, AsksState, View!Select, View!Idle, View!Asking
<1>6. CASE View!Unhide
  <2>1. /\ tunnel' = tunnel /\ \A g \in setters' : KnowsState(g) \/ AsksState(g)
        /\ status'.thing \in Tunnels \cup {None} /\ config'.thing \in Tunnels \cup {None}
    BY <1>4, <1>6 DEF View!Unhide, ViewInv, ViewKnown
  <2> QED
    BY <1>2, <1>3, <1>6, <2>1 DEF ViewInv, AskersKnown, ViewKnown, AsksState, View!Unhide, View!Idle, View!Asking
<1>7. CASE View!Hide
  BY <1>2, <1>3, <1>7 DEF ViewInv, AskersKnown, ViewKnown, AsksState, View!Hide, View!Idle, View!Asking
<1>8. CASE View!RunPost
  <2>1. Head(posts) \in PostsHad /\ posts' \in Seq(PostsHad)
    BY <1>8 DEF ViewInv, View!RunPost
  <2>2. Head(posts).tunnel \in Tunnels
    BY <2>1 DEF PostsHad, StatusPosts, ViewPosts
  <2>3. status'.thing \in Tunnels \cup {None} /\ config'.thing \in Tunnels \cup {None}
    BY <1>8, <2>2 DEF View!RunPost, View!Shows, ViewInv, ViewKnown
  <2> QED
    BY <1>2, <1>3, <1>8, <2>1, <2>3
    DEF ViewInv, AskersKnown, ViewKnown, AsksState, View!RunPost, View!Idle, View!Asking
<1> QED
  BY <1>5, <1>6, <1>7, <1>8

LEMMA ViewNext == ASSUME ViewInv, View!Next PROVE ViewInv'
BY ChangeKeeps, WriteEventKeeps, ListenerKeeps, TickerKeeps, SetterKeeps, ThreadKeeps
DEF View!Next, View!Goroutines

LEMMA ViewSame == ViewInv /\ UNCHANGED viewVars => ViewInv'
<1> SUFFICES ASSUME ViewInv, UNCHANGED viewVars PROVE ViewInv'
  OBVIOUS
<1>1. NotesHad' = NotesHad /\ PostsHad' = PostsHad /\ \A g : KnowsState(g)' <=> KnowsState(g)
  BY HadSame DEF ViewInv, viewVars
<1> QED
  BY <1>1 DEF ViewInv, ManagerKnown, AskersKnown, ViewKnown, AsksState, viewVars, View!Idle, View!Asking

LEMMA ViewKept == ViewInv /\ [UINext]_uiVars => ViewInv'
<1> SUFFICES ASSUME ViewInv, [UINext]_uiVars PROVE ViewInv'
  OBVIOUS
<1>1. CASE View!Next
  BY <1>1, ViewNext
<1>2. CASE UNCHANGED viewVars
  BY <1>2, ViewSame
<1> QED
  BY <1>1, <1>2 DEF UINext, InView, InDialog, InPage, InQueries, uiVars, windowVars

-----------------------------------------------------------------------------
(* The status line and the group of the configuration are mirrors.         *)

LEMMA StatusStarts == View!Init => View!StatusLine!Init
BY NoneIsNoTunnel DEF View!Init, View!StatusLine!Init, View!Chosen, View!StatusLine!Blank,
   View!StatusLine!Shows, View!Blank, View!Shows

LEMMA ConfigStarts == View!Init => View!Configs!Init
BY NoneIsNoTunnel DEF View!Init, View!Configs!Init, View!Chosen, View!Configs!Blank,
   View!Configs!Shows, View!Blank, View!Shows, View!States, View!ConfigOf

\* What a step does to a mirror: the thing's value changes; a tunnel is chosen; nothing
\* is chosen, and nothing shown; the view is hidden; what has been posted is shown.
Changed(t, s) ==
  /\ state' = [state EXCEPT ![t] = s] /\ had' = [had EXCEPT ![t] = @ \cup {s}]
  /\ UNCHANGED <<View!Chosen, status, config>>
Turned == View!Chosen' \in Tunnels \cup {None} /\ UNCHANGED <<state, had, status, config>>
Blanked == View!Chosen' = None /\ status' = View!Blank /\ config' = View!Blank /\ UNCHANGED <<state, had>>
Ran(p) ==
  /\ View!Chosen \in {p.tunnel, None}
  /\ status' \in {status, View!Shows(p.tunnel, p.state)}
  /\ config' = config \/ (p.does = "set" /\ config' = View!Shows(p.tunnel, p.config))
  /\ UNCHANGED <<state, had, View!Chosen>>

LEMMA ViewSteps ==
  ASSUME ViewInv, View!Next
  PROVE  \/ \E t \in Tunnels, s \in View!States : Changed(t, s)
         \/ Turned \/ Blanked
         \/ \E p \in PostsHad : Ran(p)
         \/ UNCHANGED <<state, had, View!Chosen, status, config>>
<1>1. ASSUME NEW t \in Tunnels, View!Change(t) PROVE \E s \in View!States : Changed(t, s)
  BY <1>1 DEF View!Change, Changed, View!view, View!Chosen
<1>2. CASE View!Goroutines \/ View!Tick \/ View!TickerConfig
  BY <1>2 DEF View!Goroutines, View!WriteEvent, View!ReceiveEvent, View!FinishEvent, View!SetterState,
     View!SetterConfig, View!Tick, View!TickerConfig, View!manager, View!view, View!Chosen
<1>3. ASSUME NEW t \in Tunnels \cup {None}, View!Select(t) PROVE Turned \/ Blanked
  BY <1>3 DEF View!Select, View!SetTunnel, Turned, Blanked, View!manager, View!Chosen
<1>4. CASE View!Hide
  BY <1>4 DEF View!Hide, Turned, View!manager, View!Chosen
<1>5. CASE View!Unhide
  BY <1>5 DEF View!Unhide, View!SetTunnel, Turned, Blanked, View!manager, View!Chosen, ViewInv, ViewKnown
<1>6. CASE View!RunPost
  <2> DEFINE p == Head(posts)
  <2>1. p \in PostsHad
    BY <1>6 DEF ViewInv, View!RunPost
  <2>2. UNCHANGED <<state, had, View!Chosen>>
    BY <1>6 DEF View!RunPost, View!manager, View!Chosen
  <2>5. /\ status' = IF (IF p.does = "set" THEN View!ForView(p) ELSE View!ForStatus(p))
                     THEN View!Shows(p.tunnel, p.state) ELSE status
        /\ config' = IF p.does = "set" /\ View!ForView(p) THEN View!Shows(p.tunnel, p.config) ELSE config
    BY <1>6 DEF View!RunPost
  <2> HIDE DEF p
  <2>3. CASE IF p.does = "set" THEN View!ForView(p) ELSE View!ForStatus(p)
    <3>1. View!Chosen \in {p.tunnel, None}
      BY <2>3 DEF View!ForView, View!ForStatus, View!Chosen
    <3>2. /\ status' = View!Shows(p.tunnel, p.state)
          /\ config' = config \/ (p.does = "set" /\ config' = View!Shows(p.tunnel, p.config))
      <4>1. CASE p.does = "set" /\ View!ForView(p)
        BY <2>5, <4>1
      <4>2. CASE p.does # "set" /\ View!ForStatus(p)
        BY <2>5, <4>2
      <4> QED
        BY <2>3, <4>1, <4>2
    <3>3. Ran(p)
      BY <2>2, <3>1, <3>2 DEF Ran
    <3> QED
      BY <2>1, <3>3
  <2>4. CASE ~(IF p.does = "set" THEN View!ForView(p) ELSE View!ForStatus(p))
    <3>1. status' = status
      BY <2>4, <2>5
    <3>2. ~(p.does = "set" /\ View!ForView(p))
      BY <2>4
    <3> QED
      BY <2>2, <2>5, <3>1, <3>2
  <2> QED
    BY <2>3, <2>4
<1> QED
  BY <1>1, <1>2, <1>3, <1>4, <1>5, <1>6 DEF View!Next

LEMMA StatusSteps ==
  ViewInv /\ [UINext]_uiVars => [View!StatusLine!Next]_(View!StatusLine!vars)
<1> SUFFICES ASSUME ViewInv, View!Next PROVE [View!StatusLine!Next]_(View!StatusLine!vars)
  BY DEF UINext, InView, InDialog, InPage, InQueries, uiVars, windowVars, viewVars,
     View!StatusLine!vars, View!Chosen
<1>1. ASSUME NEW t \in Tunnels, NEW s \in View!States, Changed(t, s) PROVE View!StatusLine!Change
  BY <1>1 DEF Changed, View!StatusLine!Change, View!StatusLine!Becomes
<1>2. CASE Turned
  BY <1>2 DEF Turned, View!StatusLine!Choose, View!StatusLine!Next
<1>3. CASE Blanked
  BY <1>3 DEF Blanked, View!StatusLine!ChooseNone, View!StatusLine!Next, View!StatusLine!Blank,
     View!StatusLine!Shows, View!Blank, View!Shows
<1>4. ASSUME NEW p \in PostsHad, Ran(p) PROVE View!StatusLine!Show \/ UNCHANGED View!StatusLine!vars
  <2>1. p.tunnel \in Tunnels /\ p.state \in had[p.tunnel]
    BY DEF PostsHad, StatusPosts, ViewPosts
  <2> QED
    BY <1>4, <2>1 DEF Ran, View!StatusLine!Show, View!StatusLine!vars, View!StatusLine!Shows, View!Shows
<1>5. CASE UNCHANGED <<state, had, View!Chosen, status, config>>
  BY <1>5 DEF View!StatusLine!vars
<1> QED
  BY <1>1, <1>2, <1>3, <1>4, <1>5, ViewSteps DEF View!StatusLine!Next

LEMMA ConfigSteps ==
  ViewInv /\ [UINext]_uiVars => [View!Configs!Next]_(View!Configs!vars)
<1> SUFFICES ASSUME ViewInv, View!Next PROVE [View!Configs!Next]_(View!Configs!vars)
  BY DEF UINext, InView, InDialog, InPage, InQueries, uiVars, windowVars, viewVars,
     View!Configs!vars, View!Chosen, View!ConfigOf
<1>1. ASSUME NEW t \in Tunnels, NEW s \in View!States, Changed(t, s) PROVE View!Configs!Change
  <2> DEFINE value == [u \in Tunnels |-> View!ConfigOf(state[u])]
             past == [u \in Tunnels |-> {View!ConfigOf(r) : r \in had[u]}]
  <2>1. value' = [value EXCEPT ![t] = View!ConfigOf(s)]
    BY <1>1 DEF Changed, ViewInv, ManagerKnown
  <2>2. past' = [past EXCEPT ![t] = @ \cup {View!ConfigOf(s)}]
    <3>1. \A u \in Tunnels : past'[u] = IF u = t THEN past[u] \cup {View!ConfigOf(s)} ELSE past[u]
      BY <1>1 DEF Changed, ViewInv, ManagerKnown
    <3> HIDE DEF past
    <3>2. past' \in [Tunnels -> {past'[u] : u \in Tunnels}] /\ past \in [Tunnels -> {past[u] : u \in Tunnels}]
      BY DEF past
    <3> QED
      BY <3>1, <3>2
  <2>3. View!ConfigOf(s) \in {"stored", "runtime"}
    BY DEF View!ConfigOf
  <2>4. View!Configs!Becomes(t, View!ConfigOf(s))
    BY <2>1, <2>2 DEF View!Configs!Becomes
  <2> QED
    BY <1>1, <2>3, <2>4 DEF Changed, View!Configs!Change
<1>2. CASE Turned
  BY <1>2 DEF Turned, View!Configs!Choose, View!Configs!Next, View!ConfigOf
<1>3. CASE Blanked
  BY <1>3 DEF Blanked, View!Configs!ChooseNone, View!Configs!Next, View!Configs!Blank,
     View!Configs!Shows, View!Blank, View!Shows, View!ConfigOf
<1>4. ASSUME NEW p \in PostsHad, Ran(p) PROVE View!Configs!Show \/ UNCHANGED View!Configs!vars
  <2>1. p.tunnel \in Tunnels /\ (p.does = "set" => p.config \in ConfigsHad(p.tunnel))
    BY DEF PostsHad, StatusPosts, ViewPosts
  <2>2. CASE config' = config
    BY <1>4, <2>2 DEF Ran, View!Configs!vars, View!ConfigOf
  <2>3. CASE p.does = "set" /\ config' = View!Shows(p.tunnel, p.config)
    BY <1>4, <2>1, <2>3
    DEF Ran, ConfigsHad, View!Configs!Show, View!Configs!Shows, View!Shows, View!ConfigOf
  <2> QED
    BY <1>4, <2>2, <2>3 DEF Ran
<1>5. CASE UNCHANGED <<state, had, View!Chosen, status, config>>
  BY <1>5 DEF View!Configs!vars, View!ConfigOf
<1> QED
  BY <1>1, <1>2, <1>3, <1>4, <1>5, ViewSteps DEF View!Configs!Next

\* The status line turns to no tunnel but the selected one and shows no state that the
\* tunnel has not had, for any tunnels and whatever notifications and answers come late,
\* out of order or never: the safety half of StatusMirrors (ConfView.onTunnelChanged,
\* setTunnel).
THEOREM StatusIsAMirror == UISpec => View!StatusLine!Safety
<1>1. UIInit => ViewInv /\ View!StatusLine!Init
  BY ViewInit, StatusStarts DEF UIInit
<1>2. ViewInv /\ [UINext]_uiVars => ViewInv' /\ [View!StatusLine!Next]_(View!StatusLine!vars)
  BY ViewKept, StatusSteps
<1> QED
  BY <1>1, <1>2, PTL DEF UISpec, View!StatusLine!Safety

\* So does the group with the configuration: the safety half of ConfigMirrors.
THEOREM ConfigIsAMirror == UISpec => View!Configs!Safety
<1>1. UIInit => ViewInv /\ View!Configs!Init
  BY ViewInit, ConfigStarts DEF UIInit
<1>2. ViewInv /\ [UINext]_uiVars => ViewInv' /\ [View!Configs!Next]_(View!Configs!vars)
  BY ViewKept, ConfigSteps
<1> QED
  BY <1>1, <1>2, PTL DEF UISpec, View!Configs!Safety

-----------------------------------------------------------------------------
(* DnsLog: the page's copy.                                                *)

ValuesOf(s) == {s[i] : i \in DOMAIN s}

\* The queries there may be.
Asked == 1..MaxLogged

LogTyped ==
  /\ logged \in 0..MaxLogged
  /\ entries \in Seq(Asked) /\ all \in Seq(Asked)
  /\ known \in Nat /\ logCall.count \in Nat
  /\ logCall.at \in {"idle", "shrunk", "grown", "none new"}
  /\ lost \in BOOLEAN
  /\ ValuesOf(entries) \in logHad

\* While no other window has cleared the log, the page's copy is entries that the log
\* had together.  It has the first known of those there are and no others, unless the
\* page is about to load all of them; and a count that was read is not too large.
CopyKept ==
  ~lost =>
    /\ ValuesOf(all) \in logHad
    /\ logCall.at \in {"shrunk", "grown"} => logCall.count <= Len(entries)
    /\ logCall.at # "none new" =>
         /\ ValuesOf(all) \subseteq ValuesOf(entries)
         /\ known <= Len(entries)
         /\ \A i \in 1..known : entries[i] \in ValuesOf(all)

LogInv == LogTyped /\ CopyKept

LEMMA LogConstants == MaxLogged \in Nat /\ None # "log"
BY WindowsAssumption DEF Queries!DnsLogAssumption

LEMMA RangeIsValues == ASSUME NEW s PROVE Queries!Range(s) = ValuesOf(s)
BY DEF Queries!Range, ValuesOf

LEMMA ValuesOfNone == ValuesOf(<<>>) = {}
BY DEF ValuesOf

LEMMA ValuesOfAppend ==
  ASSUME NEW S, NEW s \in Seq(S), NEW e \in S
  PROVE  /\ Append(s, e) \in Seq(S) /\ Len(Append(s, e)) = Len(s) + 1
         /\ ValuesOf(Append(s, e)) = ValuesOf(s) \cup {e}
         /\ \A i \in DOMAIN Append(s, e) : Append(s, e)[i] = IF i = Len(s) + 1 THEN e ELSE s[i]
<1>1. /\ DOMAIN Append(s, e) = 1..Len(s) + 1 /\ DOMAIN s = 1..Len(s) /\ Len(s) \in Nat
      /\ \A i \in 1..Len(s) + 1 : Append(s, e)[i] = IF i = Len(s) + 1 THEN e ELSE s[i]
  OBVIOUS
<1>2. ASSUME NEW x PROVE x \in ValuesOf(Append(s, e)) <=> x \in ValuesOf(s) \cup {e}
  <2>1. x \in ValuesOf(Append(s, e)) <=> \E i \in 1..Len(s) + 1 : x = IF i = Len(s) + 1 THEN e ELSE s[i]
    BY <1>1 DEF ValuesOf
  <2>2. x \in ValuesOf(s) <=> \E i \in 1..Len(s) : x = s[i]
    BY <1>1 DEF ValuesOf
  <2> QED
    BY <1>1, <2>1, <2>2
<1> QED
  BY <1>1, <1>2

LEMMA ValuesOfBoth ==
  ASSUME NEW S, NEW s \in Seq(S), NEW t \in Seq(S)
  PROVE  s \o t \in Seq(S) /\ ValuesOf(s \o t) = ValuesOf(s) \cup ValuesOf(t)
<1>1. /\ s \o t \in Seq(S)
      /\ DOMAIN (s \o t) = 1..Len(s) + Len(t) /\ DOMAIN s = 1..Len(s) /\ DOMAIN t = 1..Len(t)
      /\ Len(s) \in Nat /\ Len(t) \in Nat
      /\ \A i \in 1..Len(s) + Len(t) : (s \o t)[i] = IF i <= Len(s) THEN s[i] ELSE t[i - Len(s)]
  OBVIOUS
<1>2. ASSUME NEW x PROVE x \in ValuesOf(s \o t) <=> x \in ValuesOf(s) \cup ValuesOf(t)
  <2>1. x \in ValuesOf(s \o t) <=>
          \E i \in 1..Len(s) + Len(t) : x = IF i <= Len(s) THEN s[i] ELSE t[i - Len(s)]
    BY <1>1 DEF ValuesOf
  <2>2. x \in ValuesOf(s) <=> \E i \in 1..Len(s) : x = s[i]
    BY <1>1 DEF ValuesOf
  <2>3. x \in ValuesOf(t) <=> \E i \in 1..Len(t) : x = t[i]
    BY <1>1 DEF ValuesOf
  <2>4. ASSUME NEW i \in 1..Len(t), x = t[i] PROVE x \in ValuesOf(s \o t)
    <3>1. Len(s) + i \in 1..Len(s) + Len(t) /\ ~(Len(s) + i <= Len(s)) /\ Len(s) + i - Len(s) = i
      BY <1>1
    <3> QED
      BY <2>1, <2>4, <3>1
  <2>5. ASSUME NEW i \in 1..Len(s), x = s[i] PROVE x \in ValuesOf(s \o t)
    <3>1. i \in 1..Len(s) + Len(t) /\ i <= Len(s)
      BY <1>1
    <3> QED
      BY <2>1, <2>5, <3>1
  <2>6. ASSUME NEW i \in 1..Len(s) + Len(t), x = IF i <= Len(s) THEN s[i] ELSE t[i - Len(s)]
        PROVE  x \in ValuesOf(s) \cup ValuesOf(t)
    <3>1. CASE i <= Len(s)
      BY <1>1, <2>2, <2>6, <3>1
    <3>2. CASE ~(i <= Len(s))
      <4>1. i - Len(s) \in 1..Len(t)
        BY <1>1, <3>2
      <4> QED
        BY <2>3, <2>6, <3>2, <4>1
    <3> QED
      BY <3>1, <3>2
  <2> QED
    BY <2>1, <2>2, <2>3, <2>4, <2>5, <2>6
<1> QED
  BY <1>1, <1>2

LEMMA RestHas ==
  ASSUME NEW S, NEW s \in Seq(S), NEW n \in Nat, n < Len(s), NEW r, r = SubSeq(s, n + 1, Len(s))
  PROVE  /\ r \in Seq(S) /\ Len(r) = Len(s) - n
         /\ \A i \in 1..Len(r) : r[i] = s[n + i]
<1>1. Len(s) \in Nat
  OBVIOUS
<1>2. \A i \in n + 1..Len(s) : s[i] \in S
  OBVIOUS
<1>3. r \in Seq(S) /\ Len(r) = Len(s) - (n + 1) + 1
  BY <1>1, <1>2, SubSeqProperties
<1>4. \A i \in 1..Len(s) - (n + 1) + 1 : r[i] = s[n + 1 + i - 1]
  BY <1>1, <1>2, SubSeqProperties
<1>5. Len(r) = Len(s) - n
  BY <1>1, <1>3
<1>6. ASSUME NEW i \in 1..Len(r) PROVE r[i] = s[n + i]
  <2>1. i \in 1..Len(s) - (n + 1) + 1 /\ n + 1 + i - 1 = n + i
    BY <1>1, <1>5
  <2> QED
    BY <1>4, <2>1
<1> QED
  BY <1>3, <1>5, <1>6

\* GetEntriesSinceIndex returns the entries that are not among the first n.
LEMMA RestIs ==
  ASSUME NEW S, NEW s \in Seq(S), NEW n \in Nat, n <= Len(s),
         NEW r, n >= Len(s) => r = <<>>,
         ~(n >= Len(s)) => r = SubSeq(s, n + 1, Len(s))
  PROVE  /\ r \in Seq(S) /\ Len(r) = Len(s) - n
         /\ ValuesOf(r) \subseteq ValuesOf(s)
         /\ \A x \in ValuesOf(s) : x \in ValuesOf(r) \/ \E i \in 1..n : x = s[i]
<1>0. DOMAIN s = 1..Len(s)
  OBVIOUS
<1>1. Len(s) \in Nat
  OBVIOUS
<1>2. /\ r \in Seq(S) /\ Len(r) = Len(s) - n
      /\ \A i \in 1..Len(r) : r[i] = s[n + i]
  <2>1. CASE n >= Len(s)
    <3>1. r = <<>>
      BY <2>1
    <3>2. Len(s) - n = 0
      BY <1>1, <2>1
    <3> QED
      BY <3>1, <3>2
  <2>2. CASE ~(n >= Len(s))
    <3>1. r = SubSeq(s, n + 1, Len(s)) /\ n < Len(s)
      BY <1>1, <2>2
    <3> QED
      BY <3>1, RestHas
  <2> QED
    BY <2>1, <2>2
<1>3. DOMAIN r = 1..Len(r)
  BY <1>2
<1>4. ASSUME NEW i \in 1..Len(s)
      PROVE  i \in 1..n \/ \E j \in 1..Len(r) : s[i] = r[j]
  <2>1. CASE i > n
    <3>1. i - n \in 1..Len(r) /\ n + (i - n) = i
      BY <1>1, <1>2, <2>1
    <3> QED
      BY <1>2, <3>1
  <2> QED
    BY <2>1
<1>5. ASSUME NEW j \in 1..Len(r) PROVE r[j] \in ValuesOf(s)
  <2>1. n + j \in 1..Len(s)
    BY <1>1, <1>2
  <2>2. n + j \in DOMAIN s /\ r[j] = s[n + j]
    BY <1>0, <1>2, <2>1
  <2> QED
    BY <2>2 DEF ValuesOf
<1>6. ASSUME NEW x \in ValuesOf(s) PROVE x \in ValuesOf(r) \/ \E i \in 1..n : x = s[i]
  <2>1. PICK i \in 1..Len(s) : x = s[i]
    BY <1>0 DEF ValuesOf
  <2> QED
    BY <1>3, <1>4, <2>1 DEF ValuesOf
<1>7. ASSUME NEW x \in ValuesOf(r) PROVE x \in ValuesOf(s)
  BY <1>3, <1>5 DEF ValuesOf
<1> QED
  BY <1>2, <1>6, <1>7

LEMMA SinceTyped == ASSUME LogTyped, NEW n \in Nat PROVE Queries!Since(n) \in Seq(Asked)
<1>1. entries \in Seq(Asked)
  BY DEF LogTyped
<1>2. CASE n >= Len(entries)
  BY <1>2 DEF Queries!Since
<1>3. CASE ~(n >= Len(entries))
  <2>1. n < Len(entries)
    BY <1>1, <1>3
  <2>2. SubSeq(entries, n + 1, Len(entries)) \in Seq(Asked)
    BY <1>1, <2>1, RestHas
  <2> QED
    BY <1>3, <2>2 DEF Queries!Since
<1> QED
  BY <1>2, <1>3

LEMMA SinceHas ==
  ASSUME LogTyped, NEW n \in Nat, n <= Len(entries)
  PROVE  /\ Queries!Since(n) \in Seq(Asked)
         /\ Len(Queries!Since(n)) = Len(entries) - n
         /\ ValuesOf(Queries!Since(n)) \subseteq ValuesOf(entries)
         /\ \A x \in ValuesOf(entries) :
              x \in ValuesOf(Queries!Since(n)) \/ \E i \in 1..n : x = entries[i]
<1>1. entries \in Seq(Asked)
  BY DEF LogTyped
<1>2. Queries!Since(n) = IF n >= Len(entries) THEN <<>> ELSE SubSeq(entries, n + 1, Len(entries))
  BY DEF Queries!Since
<1>3. /\ n >= Len(entries) => Queries!Since(n) = <<>>
      /\ ~(n >= Len(entries)) => Queries!Since(n) = SubSeq(entries, n + 1, Len(entries))
  BY <1>2
<1>4. Queries!Since(n) \in Seq(Asked)
  BY <1>1, <1>3, RestIs
<1>5. Len(Queries!Since(n)) = Len(entries) - n
  BY <1>1, <1>3, RestIs
<1>6. ValuesOf(Queries!Since(n)) \subseteq ValuesOf(entries)
  BY <1>1, <1>3, RestIs
<1>7. \A x \in ValuesOf(entries) :
        x \in ValuesOf(Queries!Since(n)) \/ \E i \in 1..n : x = entries[i]
  BY <1>1, <1>3, RestIs
<1> QED
  BY <1>4, <1>5, <1>6, <1>7

-----------------------------------------------------------------------------
(* What a step does: the log changes; another window empties it; the page  *)
(* has new entries; or the page has what it had.                           *)

Grew(S) ==
  /\ ValuesOf(entries') = S /\ logHad' = logHad \cup {S}
  /\ lost' = lost /\ all' = all

Emptied ==
  /\ ValuesOf(entries') = {} /\ logHad' = logHad \cup {{}}
  /\ lost'

Loaded ==
  /\ UNCHANGED <<entries, logHad>>
  /\ ~lost' /\ ValuesOf(all') \in logHad

Waited ==
  /\ UNCHANGED <<entries, logHad, lost>>
  /\ lost \/ all' = all

LogStep == (\E S \in SUBSET Asked : Grew(S)) \/ Emptied \/ Loaded \/ Waited

LEMMA LogStarts == Queries!Init => LogInv /\ ~lost /\ ValuesOf(all) = {} /\ ValuesOf(entries) = {}
<1> SUFFICES ASSUME Queries!Init PROVE LogInv /\ ~lost /\ ValuesOf(all) = {} /\ ValuesOf(entries) = {}
  OBVIOUS
<1>1. entries = <<>> /\ all = <<>> /\ logHad = {{}} /\ known = 0 /\ logged = 0 /\ lost = FALSE
      /\ logCall = [at |-> "idle", count |-> 0]
  BY DEF Queries!Init, Queries!Idle, Queries!Doing
<1>2. ValuesOf(all) = {} /\ ValuesOf(entries) = {}
  BY <1>1, ValuesOfNone
<1>3. LogTyped
  <2>1. <<>> \in Seq(Asked) /\ DOMAIN <<>> = {} /\ 0 \in 0..MaxLogged
    BY LogConstants
  <2> QED
    BY <1>1, <1>2, <2>1 DEF LogTyped
<1>4. CopyKept
  BY <1>1, <1>2 DEF CopyKept
<1> QED
  BY <1>1, <1>2, <1>3, <1>4 DEF LogInv

LEMMA LogKeeps ==
  ASSUME LogInv, Queries!Log
  PROVE  LogInv' /\ \E S \in SUBSET Asked : Grew(S)
<1>0. entries \in Seq(Asked) /\ known \in Nat /\ logCall.count \in Nat
  BY DEF LogInv, LogTyped
<1>1. /\ logged \in 0..MaxLogged /\ logged < MaxLogged /\ logged' = logged + 1
      /\ entries' = Append(entries, logged + 1)
      /\ UNCHANGED <<logEnabled, all, known, logCall, lost>>
  BY DEF LogInv, LogTyped, Queries!Log, Queries!table
<1>2. logged + 1 \in Asked /\ logged + 1 \in 0..MaxLogged
  BY <1>1, LogConstants DEF Asked
<1>3. /\ entries' \in Seq(Asked) /\ Len(entries') = Len(entries) + 1
      /\ ValuesOf(entries') = ValuesOf(entries) \cup {logged + 1}
      /\ \A i \in DOMAIN entries' : entries'[i] = IF i = Len(entries) + 1 THEN logged + 1 ELSE entries[i]
  BY <1>1, <1>2, <1>0, ValuesOfAppend
<1>4. DOMAIN entries' = 1..Len(entries) + 1
  BY <1>0, <1>3
<1>5. Len(entries) \in Nat
  BY <1>0
<1>6. logHad' = logHad \cup {ValuesOf(entries')}
  BY RangeIsValues DEF Queries!Log
<1>7. LogTyped'
  <2>1. logged' \in 0..MaxLogged
    BY <1>1, <1>2
  <2> QED
    BY <1>1, <1>3, <1>6, <2>1 DEF LogInv, LogTyped
<1>8. CopyKept'
  <2>1. \A i \in 1..Len(entries) : entries'[i] = entries[i]
    BY <1>3, <1>4, <1>5
  <2>2. SUFFICES ASSUME ~lost PROVE CopyKept'
    BY <1>1 DEF CopyKept
  <2>3. /\ ValuesOf(all) \in logHad'
        /\ logCall.at \in {"shrunk", "grown"} => logCall.count <= Len(entries')
    <3>1. /\ ValuesOf(all) \in logHad
          /\ logCall.at \in {"shrunk", "grown"} => logCall.count <= Len(entries)
      BY <2>2 DEF LogInv, CopyKept
    <3>2. logCall.count <= Len(entries) => logCall.count <= Len(entries')
      BY <1>0, <1>3, <1>5
    <3> QED
      BY <1>6, <3>1, <3>2
  <2>4. ASSUME logCall.at # "none new"
        PROVE  /\ ValuesOf(all) \subseteq ValuesOf(entries')
               /\ known <= Len(entries')
               /\ \A i \in 1..known : entries'[i] \in ValuesOf(all)
    <3>1. /\ ValuesOf(all) \subseteq ValuesOf(entries)
          /\ known <= Len(entries)
          /\ \A i \in 1..known : entries[i] \in ValuesOf(all)
      BY <2>2, <2>4 DEF LogInv, CopyKept
    <3>2. known \in Nat /\ \A i \in 1..known : i \in 1..Len(entries)
      BY <1>5, <1>0, <3>1
    <3>3. known <= Len(entries')
      BY <1>3, <1>5, <3>1, <3>2
    <3> QED
      BY <1>3, <2>1, <3>1, <3>2, <3>3
  <2> QED
    BY <1>1, <2>3, <2>4 DEF CopyKept
<1>9. ValuesOf(entries') \in SUBSET Asked
  BY <1>3, <1>2 DEF ValuesOf
<1> QED
  BY <1>1, <1>6, <1>7, <1>8, <1>9 DEF LogInv, Grew

LEMMA LogHas ==
  LogInv => /\ Len(entries) \in Nat /\ DOMAIN entries = 1..Len(entries)
            /\ logCall.count \in Nat /\ lost \in BOOLEAN
<1> SUFFICES ASSUME LogInv
             PROVE  /\ Len(entries) \in Nat /\ DOMAIN entries = 1..Len(entries)
                    /\ logCall.count \in Nat /\ lost \in BOOLEAN
  OBVIOUS
<1>1. entries \in Seq(Asked) /\ logCall.count \in Nat
  BY DEF LogInv, LogTyped
<1>2. lost \in BOOLEAN
  BY Zenon DEF LogInv, LogTyped
<1> QED
  BY <1>1, <1>2

LEMMA ClearedElsewhereKeeps == ASSUME LogInv, Queries!ClearElsewhere PROVE LogInv' /\ Emptied
<1>1. /\ entries' = <<>> /\ logHad' = logHad \cup {{}} /\ lost' = TRUE
      /\ UNCHANGED <<logged, all, known, logCall>>
  BY DEF Queries!ClearElsewhere, Queries!Cleared, Queries!table
<1>2. ValuesOf(entries') = {} /\ entries' \in Seq(Asked)
  BY <1>1, ValuesOfNone
<1>3. LogTyped' /\ CopyKept'
  BY <1>1, <1>2 DEF LogInv, LogTyped, CopyKept
<1> QED
  BY <1>1, <1>2, <1>3 DEF LogInv, Emptied

LEMMA CountKeeps == ASSUME LogInv, Queries!Count PROVE LogInv' /\ Waited
<1>1. /\ UNCHANGED <<entries, logged, logHad, all, known, lost>>
      /\ logCall.at = "idle"
      /\ logCall'.at \in {"shrunk", "grown"} /\ logCall'.count = Len(entries)
  BY DEF Queries!Count, Queries!table, Queries!log, Queries!Idle, Queries!Doing
<1>2. Len(entries) \in Nat
  BY LogHas
<1>3. LogTyped'
  BY <1>1, <1>2 DEF LogInv, LogTyped
<1>4. CopyKept'
  <2>1. logCall'.count <= Len(entries)
    BY <1>1, <1>2
  <2>2. logCall.at # "none new"
    BY <1>1
  <2> QED
    BY <1>1, <2>1, <2>2 DEF LogInv, CopyKept
<1> QED
  BY <1>1, <1>3, <1>4 DEF LogInv, Waited

\* The page loads all entries.
LEMMA ReloadKeeps ==
  ASSUME LogInv, NEW n \in Nat, ~lost => n <= Len(entries),
         Queries!Reload(n), UNCHANGED <<entries, logged, logHad>>
  PROVE  LogInv' /\ (Loaded \/ Waited)
<1>1. /\ all' = entries /\ known' = n /\ logCall' = [at |-> "idle", count |-> 0]
      /\ lost' = (lost /\ n > Len(entries))
  BY DEF Queries!Reload, Queries!SetEntries, Queries!Idle, Queries!Doing
<1>2. Len(entries) \in Nat /\ lost \in BOOLEAN
  BY LogHas
<1>3. LogTyped'
  BY <1>1, <1>2 DEF LogInv, LogTyped
<1>4. ~lost' => n <= Len(entries)
  BY <1>1, <1>2
<1>5. ASSUME n <= Len(entries) PROVE \A i \in 1..n : entries[i] \in ValuesOf(entries)
  <2>1. 1..n \subseteq 1..Len(entries)
    BY <1>2, <1>5
  <2>2. DOMAIN entries = 1..Len(entries)
    BY LogHas
  <2> QED
    BY <2>1, <2>2 DEF ValuesOf
<1>6. CopyKept'
  BY <1>1, <1>4, <1>5 DEF LogInv, LogTyped, CopyKept
<1>7. Loaded \/ Waited
  <2>1. CASE lost'
    BY <1>1, <2>1 DEF Waited
  <2>2. CASE ~lost'
    BY <1>1, <2>2 DEF Loaded, LogInv, LogTyped
  <2> QED
    BY <2>1, <2>2
<1> QED
  BY <1>3, <1>6, <1>7 DEF LogInv

LEMMA LoadKeeps ==
  ASSUME LogInv, Queries!Refresh \/ Queries!LoadShrunk \/ Queries!LoadAll
  PROVE  LogInv' /\ (Loaded \/ Waited)
<1>1. UNCHANGED <<entries, logged, logHad>>
  BY DEF Queries!Refresh, Queries!LoadShrunk, Queries!LoadAll, Queries!log
<1>2. Len(entries) \in Nat /\ logCall.count \in Nat
  BY LogHas
<1>3. CASE Queries!Reload(Len(entries))
  <2>1. Len(entries) <= Len(entries)
    BY <1>2
  <2> QED
    BY <1>1, <1>2, <1>3, <2>1, ReloadKeeps
<1>4. CASE Queries!LoadShrunk
  <2>1. ~lost => logCall.count <= Len(entries)
    BY <1>4 DEF Queries!LoadShrunk, LogInv, CopyKept
  <2> QED
    BY <1>1, <1>2, <1>4, <2>1, ReloadKeeps DEF Queries!LoadShrunk
<1> QED
  BY <1>3, <1>4 DEF Queries!Refresh, Queries!LoadAll

LEMMA LoadNewKeeps == ASSUME LogInv, Queries!LoadNew PROVE LogInv' /\ (Loaded \/ Waited)
<1>1. /\ UNCHANGED <<entries, logged, logHad, lost>>
      /\ logCall.at = "grown"
      /\ \/ Queries!Since(known) = <<>> /\ all' = all /\ known' = known
            /\ logCall' = [at |-> "none new", count |-> 0]
         \/ all' = all \o Queries!Since(known) /\ known' = logCall.count
            /\ logCall' = [at |-> "idle", count |-> 0]
  BY DEF Queries!LoadNew, Queries!AppendEntries, Queries!table, Queries!log, Queries!Idle, Queries!Doing
<1>2. /\ entries \in Seq(Asked) /\ all \in Seq(Asked) /\ known \in Nat /\ logCall.count \in Nat
      /\ ValuesOf(entries) \in logHad
  BY DEF LogInv, LogTyped
<1>3. CASE all' = all /\ known' = known /\ logCall' = [at |-> "none new", count |-> 0]
  <2>1. LogTyped'
    BY <1>1, <1>3 DEF LogInv, LogTyped
  <2>2. CopyKept'
    BY <1>1, <1>3 DEF LogInv, CopyKept
  <2> QED
    BY <1>1, <1>3, <2>1, <2>2 DEF LogInv, Waited
<1>4. CASE all' = all \o Queries!Since(known) /\ known' = logCall.count
           /\ logCall' = [at |-> "idle", count |-> 0]
  <2>1. Queries!Since(known) \in Seq(Asked)
    BY <1>2, SinceTyped DEF LogInv
  <2>2. all' \in Seq(Asked) /\ ValuesOf(all') = ValuesOf(all) \cup ValuesOf(Queries!Since(known))
    BY <1>2, <1>4, <2>1, ValuesOfBoth
  <2>3. LogTyped'
    BY <1>1, <1>2, <1>4, <2>2 DEF LogInv, LogTyped
  <2>4. CASE lost
    BY <1>1, <2>3, <2>4 DEF LogInv, CopyKept, Waited
  <2>5. CASE ~lost
    <3>1. /\ ValuesOf(all) \subseteq ValuesOf(entries) /\ known <= Len(entries)
          /\ \A i \in 1..known : entries[i] \in ValuesOf(all)
          /\ logCall.count <= Len(entries)
      BY <1>1, <2>5 DEF LogInv, CopyKept
    <3>2. /\ ValuesOf(Queries!Since(known)) \subseteq ValuesOf(entries)
          /\ \A x \in ValuesOf(entries) :
               x \in ValuesOf(Queries!Since(known)) \/ \E i \in 1..known : x = entries[i]
      BY <1>2, <3>1, SinceHas DEF LogInv
    <3>3. ValuesOf(all') = ValuesOf(entries)
      BY <2>2, <3>1, <3>2
    <3>4. \A i \in 1..logCall.count : entries[i] \in ValuesOf(entries)
      <4>1. 1..logCall.count \subseteq 1..Len(entries)
        BY <1>2, <3>1, LogHas
      <4>2. DOMAIN entries = 1..Len(entries)
        BY LogHas
      <4> QED
        BY <4>1, <4>2 DEF ValuesOf
    <3>5. CopyKept'
      BY <1>1, <1>2, <1>4, <3>1, <3>3, <3>4 DEF CopyKept
    <3> QED
      BY <1>1, <1>2, <2>3, <2>5, <3>3, <3>5 DEF LogInv, Loaded
  <2> QED
    BY <2>4, <2>5
<1> QED
  BY <1>1, <1>3, <1>4

LEMMA ClearKeeps == ASSUME LogInv, Queries!Clear PROVE LogInv' /\ Grew({})
<1>1. /\ entries' = <<>> /\ logHad' = logHad \cup {{}} /\ known' = 0
      /\ logCall' = [at |-> "none new", count |-> 0]
      /\ UNCHANGED <<logged, all, lost>>
  BY DEF Queries!Clear, Queries!Cleared, Queries!table, Queries!Doing
<1>2. ValuesOf(entries') = {} /\ entries' \in Seq(Asked)
  <2>1. entries' = <<>>
    BY <1>1
  <2>2. ValuesOf(entries') = {}
    BY <2>1, ValuesOfNone
  <2> QED
    BY <2>1, <2>2
<1>3. LogTyped'
  BY <1>1, <1>2 DEF LogInv, LogTyped
<1>4. CopyKept'
  BY <1>1 DEF LogInv, CopyKept
<1> QED
  BY <1>1, <1>2, <1>3, <1>4 DEF LogInv, Grew

LEMMA CopyStays ==
  ASSUME LogInv, UNCHANGED <<entries, logged, logHad, all, known, logCall, lost>>
  PROVE  LogInv' /\ Waited
BY DEF LogInv, LogTyped, CopyKept, Waited

LEMMA LogNext == ASSUME LogInv, Queries!Next PROVE LogInv' /\ LogStep
<1>1. CASE Queries!SetEnabled \/ Queries!SetFilterText \/ Queries!Sort
  <2>1. UNCHANGED <<entries, logged, logHad, all, known, logCall, lost>>
    BY <1>1 DEF Queries!SetEnabled, Queries!SetFilterText, Queries!Sort, Queries!table, Queries!log
  <2> QED
    BY <2>1, CopyStays DEF LogStep
<1>2. CASE Queries!Log
  BY <1>2, LogKeeps DEF LogStep
<1>3. CASE Queries!ClearElsewhere
  BY <1>3, ClearedElsewhereKeeps DEF LogStep
<1>4. CASE Queries!Count
  BY <1>4, CountKeeps DEF LogStep
<1>5. CASE Queries!LoadNew
  BY <1>5, LoadNewKeeps DEF LogStep
<1>6. CASE Queries!Refresh \/ Queries!LoadShrunk \/ Queries!LoadAll
  BY <1>6, LoadKeeps DEF LogStep
<1>7. CASE Queries!Clear
  BY <1>7, ClearKeeps DEF LogStep
<1> QED
  BY <1>1, <1>2, <1>3, <1>4, <1>5, <1>6, <1>7 DEF Queries!Next, Queries!Refreshing

LEMMA LogKept == ASSUME LogInv, [UINext]_uiVars PROVE LogInv' /\ LogStep
<1>1. CASE UNCHANGED queriesVars
  BY <1>1, CopyStays DEF queriesVars, LogStep
<1>2. CASE Queries!Next
  BY <1>2, LogNext
<1> QED
  BY <1>1, <1>2 DEF UINext, InView, InDialog, InPage, InQueries, uiVars, windowVars

-----------------------------------------------------------------------------
(* The page is a mirror of the log.                                        *)

LEMMA PageStarts == Queries!Init => Queries!Page!Init
<1> SUFFICES ASSUME Queries!Init PROVE Queries!Page!Init
  OBVIOUS
<1>1. ~lost /\ ValuesOf(all) = {} /\ ValuesOf(entries) = {} /\ logHad = {{}}
  BY LogStarts DEF Queries!Init
<1>2. Queries!Range(all) = {} /\ Queries!Range(entries) = {}
  BY <1>1, RangeIsValues
<1> QED
  BY <1>1, <1>2 DEF Queries!Page!Init, Queries!Page!Shows, Queries!Page!Blank

LEMMA PageSteps == ASSUME LogInv, LogStep PROVE [Queries!Page!Next]_(Queries!Page!vars)
<1>1. /\ Queries!Range(all) = ValuesOf(all) /\ Queries!Range(entries) = ValuesOf(entries)
      /\ Queries!Range(all)' = ValuesOf(all') /\ Queries!Range(entries)' = ValuesOf(entries')
  BY RangeIsValues
<1>2. "log" # None
  BY LogConstants
<1>3. ASSUME NEW S \in SUBSET Asked, Grew(S) PROVE Queries!Page!Change
  BY <1>1, <1>3 DEF Grew, Queries!Page!Change, Queries!Page!Becomes, Asked
<1>4. CASE Emptied
  <2>1. Queries!Page!Becomes("log", {})
    BY <1>1, <1>4 DEF Emptied, Queries!Page!Becomes
  <2> QED
    BY <1>4, <2>1 DEF Emptied, Queries!Page!ChooseNone, Queries!Page!Next, Queries!Page!Blank, Queries!Page!Shows
<1>5. CASE Loaded
  <2>1. UNCHANGED <<Queries!Range(entries), logHad>>
    BY <1>1, <1>5 DEF Loaded
  <2>2. CASE lost
    BY <1>1, <1>2, <1>5, <2>1, <2>2 DEF Loaded, Queries!Page!Choose, Queries!Page!Next, Queries!Page!Shows
  <2>3. CASE ~lost
    BY <1>1, <1>5, <2>1, <2>3 DEF Loaded, Queries!Page!Show, Queries!Page!Next, Queries!Page!Shows
  <2> QED
    BY <2>2, <2>3
<1>6. CASE Waited
  BY <1>1, <1>6 DEF Waited, Queries!Page!vars
<1> QED
  BY <1>3, <1>4, <1>5, <1>6 DEF LogStep, Queries!Page!Next

\* Except from when another window clears the log until the page has loaded it again,
\* the page shows entries that the log has had together, for any number of queries,
\* logged while the page is between its look at the count and its reading of what is
\* new, and through its own clearing: the safety half of PageMirrors
\* (DNSLogPage.incrementalRefresh, clearLog).
THEOREM PageIsAMirror == UISpec => Queries!Page!Safety
<1>1. UIInit => LogInv /\ Queries!Page!Init
  BY LogStarts, PageStarts DEF UIInit
<1>2. LogInv /\ [UINext]_uiVars => LogInv' /\ [Queries!Page!Next]_(Queries!Page!vars)
  BY LogKept, PageSteps
<1> QED
  BY <1>1, <1>2, PTL DEF UISpec, Queries!Page!Safety

-----------------------------------------------------------------------------
(* RoutingPage: one save at a time.                                        *)

LEMMA LeastOf == ASSUME NEW T \in SUBSET Nat, T # {} PROVE \E n \in T : \A m \in T : n <= m
<1>1. PICK n \in T : \A m \in T : ~ <<m, n>> \in OpToRel(<, Nat)
  BY NatLessThanWellFounded, WFMin
<1>2. \A m \in T : <<m, n>> \in OpToRel(<, Nat) <=> m < n
  BY DEF OpToRel
<1>3. \A m \in T : m \in Nat /\ n \in Nat /\ ~ m < n
  BY <1>1, <1>2
<1>4. \A m \in T : n <= m
  BY <1>3
<1> QED
  BY <1>4

LEMMA MinIn == ASSUME NEW T \in SUBSET Nat, T # {} PROVE Routing!Min(T) \in T
BY LeastOf DEF Routing!Min

Reads == UNION {[1..n -> Values] : n \in 0..3}

IsLoad(g) == \E read \in Reads : g = Routing!Load(read)
IsStatus(g) == \E v \in Values \cup {None} : g = Routing!Status(v)
IsBox(g) == \E v \in Values : g = Routing!SetBox(v)
IsSet(g) == \E v \in Values, r \in {None, "ok", "failed"} : g = Routing!Set(v, r)
IsApply(g) == \E v \in Values, r \in {None, "ok", "failed"} : g = Routing!Apply(v, r)

LEMMA GoroutineIs ==
  ASSUME NEW g
  PROVE  g \in Routing!Goroutines <=> IsLoad(g) \/ IsStatus(g) \/ IsBox(g) \/ IsSet(g) \/ IsApply(g)
BY DEF Routing!Goroutines, Routing!Fields, Reads, IsLoad, IsStatus, IsBox, IsSet, IsApply

LEMMA RoutingConstants ==
  /\ MaxCalls \in Nat /\ None \notin Values /\ None \notin Routing!Goroutines
  /\ None \notin {"load", "status", "set", "box", "apply"}
BY WindowsAssumption DEF Routing!RoutingPageAssumption

Cells == 1..MaxCalls
Saves(g) == IsSet(g) \/ IsApply(g)

PageTyped ==
  /\ manager \in Routing!Settings /\ page \in Routing!Settings /\ mode \in Values
  /\ calls \in [Cells -> Routing!Goroutines \cup {None}]
  /\ enabled \in BOOLEAN

\* A save is under way while the controls are disabled, and no other.
OneSave ==
  /\ \A c, d \in Cells : Saves(calls[c]) /\ Saves(calls[d]) => c = d
  /\ enabled <=> \A c \in Cells : ~Saves(calls[c])

RoutingInv == PageTyped /\ OneSave

LEMMA KindsAre ==
  ASSUME NEW g
  PROVE  /\ IsLoad(g) => g.kind = "load" /\ ~Saves(g)
         /\ IsStatus(g) => g.kind = "status" /\ ~Saves(g)
         /\ IsBox(g) => g.kind = "box" /\ ~Saves(g)
         /\ IsSet(g) => g.kind = "set"
         /\ IsApply(g) => g.kind = "apply"
         /\ g = None => ~Saves(g)
<1>1. ASSUME g = None PROVE ~Saves(g)
  BY <1>1, RoutingConstants, GoroutineIs DEF Saves
<1>2. IsLoad(g) => g.kind = "load"
  BY DEF IsLoad, Routing!Load
<1>3. IsStatus(g) => g.kind = "status"
  BY DEF IsStatus, Routing!Status
<1>4. IsBox(g) => g.kind = "box"
  BY DEF IsBox, Routing!SetBox
<1>5. IsSet(g) => g.kind = "set"
  BY DEF IsSet, Routing!Set
<1>6. IsApply(g) => g.kind = "apply"
  BY DEF IsApply, Routing!Apply
<1> QED
  BY <1>1, <1>2, <1>3, <1>4, <1>5, <1>6 DEF Saves

LEMMA SavingIs ==
  ASSUME calls \in [Cells -> Routing!Goroutines \cup {None}], NEW c \in Cells
  PROVE  c \in Routing!Saving <=> Saves(calls[c])
<1>1. calls[c] = None \/ calls[c] \in Routing!Goroutines
  OBVIOUS
<1>2. CASE calls[c] = None
  BY <1>2, KindsAre, RoutingConstants DEF Routing!Saving, Routing!Kind
<1>3. CASE calls[c] \in Routing!Goroutines
  <2>1. calls[c] # None
    BY <1>3, RoutingConstants
  <2>2. c \in Routing!Saving <=> calls[c].kind \in {"set", "apply"}
    BY <2>1 DEF Routing!Saving, Routing!Kind, Cells
  <2> QED
    BY <1>3, <2>2, GoroutineIs, KindsAre DEF Saves
<1> QED
  BY <1>1, <1>2, <1>3

\* A goroutine's place gets another, or none: a save is begun, or goes on, or is over.
LEMMA CallChanges ==
  ASSUME PageTyped, NEW c \in Cells, NEW g \in Routing!Goroutines \cup {None},
         calls' = [calls EXCEPT ![c] = g]
  PROVE  /\ calls' \in [Cells -> Routing!Goroutines \cup {None}]
         /\ \A d \in Cells : Saves(calls'[d]) <=> IF d = c THEN Saves(g) ELSE Saves(calls[d])
<1>1. calls \in [Cells -> Routing!Goroutines \cup {None}]
  BY DEF PageTyped
<1>2. \A d \in Cells : calls'[d] = IF d = c THEN g ELSE calls[d]
  BY <1>1
<1>3. ASSUME NEW d \in Cells PROVE Saves(calls'[d]) <=> IF d = c THEN Saves(g) ELSE Saves(calls[d])
  <2>1. CASE d = c
    BY <1>2, <2>1
  <2>2. CASE d # c
    BY <1>2, <2>2
  <2> QED
    BY <2>1, <2>2
<1> QED
  BY <1>1, <1>3

LEMMA FreeIs ==
  ASSUME PageTyped, Routing!Free # {}
  PROVE  /\ Routing!Min(Routing!Free) \in Cells
         /\ ~Saves(calls[Routing!Min(Routing!Free)])
<1>1. Routing!Free \in SUBSET Nat
  BY DEF Routing!Free
<1>2. Routing!Min(Routing!Free) \in Routing!Free
  BY <1>1, MinIn
<1> QED
  BY <1>2, KindsAre DEF Routing!Free, Cells

\* With a new goroutine that does not save, what saves is what did.
LEMMA GoKeeps ==
  ASSUME PageTyped, NEW g \in Routing!Goroutines, Routing!Go(g)
  PROVE  /\ calls' \in [Cells -> Routing!Goroutines \cup {None}]
         /\ ~Saves(g) => \A d \in Cells : Saves(calls'[d]) <=> Saves(calls[d])
         /\ Saves(g) /\ (\A d \in Cells : ~Saves(calls[d])) =>
              \E c \in Cells : \A d \in Cells : Saves(calls'[d]) <=> d = c
<1>1. PICK c \in Cells : calls' = [calls EXCEPT ![c] = g] /\ ~Saves(calls[c])
  BY FreeIs DEF Routing!Go
<1>2. /\ calls' \in [Cells -> Routing!Goroutines \cup {None}]
      /\ \A d \in Cells : Saves(calls'[d]) <=> IF d = c THEN Saves(g) ELSE Saves(calls[d])
  BY <1>1, CallChanges
<1> QED
  BY <1>1, <1>2

LEMMA SavesSame ==
  ASSUME OneSave, enabled' = enabled, \A d \in Cells : Saves(calls'[d]) <=> Saves(calls[d])
  PROVE  OneSave'
BY DEF OneSave

\* A save begins: the controls are disabled by the click.
LEMMA SaveBegins ==
  ASSUME RoutingInv, NEW g \in Routing!Goroutines, Saves(g), Routing!Go(g), enabled, enabled' = FALSE
  PROVE  calls' \in [Cells -> Routing!Goroutines \cup {None}] /\ OneSave'
<1>1. \A d \in Cells : ~Saves(calls[d])
  BY DEF RoutingInv, OneSave
<1>2. /\ calls' \in [Cells -> Routing!Goroutines \cup {None}]
      /\ \E c \in Cells : \A d \in Cells : Saves(calls'[d]) <=> d = c
  BY <1>1, GoKeeps DEF RoutingInv
<1> QED
  BY <1>2 DEF OneSave

\* It ends: the UI's thread enables them.
LEMMA SaveEnds ==
  ASSUME RoutingInv, NEW c \in Cells, Saves(calls[c]), enabled' = TRUE,
         NEW g \in Routing!Goroutines \cup {None}, ~Saves(g), calls' = [calls EXCEPT ![c] = g]
  PROVE  calls' \in [Cells -> Routing!Goroutines \cup {None}] /\ OneSave'
<1>1. /\ calls' \in [Cells -> Routing!Goroutines \cup {None}]
      /\ \A d \in Cells : Saves(calls'[d]) <=> IF d = c THEN Saves(g) ELSE Saves(calls[d])
  BY CallChanges DEF RoutingInv
<1>2. \A d \in Cells : Saves(calls[d]) => d = c
  BY DEF RoutingInv, OneSave
<1> QED
  BY <1>1, <1>2 DEF OneSave

LEMMA CallStays ==
  ASSUME RoutingInv, NEW c \in Cells, enabled' = enabled,
         NEW g \in Routing!Goroutines \cup {None}, Saves(g) <=> Saves(calls[c]),
         calls' = [calls EXCEPT ![c] = g]
  PROVE  calls' \in [Cells -> Routing!Goroutines \cup {None}] /\ OneSave'
<1>1. /\ calls' \in [Cells -> Routing!Goroutines \cup {None}]
      /\ \A d \in Cells : Saves(calls'[d]) <=> IF d = c THEN Saves(g) ELSE Saves(calls[d])
  BY CallChanges DEF RoutingInv
<1>2. \A d \in Cells : Saves(calls'[d]) <=> Saves(calls[d])
  BY <1>1
<1> QED
  BY <1>1, <1>2, SavesSame DEF RoutingInv

LEMMA ReadsAre ==
  ASSUME NEW read
  PROVE  read \in Reads <=> read \in Seq(Values) /\ Len(read) \in 0..3
<1>1. ASSUME NEW n \in 0..3, read \in [1..n -> Values]
      PROVE  read \in Seq(Values) /\ Len(read) \in 0..3
  <2>1. n \in Nat /\ read \in Seq(Values) /\ Len(read) = n
    BY <1>1
  <2> QED
    BY <2>1
<1>2. ASSUME read \in Seq(Values), Len(read) \in 0..3
      PROVE  \E n \in 0..3 : read \in [1..n -> Values]
  <2>1. PICK n \in Nat : read \in [1..n -> Values]
    BY <1>2, SeqDef
  <2>2. Len(read) = n
    BY <2>1
  <2> QED
    BY <1>2, <2>1, <2>2
<1> QED
  BY <1>1, <1>2 DEF Reads

LEMMA ReadsGrow ==
  ASSUME NEW read \in Reads, NEW v \in Values, Len(read) < 3
  PROVE  Append(read, v) \in Reads
<1>1. read \in Seq(Values) /\ Len(read) \in 0..3
  BY ReadsAre
<1>2. Append(read, v) \in Seq(Values) /\ Len(Append(read, v)) = Len(read) + 1
  BY <1>1
<1>3. Len(read) + 1 \in 0..3
  BY <1>1
<1> QED
  BY <1>2, <1>3, ReadsAre

LEMMA ReadHas == ASSUME NEW read \in Seq(Values), NEW i \in 1..Len(read) PROVE read[i] \in Values
OBVIOUS

LEMMA ReadAll ==
  ASSUME NEW read \in Reads, Len(read) = 3
  PROVE  \A i \in 1..3 : read[i] \in Values
<1>1. read \in Seq(Values)
  BY ReadsAre
<1>2. \A i \in 1..Len(read) : read[i] \in Values
  BY <1>1, ReadHas
<1> QED
  BY <1>2

LEMMA SizeIs == ASSUME NEW S PROVE Routing!Cardinality(S) = Cardinality(S)
BY Zenon DEF Routing!Cardinality, Cardinality

LEMMA FieldsAre ==
  /\ Len(Routing!Fields) = 3 /\ DOMAIN Routing!Fields = 1..3
  /\ Routing!Fields[1] = "mode" /\ Routing!Fields[2] = "box" /\ Routing!Fields[3] = "rules"
BY DEF Routing!Fields

LEMMA ChangedIsSetting ==
  ASSUME NEW s \in Routing!Settings, NEW f \in {"mode", "box", "rules"}, NEW v \in Values
  PROVE  [s EXCEPT ![f] = v] \in Routing!Settings /\ s[f] \in Values
BY DEF Routing!Settings

LEMMA SettingIsValue ==
  ASSUME NEW s \in Routing!Settings, NEW f \in {"mode", "box", "rules"}
  PROVE  s[f] \in Values
BY DEF Routing!Settings

LEMMA GoroutineSteps ==
  /\ \A a, b : [Routing!Load(a) EXCEPT !.read = b] = Routing!Load(b)
  /\ \A v, w : [Routing!Status(v) EXCEPT !.value = w] = Routing!Status(w)
  /\ \A v, s, r : [Routing!Set(v, s) EXCEPT !.result = r] = Routing!Set(v, r)
  /\ \A v, s, r : [Routing!Apply(v, s) EXCEPT !.result = r] = Routing!Apply(v, r)
BY DEF Routing!Load, Routing!Status, Routing!Set, Routing!Apply

LEMMA UserKeeps ==
  ASSUME RoutingInv, Routing!ClickMode \/ Routing!ClickBox \/ Routing!Write \/ Routing!OnApply \/ Routing!Other
  PROVE  RoutingInv'
<1>0. PageTyped
  BY DEF RoutingInv
<1>1. CASE Routing!ClickMode
  <2>1. PICK v \in Values : page' = [page EXCEPT !["mode"] = v] /\ Routing!Go(Routing!Set(v, None))
    BY <1>1 DEF Routing!ClickMode
  <2>2. IsSet(Routing!Set(v, None))
    BY DEF IsSet
  <2>3. Routing!Set(v, None) \in Routing!Goroutines /\ Saves(Routing!Set(v, None))
    BY <2>2, GoroutineIs DEF Saves
  <2>4. calls' \in [Cells -> Routing!Goroutines \cup {None}] /\ OneSave'
    BY <1>1, <2>1, <2>3, SaveBegins DEF Routing!ClickMode
  <2> QED
    BY <1>0, <1>1, <2>1, <2>4, ChangedIsSetting DEF Routing!ClickMode, RoutingInv, PageTyped
<1>2. CASE Routing!OnApply
  <2> DEFINE g == Routing!Apply(page["rules"], None)
  <2>1. IsApply(g)
    BY <1>0, ChangedIsSetting DEF IsApply, PageTyped
  <2>2. g \in Routing!Goroutines /\ Saves(g)
    BY <2>1, GoroutineIs DEF Saves
  <2>3. calls' \in [Cells -> Routing!Goroutines \cup {None}] /\ OneSave'
    BY <1>2, <2>2, SaveBegins DEF Routing!OnApply
  <2> QED
    BY <1>0, <1>2, <2>3 DEF Routing!OnApply, RoutingInv, PageTyped
<1>3. CASE Routing!ClickBox
  <2>1. PICK v \in Values : page' = [page EXCEPT !["box"] = v] /\ Routing!Go(Routing!SetBox(v))
    BY <1>3 DEF Routing!ClickBox
  <2>2. IsBox(Routing!SetBox(v))
    BY DEF IsBox
  <2>3. Routing!SetBox(v) \in Routing!Goroutines /\ ~Saves(Routing!SetBox(v))
    BY <2>2, GoroutineIs, KindsAre
  <2>4. /\ calls' \in [Cells -> Routing!Goroutines \cup {None}]
        /\ \A d \in Cells : Saves(calls'[d]) <=> Saves(calls[d])
    BY <1>0, <2>1, <2>3, GoKeeps
  <2>5. OneSave'
    BY <1>3, <2>4, SavesSame DEF Routing!ClickBox, RoutingInv
  <2> QED
    BY <1>0, <1>3, <2>1, <2>4, <2>5, ChangedIsSetting DEF Routing!ClickBox, RoutingInv, PageTyped
<1>4. CASE Routing!Write
  <2>1. OneSave'
    BY <1>4, SavesSame DEF Routing!Write, RoutingInv
  <2> QED
    BY <1>0, <1>4, <2>1, ChangedIsSetting DEF Routing!Write, RoutingInv, PageTyped
<1>5. CASE Routing!Other
  <2>1. OneSave'
    BY <1>5, SavesSame DEF Routing!Other, RoutingInv
  <2>2. PICK f \in {"mode", "rules"}, v \in Values : manager' = [manager EXCEPT ![f] = v]
    BY <1>5 DEF Routing!Other
  <2> QED
    BY <1>0, <1>5, <2>1, <2>2, ChangedIsSetting DEF Routing!Other, RoutingInv, PageTyped
<1> QED
  BY <1>1, <1>2, <1>3, <1>4, <1>5

LEMMA ReportKeeps == ASSUME RoutingInv, Routing!OnTunnelChange PROVE RoutingInv'
<1> DEFINE g == Routing!Status(None)
           h == Routing!Load(<<>>)
           c == Routing!Min(Routing!Free)
           e == Routing!Min(Routing!Free \ {c})
<1>0. PageTyped
  BY DEF RoutingInv
<1>1. IsStatus(g) /\ IsLoad(h)
  <2>1. <<>> \in [1..0 -> Values]
    OBVIOUS
  <2>2. <<>> \in Reads
    BY <2>1 DEF Reads
  <2> QED
    BY <2>2 DEF IsStatus, IsLoad
<1>2. /\ g \in Routing!Goroutines /\ h \in Routing!Goroutines /\ ~Saves(g) /\ ~Saves(h)
  BY <1>1, GoroutineIs, KindsAre
<1>3. /\ Routing!Cardinality(Routing!Free) > 1
      /\ calls' = [calls EXCEPT ![c] = g, ![e] = h]
  BY DEF Routing!OnTunnelChange, Routing!GoBoth
<1>4. Routing!Free \subseteq Cells /\ Cells \subseteq Nat /\ \A d \in Routing!Free : calls[d] = None
  BY DEF Routing!Free, Cells
<1>5. Routing!Free # {}
  BY <1>3, SizeIs, FS_EmptySet
<1>6. c \in Routing!Free
  BY <1>4, <1>5, MinIn
<1>7. Routing!Free \ {c} # {}
  <2>1. SUFFICES ASSUME Routing!Free = {c} PROVE FALSE
    BY <1>6
  <2>2. Cardinality({c}) = 1
    BY FS_Singleton
  <2> QED
    BY <1>3, <2>1, <2>2, SizeIs
<1>8. e \in Routing!Free \ {c}
  BY <1>4, <1>7, MinIn
<1> HIDE DEF g, h, c, e
<1>9. \A d \in Cells : calls'[d] = IF d = e THEN h ELSE IF d = c THEN g ELSE calls[d]
  BY <1>0, <1>3, <1>4, <1>6, <1>8 DEF PageTyped
<1>10. calls' \in [Cells -> Routing!Goroutines \cup {None}]
  BY <1>0, <1>2, <1>3 DEF PageTyped
<1>11. \A d \in Cells : Saves(calls'[d]) <=> Saves(calls[d])
  BY <1>2, <1>4, <1>6, <1>8, <1>9, KindsAre
<1>12. OneSave'
  BY <1>11, SavesSame DEF Routing!OnTunnelChange, RoutingInv
<1> QED
  BY <1>0, <1>10, <1>12 DEF Routing!OnTunnelChange, RoutingInv, PageTyped

LEMMA OneMore == ASSUME NEW n \in Nat, n < 3 PROVE n + 1 \in 1..3
OBVIOUS

LEMMA KindIs ==
  ASSUME PageTyped, NEW c \in Cells
  PROVE  /\ Routing!Kind(c) = "load" => IsLoad(calls[c])
         /\ Routing!Kind(c) = "status" => IsStatus(calls[c])
         /\ Routing!Kind(c) = "box" => IsBox(calls[c])
         /\ Routing!Kind(c) = "set" => IsSet(calls[c])
         /\ Routing!Kind(c) = "apply" => IsApply(calls[c])
<1>1. calls[c] \in Routing!Goroutines \cup {None}
  BY DEF PageTyped
<1>2. CASE calls[c] = None
  BY <1>2, RoutingConstants DEF Routing!Kind
<1>3. CASE calls[c] # None
  <2>1. Routing!Kind(c) = calls[c].kind
    BY <1>3 DEF Routing!Kind
  <2>2. IsLoad(calls[c]) \/ IsStatus(calls[c]) \/ IsBox(calls[c]) \/ IsSet(calls[c]) \/ IsApply(calls[c])
    BY <1>1, <1>3, GoroutineIs
  <2>3. /\ IsLoad(calls[c]) => calls[c].kind = "load"
        /\ IsStatus(calls[c]) => calls[c].kind = "status"
        /\ IsBox(calls[c]) => calls[c].kind = "box"
        /\ IsSet(calls[c]) => calls[c].kind = "set"
        /\ IsApply(calls[c]) => calls[c].kind = "apply"
    BY KindsAre
  <2> QED
    BY <2>1, <2>2, <2>3
<1> QED
  BY <1>2, <1>3

\* A goroutine's call to the manager.
LEMMA CallKeeps == ASSUME RoutingInv, NEW c \in Cells, Routing!CallNext(c) PROVE RoutingInv'
<1>0. /\ PageTyped /\ UNCHANGED <<page, mode, enabled>>
      /\ calls \in [Cells -> Routing!Goroutines \cup {None}]
      /\ manager \in Routing!Settings
  BY DEF RoutingInv, PageTyped, Routing!CallNext
<1>1. ASSUME NEW g \in Routing!Goroutines \cup {None}, Saves(g) <=> Saves(calls[c]),
             calls' = [calls EXCEPT ![c] = g], manager' \in Routing!Settings
      PROVE  RoutingInv'
  <2>1. calls' \in [Cells -> Routing!Goroutines \cup {None}] /\ OneSave'
    BY <1>0, <1>1, CallStays
  <2> QED
    BY <1>0, <1>1, <2>1 DEF RoutingInv, PageTyped
<1>2. CASE /\ Routing!Kind(c) = "load" /\ Len(calls[c].read) < Len(Routing!Fields)
           /\ calls' = [calls EXCEPT ![c].read = Append(@, manager[Routing!Fields[Len(@) + 1]])]
           /\ manager' = manager
  <2>1. PICK read \in Reads : calls[c] = Routing!Load(read)
    BY <1>0, <1>2, KindIs DEF IsLoad
  <2>2. calls[c].read = read /\ Len(read) < 3
    BY <1>2, <2>1, FieldsAre DEF Routing!Load
  <2>3. Len(read) \in Nat
    BY ReadsAre
  <2>4. Routing!Fields[Len(read) + 1] \in {"mode", "box", "rules"}
    <3>0. Len(read) + 1 \in 1..3
      BY <2>2, <2>3, OneMore
    <3>1. PICK k \in 1..3 : k = Len(read) + 1
      BY <3>0
    <3>2. k = 1 \/ k = 2 \/ k = 3
      OBVIOUS
    <3>3. Routing!Fields[k] \in {"mode", "box", "rules"}
      BY <3>2, FieldsAre
    <3> QED
      BY <3>1, <3>3
  <2>5. PICK v \in Values : v = manager[Routing!Fields[Len(read) + 1]]
    BY <1>0, <2>4, SettingIsValue
  <2>6. Append(read, v) \in Reads
    BY <2>2, ReadsGrow
  <2>7. PICK grown \in Reads : grown = Append(read, v)
    BY <2>6
  <2>8. calls' = [calls EXCEPT ![c].read = grown]
    BY <1>2, <2>2, <2>5, <2>7
  <2>9. calls' = [calls EXCEPT ![c] = Routing!Load(grown)]
    <3>1. calls' = [calls EXCEPT ![c] = [calls[c] EXCEPT !.read = grown]]
      BY <1>0, <2>8
    <3>2. [calls[c] EXCEPT !.read = grown] = Routing!Load(grown)
      BY <2>1, GoroutineSteps
    <3> QED
      BY <3>1, <3>2
  <2>10. Routing!Load(grown) \in Routing!Goroutines /\ ~Saves(Routing!Load(grown)) /\ ~Saves(calls[c])
    BY <2>1, GoroutineIs, KindsAre DEF IsLoad
  <2> QED
    BY <1>0, <1>1, <1>2, <2>9, <2>10
<1>3. CASE /\ Routing!Kind(c) = "status" /\ calls[c].value = None
           /\ calls' = [calls EXCEPT ![c].value = manager["mode"]]
           /\ manager' = manager
  <2>1. PICK v \in Values \cup {None} : calls[c] = Routing!Status(v)
    BY <1>0, <1>3, KindIs DEF IsStatus
  <2>2. PICK w \in Values : w = manager["mode"]
    BY <1>0, SettingIsValue
  <2>3. calls' = [calls EXCEPT ![c] = Routing!Status(w)]
    <3>1. calls' = [calls EXCEPT ![c] = [calls[c] EXCEPT !.value = w]]
      BY <1>0, <1>3, <2>2
    <3>2. [calls[c] EXCEPT !.value = w] = Routing!Status(w)
      BY <2>1, GoroutineSteps
    <3> QED
      BY <3>1, <3>2
  <2>4. Routing!Status(w) \in Routing!Goroutines /\ ~Saves(Routing!Status(w)) /\ ~Saves(calls[c])
    BY <2>1, GoroutineIs, KindsAre DEF IsStatus
  <2> QED
    BY <1>0, <1>1, <1>3, <2>3, <2>4
<1>4. CASE /\ Routing!Kind(c) = "box"
           /\ manager' = [manager EXCEPT !["box"] = calls[c].value]
           /\ calls' = [calls EXCEPT ![c] = None]
  <2>1. PICK v \in Values : calls[c] = Routing!SetBox(v)
    BY <1>0, <1>4, KindIs DEF IsBox
  <2>2. calls[c].value = v /\ ~Saves(calls[c]) /\ ~Saves(None)
    BY <2>1, KindsAre DEF IsBox, Routing!SetBox
  <2>3. manager' \in Routing!Settings
    BY <1>0, <1>4, <2>2, ChangedIsSetting
  <2> QED
    BY <1>1, <1>4, <2>2, <2>3
<1>5. CASE /\ c \in Routing!Saving
           /\ manager' = [manager EXCEPT ![IF Routing!Kind(c) = "set" THEN "mode" ELSE "rules"] = calls[c].value]
           /\ \E r \in {"ok", "failed"} : calls' = [calls EXCEPT ![c].result = r]
  <2>1. PICK r \in {"ok", "failed"} : calls' = [calls EXCEPT ![c].result = r]
    BY <1>5
  <2>2. Saves(calls[c])
    BY <1>0, <1>5, SavingIs
  <2>3. PICK v \in Values, s \in {None, "ok", "failed"} :
          calls[c] = Routing!Set(v, s) \/ calls[c] = Routing!Apply(v, s)
    BY <2>2 DEF Saves, IsSet, IsApply
  <2>4. calls[c].value = v
    BY <2>3 DEF Routing!Set, Routing!Apply
  <2>5. PICK f \in {"mode", "rules"} : manager' = [manager EXCEPT ![f] = v]
    BY <1>5, <2>4
  <2>6. manager' \in Routing!Settings
    BY <1>0, <2>5, ChangedIsSetting
  <2>7. CASE calls[c] = Routing!Set(v, s)
    <3>1. calls' = [calls EXCEPT ![c] = Routing!Set(v, r)]
      <4>1. calls' = [calls EXCEPT ![c] = [calls[c] EXCEPT !.result = r]]
        BY <1>0, <2>1
      <4>2. [calls[c] EXCEPT !.result = r] = Routing!Set(v, r)
        BY <2>7, GoroutineSteps
      <4> QED
        BY <4>1, <4>2
    <3>2. Routing!Set(v, r) \in Routing!Goroutines /\ Saves(Routing!Set(v, r))
      BY GoroutineIs DEF Saves, IsSet
    <3> QED
      BY <1>1, <2>2, <2>6, <3>1, <3>2
  <2>8. CASE calls[c] = Routing!Apply(v, s)
    <3>1. calls' = [calls EXCEPT ![c] = Routing!Apply(v, r)]
      <4>1. calls' = [calls EXCEPT ![c] = [calls[c] EXCEPT !.result = r]]
        BY <1>0, <2>1
      <4>2. [calls[c] EXCEPT !.result = r] = Routing!Apply(v, r)
        BY <2>8, GoroutineSteps
      <4> QED
        BY <4>1, <4>2
    <3>2. Routing!Apply(v, r) \in Routing!Goroutines /\ Saves(Routing!Apply(v, r))
      BY GoroutineIs DEF Saves, IsApply
    <3> QED
      BY <1>1, <2>2, <2>6, <3>1, <3>2
  <2> QED
    BY <2>3, <2>7, <2>8
<1> QED
  BY <1>2, <1>3, <1>4, <1>5 DEF Routing!CallNext

\* What a goroutine has brought is put on the page by the UI's thread.
LEMMA PutKeeps ==
  ASSUME RoutingInv, NEW c \in Cells,
         \/ Routing!PutLoaded(c) \/ Routing!PutStatus(c)
         \/ Routing!PutModeResult(c) \/ Routing!PutApplied(c)
  PROVE  RoutingInv'
<1>0. /\ PageTyped /\ manager' = manager /\ manager \in Routing!Settings
      /\ calls \in [Cells -> Routing!Goroutines \cup {None}]
      /\ page \in Routing!Settings /\ mode \in Values
  BY DEF RoutingInv, PageTyped,
     Routing!PutLoaded, Routing!PutStatus, Routing!PutModeResult, Routing!PutApplied
<1>1. ~Saves(None)
  BY KindsAre
<1>2. CASE Routing!PutLoaded(c)
  <2>1. PICK read \in Reads : calls[c] = Routing!Load(read)
    BY <1>0, <1>2, KindIs DEF IsLoad, Routing!PutLoaded
  <2>2. calls[c].read = read
    BY <2>1 DEF Routing!Load
  <2>3. Len(read) = 3 /\ mode' = read[1] /\ Routing!Loaded(read)
    BY <1>2, <2>2, FieldsAre DEF Routing!PutLoaded
  <2>4. \A i \in 1..3 : read[i] \in Values
    BY <2>3, ReadAll
  <2>5. page' \in Routing!Settings
    <3>1. DOMAIN page = {"mode", "box", "rules"}
      BY <1>0 DEF Routing!Settings
    <3>2. ASSUME NEW f \in {"mode", "box", "rules"}
          PROVE  (CHOOSE i \in DOMAIN Routing!Fields : Routing!Fields[i] = f) \in 1..3
      <4>1. \E i \in 1..3 : Routing!Fields[i] = f
        BY FieldsAre
      <4> QED
        BY <4>1, FieldsAre
    <3> QED
      BY <2>3, <2>4, <3>1, <3>2 DEF Routing!Loaded, Routing!Settings
  <2>6. PICK g \in Routing!Goroutines \cup {None} : ~Saves(g) /\ calls' = [calls EXCEPT ![c] = g]
    <3>1. PICK v \in Values : v = page'["box"]
      BY <2>5, SettingIsValue
    <3>2. Routing!SetBox(v) \in Routing!Goroutines /\ ~Saves(Routing!SetBox(v))
      BY GoroutineIs, KindsAre DEF IsBox
    <3> QED
      BY <1>1, <1>2, <3>1, <3>2 DEF Routing!PutLoaded
  <2>7. ~Saves(calls[c])
    BY <2>1, KindsAre DEF IsLoad
  <2>8. calls' \in [Cells -> Routing!Goroutines \cup {None}] /\ OneSave'
    BY <1>2, <2>6, <2>7, CallStays DEF Routing!PutLoaded
  <2>9. mode' \in Values
    BY <2>3, <2>4
  <2> QED
    BY <1>0, <1>2, <2>5, <2>8, <2>9 DEF RoutingInv, PageTyped, Routing!PutLoaded
<1>3. CASE Routing!PutStatus(c)
  <2>1. PICK v \in Values \cup {None} : calls[c] = Routing!Status(v)
    BY <1>0, <1>3, KindIs DEF IsStatus, Routing!PutStatus
  <2>2. calls[c].value = v /\ ~Saves(calls[c])
    BY <2>1, KindsAre DEF IsStatus, Routing!Status
  <2>3. calls' \in [Cells -> Routing!Goroutines \cup {None}] /\ OneSave'
    BY <1>1, <1>3, <2>2, CallStays DEF Routing!PutStatus
  <2>4. mode' \in Values
    BY <1>3, <2>1, <2>2 DEF Routing!PutStatus
  <2> QED
    BY <1>0, <1>3, <2>3, <2>4 DEF RoutingInv, PageTyped, Routing!PutStatus
<1>4. CASE Routing!PutModeResult(c)
  <2>1. Saves(calls[c])
    BY <1>0, <1>4, KindIs DEF Saves, Routing!PutModeResult
  <2>2. <<>> \in Reads
    <3>1. <<>> \in Seq(Values) /\ Len(<<>>) = 0 /\ 0 \in 0..3
      OBVIOUS
    <3> QED
      BY <3>1, ReadsAre
  <2>3. /\ Routing!Status(None) \in Routing!Goroutines /\ ~Saves(Routing!Status(None))
        /\ Routing!Load(<<>>) \in Routing!Goroutines /\ ~Saves(Routing!Load(<<>>))
    BY <2>2, GoroutineIs, KindsAre DEF IsStatus, IsLoad
  <2>4. PICK g \in Routing!Goroutines \cup {None} : ~Saves(g) /\ calls' = [calls EXCEPT ![c] = g]
    BY <1>4, <2>3 DEF Routing!PutModeResult
  <2>5. calls' \in [Cells -> Routing!Goroutines \cup {None}] /\ OneSave'
    BY <1>4, <2>1, <2>4, SaveEnds DEF Routing!PutModeResult
  <2> QED
    BY <1>0, <1>4, <2>5 DEF RoutingInv, PageTyped, Routing!PutModeResult
<1>5. CASE Routing!PutApplied(c)
  <2>1. Saves(calls[c])
    BY <1>0, <1>5, KindIs DEF Saves, Routing!PutApplied
  <2>2. calls' \in [Cells -> Routing!Goroutines \cup {None}] /\ OneSave'
    BY <1>1, <1>5, <2>1, SaveEnds DEF Routing!PutApplied
  <2> QED
    BY <1>0, <1>5, <2>2 DEF RoutingInv, PageTyped, Routing!PutApplied
<1> QED
  BY <1>2, <1>3, <1>4, <1>5

LEMMA RoutingStarts == Routing!Init => RoutingInv
<1> SUFFICES ASSUME Routing!Init PROVE RoutingInv
  OBVIOUS
<1>1. PICK v \in Values : manager = [f \in {"mode", "box", "rules"} |-> v]
  BY DEF Routing!Init
<1>2. page = manager /\ mode = v /\ enabled = TRUE
      /\ calls = [c \in 1..MaxCalls |-> IF c = 1 THEN Routing!SetBox(v) ELSE None]
  BY <1>1 DEF Routing!Init
<1>3. IsBox(Routing!SetBox(v))
  BY DEF IsBox
<1>4. Routing!SetBox(v) \in Routing!Goroutines /\ ~Saves(Routing!SetBox(v)) /\ ~Saves(None)
  BY <1>3, GoroutineIs, KindsAre
<1>5. PageTyped
  BY <1>1, <1>2, <1>4 DEF PageTyped, Cells, Routing!Settings
<1>6. \A c \in Cells : ~Saves(calls[c])
  BY <1>2, <1>4 DEF Cells
<1> QED
  BY <1>2, <1>5, <1>6 DEF RoutingInv, OneSave

LEMMA RoutingKept == RoutingInv /\ [UINext]_uiVars => RoutingInv'
<1> SUFFICES ASSUME RoutingInv, [UINext]_uiVars PROVE RoutingInv'
  OBVIOUS
<1>1. CASE Routing!Next
  BY <1>1, UserKeeps, ReportKeeps, CallKeeps, PutKeeps DEF Routing!Next, Routing!Goroutine, Cells
<1>2. CASE UNCHANGED pageVars
  BY <1>2 DEF pageVars, RoutingInv, PageTyped, OneSave
<1> QED
  BY <1>1, <1>2 DEF UINext, InView, InDialog, InPage, InQueries, uiVars, windowVars

LEMMA RoutingTyped == RoutingInv => Routing!TypeOK
<1> SUFFICES ASSUME RoutingInv PROVE Routing!TypeOK
  OBVIOUS
<1>1. \A c \in Cells : c \in Routing!Saving <=> Saves(calls[c])
  BY SavingIs DEF RoutingInv, PageTyped
<1>2. Routing!Saving \subseteq Cells
  BY DEF Routing!Saving, Cells
<1>3. \A c, d \in Routing!Saving : c = d
  BY <1>1, <1>2 DEF RoutingInv, OneSave
<1>4. enabled <=> Routing!Saving = {}
  <2>1. (\A c \in Cells : ~Saves(calls[c])) <=> Routing!Saving = {}
    BY <1>1, <1>2
  <2> QED
    BY <2>1 DEF RoutingInv, OneSave
<1> QED
  BY <1>3, <1>4 DEF RoutingInv, PageTyped, Routing!TypeOK

\* While the settings are being saved, and only then, the controls that save are
\* disabled: no two saves are under way, and none leaves the controls as they were,
\* for any number of goroutines that end in any order (DomainRoutingPage.onModeChanged,
\* onApply).
THEOREM OneSaveAtATime == UISpec => []Routing!TypeOK
<1>1. UIInit => RoutingInv
  BY RoutingStarts DEF UIInit
<1> QED
  BY <1>1, RoutingKept, RoutingTyped, PTL DEF UISpec
=============================================================================
