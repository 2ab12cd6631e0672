------------------------------- MODULE UIParts ------------------------------
(***************************************************************************)
(* The windows of the UI that share no state, as one specification beside  *)
(* the parts of SettingsParts: the view of a tunnel, the dialog that edits *)
(* one, the pages of the routing settings and of the DNS log.  As there,   *)
(* the initial state chooses a part, and only that one runs.               *)
(***************************************************************************)
EXTENDS SettingsParts

CONSTANTS
  MaxViewInputs, MaxPosts,                            \* ConfView
  PrivateKeys, NoKey, OtherIP, Taken, OwnName, FreeName, \* EditDialog
  Values, MaxCalls, MaxPageInputs,                    \* RoutingPage
  MaxLogged, MaxLogInputs                             \* DnsLog

VARIABLES
  state, had, writers, events, listener, ticker, setters, posts,          \* ConfView
  tunnel, visible, status, config, viewInputs,
  text, blocking, clean, boxVisible, checked, pubkey, saving, result,     \* EditDialog
  manager, page, mode, enabled, calls, clicked, pageInputs,               \* RoutingPage
  entries, logEnabled, logged, logHad, all, rows, filter, sorted, down,   \* DnsLog
  known, logCall, lost, logInputs

viewVars ==
  <<state, had, writers, events, listener, ticker, setters, posts, tunnel, visible, status, config, viewInputs>>
dialogVars == <<text, blocking, clean, boxVisible, checked, pubkey, saving, result>>
pageVars == <<manager, page, mode, enabled, calls, clicked, pageInputs>>
queriesVars == <<entries, logEnabled, logged, logHad, all, rows, filter, sorted, down, known, logCall, lost, logInputs>>
windowVars == <<viewVars, dialogVars, pageVars, queriesVars>>
uiVars == <<vars, windowVars>>

View == INSTANCE ConfView WITH MaxInputs <- MaxViewInputs, inputs <- viewInputs

Dialog == INSTANCE EditDialog WITH Keys <- PrivateKeys, visible <- boxVisible

Routing == INSTANCE RoutingPage WITH
  MaxInputs <- MaxPageInputs, status <- mode, inputs <- pageInputs

Queries == INSTANCE DnsLog WITH
  MaxInputs <- MaxLogInputs, enabled <- logEnabled, had <- logHad, page <- logCall, inputs <- logInputs

ASSUME WindowsAssumption ==
  /\ View!ConfViewAssumption /\ Dialog!EditDialogAssumption
  /\ Routing!RoutingPageAssumption /\ Queries!DnsLogAssumption

UIInit == Init /\ View!Init /\ Dialog!Init /\ Routing!Init /\ Queries!Init

InUI(p) == part = p /\ UNCHANGED vars

InView == InUI("view") /\ UNCHANGED <<dialogVars, pageVars, queriesVars>>
InDialog == InUI("dialog") /\ UNCHANGED <<viewVars, pageVars, queriesVars>>
InPage == InUI("page") /\ UNCHANGED <<viewVars, dialogVars, queriesVars>>
InQueries == InUI("queries") /\ UNCHANGED <<viewVars, dialogVars, pageVars>>

UINext ==
  \/ Next /\ UNCHANGED windowVars
  \/ InView /\ View!Next
  \/ InDialog /\ Dialog!Next
  \/ InPage /\ Routing!Next
  \/ InQueries /\ Queries!Next

UISpec == UIInit /\ [][UINext]_uiVars

-----------------------------------------------------------------------------
(* Properties: those of the windows, each with the part's types.           *)

\* The status line and the configuration mirror the tunnel (ConfView).
ViewMirrors == []View!TypeOK /\ View!StatusMirrors /\ View!ConfigMirrors

\* A tick changes no route, and the box is true after it (EditDialog).
TickMeansBlocked == []Dialog!TypeOK /\ Dialog!TickKeepsRoutes /\ Dialog!TickIsTrue

\* The controls of the routing page come back, and it comes to show the settings of
\* the manager (RoutingPage).
RoutingPageFollows == []Routing!TypeOK /\ Routing!ControlsReturn /\ Routing!PageFollows

\* The page of the DNS log mirrors the log (DnsLog).
PageMirrors == []Queries!TypeOK /\ Queries!PageMirrors
=============================================================================
