----------------------------- MODULE MCSettings -----------------------------
(***************************************************************************)
(* The instance of UIParts, and with it of SettingsParts, for TLC, with    *)
(* two further parts: the highlighter of the configuration's editor, and   *)
(* its reading of addresses.  As there, the initial state chooses the part *)
(* that runs.  The arithmetic of port ranges is checked against its        *)
(* reference on short sequences.                                           *)
(***************************************************************************)
EXTENDS UIParts

VARIABLES
  draft, left, spans,  \* Highlighter
  addr                 \* AddressText

textVars == <<draft, left, spans, addr>>

\* Ranges that touch, out of order, and fields that are 0, of each kind of protocol.
Rule(proto, from, to) == [Protocol |-> proto, From |-> from, To |-> to]
SomeRules == {<<Rule("tcp", 4, 4), Rule("both", 2, 3), Rule("udp", 4, 2), Rule("other", 0, 0)>>}

\* With a default route; with a part of the networks around loopback, and with the two
\* that the code takes for all of them.
SomeLists == {{"v4all", "lan6"}, {"lan", "low", "between"}, {"low", "high"}}

-----------------------------------------------------------------------------
\* A new tunnel's text, one whose first section has been typed, and one with a key.
SomeDrafts == {<<>>, <<"[Interface]", "\n">>, <<"[Interface]", "\n", "DNS", "=">>}
Syntax == INSTANCE Highlighter WITH Drafts <- SomeDrafts, MaxTyped <- 3, text <- draft

Address == INSTANCE AddressText WITH MaxTokens <- 17

ShortSeqs == UNION {[1 .. n -> {r \in Rules!Ranges : r.from <= r.to}] : n \in 0 .. 3}

\* What mergeRanges returns covers the same ports, in separate ranges.
ASSUME MergeIsRight ==
  \A rs \in ShortSeqs :
    Rules!PortsIn(Rules!mergeRanges(rs)) = Rules!PortsIn(rs) /\ Rules!Separate(Rules!mergeRanges(rs))

\* What complementRanges returns covers the other ports, in separate ranges.
ASSUME ComplementIsRight ==
  \A rs \in ShortSeqs :
    /\ Rules!PortsIn(Rules!complementRanges(rs)) = Rules!Ports \ Rules!PortsIn(rs)
    /\ Rules!Separate(Rules!complementRanges(rs))

-----------------------------------------------------------------------------
\* The parts that do not run are in an initial state of theirs (OthersRest comes before
\* the initial states of the windows, so that TLC makes no others).
OthersRest ==
  /\ part = "view" \/ state = [t \in Tunnels |-> "stopped"]
  /\ part = "peers" \/ isAdmin = TRUE
  /\ part = "dialog" \/ text = [Dialog!Empty EXCEPT !.key = "k1"]
  /\ part = "syntax" \/ draft = <<>>
  /\ part = "page" \/ manager = [f \in {"mode", "box", "rules"} |-> "v1"]
  /\ part = "queries" \/ logEnabled = TRUE
  /\ part = "files" \/ file = [t \in Tunnels |-> [ips |-> {"v4all", "lan6"}, tableOff |-> FALSE]]
  /\ part = "rules" \/ (rulesFile = Rules!NoConfig /\ up = {})

AllInit == Init /\ OthersRest /\ UIInit /\ Syntax!Init /\ Address!Init

InText(p) == part = p /\ UNCHANGED uiVars
InSyntax == InText("syntax") /\ UNCHANGED addr
InAddress == InText("address") /\ UNCHANGED <<draft, left, spans>>

AllNext ==
  \/ UINext /\ UNCHANGED textVars
  \/ InSyntax /\ Syntax!Next
  \/ InAddress /\ Address!Next

\* The fairness of each part, while it runs.
Fairness ==
  /\ WF_viewVars(part = "view" /\ View!Goroutines) /\ WF_viewVars(part = "view" /\ View!Tick)
  /\ WF_viewVars(part = "view" /\ View!TickerConfig) /\ WF_viewVars(part = "view" /\ View!RunPost)
  /\ \A c \in 1..MaxCalls : WF_pageVars(part = "page" /\ Routing!Goroutine(c))
  /\ WF_queriesVars(part = "queries" /\ Queries!Refreshing)

FairSpec == AllInit /\ [][AllNext]_<<uiVars, textVars>> /\ Fairness

-----------------------------------------------------------------------------
(* Properties: those of the texts.                                         *)

\* The highlighter colours the grammar, and takes exactly the IPv6 addresses for
\* such (Highlighter, AddressText).
TextsRead ==
  /\ Syntax!TypeOK /\ Syntax!SpansAreGrammar
  /\ part = "address" => Address!AddressesTaken
=============================================================================
