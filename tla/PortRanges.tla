----------------------------- MODULE PortRanges -----------------------------
(***************************************************************************)
(* The arithmetic of port ranges in manager/portfirewall.go: how the rules *)
(* a user enters become the ranges that a Block rule of Windows Firewall   *)
(* names.  A range is a record of its first and its last port.             *)
(***************************************************************************)
EXTENDS Naturals, SequencesExt

CONSTANT MaxPort  \* 65535

MaxPortAssumption == MaxPort \in Nat \ {0}

Ports == 1 .. MaxPort
Protocols == {"TCP", "UDP"}

\* What the fields of a PortRule may hold when it arrives: 0 is no port.
PortRules == [Protocol : {"tcp", "udp", "both", "other"}, From : 0 .. MaxPort, To : 0 .. MaxPort]

Ranges == [from : Ports, to : Ports]

\* Mutant of NormalizeRule: a port 0 is kept.
NormalizeRuleKeepsZero(r) ==
  LET to == IF r.To = 0 THEN r.From ELSE r.To
  IN  [Protocol |-> IF r.Protocol = "other" THEN "both" ELSE r.Protocol,
       From |-> IF to < r.From THEN to ELSE r.From,
       To |-> IF to < r.From THEN r.From ELSE to]

NormalizeRule(r) ==
  LET from == IF r.From = 0 THEN 1 ELSE r.From
      to == IF r.To = 0 THEN from ELSE r.To
  IN  [Protocol |-> IF r.Protocol = "other" THEN "both" ELSE r.Protocol,
       From |-> IF to < from THEN to ELSE from,
       To |-> IF to < from THEN from ELSE to]

normalizePortRules(rules) == [i \in DOMAIN rules |-> NormalizeRule(rules[i])]

\* r, whose first port is not before that of any range of merged, joins the last
\* of them if they overlap or touch.
MergeInto(merged, r) ==
  IF merged = <<>> \/ r.from > Last(merged).to + 1
    THEN Append(merged, r)
    ELSE Append(Front(merged),
                [Last(merged) EXCEPT !.to = IF r.to > @ THEN r.to ELSE @])

\* sort.Slice: by their first ports; those that have the same come in any order.
Sorted(ranges) ==
  LET p == CHOOSE p \in Bijection(DOMAIN ranges, DOMAIN ranges) :
             \A i, j \in DOMAIN ranges : i < j => ranges[p[i]].from <= ranges[p[j]].from
  IN  [i \in DOMAIN ranges |-> ranges[p[i]]]

mergeRanges(ranges) ==
  LET sorted == Sorted(ranges)
      merged[i \in 0 .. Len(sorted)] ==
        IF i = 0 THEN <<>> ELSE MergeInto(merged[i - 1], sorted[i])
  IN  merged[Len(sorted)]

\* The gap before r, when the ports before cursor are done with.
GapBefore(gaps, r) ==
  [out |-> IF r.from > gaps.cursor
             THEN Append(gaps.out, [from |-> gaps.cursor, to |-> r.from - 1])
             ELSE gaps.out,
   cursor |-> IF r.to + 1 > gaps.cursor THEN r.to + 1 ELSE gaps.cursor]

complementRanges(ranges) ==
  LET merged == mergeRanges(ranges)
      gaps[i \in 0 .. Len(merged)] ==
        IF i = 0 THEN [out |-> <<>>, cursor |-> 1] ELSE GapBefore(gaps[i - 1], merged[i])
      end == gaps[Len(merged)]
  IN  IF end.cursor <= MaxPort
        THEN Append(end.out, [from |-> end.cursor, to |-> MaxPort])
        ELSE end.out

RangeOf(r) == [from |-> r.From, to |-> r.To]

\* Mutant of RangesOf: rules for both protocols are forgotten.
RangesOfOwn(rules, proto) ==
  LET own == IF proto = "TCP" THEN "tcp" ELSE "udp"
      named[i \in 0 .. Len(rules)] ==
        IF i = 0 THEN <<>>
        ELSE IF rules[i].Protocol = own THEN Append(named[i - 1], RangeOf(rules[i]))
        ELSE named[i - 1]
  IN  named[Len(rules)]

\* The ranges that the rules name for a protocol.
RangesOf(rules, proto) ==
  LET own == IF proto = "TCP" THEN "tcp" ELSE "udp"
      named[i \in 0 .. Len(rules)] ==
        IF i = 0 THEN <<>>
        ELSE IF rules[i].Protocol \in {own, "both"} THEN Append(named[i - 1], RangeOf(rules[i]))
        ELSE named[i - 1]
  IN  named[Len(rules)]

\* The ranges to block, for each protocol.
effectiveBlockRanges(mode, rules) ==
  [proto \in Protocols |->
     CASE mode = "blacklist" -> mergeRanges(RangesOf(rules, proto))
       [] mode = "whitelist" -> complementRanges(RangesOf(rules, proto))
       [] OTHER -> <<>>]

-----------------------------------------------------------------------------
(* The reference: sets of ports.                                           *)

PortsIn(ranges) == UNION {ranges[i].from .. ranges[i].to : i \in DOMAIN ranges}

\* The ports the user means by the rules, for a protocol.
Listed(rules, proto) ==
  {p \in Ports :
     \E i \in DOMAIN rules :
       /\ rules[i].Protocol \in {"both", IF proto = "TCP" THEN "tcp" ELSE "udp"}
       /\ p \in rules[i].From .. rules[i].To}

ToBlock(mode, rules, proto) ==
  CASE mode = "blacklist" -> Listed(rules, proto)
    [] mode = "whitelist" -> Ports \ Listed(rules, proto)
    [] OTHER -> {}

\* Ranges that neither overlap nor touch, in order.
Separate(ranges) ==
  \A i \in 1 .. Len(ranges) - 1 : ranges[i].to + 1 < ranges[i + 1].from
=============================================================================
