---------------------------- MODULE AddressText -----------------------------
(***************************************************************************)
(* The highlighter's recogniser of an IPv6 address (isValidIPv6,           *)
(* ui/syntax/highlighter.go), over tokens: a group of hexadecimal digits,  *)
(* a colon, and a well-formed IPv4 address.                                *)
(***************************************************************************)
EXTENDS Naturals, Sequences, FiniteSets

CONSTANT MaxTokens

Group == "ffff"
V4 == "1.2.3.4"
Colon == ":"

VARIABLE addr
vars == addr

\* The end of a span is followed by a character that is part of no address.
Token(p) == IF p =< Len(addr) THEN addr[p] ELSE "end"

\* The loop: the token it is at, its count of the groups, which a :: is one of,
\* and whether a :: was seen.
RECURSIVE Rest(_, _, _)
Rest(p, i, seenColon) ==
  CASE p > Len(addr) -> TRUE
    [] Token(p) = Colon /\ ~seenColon ->
         p = Len(addr) \/ (i # 7 /\ Rest(p + 1, i + 1, TRUE))
    [] Token(p) = Colon /\ seenColon -> FALSE
    [] Token(p) = Group ->
         \/ p = Len(addr) /\ (seenColon \/ i = 7)
         \/ i # 7 /\ Token(p + 1) = Colon /\ Rest(p + 2, i + 1, seenColon)
    [] Token(p) = V4 -> i # 7 /\ (i >= 6 \/ seenColon) /\ p = Len(addr)

\* Mutant of IsValidIPv6: a colon at the end is not looked at.
IsValidIPv6OfAnyEnd ==
  /\ addr \notin {<<>>, <<Colon>>}
  /\ addr[1] = Colon => Token(2) = Colon
  /\ Rest(IF addr[1] = Colon THEN 2 ELSE 1, 0, FALSE)

IsValidIPv6 ==
  /\ addr \notin {<<>>, <<Colon>>}
  /\ addr[1] = Colon => Token(2) = Colon
  /\ addr[Len(addr)] = Colon => addr[Len(addr) - 1] = Colon
  /\ Rest(IF addr[1] = Colon THEN 2 ELSE 1, 0, FALSE)

-----------------------------------------------------------------------------
Init == addr = <<>>

\* More than four digits in a row and a second :: are refused where they stand:
\* no more is typed after them.
Dead ==
  \/ \E i \in 1..Len(addr) - 1 : addr[i] \in {Group, V4} /\ addr[i + 1] # Colon
  \/ Cardinality({i \in 1..Len(addr) - 1 : addr[i] = Colon /\ addr[i + 1] = Colon}) > 1

Type ==
  /\ Len(addr) < MaxTokens /\ ~Dead
  /\ \E t \in {Group, V4, Colon} : addr' = Append(addr, t)

Next == Type
Spec == Init /\ [][Next]_vars

-----------------------------------------------------------------------------
(* RFC 4291: eight groups, of which an IPv4 address at the end is two; or  *)
(* at most seven, and one :: for the others.                               *)

Listed(a) ==
  /\ Len(a) % 2 = 1 \/ a = <<>>
  /\ \A i \in DOMAIN a : IF i % 2 = 0 THEN a[i] = Colon ELSE a[i] = Group \/ (a[i] = V4 /\ i = Len(a))
Size(a) == Cardinality({i \in DOMAIN a : a[i] # Colon}) + Cardinality({i \in DOMAIN a : a[i] = V4})

IsAddress ==
  \/ Listed(addr) /\ Size(addr) = 8
  \/ \E k \in 1..Len(addr) - 1 :
       LET before == SubSeq(addr, 1, k - 1)
           after == SubSeq(addr, k + 2, Len(addr))
       IN  /\ addr[k] = Colon /\ addr[k + 1] = Colon
           /\ Listed(before) /\ V4 \notin {before[i] : i \in DOMAIN before}
           /\ Listed(after)
           /\ Size(before) + Size(after) =< 7

\* The recogniser, one pass with a count, takes exactly the addresses: an address is
\* never marked as an error, and nothing else is taken for one (isValidIPv6).
AddressesTaken == IsValidIPv6 <=> IsAddress
=============================================================================
