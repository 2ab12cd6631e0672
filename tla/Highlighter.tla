---------------------------- MODULE Highlighter -----------------------------
(***************************************************************************)
(* The highlighter of the configuration editor (ui/syntax/highlighter.go), *)
(* over tokens: a white space, a character of the grammar, or a word of    *)
(* which no part matters.  It tells the dialog which texts have errors, so *)
(* that what it takes for a span decides what may be saved.                *)
(***************************************************************************)
EXTENDS Naturals, Sequences, FiniteSets, SequencesExt

CONSTANTS
  Drafts,   \* the texts that the editor opens with
  MaxTyped  \* bound on the tokens typed after one

VARIABLES text, left, spans
vars == <<text, left, spans>>

Space == " "
Newline == "\n"
Sections == {"[Interface]", "[Peer]"}
Words == {"DNS", "MTU", "1400", "::1", "x"}
Tokens == {Space, Newline, "#", "=", ","} \cup Sections \cup Words

Span(t, s, n) == [t |-> t, s |-> s, len |-> n]

\* A stretch of the text, as stringSpan.
At(txt, s, n) == SubSeq(txt, s, s + n - 1)

-----------------------------------------------------------------------------
\* The fields, each with the section it is a field of (field, sectionForField).
\* Only the fields of a single kind of value and of a list are told apart.
FieldOf(w) == IF w \in {<<"DNS">>, <<"MTU">>} THEN w[1] ELSE "invalid"
SectionFor(f) == IF f = "invalid" THEN "invalid" ELSE "[Interface]"
SectionType(w) == IF Len(w) = 1 /\ w[1] \in Sections THEN w[1] ELSE "invalid"

\* isValidMTU, and what an element of a DNS list is taken for: a host name has
\* neither colons nor brackets, and something else than digits.
ValidMTU(w) == w = <<"1400">>
DNSKind(w) ==
  IF w \in {<<"::1">>, <<"1400", "::1">>} THEN "ip"
  ELSE IF Range(w) \subseteq {"DNS", "MTU", "1400", "x"} /\ Range(w) # {"1400"} THEN "host"
  ELSE "error"

-----------------------------------------------------------------------------
\* append: an empty span is none.
Appended(r, t, s, n) == IF n = 0 THEN r ELSE Append(r, Span(t, s, n))

\* Mutant of ListStep: the element after a comma begins with the comma.
ListStepFromComma(txt, m, i) ==
  CASE txt[i] = "," ->
         [ret |-> Appended(Appended(m.ret, DNSKind(At(txt, m.s, m.last)), m.s, m.last), "delimiter", i, 1),
          s |-> i, len |-> 1, last |-> 0]
    [] txt[i] = Space ->
         IF m.len = 0 THEN [m EXCEPT !.s = @ + 1] ELSE [m EXCEPT !.len = @ + 1]
    [] OTHER -> [m EXCEPT !.len = @ + 1, !.last = m.len + 1]

\* highlightMultivalue, over the tokens from s on: m.s and m.len are the current
\* element, which may end in blanks, and m.last its length without them.
ListStep(txt, m, i) ==
  CASE txt[i] = "," ->
         [ret |-> Appended(Appended(m.ret, DNSKind(At(txt, m.s, m.last)), m.s, m.last), "delimiter", i, 1),
          s |-> i + 1, len |-> 0, last |-> 0]
    [] txt[i] = Space ->
         IF m.len = 0 THEN [m EXCEPT !.s = @ + 1] ELSE [m EXCEPT !.len = @ + 1]
    [] OTHER -> [m EXCEPT !.len = @ + 1, !.last = m.len + 1]

Multivalue(txt, ret, s, n) ==
  LET m == FoldLeft(LAMBDA a, i : ListStep(txt, a, i),
                    [ret |-> ret, s |-> s, len |-> 0, last |-> 0], [k \in 1..n |-> s + k - 1])
      e == Len(m.ret)
  IN  IF m.last # 0 THEN Appended(m.ret, DNSKind(At(txt, m.s, m.last)), m.s, m.last)
      ELSE IF m.ret[e].t = "delimiter" THEN [m.ret EXCEPT ![e].t = "error"]
      ELSE m.ret

Value(txt, ret, s, n, field) ==
  CASE field = "DNS" -> Multivalue(txt, ret, s, n)
    [] field = "MTU" -> Appended(ret, IF ValidMTU(At(txt, s, n)) THEN "MTU" ELSE "error", s, n)
    [] OTHER -> Appended(ret, "error", s, n)

-----------------------------------------------------------------------------
\* highlightConfig.  The machine: what it is on, its current span (of m.last
\* tokens but for blanks at its end), the section and the field it is in, and
\* where the last = was.
Start(s, section, ret) ==
  [ret |-> ret, on |-> "none", s |-> s, len |-> 0, last |-> 0,
   section |-> section, field |-> "invalid", equals |-> 0]

\* The end of a line, or of what is before its comment.
EndOf(txt, m) ==
  CASE m.on = "key" -> [m EXCEPT !.ret = Appended(@, "error", m.s, m.last)]
    [] m.on = "value" ->
         [m EXCEPT !.ret = IF m.len # 0
                           THEN Value(txt, Appended(@, "delimiter", m.equals, 1), m.s, m.last, m.field)
                           ELSE Appended(@, "error", m.equals, 1)]
    [] m.on = "section" ->
         LET type == SectionType(At(txt, m.s, m.last))
         IN  [m EXCEPT !.section = type,
                       !.ret = Appended(@, IF type = "invalid" THEN "error" ELSE "section", m.s, m.last)]
    [] m.on = "comment" -> [m EXCEPT !.ret = Appended(@, "comment", m.s, m.len)]
    [] m.on = "none" -> m

Equals(txt, m, i) ==
  LET f == FieldOf(At(txt, m.s, m.last))
  IN  [m EXCEPT !.ret = Appended(@, IF f # "invalid" /\ SectionFor(f) = m.section THEN "field" ELSE "error",
                                 m.s, m.last),
                !.field = f, !.equals = i, !.s = i + 1, !.len = 0, !.on = "value"]

\* Mutant of Word: what follows a section's header on its line is left out of it.
WordAfterHeader(txt, m, i) ==
  [m EXCEPT !.on = IF @ # "none" THEN @ ELSE IF txt[i] \in Sections THEN "section" ELSE "key",
            !.len = @ + 1, !.last = IF m.on = "section" THEN @ ELSE m.len + 1]

Word(txt, m, i) ==
  [m EXCEPT !.on = IF @ # "none" THEN @ ELSE IF txt[i] \in Sections THEN "section" ELSE "key",
            !.len = @ + 1, !.last = m.len + 1]

Scan(txt, m, i) ==
  CASE txt[i] = Newline -> LET e == EndOf(txt, m) IN Start(i + 1, e.section, e.ret)
    [] txt[i] = "#" /\ m.on # "comment" ->
         LET e == EndOf(txt, m) IN [Start(i, e.section, e.ret) EXCEPT !.on = "comment", !.len = 1]
    [] txt[i] # Newline /\ m.on = "comment" -> [m EXCEPT !.len = @ + 1]
    [] txt[i] = Space /\ m.on # "comment" ->
         IF m.len = 0 THEN [m EXCEPT !.s = @ + 1] ELSE [m EXCEPT !.len = @ + 1]
    [] txt[i] = "=" /\ m.on = "key" -> Equals(txt, m, i)
    [] OTHER -> Word(txt, m, i)

HighlightConfig(txt) ==
  EndOf(txt, FoldLeft(LAMBDA m, i : Scan(txt, m, i), Start(1, "invalid", <<>>), [k \in 1..Len(txt) |-> k])).ret

-----------------------------------------------------------------------------
Init ==
  /\ text \in Drafts
  /\ left = MaxTyped
  /\ spans = HighlightConfig(text)

\* A keystroke or more: the editor highlights the whole text again.
Type ==
  /\ left > 0
  /\ \E t \in Tokens : text' = Append(text, t)
  /\ left' = left - 1
  /\ spans' = HighlightConfig(text')

Next == Type
Spec == Init /\ [][Next]_vars

-----------------------------------------------------------------------------
(* The grammar: a text is lines, a line a body and a comment, a body a     *)
(* section, or a key and, after the first =, a value, all trimmed.         *)

NonBlank(S) == {i \in S : text[i] # Space}
\* A set of places without the blanks at its ends.
Trim(S) == IF NonBlank(S) = {} THEN {} ELSE Min(NonBlank(S))..Max(NonBlank(S))
Coloured(t, S) == IF S = {} THEN {} ELSE {Span(t, Min(S), Cardinality(S))}
Content(S) == At(text, Min(S), Cardinality(S))

\* The places of S between two of the set D of delimiters.
Pieces(S, D) == {{i \in S \ D : \A d \in D : (d < i) <=> (d \in C)} : C \in SUBSET D} \ {{}}
Lines == Pieces(DOMAIN text, {i \in DOMAIN text : text[i] = Newline})
Comment(L) == {i \in L : \E j \in L : j =< i /\ text[j] = "#"}
Body(L) == Trim(L \ Comment(L))
IsSection(B) == B # {} /\ text[Min(B)] \in Sections
\* An = that begins a body is the key's.
Equalses(B) == {i \in B : i # Min(B) /\ text[i] = "="}

SectionAt(i) ==
  LET above == {B \in {Body(L) : L \in Lines} : IsSection(B) /\ Max(B) < i}
  IN  IF above = {} THEN "invalid" ELSE SectionType(Content(CHOOSE B \in above : \A C \in above : Max(C) =< Max(B)))

DNSValue(V) ==
  LET commas == {i \in V : text[i] = ","}
  IN  UNION {IF Trim(P) = {} THEN {} ELSE Coloured(DNSKind(Content(Trim(P))), Trim(P)) : P \in Pieces(V, commas)}
      \cup {Span(IF i = Max(V) THEN "error" ELSE "delimiter", i, 1) : i \in commas}

Assignment(B) ==
  LET eq == Min(Equalses(B))
      key == Trim({i \in B : i < eq})
      value == Trim({i \in B : i > eq})
      field == FieldOf(Content(key))
      known == field # "invalid" /\ SectionFor(field) = SectionAt(eq)
  IN  Coloured(IF known THEN "field" ELSE "error", key)
      \cup Coloured(IF value = {} THEN "error" ELSE "delimiter", {eq})
      \cup (IF value = {} THEN {}
            ELSE IF field = "DNS" THEN DNSValue(value)
            ELSE Coloured(IF field = "MTU" /\ ValidMTU(Content(value)) THEN "MTU" ELSE "error", value))

Grammar ==
  UNION {LET B == Body(L)
         IN  Coloured("comment", Comment(L)) \cup
             (IF B = {} THEN {}
              ELSE IF IsSection(B)
              THEN Coloured(IF SectionType(Content(B)) = "invalid" THEN "error" ELSE "section", B)
              ELSE IF Equalses(B) = {} THEN Coloured("error", B)
              ELSE Assignment(B)) : L \in Lines}

\* The spans are in the order of the text and do not overlap, so that the
\* editor, which colours one after the other, colours each place once
\* (SyntaxEdit.highlightText).
TypeOK ==
  /\ text \in Seq(Tokens) /\ left \in 0..MaxTyped
  /\ \A i \in DOMAIN spans :
       /\ spans[i].len > 0 /\ spans[i].s + spans[i].len =< Len(text) + 1
       /\ i > 1 => spans[i - 1].s + spans[i - 1].len =< spans[i].s

\* What the machine colours, character by character, is what a reader of the
\* grammar makes of the lines one by one (highlightConfig, highlightMultivalue).
SpansAreGrammar == Range(spans) = Grammar
=============================================================================
