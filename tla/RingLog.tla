------------------------------ MODULE RingLog -------------------------------
(***************************************************************************)
(* The log that the processes share in a mapped file (ringlogger.go): a    *)
(* ring of lines, written without a lock and read by copying all of it,    *)
(* by the log page, which follows it (ui/logpage.go, dump.go), and by what *)
(* saves it to a file.                                                     *)
(*                                                                         *)
(* A line is the number of its write, which is also its place: the n-th    *)
(* write adds to nextIndex first of all and gets index n - 1.              *)
(***************************************************************************)
EXTENDS Integers, Sequences, FiniteSets, SequencesExt

CONSTANTS
  M,          \* maxLines
  MaxLines,   \* bound on the lines that are written
  MaxWriters, \* bound on the writes that are going on
  MaxSaves    \* bound on the saves

RingLogAssumption ==
  /\ M \in Nat \ {0} /\ {MaxLines, MaxWriters, MaxSaves} \subseteq Nat
  /\ M < MaxLines

All == M  \* CursorAll, which is no index of the ring

VARIABLES
  nextIndex,
  lines,   \* the ring: a line's stamp, 0 while it is written, and its text, or 0
  writes,  \* the writes that are going on, and where
  clashed, \* history: two of them were for one line
  copy,    \* the reader's copy, so far: whose it is, nextIndex and the lines
  cursor,  \* where the page goes on
  shown,   \* the lines the page shows
  saved,   \* the last file
  saves,   \* how many there were
  pageLoses, \* history: one of the races below has met the page
  saveLoses  \* and the last save

ring == <<nextIndex, lines, writes, clashed>>
page == <<cursor, shown, pageLoses>>
file == <<saved, saves, saveLoses>>
vars == <<ring, copy, page, file>>

Line(s, t) == [stamp |-> s, text |-> t]
Nothing == [reader |-> "none", next |-> 0, lines |-> <<>>]

\* The file outlives the processes: some lines may be there.
Init ==
  /\ nextIndex \in 0..M + 1
  /\ lines = [i \in 0..M - 1 |->
       LET n == CHOOSE n \in nextIndex - M + 1..nextIndex : (n - 1) % M = i
       IN  IF n > 0 THEN Line(n, n) ELSE Line(0, 0)]
  /\ writes = {} /\ clashed = FALSE
  /\ copy = Nothing /\ cursor = All /\ shown = <<>>
  /\ saved = <<>> /\ saves = 0
  /\ pageLoses = FALSE /\ saveLoses = FALSE

-----------------------------------------------------------------------------
(* WriteWithTimestamp.                                                     *)

Write(n, at) == [n |-> n, at |-> at]
Slot(w) == (w.n - 1) % M

LastShown == IF shown = <<>> THEN 0 ELSE Last(shown)

\* Whether the reader reads all that is there, and not from a cursor.
ReadsAll == copy.reader = "save" \/ (copy.reader = "page" /\ cursor = All)

\* Mutant of AddIndex: the writers do not add atomically.
AddIndexRacy == nextIndex + (IF writes = {} THEN 1 ELSE 0)
AddIndex == nextIndex + 1

\* AddUint32.  A writer that laps the page, or writes while all is read, makes
\* the reader lose lines.
Begin ==
  /\ nextIndex < MaxLines /\ Cardinality(writes) < MaxWriters
  /\ nextIndex' = AddIndex
  /\ writes' = writes \cup {Write(nextIndex', "added")}
  /\ clashed' = (clashed \/ \E w \in writes : Slot(w) = nextIndex % M)
  /\ pageLoses' = (pageLoses \/ (ReadsAll /\ copy.reader = "page")
                     \/ (cursor # All /\ nextIndex' >= LastShown + M))
  /\ saveLoses' = (saveLoses \/ copy.reader = "save")
  /\ UNCHANGED <<lines, copy, cursor, shown, saved, saves>>

Advance(w, at) == writes' = (writes \ {w}) \cup {Write(w.n, at)}

\* StoreInt64 of 0, and the wiping of the line.
Wipe(w) ==
  /\ w.at = "added"
  /\ lines' = [lines EXCEPT ![Slot(w)] = Line(0, 0)]
  /\ Advance(w, "wiped")

\* Of two writers of one line each may leave its text.
Fill(w) ==
  /\ w.at = "wiped"
  /\ \E v \in writes : Slot(v) = Slot(w) /\ lines' = [lines EXCEPT ![Slot(w)].text = v.n]
  /\ Advance(w, "filled")

Stamp(w) ==
  /\ w.at = "filled"
  /\ lines' = [lines EXCEPT ![Slot(w)].stamp = w.n]
  /\ writes' = writes \ {w}

WriteStep ==
  /\ \E w \in writes : Wipe(w) \/ Fill(w) \/ Stamp(w)
  /\ UNCHANGED <<nextIndex, clashed, copy, page, file>>

-----------------------------------------------------------------------------
(* The copy of the ring, and what is made of it.                           *)

BeginCopy(r) ==
  /\ copy = Nothing
  /\ copy' = [reader |-> r, next |-> nextIndex, lines |-> <<>>]

BeginFollow ==
  /\ BeginCopy("page")
  /\ pageLoses' = (pageLoses \/ (cursor = All /\ writes # {}))
  /\ UNCHANGED <<ring, cursor, shown, file>>

BeginSave ==
  /\ BeginCopy("save")
  /\ saves < MaxSaves /\ saves' = saves + 1
  /\ saveLoses' = (writes # {})
  /\ saved' = <<>>
  /\ UNCHANGED <<ring, page>>

\* The lines are copied in their order.  The line of a writer that has its index
\* and no more is an old one yet ("we'll display old data after new data").
CopyLine ==
  /\ copy # Nothing /\ Len(copy.lines) < M
  /\ LET i == Len(copy.lines)
         old == \E w \in writes : Slot(w) = i /\ w.at = "added" /\ lines[i].stamp # 0
     IN  /\ copy' = [copy EXCEPT !.lines = Append(@, lines[i])]
         /\ pageLoses' = (pageLoses \/ (copy.reader = "page" /\ old))
  /\ UNCHANGED <<ring, cursor, shown, file>>

Copied(r) == copy.reader = r /\ Len(copy.lines) = M
At(i) == copy.lines[(i % M) + 1]
Text(l) == IF l.text = 0 THEN <<>> ELSE <<l.text>>

\* Mutant of FollowLine: the cursor does not wait for a line that is written.
FollowOver(f) ==
  IF ~f.going \/ (cursor # All /\ f.i % M = copy.next % M) THEN [f EXCEPT !.going = FALSE]
  ELSE IF At(f.i).stamp = 0 THEN [f EXCEPT !.i = @ + 1, !.cursor = (f.i + 1) % M]
  ELSE [f EXCEPT !.lines = @ \o Text(At(f.i)), !.i = @ + 1, !.cursor = (f.i + 1) % M]

\* Mutant of FollowLine: the newest line is left for the next time.
FollowBehind(f) ==
  IF ~f.going \/ (cursor # All /\ (f.i + 1) % M = copy.next % M) THEN [f EXCEPT !.going = FALSE]
  ELSE IF At(f.i).stamp = 0 THEN IF cursor = All THEN [f EXCEPT !.i = @ + 1] ELSE [f EXCEPT !.going = FALSE]
  ELSE [f EXCEPT !.lines = @ \o Text(At(f.i)), !.i = @ + 1, !.cursor = (f.i + 1) % M]

\* One round of FollowFromCursor's loop.
FollowLine(f) ==
  IF ~f.going \/ (cursor # All /\ f.i % M = copy.next % M) THEN [f EXCEPT !.going = FALSE]
  ELSE IF At(f.i).stamp = 0 THEN IF cursor = All THEN [f EXCEPT !.i = @ + 1] ELSE [f EXCEPT !.going = FALSE]
  ELSE [f EXCEPT !.lines = @ \o Text(At(f.i)), !.i = @ + 1, !.cursor = (f.i + 1) % M]

Follow ==
  /\ Copied("page")
  /\ LET start == [i |-> IF cursor = All THEN copy.next ELSE cursor,
                   lines |-> <<>>, cursor |-> cursor, going |-> TRUE]
         after[k \in 0..M] == IF k = 0 THEN start ELSE FollowLine(after[k - 1])
     IN  shown' = shown \o after[M].lines /\ cursor' = after[M].cursor
  /\ copy' = Nothing
  /\ UNCHANGED <<ring, pageLoses, file>>

\* Mutant of Oldest: the file begins with the newest line.
Newest == copy.next + M - 1
Oldest == copy.next

\* WriteTo.
Save ==
  /\ Copied("save")
  /\ LET written[k \in 0..M] ==
           IF k = 0 THEN <<>>
           ELSE LET l == At(Oldest + k - 1)
                IN  IF l.stamp = 0 THEN written[k - 1] ELSE written[k - 1] \o Text(l)
     IN  saved' = written[M]
  /\ copy' = Nothing
  /\ UNCHANGED <<ring, page, saves, saveLoses>>

-----------------------------------------------------------------------------
Read == BeginFollow \/ CopyLine \/ Follow \/ Save

Next == Begin \/ WriteStep \/ BeginSave \/ Read

Spec == Init /\ [][Next]_vars

\* A writer goes on, and the page's ticker does.
Fairness == WF_vars(WriteStep) /\ WF_vars(Read)

FairSpec == Spec /\ Fairness

-----------------------------------------------------------------------------
(* Properties.                                                             *)

\* The type of the state (Ringlogger and LogPage).
TypeOK ==
  /\ nextIndex \in 0..MaxLines
  /\ \A i \in 0..M - 1 : lines[i].stamp \in 0..nextIndex /\ lines[i].text \in 0..nextIndex
  /\ \A w \in writes : w.n \in 1..nextIndex
  /\ Cardinality({w.n : w \in writes}) = Cardinality(writes)
  /\ cursor \in 0..M
  /\ saves \in 0..MaxSaves

\* Lines of the log one after the other, each once and whole.
InOrder(s) == \A i \in 1..Len(s) : s[i] = s[1] + i - 1

\* The page shows every line once and in order, however its copies and the
\* writers interleave, unless a writer laps it, or has its index and has not yet
\* taken the old line away, or writes when the page reads all there is
\* (FollowFromCursor; the comments of WriteWithTimestamp name such races).
PageInOrder == clashed \/ pageLoses \/ InOrder(shown)

\* A file has the lines that were there, in their order, when nothing was written
\* meanwhile (WriteTo).
SavedInOrder == clashed \/ saveLoses \/ InOrder(saved)

\* The page comes to show the last line that was written.
PageCatchesUp == <>[](clashed \/ pageLoses \/ nextIndex = 0 \/ (shown # <<>> /\ LastShown = nextIndex))
=============================================================================
