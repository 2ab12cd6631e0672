------------------------- MODULE TunnelsPageProofs -------------------------
(***************************************************************************)
(* Proofs about TunnelsPage: for any number of names, any array that       *)
(* append allocates and any user, the rows have each tunnel once and in    *)
(* order, and list and menu show no names but those that were stored       *)
(* together.                                                               *)
(***************************************************************************)
EXTENDS TunnelsPage, TLAPS, SequenceTheorems, WellFoundedInduction, FiniteSetTheorems

-----------------------------------------------------------------------------
(* Induction, and loops.                                                   *)

LEMMA LeastOf == ASSUME NEW T \in SUBSET Nat, T # {} PROVE \E n \in T : \A m \in T : n <= m
<1>1. PICK n \in T : \A m \in T : ~ <<m, n>> \in OpToRel(<, Nat)
  BY NatLessThanWellFounded, WFMin
<1>2. \A m \in T : <<m, n>> \in OpToRel(<, Nat) <=> m < n
  BY DEF OpToRel
<1>3. \A m \in T : m \in Nat /\ n \in Nat /\ ~ m < n
  BY <1>1, <1>2
<1>4. \A m \in T : n <= m
  BY <1>3
<1> QED
  BY <1>4

\* A set of numbers that has 0, and with each but l the next, has all up to l.
LEMMA UpTo ==
  ASSUME NEW l \in Nat, NEW T, 0 \in T, \A k \in 1..l : k - 1 \in T => k \in T
  PROVE  \A k \in 0..l : k \in T
<1> DEFINE U == {k \in 0..l : k \notin T}
<1>1. ASSUME U # {} PROVE FALSE
  <2>1. PICK k \in U : \A m \in U : k <= m
    <3>1. U \in SUBSET Nat
      OBVIOUS
    <3> HIDE DEF U
    <3> QED
      BY <1>1, <3>1, LeastOf
  <2>2. k # 0 /\ k \in 1..l /\ k \notin T
    BY <2>1
  <2>3. k - 1 \in T
    BY <2>1, <2>2
  <2> QED
    BY <2>2, <2>3
<1> QED
  BY <1>1

\* A run of a loop of l rounds, where round k makes F[k][x] of x.
IsRun(g, l, X, start, F) ==
  g \in [0..l -> X] /\ g[0] = start /\ \A k \in 1..l : g[k] = F[k][g[k - 1]]

LEMMA LoopThere ==
  ASSUME NEW l \in Nat, NEW X, NEW start \in X, NEW F \in [1..l -> [X -> X]]
  PROVE  \E g : IsRun(g, l, X, start, F)
<1> DEFINE Runs(n) == {g \in [0..n -> X] : g[0] = start /\ \A k \in 1..n : g[k] = F[k][g[k - 1]]}
           T == {n \in 0..l : Runs(n) # {}}
<1>1. 0 \in T
  <2>1. [k \in 0..0 |-> start] \in Runs(0)
    OBVIOUS
  <2> QED
    BY <2>1
<1>2. ASSUME NEW n \in 1..l, n - 1 \in T PROVE n \in T
  <2>1. PICK g \in Runs(n - 1) : TRUE
    BY <1>2
  <2> DEFINE h == [k \in 0..n |-> IF k = n THEN F[n][g[n - 1]] ELSE g[k]]
  <2>2. \A k \in 0..n - 1 : k # n /\ k \in 0..n /\ h[k] = g[k] /\ g[k] \in X
    BY <2>1
  <2>3. h[n] = F[n][g[n - 1]] /\ h[n] \in X
    BY <2>1
  <2>4. h \in [0..n -> X]
    BY <2>2, <2>3
  <2>5. ASSUME NEW k \in 1..n PROVE h[k] = F[k][h[k - 1]]
    <3>1. CASE k = n
      BY <2>2, <2>3, <3>1
    <3>2. CASE k # n
      <4>1. k \in 1..n - 1 /\ k - 1 \in 0..n - 1 /\ k \in 0..n - 1
        BY <3>2
      <4>2. g[k] = F[k][g[k - 1]]
        BY <2>1, <4>1
      <4> QED
        BY <2>2, <4>1, <4>2
    <3> QED
      BY <3>1, <3>2
  <2>6. h[0] = start
    BY <2>1, <2>2
  <2> HIDE DEF h
  <2>7. h \in Runs(n)
    BY <2>4, <2>5, <2>6
  <2> HIDE DEF Runs
  <2> QED
    BY <2>7
<1>3. l \in T
  <2>1. \A n \in 1..l : n - 1 \in T => n \in T
    BY <1>2
  <2> HIDE DEF T
  <2>2. \A k \in 0..l : k \in T
    BY <1>1, <2>1, UpTo
  <2> QED
    BY <2>2
<1> QED
  BY <1>3 DEF IsRun

-----------------------------------------------------------------------------
(* The names of a set in order.                                            *)

LEMMA GreatestOf ==
  ASSUME NEW m \in Nat, NEW S \in SUBSET (1..m), S # {}
  PROVE  \E x \in S : \A y \in S : y <= x
<1> DEFINE D == {m - y : y \in S}
<1>1. D \in SUBSET Nat /\ D # {}
  OBVIOUS
<1>2. PICK d \in D : \A e \in D : d <= e
  <2> HIDE DEF D
  <2> QED BY <1>1, LeastOf
<1>3. PICK x \in S : d = m - x
  BY <1>2
<1>4. ASSUME NEW y \in S PROVE y <= x
  <2>1. m - x <= m - y
    BY <1>2, <1>3
  <2> QED BY <2>1
<1> QED BY <1>4

\* The ways to put the n elements of S in order.
Orders(n, S) ==
  {s \in [1..n -> S] : /\ \A i, j \in 1..n : i < j => s[i] < s[j]
                       /\ \A x \in S : \E i \in 1..n : s[i] = x}

\* The greatest element comes after the others, which there is a way to put in order.
LEMMA OneMore ==
  ASSUME NEW m \in Nat, NEW n \in 1..m, NEW S \in SUBSET (1..m), NEW x \in S, \A y \in S : y <= x,
         Orders(n - 1, S \ {x}) # {}
  PROVE  Orders(n, S) # {}
<1>1. PICK s : s \in Orders(n - 1, S \ {x})
  OBVIOUS
<1>2. /\ s \in [1..n - 1 -> S \ {x}]
      /\ \A i, j \in 1..n - 1 : i < j => s[i] < s[j]
      /\ \A y \in S \ {x} : \E i \in 1..n - 1 : s[i] = y
  BY <1>1 DEF Orders
<1> DEFINE t == [i \in 1..n |-> IF i = n THEN x ELSE s[i]]
<1>3. /\ n \in 1..n /\ t[n] = x
      /\ \A i \in 1..n : i # n => i \in 1..n - 1
      /\ \A i \in 1..n - 1 : i \in 1..n /\ i # n /\ t[i] = s[i] /\ s[i] \in S /\ s[i] # x
  BY <1>2
<1>4. t \in [1..n -> S]
  BY <1>3
<1> HIDE DEF t
<1>5. ASSUME NEW i \in 1..n, NEW j \in 1..n, i < j PROVE t[i] < t[j]
  <2>1. i \in 1..n - 1
    BY <1>5
  <2>2. CASE j = n
    <3>1. s[i] \in S /\ s[i] # x
      BY <1>3, <2>1
    <3>2. S \subseteq Nat
      OBVIOUS
    <3>3. s[i] <= x /\ s[i] \in Nat /\ x \in Nat
      BY <3>1, <3>2
    <3> QED BY <1>3, <2>1, <2>2, <3>1, <3>3
  <2>3. CASE j # n
    <3>1. j \in 1..n - 1
      BY <2>3
    <3> QED BY <1>2, <1>3, <1>5, <2>1, <3>1
  <2> QED BY <2>2, <2>3
<1>6. ASSUME NEW y \in S PROVE \E i \in 1..n : t[i] = y
  <2>1. CASE y = x
    BY <1>3, <2>1
  <2>2. CASE y # x
    <3>1. PICK i \in 1..n - 1 : s[i] = y
      BY <1>2, <2>2
    <3> QED BY <1>3, <3>1
  <2> QED BY <2>1, <2>2
<1>7. t \in Orders(n, S)
  BY <1>4, <1>5, <1>6 DEF Orders
<1> QED BY <1>7

LEMMA SizeOf ==
  ASSUME NEW m \in Nat, NEW S \in SUBSET (1..m)
  PROVE  IsFiniteSet(S) /\ Cardinality(S) \in 0..m
<1>1. IsFiniteSet(1..m) /\ Cardinality(1..m) = m
  BY FS_Interval
<1>2. IsFiniteSet(S) /\ Cardinality(S) <= m
  BY <1>1, FS_Subset
<1> QED BY <1>2, FS_CardinalityType

LEMMA OrderThere ==
  ASSUME NEW m \in Nat, NEW S \in SUBSET (1..m)
  PROVE  Orders(Cardinality(S), S) # {}
<1> DEFINE T == {n \in 0..m : \A U \in SUBSET (1..m) : Cardinality(U) = n => Orders(n, U) # {}}
<1>1. 0 \in T
  <2> SUFFICES ASSUME NEW U \in SUBSET (1..m), Cardinality(U) = 0 PROVE Orders(0, U) # {}
    OBVIOUS
  <2>1. U = {}
    BY SizeOf, FS_EmptySet
  <2>2. <<>> \in Orders(0, U)
    BY <2>1 DEF Orders
  <2> QED BY <2>2
<1>2. ASSUME NEW n \in 1..m, n - 1 \in T PROVE n \in T
  <2> SUFFICES ASSUME NEW U \in SUBSET (1..m), Cardinality(U) = n PROVE Orders(n, U) # {}
    BY <1>2
  <2>1. IsFiniteSet(U) /\ U # {}
    BY SizeOf, FS_EmptySet
  <2>2. PICK x \in U : \A y \in U : y <= x
    BY <2>1, GreatestOf
  <2>3. Cardinality(U \ {x}) = n - 1 /\ U \ {x} \in SUBSET (1..m)
    BY <2>1, FS_RemoveElement
  <2>4. Orders(n - 1, U \ {x}) # {}
    BY <1>2, <2>3
  <2> QED BY <2>2, <2>4, OneMore
<1>3. \A n \in 0..m : n \in T
  <2>1. \A n \in 1..m : n - 1 \in T => n \in T
    BY <1>2
  <2> HIDE DEF T
  <2> QED BY <1>1, <2>1, UpTo
<1>4. Cardinality(S) \in 0..m
  BY SizeOf
<1> QED BY <1>3, <1>4

\* Sorted: the elements in order, each once.
LEMMA SortedIs ==
  ASSUME NEW m \in Nat, NEW S \in SUBSET (1..m)
  PROVE  /\ Sorted(S) \in Seq(S) /\ Len(Sorted(S)) = Cardinality(S) /\ Len(Sorted(S)) \in 0..m
         /\ DOMAIN Sorted(S) = 1..Len(Sorted(S))
         /\ \A i \in 1..Len(Sorted(S)) : Sorted(S)[i] \in S
         /\ \A i, j \in 1..Len(Sorted(S)) : i < j => Sorted(S)[i] < Sorted(S)[j]
         /\ \A x \in S : \E i \in 1..Len(Sorted(S)) : Sorted(S)[i] = x
<1> DEFINE n == Cardinality(S)
           B == Bijection(1..n, S)
<1>1. n \in 0..m
  BY SizeOf
<1>2. PICK s : s \in Orders(n, S)
  BY OrderThere
<1>3. /\ s \in [1..n -> S]
      /\ \A i, j \in 1..n : i < j => s[i] < s[j]
      /\ \A x \in S : \E i \in 1..n : s[i] = x
  BY <1>2 DEF Orders
<1>4. ASSUME NEW i \in 1..n PROVE s[i] \in Nat
  <2>1. S \subseteq Nat
    OBVIOUS
  <2>2. s[i] \in S
    BY <1>3
  <2> QED BY <2>1, <2>2
<1>5. ASSUME NEW i \in 1..n, NEW j \in 1..n, s[i] = s[j] PROVE i = j
  BY <1>1, <1>3, <1>4, <1>5
<1>6. s \in B /\ Ascending(s)
  BY <1>3, <1>5 DEF Bijection, Injection, Surjection, IsInjective, Ascending
<1> HIDE DEF n
<1>7. Sorted(S) \in B /\ Ascending(Sorted(S))
  BY <1>6 DEF Sorted, n
<1>8. /\ Sorted(S) \in [1..n -> S] /\ \A x \in S : \E i \in 1..n : Sorted(S)[i] = x
      /\ \A i, j \in 1..n : i < j => Sorted(S)[i] < Sorted(S)[j]
  BY <1>7 DEF Bijection, Injection, Surjection, Ascending
<1>9. Sorted(S) \in Seq(S) /\ Len(Sorted(S)) = n
  BY <1>1, <1>8
<1> QED BY <1>1, <1>8, <1>9 DEF n

-----------------------------------------------------------------------------
(* The inductive invariant.                                                *)

Stores == SUBSET Names

ListenerTyped ==
  \/ listener = IdleListener
  \/ listener \in [at : {"first", "second"}, names : Stores, view : {"rows", "menu"}]
  \/ listener \in [at : {"post1", "post2"}, names : had, view : {"rows", "menu"}]

PostsTyped == posts \in Seq([does : {"rows", "menu"}, names : had])

EditTyped ==
  /\ edit \in [at : {"none", "dialog", "delete", "create"}, slot : Nat, name : Names \cup {None},
               asked : Names \cup {None}, new : Names \cup {None}]
  /\ edit.at \in {"delete", "create"} => edit.new \in Names
  /\ edit.slot \in DOMAIN mem \cup {0}
  /\ edit.slot # 0 => mem[edit.slot] \in Names
  /\ edit.at # "none" => Pointed \in Names

Stages == {"none", "suspend", "load", "post", "act", "resume", "reload", "last post"}

Jobs ==
  [does : {"nothing", "delete", "import"}, at : Stages,
   names : Seq(Names), existing : Stores, read : Stores]

JobTyped ==
  /\ job \in Jobs
  /\ job.at \in {"post", "last post"} => job.read \in had
  /\ job.at = "act" => job.names # <<>>
  /\ suspended = IF job.at \in {"load", "post", "act", "resume"} THEN 1 ELSE 0

RowsKept ==
  /\ mem \in Seq(Names \cup {0}) /\ len \in 0..Len(mem)
  /\ \A i \in 1..len : mem[i] \in Names
  /\ \A i, j \in 1..len : i < j => mem[i] < mem[j]

HistoryKept == had \in SUBSET Stores /\ stored \in had /\ menu \in had /\ Rows \in had

IInv == HistoryKept /\ RowsKept /\ ListenerTyped /\ PostsTyped /\ EditTyped /\ JobTyped

-----------------------------------------------------------------------------
(* The removal of rows.                                                    *)

\* What is between rows and array while the rows after the first c have been seen
\* to, of those that S is to keep: they have moved up in the order they had.
Slices == {r \in [mem : [1..Len(mem) -> Names \cup {0}], len : Int] : r.len <= Len(mem)}

SeenTo(r, c, S) ==
  /\ r \in Slices /\ r.len \in c..len
  /\ \A k \in 1..c : r.mem[k] = mem[k]
  /\ \A k \in 1..r.len : r.mem[k] \in Rows
  /\ \A k \in c + 1..r.len : r.mem[k] \in S
  /\ \A i, j \in 1..r.len : i < j => r.mem[i] < r.mem[j]
  /\ \A j \in 1..len : mem[j] \in S => \E k \in 1..r.len : r.mem[k] = mem[j]
  /\ \A k \in 1..Len(mem) : mem[k] \in Names => r.mem[k] \in Names

LEMMA RowsTyped ==
  ASSUME TunnelsPageAssumption, RowsKept
  PROVE  /\ mem \in [1..Len(mem) -> Names \cup {0}] /\ Len(mem) \in Nat /\ len \in Nat /\ len <= Len(mem)
         /\ DOMAIN mem = 1..Len(mem) /\ Rows \in SUBSET Names /\ Names \in SUBSET Nat /\ 0 \notin Names
BY DEF RowsKept, Rows, Names, TunnelsPageAssumption

LEMMA RemoveRowIs ==
  ASSUME TunnelsPageAssumption, RowsKept, NEW r \in Slices, NEW i \in Nat
  PROVE  /\ RemoveRow(r, i) \in Slices /\ RemoveRow(r, i).len = r.len - 1
         /\ \A k \in 1..Len(mem) :
              RemoveRow(r, i).mem[k] = IF i <= k /\ k < r.len THEN r.mem[k + 1] ELSE r.mem[k]
<1> DEFINE M == Len(mem)
           new == [k \in DOMAIN r.mem |-> IF i <= k /\ k < r.len THEN r.mem[k + 1] ELSE r.mem[k]]
<1>1. M \in Nat /\ r.mem \in [1..M -> Names \cup {0}] /\ r.len \in Int /\ r.len <= M
  BY RowsTyped DEF Slices
<1> HIDE DEF M
<1>2. \A k \in 1..M : k < r.len => k + 1 \in 1..M
  BY <1>1
<1>3. new \in [1..M -> Names \cup {0}]
  BY <1>1, <1>2
<1>4. RemoveRow(r, i) = [mem |-> new, len |-> r.len - 1]
  BY DEF RemoveRow
<1>5. \A k \in 1..M : new[k] = IF i <= k /\ k < r.len THEN r.mem[k + 1] ELSE r.mem[k]
  BY <1>1
<1> HIDE DEF new
<1>6. RemoveRow(r, i) \in Slices
  BY <1>1, <1>3, <1>4 DEF Slices, M
<1> QED BY <1>4, <1>5, <1>6 DEF M

\* A row that S does not keep goes, and those after it move up.
LEMMA RemoveStep ==
  ASSUME TunnelsPageAssumption, RowsKept, NEW S, NEW c \in 1..len, NEW r, SeenTo(r, c, S), mem[c] \notin S
  PROVE  SeenTo(RemoveRow(r, c), c - 1, S)
<1> DEFINE q == RemoveRow(r, c)
           M == Len(mem)
           from(k) == IF k < c THEN k ELSE k + 1
<1>1. /\ M \in Nat /\ len \in Nat /\ len <= M /\ c \in Nat /\ 1 <= c /\ c <= len
      /\ r \in Slices /\ r.len \in Nat /\ c <= r.len /\ r.len <= len
  <2>1. r.len \in c..len /\ r \in Slices
    BY DEF SeenTo
  <2> QED BY <2>1, RowsTyped
<1>2. /\ q \in Slices /\ q.len = r.len - 1
      /\ \A k \in 1..M : q.mem[k] = IF c <= k /\ k < r.len THEN r.mem[k + 1] ELSE r.mem[k]
  BY <1>1, RemoveRowIs
<1> HIDE DEF q, M
<1>3. \A k \in 1..q.len : k \in 1..M /\ from(k) \in 1..r.len /\ q.mem[k] = r.mem[from(k)]
  <2> SUFFICES ASSUME NEW k \in 1..q.len
               PROVE  k \in 1..M /\ from(k) \in 1..r.len /\ q.mem[k] = r.mem[from(k)]
    OBVIOUS
  <2>1. k \in 1..M /\ k < r.len /\ from(k) \in 1..r.len
    BY <1>1, <1>2
  <2> QED BY <1>1, <1>2, <2>1
<1>4. \A i, j \in 1..q.len : i < j => from(i) < from(j)
  BY <1>1, <1>2
<1>5. \A k \in c..q.len : from(k) \in c + 1..r.len
  BY <1>1, <1>2
<1>6. \A k \in 1..c - 1 : k \in 1..M /\ k \in 1..c /\ q.mem[k] = mem[k]
  <2> SUFFICES ASSUME NEW k \in 1..c - 1 PROVE k \in 1..M /\ k \in 1..c /\ q.mem[k] = mem[k]
    OBVIOUS
  <2>1. k \in 1..M /\ k \in 1..c /\ ~ c <= k
    BY <1>1
  <2> QED BY <1>2, <2>1 DEF SeenTo
<1>7. q.len \in c - 1..len
  BY <1>1, <1>2
<1>8. \A k \in 1..q.len : q.mem[k] \in Rows
  <2> HIDE DEF from
  <2> QED BY <1>3 DEF SeenTo
<1>9. \A k \in (c - 1) + 1..q.len : q.mem[k] \in S
  <2> SUFFICES ASSUME NEW k \in (c - 1) + 1..q.len PROVE q.mem[k] \in S
    OBVIOUS
  <2>1. k \in c..q.len /\ k \in 1..q.len
    BY <1>1, <1>2
  <2> HIDE DEF from
  <2> QED BY <1>3, <1>5, <2>1 DEF SeenTo
<1>10. \A i, j \in 1..q.len : i < j => q.mem[i] < q.mem[j]
  <2> HIDE DEF from
  <2> QED BY <1>3, <1>4 DEF SeenTo
<1>11. ASSUME NEW j \in 1..len, mem[j] \in S PROVE \E k \in 1..q.len : q.mem[k] = mem[j]
  <2>1. PICK k \in 1..r.len : r.mem[k] = mem[j]
    BY <1>11 DEF SeenTo
  <2>2. k # c
    <3>1. c \in 1..c /\ r.mem[c] = mem[c]
      BY <1>1 DEF SeenTo
    <3> QED BY <1>11, <2>1, <3>1
  <2>3. CASE k < c
    <3>1. k \in 1..q.len /\ from(k) = k
      BY <1>1, <1>2, <2>3
    <3> HIDE DEF from
    <3> QED BY <1>3, <2>1, <3>1
  <2>4. CASE k > c
    <3>1. k - 1 \in 1..q.len /\ from(k - 1) = k
      BY <1>1, <1>2, <2>4
    <3> HIDE DEF from
    <3> QED BY <1>3, <2>1, <3>1
  <2> QED BY <1>1, <2>2, <2>3, <2>4
<1>12. ASSUME NEW k \in 1..M, mem[k] \in Names PROVE q.mem[k] \in Names
  <2>1. CASE c <= k /\ k < r.len
    <3>1. k + 1 \in 1..r.len
      BY <1>1, <2>1
    <3>2. r.mem[k + 1] \in Names
      BY <3>1, RowsTyped DEF SeenTo
    <3> QED BY <1>2, <2>1, <3>2
  <2>2. CASE ~(c <= k /\ k < r.len)
    <3>1. r.mem[k] \in Names
      BY <1>12 DEF SeenTo, M
    <3> QED BY <1>2, <2>2, <3>1
  <2> QED BY <2>1, <2>2
<1> HIDE DEF from
<1>13. SeenTo(q, c - 1, S)
  BY <1>2, <1>6, <1>7, <1>8, <1>9, <1>10, <1>11, <1>12 DEF SeenTo, M
<1> QED BY <1>13 DEF q

\* A row that S keeps stays.
LEMMA KeepStep ==
  ASSUME TunnelsPageAssumption, RowsKept, NEW S, NEW c \in 1..len, NEW r, SeenTo(r, c, S), mem[c] \in S
  PROVE  SeenTo(r, c - 1, S)
<1>1. r.len \in c..len /\ c \in 1..len /\ len \in Nat
  BY RowsTyped DEF SeenTo
<1>2. r.len \in c - 1..len /\ c \in 1..c /\ \A k \in 1..c - 1 : k \in 1..c
  BY <1>1
<1>3. ASSUME NEW k \in (c - 1) + 1..r.len PROVE r.mem[k] \in S
  <2>1. k = c \/ k \in c + 1..r.len
    BY <1>1
  <2> QED BY <1>2, <2>1 DEF SeenTo
<1> QED BY <1>2, <1>3 DEF SeenTo

\* RemoveRows: the rows whose tunnels S has stay, in order.
LEMMA RemoveRowsIs ==
  ASSUME TunnelsPageAssumption, RowsKept, NEW S
  PROVE  SeenTo(RemoveRows(S), 0, S)
<1> DEFINE start == [mem |-> mem, len |-> len]
           F == [n \in 1..len |->
                  [r \in Slices |-> IF mem[len + 1 - n] \in S THEN r ELSE RemoveRow(r, len + 1 - n)]]
           Is(f) == f = [n \in 0..len |->
                          IF n = 0 THEN start
                          ELSE IF mem[len + 1 - n] \in S THEN f[n - 1] ELSE RemoveRow(f[n - 1], len + 1 - n)]
           after == CHOOSE f : Is(f)
<1>1. len \in Nat /\ start \in Slices
  BY RowsTyped DEF Slices
<1>2. F \in [1..len -> [Slices -> Slices]]
  <2> SUFFICES ASSUME NEW n \in 1..len, NEW r \in Slices
               PROVE  (IF mem[len + 1 - n] \in S THEN r ELSE RemoveRow(r, len + 1 - n)) \in Slices
    OBVIOUS
  <2>1. len + 1 - n \in Nat
    BY <1>1
  <2> QED BY <2>1, RemoveRowIs
<1>3. PICK g : IsRun(g, len, Slices, start, F)
  <2> HIDE DEF start, F
  <2> QED BY <1>1, <1>2, LoopThere
<1>4. /\ g \in [0..len -> Slices] /\ g[0] = start
      /\ \A n \in 1..len : g[n] = IF mem[len + 1 - n] \in S THEN g[n - 1] ELSE RemoveRow(g[n - 1], len + 1 - n)
  <2>1. g \in [0..len -> Slices] /\ g[0] = start /\ \A n \in 1..len : g[n] = F[n][g[n - 1]]
    BY <1>3 DEF IsRun
  <2>2. \A n \in 1..len : n - 1 \in 0..len
    BY <1>1
  <2> HIDE DEF start
  <2> QED BY <2>1, <2>2
<1>5. Is(g)
  <2> HIDE DEF start
  <2>1. \A n \in 0..len : n = 0 \/ n \in 1..len
    BY <1>1
  <2> QED BY <1>4, <2>1
<1>6. Is(after)
  <2> HIDE DEF start
  <2> HIDE DEF Is
  <2> QED BY <1>5
<1>7. RemoveRows(S) = after[len]
  BY DEF RemoveRows
<1> HIDE DEF after
<1>8. /\ after[0] = start
      /\ \A n \in 1..len :
           after[n] = IF mem[len + 1 - n] \in S THEN after[n - 1] ELSE RemoveRow(after[n - 1], len + 1 - n)
  <2>1. 0 \in 0..len /\ \A n \in 1..len : n \in 0..len /\ n # 0
    BY <1>1
  <2> HIDE DEF start
  <2> QED BY <1>6, <2>1
<1> DEFINE T == {n \in 0..len : SeenTo(after[n], len - n, S)}
<1>9. 0 \in T
  <2>1. SeenTo(start, len, S)
    <3>1. /\ start.mem = mem /\ start.len = len /\ len \in len..len /\ len + 1..len = {}
      BY <1>1
    <3>2. \A j \in 1..len : mem[j] \in Rows
      BY DEF Rows
    <3> HIDE DEF start
    <3> QED BY <1>1, <3>1, <3>2 DEF SeenTo, RowsKept
  <2>2. len - 0 = len /\ 0 \in 0..len
    BY <1>1
  <2> HIDE DEF start
  <2> QED BY <1>8, <2>1, <2>2
<1>10. ASSUME NEW n \in 1..len, n - 1 \in T PROVE n \in T
  <2> DEFINE c == len + 1 - n
  <2>1. c \in 1..len /\ len - (n - 1) = c /\ len - n = c - 1 /\ n \in 0..len
    BY <1>1
  <2> HIDE DEF c
  <2>2. SeenTo(after[n - 1], c, S)
    BY <1>10, <2>1
  <2>3. after[n] = IF mem[c] \in S THEN after[n - 1] ELSE RemoveRow(after[n - 1], c)
    BY <1>8 DEF c
  <2>4. SeenTo(after[n], c - 1, S)
    BY <2>1, <2>2, <2>3, RemoveStep, KeepStep
  <2> QED BY <2>1, <2>4
<1>11. SeenTo(after[len], len - len, S)
  <2>1. \A n \in 1..len : n - 1 \in T => n \in T
    BY <1>10
  <2>2. len \in T
    <3> HIDE DEF T
    <3>1. len \in 0..len
      BY <1>1
    <3> QED BY <1>1, <1>9, <2>1, <3>1, UpTo
  <2> QED BY <2>2
<1> QED BY <1>1, <1>7, <1>11

-----------------------------------------------------------------------------
(* The rows of a load.                                                     *)

\* An array that begins with the names of S in order has them as its rows.
LEMMA SortedRows ==
  ASSUME TunnelsPageAssumption, NEW S \in SUBSET Names, NEW m \in Seq(Names \cup {0}),
         Len(Sorted(S)) <= Len(m), \A i \in 1..Len(Sorted(S)) : m[i] = Sorted(S)[i]
  PROVE  /\ Len(Sorted(S)) \in 0..Len(m)
         /\ \A i \in 1..Len(Sorted(S)) : m[i] \in Names
         /\ \A i, j \in 1..Len(Sorted(S)) : i < j => m[i] < m[j]
         /\ {m[i] : i \in 1..Len(Sorted(S))} = S
<1>1. S \in SUBSET (1..N) /\ N \in Nat
  BY DEF Names, TunnelsPageAssumption
<1>2. /\ Len(Sorted(S)) \in 0..N
      /\ \A i \in 1..Len(Sorted(S)) : Sorted(S)[i] \in S
      /\ \A i, j \in 1..Len(Sorted(S)) : i < j => Sorted(S)[i] < Sorted(S)[j]
      /\ \A x \in S : \E i \in 1..Len(Sorted(S)) : Sorted(S)[i] = x
  BY <1>1, SortedIs
<1>3. PICK n, rows : n = Len(Sorted(S)) /\ rows = Sorted(S)
  OBVIOUS
<1>4. n \in 0..Len(m)
  BY <1>2, <1>3
<1>5. /\ \A i \in 1..n : m[i] \in S
      /\ \A i, j \in 1..n : i < j => m[i] < m[j]
      /\ \A x \in S : \E i \in 1..n : m[i] = x
  <2>1. \A i \in 1..n : m[i] = rows[i]
    BY <1>3
  <2> QED BY <1>2, <1>3, <2>1
<1>6. {m[i] : i \in 1..n} = S
  BY <1>5
<1> QED BY <1>3, <1>4, <1>5, <1>6

LEMMA ArrayIs ==
  ASSUME TunnelsPageAssumption, NEW S \in SUBSET Names
  PROVE  /\ Array(Sorted(S)) \in Seq(Names \cup {0}) /\ Len(Sorted(S)) <= Len(Array(Sorted(S)))
         /\ \A i \in 1..Len(Sorted(S)) : Array(Sorted(S))[i] = Sorted(S)[i]
<1> DEFINE rows == Sorted(S)
           n == Len(rows)
           a == Array(rows)
<1>1. S \in SUBSET (1..N) /\ N \in Nat
  BY DEF Names, TunnelsPageAssumption
<1>2. n \in 0..N /\ \A i \in 1..n : rows[i] \in Names
  BY <1>1, SortedIs
<1>3. PICK c \in Nat : c = Capacity(n) /\ c >= n
  BY <1>2 DEF TunnelsPageAssumption
<1> HIDE DEF rows, n
<1>4. a = [i \in 1..c |-> IF i <= n THEN rows[i] ELSE 0]
  BY <1>3 DEF Array, n
<1>5. \A i \in 1..c : i <= n => i \in 1..n
  BY <1>1, <1>2
<1>6. \A i \in 1..c : (IF i <= n THEN rows[i] ELSE 0) \in Names \cup {0}
  BY <1>2, <1>5
<1>7. a \in [1..c -> Names \cup {0}]
  BY <1>4, <1>6
<1>8. \A i \in 1..n : i \in 1..c /\ i <= n
  BY <1>1, <1>2, <1>3
<1>9. \A i \in 1..n : a[i] = rows[i]
  BY <1>4, <1>8
<1> HIDE DEF a
<1>10. a \in Seq(Names \cup {0}) /\ Len(a) = c
  BY <1>7
<1>11. n <= Len(a)
  BY <1>1, <1>2, <1>3, <1>10
<1> QED BY <1>9, <1>10, <1>11 DEF a, rows, n

\* What RunRows has done when it returns: the rows are the names that were read.
LEMMA RunRowsSets ==
  ASSUME TunnelsPageAssumption, RowsKept, EditTyped, NEW S \in SUBSET Names, RunRows(S)
  PROVE  RowsKept' /\ EditTyped' /\ Rows' = S
<1>1. PICK kept : kept = RemoveRows(S)
  OBVIOUS
<1>2. SeenTo(kept, 0, S)
  BY <1>1, RemoveRowsIs
<1>3. PICK M : M = Len(mem)
  OBVIOUS
<1>4. /\ mem \in [1..M -> Names \cup {0}] /\ M \in Nat /\ DOMAIN mem = 1..M /\ len \in Nat /\ len <= M
      /\ Rows \in SUBSET Names
  BY <1>3, RowsTyped
<1>5. /\ kept.mem \in [1..M -> Names \cup {0}] /\ kept.len \in 0..len
      /\ \A k \in 1..kept.len : kept.mem[k] \in Rows /\ kept.mem[k] \in S
      /\ \A i, j \in 1..kept.len : i < j => kept.mem[i] < kept.mem[j]
      /\ \A j \in 1..len : mem[j] \in S => \E k \in 1..kept.len : kept.mem[k] = mem[j]
      /\ \A k \in 1..M : mem[k] \in Names => kept.mem[k] \in Names
  BY <1>2, <1>3 DEF SeenTo, Slices
<1>6. CASE S \subseteq Rows
  <2>1. mem' = kept.mem /\ len' = kept.len /\ edit' = edit
    BY <1>1, <1>6 DEF RunRows
  <2>2. mem' \in Seq(Names \cup {0}) /\ Len(mem') = M /\ DOMAIN mem' = 1..M
    BY <1>4, <1>5, <2>1
  <2>3. RowsKept'
    <3>1. len' \in 0..M
      BY <1>4, <1>5, <2>1
    <3>2. \A i \in 1..len' : mem'[i] \in Names
      BY <1>4, <1>5, <2>1
    <3>3. \A i, j \in 1..len' : i < j => mem'[i] < mem'[j]
      BY <1>5, <2>1
    <3> QED BY <2>2, <3>1, <3>2, <3>3 DEF RowsKept
  <2>4. EditTyped'
    BY <1>4, <1>5, <2>1, <2>2 DEF EditTyped, Pointed
  <2>5. Rows' = S
    <3>1. Rows' = {kept.mem[k] : k \in 1..kept.len}
      BY <2>1 DEF Rows
    <3>2. ASSUME NEW x \in S PROVE x \in Rows'
      <4>1. PICK j \in 1..len : mem[j] = x
        BY <1>6 DEF Rows
      <4> QED BY <1>5, <3>1, <4>1
    <3> QED BY <1>5, <3>1, <3>2
  <2> QED BY <2>3, <2>4, <2>5
<1>7. CASE ~ S \subseteq Rows
  <2>1. PICK rows, n : rows = Sorted(S) /\ n = Len(rows)
    OBVIOUS
  <2>2. Replace(rows, kept, S \ Rows)
    BY <1>1, <1>7, <2>1 DEF RunRows
  <2>3. n \in Nat /\ \A i \in 1..n : rows[i] \in Names
    <3>1. S \in SUBSET (1..N) /\ N \in Nat
      BY DEF Names, TunnelsPageAssumption
    <3>2. n \in 0..N /\ \A i \in 1..n : rows[i] \in S
      BY <2>1, <3>1, SortedIs
    <3>3. \A x \in S : x \in Names
      OBVIOUS
    <3>4. n \in Nat
      BY <3>1, <3>2
    <3> QED BY <3>2, <3>3, <3>4
  <2>4. len' = n
    BY <2>1, <2>2 DEF Replace
  <2>5. CASE n <= M
    <3>1. mem' = [i \in 1..M |-> IF i <= n THEN rows[i] ELSE kept.mem[i]] /\ edit' = edit
      BY <1>3, <1>4, <2>1, <2>2, <2>5 DEF Replace
    <3>2. \A i \in 1..M : i <= n => i \in 1..n
      BY <2>3
    <3>3. \A i \in 1..M : mem'[i] = IF i <= n THEN rows[i] ELSE kept.mem[i]
      BY <3>1
    <3>4. mem' \in [1..M -> Names \cup {0}]
      BY <1>5, <2>3, <3>1, <3>2
    <3>5. mem' \in Seq(Names \cup {0}) /\ Len(mem') = M /\ DOMAIN mem' = 1..M
      BY <1>4, <3>4
    <3>6. \A i \in 1..n : mem'[i] = rows[i]
      <4>1. \A i \in 1..n : i \in 1..M /\ i <= n
        BY <1>4, <2>3, <2>5
      <4> QED BY <3>3, <4>1
    <3>7. /\ n \in 0..Len(mem') /\ \A i \in 1..n : mem'[i] \in Names
          /\ \A i, j \in 1..n : i < j => mem'[i] < mem'[j]
          /\ {mem'[i] : i \in 1..n} = S
      BY <2>1, <2>5, <3>5, <3>6, SortedRows
    <3>8. EditTyped'
      <4>1. \A k \in 1..M : mem[k] \in Names => mem'[k] \in Names
        BY <1>5, <2>3, <3>2, <3>3
      <4> QED BY <1>4, <3>1, <3>5, <4>1 DEF EditTyped, Pointed
    <3> QED BY <2>4, <3>5, <3>7, <3>8 DEF RowsKept, Rows
  <2>6. CASE ~ n <= M
    <3>1. mem' = Array(rows) /\ Freeze(kept, S \ Rows)
      BY <1>3, <2>1, <2>2, <2>6 DEF Replace
    <3>2. mem' \in Seq(Names \cup {0}) /\ n <= Len(mem') /\ \A i \in 1..n : mem'[i] = rows[i]
      BY <2>1, <3>1, ArrayIs
    <3>3. /\ n \in 0..Len(mem') /\ \A i \in 1..n : mem'[i] \in Names
          /\ \A i, j \in 1..n : i < j => mem'[i] < mem'[j]
          /\ {mem'[i] : i \in 1..n} = S
      BY <2>1, <3>2, SortedRows
    <3>4. EditTyped'
      <4>1. CASE edit.slot = 0
        <5>1. edit' = edit
          BY <3>1, <4>1 DEF Freeze
        <5> QED BY <4>1, <5>1 DEF EditTyped, Pointed
      <4>2. CASE edit.slot # 0
        <5>1. PICK x \in IF edit.slot <= kept.len THEN {kept.mem[edit.slot]} ELSE S \ Rows :
                edit' = [edit EXCEPT !.slot = 0, !.name = x]
          BY <3>1, <4>2 DEF Freeze
        <5>2. x \in Names
          <6>1. edit.slot \in 1..M /\ mem[edit.slot] \in Names
            BY <1>4, <4>2 DEF EditTyped
          <6> QED BY <1>5, <5>1, <6>1
        <5> QED BY <5>1, <5>2 DEF EditTyped, Pointed
      <4> QED BY <4>1, <4>2
    <3> QED BY <2>4, <3>2, <3>3, <3>4 DEF RowsKept, Rows
  <2> QED BY <2>5, <2>6
<1> QED BY <1>6, <1>7

-----------------------------------------------------------------------------
(* The steps.                                                              *)

USE DEF Stores

\* What a job may become, field by field.
LEMMA JobFields ==
  ASSUME NEW j \in Jobs, NEW at \in Stages
  PROVE  /\ j.names \in Seq(Names) /\ j.does \in {"nothing", "delete", "import"}
         /\ [j EXCEPT !.at = at] \in Jobs
         /\ [j EXCEPT !.at = at].at = at
         /\ [j EXCEPT !.at = at].names = j.names
BY DEF Jobs

LEMMA NoJobTyped == NoJob \in Jobs /\ NoJob.at = "none"
<1>1. <<>> \in Seq(Names)
  BY EmptySeq
<1> QED BY <1>1 DEF NoJob, Jobs, Stages

LEMMA InitIsGood == ASSUME TunnelsPageAssumption, Init PROVE IInv
<1>1. stored \in SUBSET Names /\ mem = Array(Sorted(stored)) /\ len = Len(Sorted(stored))
  BY DEF Init
<1>2. mem \in Seq(Names \cup {0}) /\ len <= Len(mem) /\ \A i \in 1..len : mem[i] = Sorted(stored)[i]
  BY <1>1, ArrayIs
<1>3. /\ len \in 0..Len(mem) /\ \A i \in 1..len : mem[i] \in Names
      /\ \A i, j \in 1..len : i < j => mem[i] < mem[j]
      /\ Rows = stored
  BY <1>1, <1>2, SortedRows DEF Rows
<1>4. RowsKept
  BY <1>2, <1>3 DEF RowsKept
<1>5. HistoryKept
  BY <1>1, <1>3 DEF Init, HistoryKept
<1>6. ListenerTyped /\ PostsTyped
  BY DEF Init, ListenerTyped, PostsTyped
<1>7. EditTyped
  BY DEF Init, EditTyped, NoEdit
<1>8. JobTyped
  BY NoJobTyped DEF Init, JobTyped
<1> QED BY <1>4, <1>5, <1>6, <1>7, <1>8 DEF IInv

\* What was stored together stays in the history.
LEMMA StoreKeeps ==
  ASSUME IInv, NEW S \in Stores, Store(S), UNCHANGED <<list, listener, posts>>
  PROVE  had \subseteq had' /\ HistoryKept' /\ RowsKept' /\ ListenerTyped' /\ PostsTyped'
<1>1. stored' = S /\ had' = had \cup {S} /\ had \subseteq had'
  BY DEF Store
<1>2. HistoryKept'
  BY <1>1 DEF IInv, HistoryKept, Rows, list
<1>3. RowsKept'
  BY DEF IInv, RowsKept, list
<1>4. ListenerTyped'
  BY <1>1 DEF IInv, ListenerTyped, IdleListener
<1>5. PostsTyped'
  <2>1. [does : {"rows", "menu"}, names : had] \subseteq [does : {"rows", "menu"}, names : had']
    BY <1>1
  <2> QED BY <2>1, SeqMonotonic DEF IInv, PostsTyped
<1> QED BY <1>1, <1>2, <1>3, <1>4, <1>5

LEMMA JobStays == ASSUME JobTyped, had \subseteq had', UNCHANGED <<job, suspended>> PROVE JobTyped'
BY DEF JobTyped

LEMMA EditStays == ASSUME EditTyped, UNCHANGED <<list, edit>> PROVE EditTyped'
BY DEF EditTyped, Pointed, list

LEMMA OtherSessionKeeps == ASSUME TunnelsPageAssumption, IInv, OtherSession PROVE IInv'
<1>1. PICK n \in Names : Store(IF n \in stored THEN stored \ {n} ELSE stored \cup {n})
  BY DEF OtherSession
<1>2. PICK S \in Stores : Store(S)
  BY <1>1 DEF IInv, HistoryKept
<1>3. UNCHANGED <<list, listener, suspended, posts, edit, job>>
  BY DEF OtherSession
<1>4. had \subseteq had' /\ HistoryKept' /\ RowsKept' /\ ListenerTyped' /\ PostsTyped'
  BY <1>2, <1>3, StoreKeeps
<1>5. EditTyped' /\ JobTyped'
  BY <1>3, <1>4, EditStays, JobStays DEF IInv
<1> QED BY <1>4, <1>5 DEF IInv

LEMMA ListenerKeeps == ASSUME IInv, Listener PROVE IInv'
<1>1. UNCHANGED <<stored, had, list, suspended, edit, job>>
  BY DEF Listener, TakeEvent, ListenerReads, ListenerPosts
<1>2. HistoryKept' /\ RowsKept' /\ EditTyped' /\ JobTyped'
  <2>1. HistoryKept' /\ RowsKept'
    BY <1>1 DEF IInv, HistoryKept, RowsKept, Rows, list
  <2> QED BY <1>1, <2>1, EditStays, JobStays DEF IInv
<1>3. CASE TakeEvent
  BY <1>1, <1>2, <1>3 DEF TakeEvent, IInv, ListenerTyped, PostsTyped
<1>4. CASE ListenerReads
  <2>1. listener \in [at : {"first", "second"}, names : Stores, view : {"rows", "menu"}]
    BY <1>4 DEF ListenerReads, IInv, ListenerTyped, IdleListener
  <2>2. ListenerTyped'
    BY <1>1, <1>4, <2>1 DEF ListenerReads, ListenerTyped, IInv, HistoryKept
  <2> QED BY <1>1, <1>2, <1>4, <2>2 DEF ListenerReads, IInv, PostsTyped
<1>5. CASE ListenerPosts
  <2>1. listener \in [at : {"post1", "post2"}, names : had, view : {"rows", "menu"}]
    BY <1>5 DEF ListenerPosts, IInv, ListenerTyped, IdleListener
  <2>2. ListenerTyped'
    BY <1>5, <2>1 DEF ListenerPosts, ListenerTyped
  <2>3. PostsTyped'
    <3>1. [does |-> listener.view, names |-> listener.names] \in [does : {"rows", "menu"}, names : had]
      BY <2>1
    <3>2. posts' = Append(posts, [does |-> listener.view, names |-> listener.names]) /\ had' = had
      BY <1>5, <1>1 DEF ListenerPosts, Posts
    <3> QED BY <3>1, <3>2, AppendProperties DEF IInv, PostsTyped
  <2> QED BY <1>2, <2>2, <2>3 DEF IInv
<1> QED BY <1>3, <1>4, <1>5 DEF Listener

LEMMA RunPostKeeps == ASSUME TunnelsPageAssumption, IInv, RunPost PROVE IInv'
<1>1. PICK p : p = Head(posts)
  OBVIOUS
<1>2. p \in [does : {"rows", "menu"}, names : had] /\ PostsTyped'
  BY <1>1, HeadTailProperties DEF RunPost, IInv, PostsTyped
<1>3. UNCHANGED <<stored, had, listener, suspended, job>>
  BY DEF RunPost
<1>4. ListenerTyped' /\ JobTyped'
  BY <1>3 DEF IInv, ListenerTyped, IdleListener, JobTyped
<1>5. CASE p.does = "rows"
  <2>1. RunRows(p.names) /\ menu' = menu
    BY <1>1, <1>5 DEF RunPost
  <2>2. p.names \in SUBSET Names
    BY <1>2 DEF IInv, HistoryKept
  <2>3. RowsKept' /\ EditTyped' /\ Rows' = p.names
    BY <2>1, <2>2, RunRowsSets DEF IInv
  <2>4. HistoryKept'
    BY <1>2, <1>3, <2>1, <2>3 DEF IInv, HistoryKept
  <2> QED BY <1>2, <1>4, <2>3, <2>4 DEF IInv
<1>6. CASE p.does # "rows"
  <2>1. menu' = p.names /\ UNCHANGED <<mem, len, edit>>
    BY <1>1, <1>6 DEF RunPost
  <2>2. HistoryKept'
    BY <1>2, <1>3, <2>1 DEF IInv, HistoryKept, Rows
  <2> QED BY <1>2, <1>4, <2>1, <2>2 DEF IInv, RowsKept, EditTyped, Pointed
<1> QED BY <1>5, <1>6

\* What an edit changes but the store: its own state.
LEMMA EditKeeps ==
  ASSUME IInv, EditTyped', UNCHANGED <<stored, had, list, listener, suspended, posts, job>>
  PROVE  IInv'
<1>1. HistoryKept' /\ RowsKept'
  BY DEF IInv, HistoryKept, RowsKept, Rows, list
<1>2. ListenerTyped' /\ PostsTyped'
  BY DEF IInv, ListenerTyped, IdleListener, PostsTyped
<1>3. JobTyped'
  BY JobStays DEF IInv
<1> QED BY <1>1, <1>2, <1>3 DEF IInv

LEMMA OpenEditKeeps == ASSUME TunnelsPageAssumption, IInv, OpenEdit PROVE IInv'
<1>1. PICK i \in 1..len : edit' = [NoEdit EXCEPT !.at = "dialog", !.slot = i, !.asked = mem[i],
                                                !.new = IF mem[i] \in stored THEN mem[i] ELSE None]
  BY DEF OpenEdit
<1>2. UNCHANGED <<stored, had, list, listener, suspended, posts, job>>
  BY DEF OpenEdit
<1>3. i \in DOMAIN mem /\ i \in Nat /\ i # 0 /\ mem[i] \in Names
  BY RowsTyped DEF IInv, RowsKept
<1>4. EditTyped'
  BY <1>1, <1>2, <1>3 DEF EditTyped, NoEdit, Pointed, list
<1> QED BY <1>2, <1>4, EditKeeps

LEMMA CloseEditKeeps == ASSUME IInv, CloseEdit PROVE IInv'
<1>1. UNCHANGED <<stored, had, list, listener, suspended, posts, job>>
  BY DEF CloseEdit
<1>2. EditTyped'
  <2>1. CASE edit' = NoEdit
    BY <1>1, <2>1 DEF EditTyped, NoEdit, Pointed
  <2>2. ASSUME NEW n \in Names, edit' = [edit EXCEPT !.at = "delete", !.new = n] PROVE EditTyped'
    BY <1>1, <2>2 DEF EditTyped, Pointed, IInv, CloseEdit, list
  <2> QED BY <2>1, <2>2 DEF CloseEdit
<1> QED BY <1>1, <1>2, EditKeeps

LEMMA EditStepKeeps == ASSUME IInv, EditStep PROVE IInv'
<1>1. UNCHANGED <<list, listener, suspended, posts, job>>
  BY DEF EditStep, EditDeletes, EditCreates
<1>2. CASE EditDeletes
  <2>1. EditTyped'
    BY <1>1, <1>2 DEF EditDeletes, EditTyped, Pointed, IInv, list
  <2>2. CASE UNCHANGED <<stored, had, changed>>
    BY <1>1, <2>1, <2>2, EditKeeps
  <2>3. CASE Store(stored \ {Pointed})
    <3>1. stored \ {Pointed} \in Stores
      BY DEF IInv, HistoryKept
    <3>2. had \subseteq had' /\ HistoryKept' /\ RowsKept' /\ ListenerTyped' /\ PostsTyped' /\ JobTyped'
      BY <1>1, <2>3, <3>1, StoreKeeps, JobStays DEF IInv
    <3> QED BY <2>1, <3>2 DEF IInv
  <2> QED BY <1>2, <2>2, <2>3 DEF EditDeletes
<1>3. CASE EditCreates
  <2>1. edit' = NoEdit
    BY <1>3 DEF EditCreates
  <2>2. EditTyped'
    BY <2>1 DEF EditTyped, NoEdit, Pointed
  <2>3. CASE UNCHANGED <<stored, had, changed>>
    BY <1>1, <2>2, <2>3, EditKeeps
  <2>4. CASE Store(stored \cup {edit.new})
    <3>1. stored \cup {edit.new} \in Stores
      BY <1>3 DEF EditCreates, IInv, HistoryKept, EditTyped
    <3>2. had \subseteq had' /\ HistoryKept' /\ RowsKept' /\ ListenerTyped' /\ PostsTyped' /\ JobTyped'
      BY <1>1, <2>4, <3>1, StoreKeeps, JobStays DEF IInv
    <3> QED BY <2>2, <3>2 DEF IInv
  <2> QED BY <1>3, <2>3, <2>4 DEF EditCreates
<1> QED BY <1>2, <1>3 DEF EditStep

LEMMA JobKeeps ==
  ASSUME IInv, JobTyped', UNCHANGED <<stored, had, list, listener, posts, edit>> PROVE IInv'
<1>1. HistoryKept' /\ RowsKept'
  BY DEF IInv, HistoryKept, RowsKept, Rows, list
<1>2. ListenerTyped' /\ PostsTyped'
  BY DEF IInv, ListenerTyped, IdleListener, PostsTyped
<1>3. EditTyped'
  BY EditStays DEF IInv
<1> QED BY <1>1, <1>2, <1>3 DEF IInv

LEMMA DeleteKeeps == ASSUME TunnelsPageAssumption, IInv, Delete PROVE IInv'
<1>1. UNCHANGED <<stored, had, list, listener, suspended, posts, edit>> /\ job = NoJob
  BY DEF Delete
<1>2. PICK S \in SUBSET (1..len) :
        job' = [NoJob EXCEPT !.does = "delete", !.at = "suspend", !.names = [i \in 1..Len(Sorted(S)) |-> mem[Sorted(S)[i]]]]
  BY DEF Delete
<1> DEFINE names == [i \in 1..Len(Sorted(S)) |-> mem[Sorted(S)[i]]]
<1>3. len \in Nat
  BY RowsTyped DEF IInv
<1>4. Len(Sorted(S)) \in 0..len /\ \A i \in 1..Len(Sorted(S)) : Sorted(S)[i] \in S
  BY <1>3, SortedIs
<1>5. \A i \in 1..Len(Sorted(S)) : mem[Sorted(S)[i]] \in Names
  <2>1. \A k \in S : mem[k] \in Names
    BY DEF IInv, RowsKept
  <2> QED BY <1>4, <2>1
<1>6. names \in Seq(Names)
  <2>1. Len(Sorted(S)) \in Nat
    BY <1>3, <1>4
  <2> QED BY <1>5, <2>1
<1>7. job' = [NoJob EXCEPT !.does = "delete", !.at = "suspend", !.names = names]
  BY <1>2
<1> HIDE DEF names
<1>8. JobTyped'
  <2>1. job' \in Jobs /\ job'.at = "suspend"
    BY <1>6, <1>7, NoJobTyped DEF Jobs, Stages
  <2>2. job.at = "none"
    BY <1>1, NoJobTyped
  <2> QED BY <1>1, <2>1, <2>2 DEF JobTyped, IInv
<1> QED BY <1>1, <1>8, JobKeeps

LEMMA ImportKeeps == ASSUME TunnelsPageAssumption, IInv, Import PROVE IInv'
<1>1. UNCHANGED <<stored, had, list, listener, suspended, posts, edit>> /\ job = NoJob
  BY DEF Import
<1>2. PICK f \in Files : \E p \in Bijection(DOMAIN f, DOMAIN f) :
        job' = [NoJob EXCEPT !.does = "import", !.at = "suspend", !.names = [i \in DOMAIN f |-> f[p[i]]],
                             !.existing = stored]
  BY DEF Import
<1> PICK p \in Bijection(DOMAIN f, DOMAIN f) :
        job' = [NoJob EXCEPT !.does = "import", !.at = "suspend", !.names = [i \in DOMAIN f |-> f[p[i]]],
                             !.existing = stored]
  BY <1>2
<1> DEFINE names == [i \in DOMAIN f |-> f[p[i]]]
<1>3. f \in Seq(Names)
  BY DEF TunnelsPageAssumption, Names
<1>4. p \in [DOMAIN f -> DOMAIN f] /\ DOMAIN f = 1..Len(f) /\ Len(f) \in Nat
  BY <1>3 DEF Bijection, Injection
<1>5. names \in Seq(Names)
  BY <1>3, <1>4
<1>6. job' = [NoJob EXCEPT !.does = "import", !.at = "suspend", !.names = names, !.existing = stored]
  BY <1>2
<1> HIDE DEF names
<1>7. JobTyped'
  <2>1. job' \in Jobs /\ job'.at = "suspend"
    <3>1. stored \in Stores
      BY DEF IInv, HistoryKept
    <3> QED BY <1>5, <1>6, <3>1, NoJobTyped DEF Jobs, Stages
  <2>2. job.at = "none"
    BY <1>1, NoJobTyped
  <2> QED BY <1>1, <2>1, <2>2 DEF JobTyped, IInv
<1> QED BY <1>1, <1>7, JobKeeps

LEMMA JobStepKeeps == ASSUME IInv, JobStep PROVE IInv'
<1>1. CASE Suspend
  <2>1. JobTyped'
    <3>1. PICK at \in Stages : at = (IF job.at = "suspend" THEN "load" ELSE "reload") /\ job' = [job EXCEPT !.at = at]
      BY <1>1 DEF Suspend, Stages
    <3>2. job' \in Jobs /\ job'.at = at
      BY <3>1, JobFields DEF IInv, JobTyped
    <3>3. suspended' = (IF job.at = "suspend" THEN suspended + 1 ELSE suspended - 1)
          /\ job.at \in {"suspend", "resume"} /\ suspended = (IF job.at = "suspend" THEN 0 ELSE 1)
      BY <1>1 DEF Suspend, IInv, JobTyped
    <3> QED BY <3>1, <3>2, <3>3 DEF JobTyped
  <2> QED BY <1>1, <2>1, JobKeeps DEF Suspend
<1>2. CASE JobReads
  <2>1. JobTyped'
    <3>1. PICK at \in Stages :
            at = (IF job.at = "load" THEN "post" ELSE "last post") /\ job' = [job EXCEPT !.read = stored, !.at = at]
      BY <1>2 DEF JobReads, Stages
    <3>2. job' \in Jobs /\ job'.at = at /\ job'.read = stored
      <4>1. stored \in Stores /\ job \in Jobs
        BY DEF IInv, HistoryKept, JobTyped
      <4> QED BY <3>1, <4>1 DEF Jobs
    <3> QED BY <1>2, <3>1, <3>2 DEF JobReads, IInv, JobTyped, HistoryKept
  <2> QED BY <1>2, <2>1, JobKeeps DEF JobReads
<1>3. CASE JobPosts
  <2>1. JobTyped'
    <3>1. CASE job.at = "last post"
      <4>1. job' = NoJob
        BY <1>3, <3>1 DEF JobPosts
      <4>2. job' \in Jobs /\ job'.at = "none"
        BY <4>1, NoJobTyped
      <4> QED BY <1>3, <3>1, <4>2 DEF JobPosts, IInv, JobTyped
    <3>2. CASE job.at = "post"
      <4>1. PICK at \in Stages :
              at = (IF job.names = <<>> THEN "resume" ELSE "act") /\ job' = [job EXCEPT !.read = {}, !.at = at]
        BY <1>3, <3>2 DEF JobPosts, Stages
      <4>2. job' \in Jobs /\ job'.at = at /\ job'.names = job.names
        <5>1. job \in Jobs
          BY DEF IInv, JobTyped
        <5> QED BY <4>1, <5>1 DEF Jobs
      <4> QED BY <1>3, <3>2, <4>1, <4>2 DEF JobPosts, IInv, JobTyped
    <3> QED BY <1>3, <3>1, <3>2 DEF JobPosts
  <2>2. PostsTyped'
    <3>1. [does |-> "rows", names |-> job.read] \in [does : {"rows", "menu"}, names : had]
      BY <1>3 DEF JobPosts, IInv, JobTyped
    <3>2. posts' = Append(posts, [does |-> "rows", names |-> job.read]) /\ had' = had
      BY <1>3 DEF JobPosts, Posts
    <3> QED BY <3>1, <3>2, AppendProperties DEF IInv, PostsTyped
  <2>3. UNCHANGED <<stored, had, list, listener, edit>>
    BY <1>3 DEF JobPosts
  <2> QED BY <2>1, <2>2, <2>3 DEF IInv, HistoryKept, RowsKept, Rows, ListenerTyped, IdleListener, EditTyped, Pointed, list
<1>4. CASE JobActs
  <2>1. UNCHANGED <<list, listener, suspended, posts, edit>>
    BY <1>4 DEF JobActs
  <2>2. Head(job.names) \in Names /\ Tail(job.names) \in Seq(Names) /\ Len(Tail(job.names)) = Len(job.names) - 1
    <3>1. job.names \in Seq(Names) /\ job.names # <<>>
      BY <1>4, JobFields DEF JobActs, IInv, JobTyped, Stages
    <3> QED BY <3>1, HeadTailProperties
  <2>3. job' = [job EXCEPT !.names = Tail(job.names), !.at = IF Len(job.names) = 1 THEN "resume" ELSE "act"]
    BY <1>4 DEF JobActs
  <2>4. JobTyped'
    <3>1. Len(job.names) \in Nat
      BY JobFields, LenProperties DEF IInv, JobTyped, Stages
    <3>2. Tail(job.names) = <<>> => Len(job.names) = 1
      <4> SUFFICES ASSUME Tail(job.names) = <<>> PROVE Len(job.names) = 1
        OBVIOUS
      <4>1. Len(job.names) - 1 = 0
        BY <2>2
      <4> QED BY <3>1, <4>1
    <3>3. PICK at \in Stages :
            /\ at = (IF Len(job.names) = 1 THEN "resume" ELSE "act")
            /\ job' = [job EXCEPT !.names = Tail(job.names), !.at = at]
      BY <2>3 DEF Stages
    <3>4. job' \in Jobs /\ job'.at = at /\ job'.names = Tail(job.names)
      <4>1. job \in Jobs
        BY DEF IInv, JobTyped
      <4> QED BY <2>2, <3>3, <4>1 DEF Jobs
    <3> QED BY <1>4, <2>1, <3>2, <3>3, <3>4 DEF JobActs, IInv, JobTyped
  <2>5. CASE UNCHANGED <<stored, had, changed>>
    BY <2>1, <2>4, <2>5, JobKeeps
  <2>6. CASE Store(stored \ {Head(job.names)}) \/ Store(stored \cup {Head(job.names)})
    <3>1. stored \ {Head(job.names)} \in Stores /\ stored \cup {Head(job.names)} \in Stores
      BY <2>2 DEF IInv, HistoryKept
    <3>2. had \subseteq had' /\ HistoryKept' /\ RowsKept' /\ ListenerTyped' /\ PostsTyped'
      BY <2>1, <2>6, <3>1, StoreKeeps
    <3>3. EditTyped'
      BY <2>1, EditStays DEF IInv
    <3> QED BY <2>4, <3>2, <3>3 DEF IInv
  <2> QED BY <1>4, <2>5, <2>6 DEF JobActs
<1> QED BY <1>1, <1>2, <1>3, <1>4 DEF JobStep

LEMMA NextKeeps == ASSUME TunnelsPageAssumption, IInv, [Next]_vars PROVE IInv'
<1>1. CASE UNCHANGED vars
  <2>1. EditTyped'
    BY <1>1, EditStays DEF vars, IInv
  <2> QED BY <1>1, <2>1, EditKeeps DEF vars
<1> QED
  BY <1>1, OtherSessionKeeps, ListenerKeeps, RunPostKeeps, OpenEditKeeps, CloseEditKeeps,
     EditStepKeeps, DeleteKeeps, ImportKeeps, JobStepKeeps DEF Next

LEMMA InvImpliesTypes == ASSUME TunnelsPageAssumption, IInv PROVE TypeOK
<1>1. HistoryKept /\ RowsKept /\ PostsTyped /\ EditTyped /\ JobTyped
  BY DEF IInv
<1>2. stored \subseteq Names /\ menu \subseteq Names /\ had \subseteq SUBSET Names /\ Rows \subseteq Names
  BY <1>1 DEF HistoryKept
<1>3. edit.slot \in 0..Len(mem) /\ (edit.at # "none" => Pointed \in Names)
  BY <1>1, RowsTyped DEF EditTyped
<1>4. \A i \in 1..Len(posts) : posts[i].names \subseteq Names
  <2>1. \A i \in 1..Len(posts) : posts[i] \in [does : {"rows", "menu"}, names : had]
    BY <1>1, ElementOfSeq DEF PostsTyped
  <2> QED BY <1>2, <2>1
<1> QED BY <1>1, <1>2, <1>3, <1>4 DEF RowsKept, JobTyped, TypeOK

\* The rows of the list are names in order, none twice, whatever loads were posted in
\* whatever order and wherever append has moved the array; and the pointer of an edit
\* is to a place that holds a tunnel (ListModel, ListView.Load, CurrentTunnel).
THEOREM TypeCorrect == Spec => []TypeOK
<1>1. Init => IInv
  BY TunnelsPageAssumption, InitIsGood
<1>2. IInv /\ [Next]_vars => IInv'
  BY TunnelsPageAssumption, NextKeeps
<1>3. IInv => TypeOK
  BY TunnelsPageAssumption, InvImpliesTypes
<1> QED BY <1>1, <1>2, <1>3, PTL DEF Spec

-----------------------------------------------------------------------------
(* List and menu are mirrors of the store.                                 *)

Stored(S) == stored' = S /\ had' = had \cup {S} /\ UNCHANGED <<Rows, menu, stale>>
Shown ==
  /\ UNCHANGED <<stored, had, stale>>
  /\ \/ Rows' \in had /\ UNCHANGED menu
     \/ menu' \in had /\ UNCHANGED Rows
Posted == UNCHANGED <<stored, had, Rows, menu>>

\* A step stores, shows what was stored together, or is one of neither.
LEMMA StepKinds ==
  ASSUME TunnelsPageAssumption, IInv, [Next]_vars
  PROVE  (\E S \in Stores : Stored(S)) \/ Shown \/ Posted
<1>1. ASSUME NEW S \in Stores, Store(S), UNCHANGED <<list, stale>>
      PROVE  \E T \in Stores : Stored(T)
  BY <1>1 DEF Store, Stored, Rows, list
<1>2. ASSUME UNCHANGED <<stored, had, list>> PROVE Posted
  BY <1>2 DEF Posted, Rows, list
<1>3. CASE OtherSession
  <2>1. PICK n \in Names : Store(IF n \in stored THEN stored \ {n} ELSE stored \cup {n})
    BY <1>3 DEF OtherSession
  <2>2. PICK S \in Stores : Store(S)
    BY <2>1 DEF IInv, HistoryKept
  <2> QED BY <1>1, <1>3, <2>2 DEF OtherSession
<1>4. CASE Listener
  BY <1>2, <1>4 DEF Listener, TakeEvent, ListenerReads, ListenerPosts
<1>5. CASE RunPost
  <2>1. PICK p : p = Head(posts)
    OBVIOUS
  <2>2. p \in [does : {"rows", "menu"}, names : had] /\ p.names \in SUBSET Names
    <3>1. p \in [does : {"rows", "menu"}, names : had]
      BY <1>5, <2>1, HeadTailProperties DEF RunPost, IInv, PostsTyped
    <3> QED BY <3>1 DEF IInv, HistoryKept
  <2>3. UNCHANGED <<stored, had, stale>>
    BY <1>5 DEF RunPost
  <2>4. CASE p.does = "rows"
    <3>1. RunRows(p.names) /\ menu' = menu
      BY <1>5, <2>1, <2>4 DEF RunPost
    <3>2. Rows' = p.names
      BY <2>2, <3>1, RunRowsSets DEF IInv
    <3> QED BY <2>2, <2>3, <3>1, <3>2 DEF Shown
  <2>5. CASE p.does # "rows"
    <3>1. menu' = p.names /\ UNCHANGED <<mem, len>>
      BY <1>5, <2>1, <2>5 DEF RunPost
    <3> QED BY <2>2, <2>3, <3>1 DEF Shown, Rows
  <2> QED BY <2>4, <2>5
<1>6. CASE OpenEdit \/ CloseEdit \/ Delete \/ Import
  BY <1>2, <1>6 DEF OpenEdit, CloseEdit, Delete, Import
<1>7. CASE EditStep
  <2>1. UNCHANGED <<list, stale>>
    BY <1>7 DEF EditStep, EditDeletes, EditCreates
  <2>2. UNCHANGED <<stored, had>> \/ \E S \in Stores : Store(S)
    <3>1. stored \in Stores
      BY DEF IInv, HistoryKept
    <3>2. edit.at = "create" => stored \cup {edit.new} \in Stores
      BY <3>1 DEF IInv, EditTyped
    <3> QED BY <1>7, <3>1, <3>2 DEF EditStep, EditDeletes, EditCreates
  <2> QED BY <1>1, <1>2, <2>1, <2>2
<1>8. CASE JobStep
  <2>1. CASE Suspend \/ JobReads \/ JobPosts
    BY <1>2, <2>1 DEF Suspend, JobReads, JobPosts
  <2>2. CASE JobActs
    <3>1. UNCHANGED <<list, stale>>
      BY <2>2 DEF JobActs
    <3>2. UNCHANGED <<stored, had>> \/ \E S \in Stores : Store(S)
      <4>1. stored \in Stores
        BY DEF IInv, HistoryKept
      <4>2. job.names \in Seq(Names) /\ job.names # <<>>
        BY <2>2, JobFields DEF JobActs, IInv, JobTyped, Stages
      <4>3. stored \ {Head(job.names)} \in Stores /\ stored \cup {Head(job.names)} \in Stores
        BY <4>1, <4>2, HeadTailProperties
      <4> QED BY <2>2, <4>3 DEF JobActs
    <3> QED BY <1>1, <1>2, <3>1, <3>2
  <2> QED BY <1>8, <2>1, <2>2 DEF JobStep
<1>9. CASE UNCHANGED vars
  BY <1>2, <1>9 DEF vars
<1> QED BY <1>3, <1>4, <1>5, <1>6, <1>7, <1>8, <1>9 DEF Next

LEMMA ListStarts == ASSUME TunnelsPageAssumption, Init PROVE List!Init
<1>1. Rows = stored /\ stored \in SUBSET Names /\ had = {stored}
  <2>1. stored \in SUBSET Names /\ mem = Array(Sorted(stored)) /\ len = Len(Sorted(stored))
    BY DEF Init
  <2>2. mem \in Seq(Names \cup {0}) /\ len <= Len(mem) /\ \A i \in 1..len : mem[i] = Sorted(stored)[i]
    BY <2>1, ArrayIs
  <2> QED BY <2>1, <2>2, SortedRows DEF Rows, Init
<1>2. <<stored>> \in [{1} -> SUBSET Names] /\ <<stored>>[1] = stored
  BY <1>1
<1>3. <<had>> = [t \in {1} |-> {<<stored>>[t]}]
  BY <1>1, <1>2
<1> QED BY <1>1, <1>2, <1>3 DEF Init, List!Init, List!Blank, List!Shows

LEMMA MenuStarts == ASSUME Init PROVE Menu!Init
<1>1. menu = stored /\ stored \in SUBSET Names /\ had = {stored}
  BY DEF Init
<1>2. <<stored>> \in [{1} -> SUBSET Names] /\ <<stored>>[1] = stored
  BY <1>1
<1>3. <<had>> = [t \in {1} |-> {<<stored>>[t]}]
  BY <1>1, <1>2
<1> QED BY <1>1, <1>2, <1>3 DEF Menu!Init, Menu!Blank, Menu!Shows

LEMMA Becoming ==
  ASSUME NEW S
  PROVE  <<S>> = [<<stored>> EXCEPT ![1] = S] /\ <<had \cup {S}>> = [<<had>> EXCEPT ![1] = @ \cup {S}]
OBVIOUS

LEMMA ListSteps ==
  ASSUME TunnelsPageAssumption, IInv, [Next]_vars PROVE [List!Next]_(List!vars)
<1>1. ASSUME NEW S \in Stores, Stored(S) PROVE List!Change
  <2>1. List!Becomes(1, S)
    BY <1>1, Becoming DEF Stored, List!Becomes
  <2> QED BY <1>1, <2>1 DEF Stored, List!Change
<1>2. CASE Shown /\ Rows' \in had
  <2>1. [thing |-> 1, value |-> Rows'] \in {List!Shows(1, v) : v \in <<had>>[1]}
    BY <1>2 DEF List!Shows
  <2>2. List!Show
    BY <1>2, <2>1 DEF Shown, List!Show
  <2> QED BY <2>2 DEF List!Next
<1>3. CASE UNCHANGED <<stored, had, Rows>>
  <2>1. CASE stale' = stale
    BY <1>3, <2>1 DEF List!vars
  <2>2. CASE stale' # stale
    BY <1>3 DEF List!Choose, List!Next
  <2> QED BY <2>1, <2>2
<1> QED BY <1>1, <1>2, <1>3, StepKinds DEF Shown, Posted, List!Next

LEMMA MenuSteps ==
  ASSUME TunnelsPageAssumption, IInv, [Next]_vars PROVE [Menu!Next]_(Menu!vars)
<1>1. ASSUME NEW S \in Stores, Stored(S) PROVE Menu!Change
  <2>1. Menu!Becomes(1, S)
    BY <1>1, Becoming DEF Stored, Menu!Becomes
  <2> QED BY <1>1, <2>1 DEF Stored, Menu!Change
<1>2. CASE UNCHANGED <<stored, had>> /\ menu' \in had
  <2>1. [thing |-> 1, value |-> menu'] \in {Menu!Shows(1, v) : v \in <<had>>[1]}
    BY <1>2 DEF Menu!Shows
  <2>2. Menu!Show
    BY <1>2, <2>1 DEF Menu!Show
  <2> QED BY <2>2 DEF Menu!Next
<1>3. CASE UNCHANGED <<stored, had, menu>>
  BY <1>3 DEF Menu!vars
<1> QED BY <1>1, <1>2, <1>3, StepKinds DEF Shown, Posted, Menu!Next

\* The list shows no names but those that were stored together, and changes as a
\* mirror may: the safety half of ListMirrors (ListView.Load).
THEOREM ListIsAMirror == Spec => List!Safety
<1>1. Init => IInv /\ List!Init
  BY TunnelsPageAssumption, InitIsGood, ListStarts
<1>2. IInv /\ [Next]_vars => IInv' /\ [List!Next]_(List!vars)
  BY TunnelsPageAssumption, NextKeeps, ListSteps
<1> QED BY <1>1, <1>2, PTL DEF Spec, List!Safety

\* So does the tray's menu: the safety half of MenuMirrors (Tray.onTunnelsChange).
THEOREM MenuIsAMirror == Spec => Menu!Safety
<1>1. Init => IInv /\ Menu!Init
  BY TunnelsPageAssumption, InitIsGood, MenuStarts
<1>2. IInv /\ [Next]_vars => IInv' /\ [Menu!Next]_(Menu!vars)
  BY TunnelsPageAssumption, NextKeeps, MenuSteps
<1> QED BY <1>1, <1>2, PTL DEF Spec, Menu!Safety

=============================================================================
