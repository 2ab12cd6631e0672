------------------------- MODULE SettingsPartsProofs -------------------------
(***************************************************************************)
(* Proofs about the parts of SettingsParts, for any constants: the groups  *)
(* of peers, the configurations that the routing settings rewrite, and the *)
(* rules of the port firewall with the arithmetic of port ranges.  What a  *)
(* loop computes is shown by the least-number principle.                   *)
(***************************************************************************)
EXTENDS SettingsParts, TLAPS, SequenceTheorems, WellFoundedInduction, FiniteSetTheorems

-----------------------------------------------------------------------------
(* Induction, and loops.                                                   *)

LEMMA LeastOf == ASSUME NEW T \in SUBSET Nat, T # {} PROVE \E n \in T : \A m \in T : n <= m
<1>1. PICK n \in T : \A m \in T : ~ <<m, n>> \in OpToRel(<, Nat)
  BY NatLessThanWellFounded, WFMin
<1>2. \A m \in T : <<m, n>> \in OpToRel(<, Nat) <=> m < n
  BY DEF OpToRel
<1>3. \A m \in T : m \in Nat /\ n \in Nat /\ ~ m < n
  BY <1>1, <1>2
<1>4. \A m \in T : n <= m
  BY <1>3
<1> QED
  BY <1>4

\* A set of numbers that has 0, and with each but l the next, has all up to l.
LEMMA UpTo ==
  ASSUME NEW l \in Nat, NEW T, 0 \in T, \A k \in 1..l : k - 1 \in T => k \in T
  PROVE  \A k \in 0..l : k \in T
<1> DEFINE U == {k \in 0..l : k \notin T}
<1>1. ASSUME U # {} PROVE FALSE
  <2>1. PICK k \in U : \A m \in U : k <= m
    <3>1. U \in SUBSET Nat
      OBVIOUS
    <3> HIDE DEF U
    <3> QED
      BY <1>1, <3>1, LeastOf
  <2>2. k # 0 /\ k \in 1..l /\ k \notin T
    BY <2>1
  <2>3. k - 1 \in T
    BY <2>1, <2>2
  <2> QED
    BY <2>2, <2>3
<1> QED
  BY <1>1

\* A run of a loop of l rounds, where round k makes F[k][x] of x.
IsRun(g, l, X, start, F) ==
  g \in [0..l -> X] /\ g[0] = start /\ \A k \in 1..l : g[k] = F[k][g[k - 1]]

LEMMA LoopThere ==
  ASSUME NEW l \in Nat, NEW X, NEW start \in X, NEW F \in [1..l -> [X -> X]]
  PROVE  \E g : IsRun(g, l, X, start, F)
<1> DEFINE Runs(n) == {g \in [0..n -> X] : g[0] = start /\ \A k \in 1..n : g[k] = F[k][g[k - 1]]}
           T == {n \in 0..l : Runs(n) # {}}
<1>1. 0 \in T
  <2>1. [k \in 0..0 |-> start] \in Runs(0)
    OBVIOUS
  <2> QED
    BY <2>1
<1>2. ASSUME NEW n \in 1..l, n - 1 \in T PROVE n \in T
  <2>1. PICK g \in Runs(n - 1) : TRUE
    BY <1>2
  <2> DEFINE h == [k \in 0..n |-> IF k = n THEN F[n][g[n - 1]] ELSE g[k]]
  <2>2. \A k \in 0..n - 1 : k # n /\ k \in 0..n /\ h[k] = g[k] /\ g[k] \in X
    BY <2>1
  <2>3. h[n] = F[n][g[n - 1]] /\ h[n] \in X
    BY <2>1
  <2>4. h \in [0..n -> X]
    BY <2>2, <2>3
  <2>5. ASSUME NEW k \in 1..n PROVE h[k] = F[k][h[k - 1]]
    <3>1. CASE k = n
      BY <2>2, <2>3, <3>1
    <3>2. CASE k # n
      <4>1. k \in 1..n - 1 /\ k - 1 \in 0..n - 1 /\ k \in 0..n - 1
        BY <3>2
      <4>2. g[k] = F[k][g[k - 1]]
        BY <2>1, <4>1
      <4> QED
        BY <2>2, <4>1, <4>2
    <3> QED
      BY <3>1, <3>2
  <2>6. h[0] = start
    BY <2>1, <2>2
  <2> HIDE DEF h
  <2>7. h \in Runs(n)
    BY <2>4, <2>5, <2>6
  <2> HIDE DEF Runs
  <2> QED
    BY <2>7
<1>3. l \in T
  <2>1. \A n \in 1..l : n - 1 \in T => n \in T
    BY <1>2
  <2> HIDE DEF T
  <2>2. \A k \in 0..l : k \in T
    BY <1>1, <2>1, UpTo
  <2> QED
    BY <2>2
<1> QED
  BY <1>3 DEF IsRun
-----------------------------------------------------------------------------
(* PortRanges: ranges in order, merged, and the gaps between them.         *)

\* The ways to put the ranges f[1], ..., f[m] into the order of their first ports.
Orders(m, f) ==
  {p \in [1..m -> 1..m] :
     /\ \A i, j \in 1..m : p[i] = p[j] => i = j
     /\ \A k \in 1..m : \E i \in 1..m : p[i] = k
     /\ \A i, j \in 1..m : i < j => f[p[i]].from <= f[p[j]].from}

LEMMA LastThere ==
  ASSUME NEW m \in Nat \ {0}, NEW f \in [1..m -> Rules!Ranges], Rules!MaxPortAssumption
  PROVE  \E k \in 1..m : \A i \in 1..m : f[i].from <= f[k].from
<1> DEFINE D == {MaxPort - f[i].from : i \in 1..m}
<1>1. MaxPort \in Nat /\ \A i \in 1..m : f[i].from \in Nat /\ f[i].from <= MaxPort
  BY DEF Rules!Ranges, Rules!Ports, Rules!MaxPortAssumption
<1>2. D \in SUBSET Nat /\ MaxPort - f[m].from \in D
  BY <1>1
<1>3. PICK d \in D : \A e \in D : d <= e
  <2> HIDE DEF D
  <2> QED
    BY <1>2, LeastOf
<1>4. PICK k \in 1..m : d = MaxPort - f[k].from
  BY <1>3
<1>5. ASSUME NEW i \in 1..m PROVE f[i].from <= f[k].from
  <2>1. MaxPort - f[k].from <= MaxPort - f[i].from
    BY <1>3, <1>4
  <2> QED
    BY <1>1, <2>1
<1> QED
  BY <1>5

\* The range that comes last is put at the end, and the range that is there in its
\* place among the others, which there is a way to put in order.
LEMMA OneMore ==
  ASSUME NEW m \in Nat \ {0}, NEW f \in [1..m -> Rules!Ranges], Rules!MaxPortAssumption,
         \A g \in [1..m - 1 -> Rules!Ranges] : Orders(m - 1, g) # {}
  PROVE  Orders(m, f) # {}
<1>1. PICK k \in 1..m : \A i \in 1..m : f[i].from <= f[k].from
  BY LastThere
<1> DEFINE g == [i \in 1..m - 1 |-> IF i = k THEN f[m] ELSE f[i]]
           at(y) == IF y = k THEN m ELSE y
<1>2. g \in [1..m - 1 -> Rules!Ranges]
  OBVIOUS
<1>3. PICK q : q \in Orders(m - 1, g)
  <2> HIDE DEF g
  <2> QED
    BY <1>2
<1>4. /\ q \in [1..m - 1 -> 1..m - 1]
      /\ \A i, j \in 1..m - 1 : q[i] = q[j] => i = j
      /\ \A x \in 1..m - 1 : \E i \in 1..m - 1 : q[i] = x
      /\ \A i, j \in 1..m - 1 : i < j => g[q[i]].from <= g[q[j]].from
  <2> HIDE DEF g
  <2> QED
    BY <1>3 DEF Orders
<1>5. /\ \A y \in 1..m - 1 : at(y) \in 1..m /\ at(y) # k /\ f[at(y)] = g[y]
      /\ \A y, z \in 1..m - 1 : at(y) = at(z) => y = z
      /\ \A x \in 1..m : x # k => \E y \in 1..m - 1 : at(y) = x
  <2>1. ASSUME NEW y \in 1..m - 1 PROVE at(y) \in 1..m /\ at(y) # k /\ f[at(y)] = g[y]
    <3>1. CASE y = k
      BY <3>1
    <3>2. CASE y # k
      BY <3>2
    <3> QED
      BY <3>1, <3>2
  <2>2. ASSUME NEW y \in 1..m - 1, NEW z \in 1..m - 1, at(y) = at(z) PROVE y = z
    BY <2>2
  <2>3. ASSUME NEW x \in 1..m, x # k PROVE \E y \in 1..m - 1 : at(y) = x
    <3>1. CASE x = m
      <4>1. k \in 1..m - 1
        BY <2>3, <3>1
      <4> QED
        BY <3>1, <4>1
    <3>2. CASE x # m
      <4>1. x \in 1..m - 1
        BY <3>2
      <4> QED
        BY <2>3, <4>1
    <3> QED
      BY <3>1, <3>2
  <2> HIDE DEF g, at
  <2> QED
    BY <2>1, <2>2, <2>3
<1> HIDE DEF g, at
<1> DEFINE p == [i \in 1..m |-> IF i = m THEN k ELSE at(q[i])]
<1>6. /\ m \in 1..m /\ p[m] = k
      /\ \A i \in 1..m - 1 : i # m /\ i \in 1..m /\ p[i] = at(q[i]) /\ p[i] # k /\ p[i] \in 1..m
  <2>1. m \in 1..m /\ p[m] = k
    OBVIOUS
  <2>2. ASSUME NEW i \in 1..m - 1
        PROVE  i # m /\ i \in 1..m /\ p[i] = at(q[i]) /\ p[i] # k /\ p[i] \in 1..m
    <3>1. i # m /\ i \in 1..m
      OBVIOUS
    <3>2. q[i] \in 1..m - 1
      BY <1>4
    <3>3. p[i] = at(q[i])
      BY <3>1
    <3> QED
      BY <1>5, <3>1, <3>2, <3>3
  <2> HIDE DEF p
  <2> QED
    BY <2>1, <2>2
<1>7. \A i \in 1..m : i = m \/ i \in 1..m - 1
  OBVIOUS
<1>8. p \in [1..m -> 1..m]
  BY <1>6, <1>7
<1> HIDE DEF p
<1>9. ASSUME NEW i \in 1..m, NEW j \in 1..m, p[i] = p[j] PROVE i = j
  <2>1. CASE i \in 1..m - 1 /\ j \in 1..m - 1
    <3>1. at(q[i]) = at(q[j])
      BY <1>6, <1>9, <2>1
    <3>2. q[i] \in 1..m - 1 /\ q[j] \in 1..m - 1
      BY <1>4, <2>1
    <3>3. q[i] = q[j]
      BY <1>5, <3>1, <3>2
    <3> QED
      BY <1>4, <2>1, <3>3
  <2> QED
    BY <1>6, <1>7, <1>9, <2>1
<1>10. ASSUME NEW x \in 1..m PROVE \E i \in 1..m : p[i] = x
  <2>1. CASE x # k
    <3>1. PICK y \in 1..m - 1 : at(y) = x
      BY <1>5, <2>1
    <3>2. PICK i \in 1..m - 1 : q[i] = y
      BY <1>4
    <3> QED
      BY <1>6, <3>1, <3>2
  <2> QED
    BY <1>6, <2>1
<1>11. ASSUME NEW i \in 1..m, NEW j \in 1..m, i < j PROVE f[p[i]].from <= f[p[j]].from
  <2>1. i \in 1..m - 1
    BY <1>11
  <2>2. CASE j = m
    BY <1>1, <1>6, <1>8, <2>2
  <2>3. CASE j \in 1..m - 1
    <3>1. g[q[i]].from <= g[q[j]].from
      BY <1>4, <1>11, <2>1, <2>3
    <3>2. f[p[i]] = g[q[i]] /\ f[p[j]] = g[q[j]]
      BY <1>4, <1>5, <1>6, <2>1, <2>3
    <3> QED
      BY <3>1, <3>2
  <2> QED
    BY <1>7, <2>2, <2>3
<1>12. p \in Orders(m, f)
  BY <1>8, <1>9, <1>10, <1>11 DEF Orders
<1> QED
  BY <1>12

LEMMA OrderThere ==
  ASSUME NEW n \in Nat, NEW f \in [1..n -> Rules!Ranges], Rules!MaxPortAssumption
  PROVE  Orders(n, f) # {}
<1> DEFINE T == {m \in 0..n : \A h \in [1..m -> Rules!Ranges] : Orders(m, h) # {}}
<1>1. 0 \in T
  <2> SUFFICES ASSUME NEW h \in [1..0 -> Rules!Ranges] PROVE Orders(0, h) # {}
    OBVIOUS
  <2>1. 1..0 = {} /\ [i \in 1..0 |-> i] \in [1..0 -> 1..0]
    OBVIOUS
  <2>2. [i \in 1..0 |-> i] \in Orders(0, h)
    BY <2>1 DEF Orders
  <2> QED
    BY <2>2
<1>2. ASSUME NEW m \in 1..n, m - 1 \in T PROVE m \in T
  <2>1. m \in Nat \ {0} /\ m \in 0..n
    OBVIOUS
  <2>2. \A h \in [1..m -> Rules!Ranges] : Orders(m, h) # {}
    BY <1>2, <2>1, OneMore
  <2> QED
    BY <2>1, <2>2
<1>3. \A m \in 0..n : m \in T
  <2>1. \A m \in 1..n : m - 1 \in T => m \in T
    BY <1>2
  <2> HIDE DEF T
  <2> QED
    BY <1>1, <2>1, UpTo
<1>4. n \in T
  <2> HIDE DEF T
  <2> QED
    BY <1>3
<1> QED
  BY <1>4

\* What sort.Slice makes of ranges: they are the same, and in order.
LEMMA SortedIs ==
  ASSUME NEW rs \in Seq(Rules!Ranges), Rules!MaxPortAssumption
  PROVE  /\ Rules!Sorted(rs) \in Seq(Rules!Ranges) /\ Len(Rules!Sorted(rs)) = Len(rs)
         /\ \A i, j \in 1..Len(rs) : i < j => Rules!Sorted(rs)[i].from <= Rules!Sorted(rs)[j].from
         /\ \A i \in 1..Len(rs) : \E j \in 1..Len(rs) : Rules!Sorted(rs)[i] = rs[j]
         /\ \A j \in 1..Len(rs) : \E i \in 1..Len(rs) : Rules!Sorted(rs)[i] = rs[j]
<1> DEFINE n == Len(rs)
           p == CHOOSE p \in Rules!Bijection(DOMAIN rs, DOMAIN rs) :
                  \A i, j \in DOMAIN rs : i < j => rs[p[i]].from <= rs[p[j]].from
<1>1. DOMAIN rs = 1..n /\ n \in Nat /\ rs \in [1..n -> Rules!Ranges]
  OBVIOUS
<1>2. Rules!Sorted(rs) = [i \in DOMAIN rs |-> rs[p[i]]]
  BY DEF Rules!Sorted
<1>3. Rules!Bijection(DOMAIN rs, DOMAIN rs)
        = {q \in [1..n -> 1..n] : /\ \A i, j \in 1..n : q[i] = q[j] => i = j
                                  /\ \A k \in 1..n : \E i \in 1..n : q[i] = k}
  BY <1>1 DEF Rules!Bijection, Rules!Injection, Rules!Surjection, Rules!IsInjective
<1>4. PICK q : q \in Orders(n, rs)
  BY <1>1, OrderThere
<1>5. /\ q \in Rules!Bijection(DOMAIN rs, DOMAIN rs)
      /\ \A i, j \in DOMAIN rs : i < j => rs[q[i]].from <= rs[q[j]].from
  BY <1>1, <1>3, <1>4 DEF Orders
<1>6. /\ p \in Rules!Bijection(DOMAIN rs, DOMAIN rs)
      /\ \A i, j \in DOMAIN rs : i < j => rs[p[i]].from <= rs[p[j]].from
  BY <1>5
<1> HIDE DEF p
<1>7. /\ p \in [1..n -> 1..n]
      /\ \A j \in 1..n : \E i \in 1..n : p[i] = j
      /\ \A i, j \in 1..n : i < j => rs[p[i]].from <= rs[p[j]].from
  BY <1>1, <1>3, <1>6
<1>8. /\ Rules!Sorted(rs) = [i \in 1..n |-> rs[p[i]]]
      /\ \A i \in 1..n : Rules!Sorted(rs)[i] = rs[p[i]]
  BY <1>1, <1>2
<1>9. Rules!Sorted(rs) \in Seq(Rules!Ranges) /\ Len(Rules!Sorted(rs)) = n
  BY <1>1, <1>7, <1>8
<1>10. /\ \A i, j \in 1..n : i < j => Rules!Sorted(rs)[i].from <= Rules!Sorted(rs)[j].from
       /\ \A i \in 1..n : \E j \in 1..n : Rules!Sorted(rs)[i] = rs[j]
       /\ \A j \in 1..n : \E i \in 1..n : Rules!Sorted(rs)[i] = rs[j]
  <2> HIDE DEF n
  <2>1. \A i, j \in 1..n : i < j => Rules!Sorted(rs)[i].from <= Rules!Sorted(rs)[j].from
    BY <1>7, <1>8
  <2>2. ASSUME NEW i \in 1..n PROVE \E j \in 1..n : Rules!Sorted(rs)[i] = rs[j]
    BY <1>7, <1>8
  <2>3. ASSUME NEW j \in 1..n PROVE \E i \in 1..n : Rules!Sorted(rs)[i] = rs[j]
    <3>1. PICK i \in 1..n : p[i] = j
      BY <1>7
    <3> QED
      BY <1>8, <3>1
  <2> QED
    BY <2>1, <2>2, <2>3
<1> QED
  BY <1>9, <1>10
\* What holds of ranges that the rules name: none is empty.
IsNamed(rs) == rs \in Seq(Rules!Ranges) /\ \A i \in 1..Len(rs) : rs[i].from <= rs[i].to

\* The ports of the first n of the ranges rs.
PortsOf(rs, n) == {p \in Nat : \E i \in 1..n : rs[i].from <= p /\ p <= rs[i].to}

LEMMA RangeTyped ==
  ASSUME Rules!MaxPortAssumption, NEW r \in Rules!Ranges
  PROVE  /\ MaxPort \in Nat /\ r = [from |-> r.from, to |-> r.to]
         /\ r.from \in Nat /\ 1 <= r.from /\ r.from <= MaxPort
         /\ r.to \in Nat /\ 1 <= r.to /\ r.to <= MaxPort
BY DEF Rules!Ranges, Rules!Ports, Rules!MaxPortAssumption

LEMMA PortsInAre ==
  ASSUME Rules!MaxPortAssumption, NEW rs \in Seq(Rules!Ranges)
  PROVE  Rules!PortsIn(rs) = PortsOf(rs, Len(rs))
<1>1. DOMAIN rs = 1..Len(rs) /\ \A i \in 1..Len(rs) : rs[i] \in Rules!Ranges
  OBVIOUS
<1>2. \A i \in 1..Len(rs) : rs[i].from \in Nat /\ rs[i].to \in Nat
  BY <1>1, RangeTyped
<1>3. Rules!PortsIn(rs) = UNION {rs[i].from .. rs[i].to : i \in 1..Len(rs)}
  BY <1>1 DEF Rules!PortsIn
<1>4. \A p : p \in Rules!PortsIn(rs) <=> \E i \in 1..Len(rs) : p \in rs[i].from .. rs[i].to
  BY <1>3
<1>5. \A i \in 1..Len(rs) : \A p : p \in rs[i].from .. rs[i].to <=> p \in Nat /\ rs[i].from <= p /\ p <= rs[i].to
  BY <1>2
<1>6. \A p : p \in PortsOf(rs, Len(rs)) <=> p \in Nat /\ \E i \in 1..Len(rs) : rs[i].from <= p /\ p <= rs[i].to
  BY DEF PortsOf
<1> QED
  BY <1>4, <1>5, <1>6

\* What the loop of mergeRanges has after i of the ranges s.
Merging(m, s, i) ==
  /\ IsNamed(m) /\ Rules!Separate(m)
  /\ PortsOf(m, Len(m)) = PortsOf(s, i)
  /\ m # <<>> => i > 0 /\ m[Len(m)].from <= s[i].from
  /\ m = <<>> => i = 0

LEMMA MergeStep ==
  ASSUME Rules!MaxPortAssumption, NEW s, IsNamed(s),
         \A i, j \in 1..Len(s) : i < j => s[i].from <= s[j].from,
         NEW i \in 1..Len(s), NEW m, Merging(m, s, i - 1)
  PROVE  Merging(Rules!MergeInto(m, s[i]), s, i)
<1> DEFINE r == s[i]
           n == Len(m)
           new == Rules!MergeInto(m, r)
<1>1. r \in Rules!Ranges /\ r.from \in Nat /\ r.to \in Nat /\ r.from <= r.to
  BY RangeTyped DEF IsNamed
<1>2. /\ m \in Seq(Rules!Ranges) /\ n \in Nat
      /\ \A k \in 1..n : m[k] \in Rules!Ranges /\ m[k].from \in Nat /\ m[k].to \in Nat /\ m[k].from <= m[k].to
      /\ \A k \in 1..n - 1 : m[k].to + 1 < m[k + 1].from
  <2>1. m \in Seq(Rules!Ranges) /\ n \in Nat /\ \A k \in 1..n : m[k] \in Rules!Ranges /\ m[k].from <= m[k].to
    BY DEF IsNamed, Merging
  <2>2. \A k \in 1..n : m[k].from \in Nat /\ m[k].to \in Nat
    BY <2>1, RangeTyped
  <2>3. \A k \in 1..n - 1 : m[k].to + 1 < m[k + 1].from
    BY DEF Merging, Rules!Separate
  <2> QED
    BY <2>1, <2>2, <2>3
<1>3. \A p \in Nat : p \in PortsOf(s, i) <=> p \in PortsOf(s, i - 1) \/ (r.from <= p /\ p <= r.to)
  <2>1. 1..i = 1..(i - 1) \cup {i}
    OBVIOUS
  <2> QED
    BY <2>1 DEF PortsOf
<1>4. n > 0 => m[n].from <= r.from
  <2> SUFFICES ASSUME n > 0 PROVE m[n].from <= r.from
    OBVIOUS
  <2>1. i - 1 > 0 /\ m[n].from <= s[i - 1].from
    BY <1>2 DEF Merging
  <2>2. i - 1 \in 1..Len(s) /\ i \in 1..Len(s) /\ i - 1 < i
    BY <2>1
  <2>3. s[i - 1].from <= r.from /\ s[i - 1].from \in Nat
    BY <2>2, RangeTyped DEF IsNamed
  <2>4. PICK a, b, d : a = m[n].from /\ b = s[i - 1].from /\ d = r.from
    OBVIOUS
  <2>5. a \in Nat /\ b \in Nat /\ d \in Nat /\ a <= b /\ b <= d
    <3>1. n \in 1..n
      BY <1>2
    <3> QED
      BY <1>1, <1>2, <2>1, <2>3, <2>4, <3>1
  <2>6. a <= d
    BY <2>5
  <2> QED
    BY <2>4, <2>6
<1>5. CASE m = <<>> \/ r.from > m[n].to + 1
  <2>1. new = Append(m, r)
    BY <1>5 DEF Rules!MergeInto, Rules!Last
  <2>2. /\ new \in Seq(Rules!Ranges) /\ Len(new) = n + 1 /\ new[n + 1] = r
        /\ \A k \in 1..n : new[k] = m[k]
    BY <1>1, <1>2, <2>1
  <2>3. \A k \in 1..n + 1 : k \in 1..n \/ k = n + 1
    BY <1>2
  <2>4. IsNamed(new)
    BY <1>1, <1>2, <2>2, <2>3 DEF IsNamed
  <2>5. Rules!Separate(new)
    <3> SUFFICES ASSUME NEW k \in 1..n PROVE new[k].to + 1 < new[k + 1].from
      BY <2>2 DEF Rules!Separate
    <3>1. CASE k = n
      <4>1. m # <<>>
        BY <3>1
      <4> QED
        BY <1>2, <1>5, <2>2, <3>1, <4>1
    <3>2. CASE k # n
      <4>1. k \in 1..n - 1 /\ k + 1 \in 1..n
        BY <1>2, <3>2
      <4> QED
        BY <1>2, <2>2, <4>1
    <3> QED
      BY <3>1, <3>2
  <2>6. PortsOf(new, n + 1) = PortsOf(s, i)
    <3>1. \A p \in Nat : p \in PortsOf(new, n + 1) <=> p \in PortsOf(m, n) \/ (r.from <= p /\ p <= r.to)
      <4>1. 1..n + 1 = 1..n \cup {n + 1}
        BY <1>2
      <4> QED
        BY <2>2, <4>1 DEF PortsOf
    <3>2. PortsOf(m, n) = PortsOf(s, i - 1)
      BY DEF Merging
    <3>3. PortsOf(new, n + 1) \subseteq Nat /\ PortsOf(s, i) \subseteq Nat
      BY DEF PortsOf
    <3> HIDE DEF r, n, new
    <3> QED
      BY <1>3, <3>1, <3>2, <3>3
  <2>7. new # <<>> /\ i > 0 /\ new[Len(new)].from <= s[i].from
    BY <1>1, <1>2, <2>2
  <2> HIDE DEF r, n, new
  <2>8. Merging(new, s, i)
    BY <2>2, <2>4, <2>5, <2>6, <2>7 DEF Merging
  <2> QED
    BY <2>8 DEF new, r
<1>6. CASE ~ (m = <<>> \/ r.from > m[n].to + 1)
  <2> DEFINE end == IF r.to > m[n].to THEN r.to ELSE m[n].to
             last == [from |-> m[n].from, to |-> end]
  <2>1. n > 0 /\ n \in 1..n /\ r.from <= m[n].to + 1
    <3>1. m # <<>> /\ n > 0
      BY <1>2, <1>6
    <3> QED
      BY <1>1, <1>2, <1>6, <3>1
  <2>2. m[n] = [from |-> m[n].from, to |-> m[n].to]
    BY <1>2, <2>1, RangeTyped
  <2>3. last \in Rules!Ranges /\ end \in Nat /\ m[n].to <= end /\ r.to <= end
    BY <1>1, <1>2, <2>1 DEF Rules!Ranges
  <2>4. new = Append(SubSeq(m, 1, n - 1), last)
    BY <1>6, <2>2 DEF Rules!MergeInto, Rules!Last, Rules!Front
  <2>5. /\ new \in Seq(Rules!Ranges) /\ Len(new) = n /\ new[n] = last
        /\ \A k \in 1..n - 1 : new[k] = m[k]
    <3> HIDE DEF last
    <3> HIDE DEF n
    <3>1. SubSeq(m, 1, n - 1) \in Seq(Rules!Ranges) /\ Len(SubSeq(m, 1, n - 1)) = n - 1
          /\ \A k \in 1..n - 1 : SubSeq(m, 1, n - 1)[k] = m[k]
      <4>1. 1 \in Int /\ n - 1 \in Int /\ \A k \in 1..n - 1 : m[k] \in Rules!Ranges
        BY <1>2, <2>1
      <4>2. /\ SubSeq(m, 1, n - 1) \in Seq(Rules!Ranges)
            /\ Len(SubSeq(m, 1, n - 1)) = IF 1 <= n - 1 THEN n - 1 - 1 + 1 ELSE 0
            /\ \A k \in 1 .. n - 1 - 1 + 1 : SubSeq(m, 1, n - 1)[k] = m[1 + k - 1]
        BY <4>1, SubSeqProperties
      <4>3. n - 1 - 1 + 1 = n - 1 /\ \A k \in 1..n - 1 : 1 + k - 1 = k
        BY <1>2
      <4> QED
        BY <1>2, <2>1, <4>2, <4>3
    <3> QED
      BY <1>2, <2>1, <2>3, <2>4, <3>1
  <2>6. new[n].from = m[n].from /\ new[n].to = end /\ \A k \in 1..n : k \in 1..n - 1 \/ k = n
    BY <1>2, <2>1, <2>5
  <2>7. IsNamed(new)
    BY <1>2, <2>1, <2>3, <2>5, <2>6 DEF IsNamed
  <2>8. Rules!Separate(new)
    <3> SUFFICES ASSUME NEW k \in 1..n - 1 PROVE new[k].to + 1 < new[k + 1].from
      BY <2>5 DEF Rules!Separate
    <3>1. k + 1 \in 1..n /\ new[k + 1].from = m[k + 1].from /\ new[k].to = m[k].to
      BY <1>2, <2>5, <2>6
    <3> QED
      BY <1>2, <3>1
  <2>9. PortsOf(new, n) = PortsOf(s, i)
    <3>1. \A p \in Nat : p \in PortsOf(new, n)
            <=> p \in PortsOf(m, n - 1) \/ (m[n].from <= p /\ p <= end)
      <4>1. 1..n = 1..n - 1 \cup {n}
        BY <1>2, <2>1
      <4> QED
        BY <2>5, <2>6, <4>1 DEF PortsOf
    <3>2. \A p \in Nat : p \in PortsOf(m, n)
            <=> p \in PortsOf(m, n - 1) \/ (m[n].from <= p /\ p <= m[n].to)
      <4>1. 1..n = 1..n - 1 \cup {n}
        BY <1>2, <2>1
      <4> QED
        BY <4>1 DEF PortsOf
    <3>3. \A p \in Nat : m[n].from <= p /\ p <= end
            <=> (m[n].from <= p /\ p <= m[n].to) \/ (r.from <= p /\ p <= r.to)
      BY <1>1, <1>2, <1>4, <2>1
    <3>4. PortsOf(m, n) = PortsOf(s, i - 1)
      BY DEF Merging
    <3>5. PortsOf(new, n) \subseteq Nat /\ PortsOf(s, i) \subseteq Nat
      BY DEF PortsOf
    <3> HIDE DEF r, n, new, end
    <3> QED
      BY <1>3, <3>1, <3>2, <3>3, <3>4, <3>5
  <2>10. new # <<>> /\ i > 0 /\ new[Len(new)].from <= s[i].from
    BY <1>4, <2>1, <2>5, <2>6
  <2> HIDE DEF r, n, new
  <2>11. Merging(new, s, i)
    BY <2>5, <2>7, <2>8, <2>9, <2>10 DEF Merging
  <2> QED
    BY <2>11 DEF new, r
<1> QED
  BY <1>5, <1>6
LEMMA MergeTyped ==
  ASSUME Rules!MaxPortAssumption, NEW m \in Seq(Rules!Ranges), NEW r \in Rules!Ranges
  PROVE  Rules!MergeInto(m, r) \in Seq(Rules!Ranges)
<1>1. CASE m = <<>> \/ r.from > Rules!Last(m).to + 1
  BY <1>1 DEF Rules!MergeInto
<1>2. CASE ~ (m = <<>> \/ r.from > Rules!Last(m).to + 1)
  <2> DEFINE last == [m[Len(m)] EXCEPT !.to = IF r.to > @ THEN r.to ELSE @]
  <2>1. m # <<>> /\ m[Len(m)] \in Rules!Ranges
    BY <1>2
  <2>2. last \in Rules!Ranges
    BY <2>1 DEF Rules!Ranges
  <2>3. SubSeq(m, 1, Len(m) - 1) \in Seq(Rules!Ranges)
    <3>1. \A k \in 1..Len(m) - 1 : m[k] \in Rules!Ranges
      OBVIOUS
    <3> QED
      BY <3>1, SubSeqProperties
  <2>4. Rules!MergeInto(m, r) = Append(SubSeq(m, 1, Len(m) - 1), last)
    BY <1>2 DEF Rules!MergeInto, Rules!Last, Rules!Front
  <2> HIDE DEF last
  <2> QED
    BY <2>2, <2>3, <2>4
<1> QED
  BY <1>1, <1>2

\* mergeRanges returns ranges that cover the same ports and neither overlap nor
\* touch, whatever ranges it is given and however they overlap.
LEMMA MergedIs ==
  ASSUME Rules!MaxPortAssumption, NEW rs, IsNamed(rs)
  PROVE  /\ IsNamed(Rules!mergeRanges(rs)) /\ Rules!Separate(Rules!mergeRanges(rs))
         /\ Rules!PortsIn(Rules!mergeRanges(rs)) = Rules!PortsIn(rs)
<1>1. PICK s : s = Rules!Sorted(rs)
  OBVIOUS
<1>2. PICK l \in Nat : l = Len(s) /\ l = Len(rs)
  BY <1>1, SortedIs DEF IsNamed
<1>3. /\ s \in Seq(Rules!Ranges)
      /\ \A i, j \in 1..l : i < j => s[i].from <= s[j].from
      /\ \A i \in 1..l : \E j \in 1..l : s[i] = rs[j]
      /\ \A j \in 1..l : \E i \in 1..l : s[i] = rs[j]
  <2>1. rs \in Seq(Rules!Ranges)
    BY DEF IsNamed
  <2>2. Rules!Sorted(rs) = s /\ Len(rs) = l
    BY <1>1, <1>2
  <2> QED
    BY <2>1, <2>2, SortedIs
<1>4. IsNamed(s)
  BY <1>2, <1>3 DEF IsNamed
<1> DEFINE Is(g) == g = [i \in 0..Len(s) |-> IF i = 0 THEN <<>> ELSE Rules!MergeInto(g[i - 1], s[i])]
           merged == CHOOSE g : Is(g)
<1>5. Rules!mergeRanges(rs) = merged[l]
  BY <1>1, <1>2 DEF Rules!mergeRanges
<1>6. \E g : Is(g)
  <2> DEFINE F == [k \in 1..l |-> [x \in Seq(Rules!Ranges) |-> Rules!MergeInto(x, s[k])]]
  <2>1. F \in [1..l -> [Seq(Rules!Ranges) -> Seq(Rules!Ranges)]]
    <3>1. \A k \in 1..l : s[k] \in Rules!Ranges
      <4>1. \A k \in 1..Len(s) : s[k] \in Rules!Ranges
        BY <1>3
      <4> QED
        BY <1>2, <4>1
    <3>2. \A k \in 1..l, x \in Seq(Rules!Ranges) : Rules!MergeInto(x, s[k]) \in Seq(Rules!Ranges)
      BY <3>1, MergeTyped
    <3> QED
      BY <3>2
  <2>2. PICK X : X = Seq(Rules!Ranges)
    OBVIOUS
  <2> DEFINE start == <<>>
  <2>3. PICK g : IsRun(g, l, X, start, F)
    <3>1. F \in [1..l -> [X -> X]]
      BY <2>1, <2>2
    <3>2. start \in X
      BY <2>2
    <3> HIDE DEF F, start
    <3> QED
      BY <3>1, <3>2, LoopThere
  <2>4. ASSUME NEW k \in 1..l PROVE g[k] = Rules!MergeInto(g[k - 1], s[k])
    <3>1. g[k - 1] \in X
      BY <2>3 DEF IsRun
    <3>2. F[k][g[k - 1]] = Rules!MergeInto(g[k - 1], s[k])
      BY <2>2, <3>1
    <3> QED
      BY <2>3, <3>2 DEF IsRun
  <2>5. \A k \in 0..l : k # 0 => k \in 1..l
    OBVIOUS
  <2>6. \A k \in 0..l : g[k] = IF k = 0 THEN <<>> ELSE Rules!MergeInto(g[k - 1], s[k])
    BY <2>3, <2>4, <2>5 DEF IsRun
  <2>7. Is(g)
    BY <1>2, <2>3, <2>6 DEF IsRun
  <2> QED
    BY <2>7
<1>7. Is(merged)
  <2> HIDE DEF Is
  <2> QED
    BY <1>6
<1>8. PICK g : g = merged
  OBVIOUS
<1> HIDE DEF merged
<1>9. g[0] = <<>> /\ \A k \in 1..l : g[k] = Rules!MergeInto(g[k - 1], s[k])
  <2>1. g = [i \in 0..l |-> IF i = 0 THEN <<>> ELSE Rules!MergeInto(g[i - 1], s[i])]
    BY <1>2, <1>7, <1>8
  <2>2. \A k \in 1..l : k \in 0..l /\ k # 0
    OBVIOUS
  <2> QED
    BY <2>1, <2>2
<1>10. Merging(g[l], s, l)
  <2> DEFINE T == {i \in 0..l : Merging(g[i], s, i)}
  <2>1. 0 \in T
    <3>1. IsNamed(<<>>) /\ Rules!Separate(<<>>)
      BY DEF IsNamed, Rules!Separate
    <3>2. PortsOf(<<>>, Len(<<>>)) = PortsOf(s, 0)
      BY DEF PortsOf
    <3>3. Merging(<<>>, s, 0)
      BY <3>1, <3>2 DEF Merging
    <3> QED
      BY <1>9, <3>3
  <2>2. ASSUME NEW k \in 1..l, k - 1 \in T PROVE k \in T
    <3>1. Merging(g[k - 1], s, k - 1) /\ k \in 0..l
      BY <2>2
    <3>2. Merging(Rules!MergeInto(g[k - 1], s[k]), s, k)
      BY <1>2, <1>3, <1>4, <3>1, MergeStep
    <3> QED
      BY <1>9, <3>1, <3>2
  <2>3. \A k \in 1..l : k - 1 \in T => k \in T
    BY <2>2
  <2>4. \A k \in 0..l : k \in T
    <3> HIDE DEF T
    <3> QED
      BY <2>1, <2>3, UpTo
  <2>5. l \in T
    <3> HIDE DEF T
    <3> QED
      BY <2>4
  <2> QED
    BY <2>5
<1>11. PortsOf(s, l) = PortsOf(rs, l)
  BY <1>3 DEF PortsOf
<1>12. Rules!PortsIn(rs) = PortsOf(rs, l) /\ Rules!PortsIn(g[l]) = PortsOf(g[l], Len(g[l]))
  BY <1>2, <1>10, PortsInAre DEF IsNamed, Merging
<1> QED
  BY <1>5, <1>8, <1>10, <1>11, <1>12 DEF Merging

\* What the loop of complementRanges has after i of the separate ranges m.
Filling(f, m, i) ==
  /\ f = [out |-> f.out, cursor |-> f.cursor] /\ IsNamed(f.out) /\ Rules!Separate(f.out)
  /\ f.cursor = IF i = 0 THEN 1 ELSE m[i].to + 1
  /\ f.out # <<>> => f.out[Len(f.out)].to + 1 < f.cursor
  /\ \A p \in Nat : p \in PortsOf(f.out, Len(f.out)) <=> 1 <= p /\ p < f.cursor /\ p \notin PortsOf(m, i)
  /\ \A p \in PortsOf(m, i) : p < f.cursor

\* One more range after the others, that does not touch the last.
LEMMA AppendSeparate ==
  ASSUME Rules!MaxPortAssumption, NEW m, IsNamed(m), Rules!Separate(m),
         NEW a \in Nat, NEW b \in Nat, 1 <= a, a <= b, b <= MaxPort,
         m # <<>> => m[Len(m)].to + 1 < a
  PROVE  LET new == Append(m, [from |-> a, to |-> b])
         IN  /\ IsNamed(new) /\ Rules!Separate(new) /\ new # <<>> /\ new[Len(new)].to = b
             /\ \A p \in Nat : p \in PortsOf(new, Len(new))
                  <=> p \in PortsOf(m, Len(m)) \/ (a <= p /\ p <= b)
<1> DEFINE r == [from |-> a, to |-> b]
           n == Len(m)
           new == Append(m, r)
<1>1. /\ m \in Seq(Rules!Ranges) /\ n \in Nat /\ r \in Rules!Ranges /\ r.from = a /\ r.to = b
      /\ \A k \in 1..n : m[k].from <= m[k].to
      /\ \A k \in 1..n - 1 : m[k].to + 1 < m[k + 1].from
  BY DEF IsNamed, Rules!Separate, Rules!Ranges, Rules!Ports, Rules!MaxPortAssumption
<1> HIDE DEF r
<1>2. /\ new \in Seq(Rules!Ranges) /\ Len(new) = n + 1 /\ new[n + 1] = r
      /\ \A k \in 1..n : new[k] = m[k]
  BY <1>1
<1> HIDE DEF new
<1>3. \A k \in 1..n + 1 : k \in 1..n \/ k = n + 1
  BY <1>1
<1>4. IsNamed(new)
  BY <1>1, <1>2, <1>3 DEF IsNamed
<1>5. Rules!Separate(new)
  <2> SUFFICES ASSUME NEW k \in 1..n PROVE new[k].to + 1 < new[k + 1].from
    BY <1>2 DEF Rules!Separate
  <2>1. CASE k = n
    <3>1. m # <<>>
      BY <2>1
    <3> QED
      BY <1>1, <1>2, <2>1, <3>1
  <2>2. CASE k # n
    <3>1. k \in 1..n - 1 /\ k + 1 \in 1..n
      BY <1>1, <2>2
    <3> QED
      BY <1>1, <1>2, <3>1
  <2> QED
    BY <2>1, <2>2
<1>6. \A p \in Nat : p \in PortsOf(new, n + 1) <=> p \in PortsOf(m, n) \/ (a <= p /\ p <= b)
  <2>1. 1..n + 1 = 1..n \cup {n + 1}
    BY <1>1
  <2> QED
    BY <1>1, <1>2, <2>1 DEF PortsOf
<1>7. new # <<>> /\ new[Len(new)].to = b
  BY <1>1, <1>2
<1> QED
  BY <1>2, <1>4, <1>5, <1>6, <1>7 DEF new, r

LEMMA FillStep ==
  ASSUME Rules!MaxPortAssumption, NEW m, IsNamed(m), Rules!Separate(m),
         NEW i \in 1..Len(m), NEW f, Filling(f, m, i - 1)
  PROVE  Filling(Rules!GapBefore(f, m[i]), m, i)
<1> DEFINE r == m[i]
           c == f.cursor
<1>1. /\ r \in Rules!Ranges /\ MaxPort \in Nat /\ r.from \in Nat /\ 1 <= r.from /\ r.from <= MaxPort
      /\ r.to \in Nat /\ r.to <= MaxPort /\ r.from <= r.to
  BY RangeTyped DEF IsNamed
<1>2. /\ c \in Nat /\ 1 <= c /\ c <= r.from /\ (i > 1 => c < r.from) /\ (i = 1 => c = 1)
      /\ (r.from > c \/ c = 1)
  <2>1. CASE i = 1
    BY <1>1, <2>1 DEF Filling
  <2>2. CASE i # 1
    <3>1. i - 1 \in 1..Len(m) - 1 /\ i - 1 \in 1..Len(m) /\ i - 1 + 1 = i /\ i - 1 # 0
      BY <2>2
    <3>2. c = m[i - 1].to + 1 /\ m[i - 1].to + 1 < r.from
      BY <3>1 DEF Filling, Rules!Separate
    <3>3. m[i - 1].to \in Nat
      BY <3>1, RangeTyped DEF IsNamed
    <3> QED
      BY <1>1, <2>2, <3>2, <3>3
  <2> QED
    BY <2>1, <2>2
<1>3. \A p \in Nat : p \in PortsOf(m, i) <=> p \in PortsOf(m, i - 1) \/ (r.from <= p /\ p <= r.to)
  <2>1. 1..i = 1..(i - 1) \cup {i}
    OBVIOUS
  <2> QED
    BY <2>1 DEF PortsOf
<1>4. /\ IsNamed(f.out) /\ Rules!Separate(f.out)
      /\ f.out # <<>> => f.out[Len(f.out)].to + 1 < c
      /\ \A p \in Nat : p \in PortsOf(f.out, Len(f.out)) <=> 1 <= p /\ p < c /\ p \notin PortsOf(m, i - 1)
      /\ \A p \in PortsOf(m, i - 1) : p \in Nat /\ p < c
  BY DEF Filling, PortsOf
<1> DEFINE out == IF r.from > c THEN Append(f.out, [from |-> c, to |-> r.from - 1]) ELSE f.out
<1>5. Rules!GapBefore(f, r) = [out |-> out, cursor |-> r.to + 1]
  <2>1. r.to + 1 > c
    BY <1>1, <1>2
  <2> QED
    BY <2>1 DEF Rules!GapBefore
<1>6. /\ IsNamed(out) /\ Rules!Separate(out)
      /\ out # <<>> => out[Len(out)].to + 1 < r.to + 1
      /\ \A p \in Nat : p \in PortsOf(out, Len(out)) <=> p \in PortsOf(f.out, Len(f.out)) \/ (c <= p /\ p < r.from)
  <2>1. CASE r.from > c
    <3>1. c \in Nat /\ r.from - 1 \in Nat /\ 1 <= c /\ c <= r.from - 1 /\ r.from - 1 <= MaxPort
      BY <1>1, <1>2, <2>1
    <3> DEFINE new == Append(f.out, [from |-> c, to |-> r.from - 1])
    <3>2. /\ IsNamed(new) /\ Rules!Separate(new) /\ new # <<>> /\ new[Len(new)].to = r.from - 1
          /\ \A p \in Nat : p \in PortsOf(new, Len(new))
               <=> p \in PortsOf(f.out, Len(f.out)) \/ (c <= p /\ p <= r.from - 1)
      <4> HIDE DEF c, r
      <4> QED
        BY <1>4, <3>1, AppendSeparate
    <3>3. out = new
      BY <2>1
    <3> HIDE DEF new, out, c, r
    <3> QED
      BY <1>1, <3>2, <3>3
  <2>2. CASE ~ r.from > c
    <3>1. out = f.out /\ c = r.from
      BY <1>1, <1>2, <2>2
    <3>2. f.out # <<>> => f.out[Len(f.out)].to \in Nat
      <4> SUFFICES ASSUME f.out # <<>> PROVE f.out[Len(f.out)].to \in Nat
        OBVIOUS
      <4>1. f.out[Len(f.out)] \in Rules!Ranges
        BY <1>4 DEF IsNamed
      <4> QED
        BY <4>1, RangeTyped
    <3> HIDE DEF c, r, out
    <3> QED
      BY <1>1, <1>4, <3>1, <3>2
  <2> QED
    BY <2>1, <2>2
<1>7. PICK new : new = Rules!GapBefore(f, r)
  OBVIOUS
<1> HIDE DEF out
<1>8. new = [out |-> new.out, cursor |-> new.cursor] /\ new.out = out /\ new.cursor = r.to + 1
  BY <1>5, <1>7
<1>9. new.cursor = IF i = 0 THEN 1 ELSE m[i].to + 1
  BY <1>8
<1> HIDE DEF r, c
<1>10. \A p \in Nat : p \in PortsOf(out, Len(out)) <=> 1 <= p /\ p < r.to + 1 /\ p \notin PortsOf(m, i)
  BY <1>1, <1>2, <1>3, <1>4, <1>6
<1>11. \A p \in PortsOf(m, i) : p < r.to + 1
  <2>1. PortsOf(m, i) \subseteq Nat
    BY DEF PortsOf
  <2> QED
    BY <1>1, <1>2, <1>3, <1>4, <2>1
<1>12. Filling(new, m, i)
  BY <1>6, <1>8, <1>9, <1>10, <1>11 DEF Filling
<1> QED
  BY <1>7, <1>12 DEF r
LEMMA GapTyped ==
  ASSUME Rules!MaxPortAssumption, NEW f \in [out : Seq(Rules!Ranges), cursor : 1..MaxPort + 1],
         NEW r \in Rules!Ranges
  PROVE  Rules!GapBefore(f, r) \in [out : Seq(Rules!Ranges), cursor : 1..MaxPort + 1]
<1>1. /\ r.from \in Nat /\ 1 <= r.from /\ r.from <= MaxPort /\ MaxPort \in Nat
      /\ r.to \in Nat /\ 1 <= r.to /\ r.to <= MaxPort
  BY RangeTyped
<1>2. /\ f.out \in Seq(Rules!Ranges) /\ f.cursor \in Nat /\ 1 <= f.cursor /\ f.cursor <= MaxPort + 1
  BY <1>1
<1>3. r.from > f.cursor => Append(f.out, [from |-> f.cursor, to |-> r.from - 1]) \in Seq(Rules!Ranges)
  <2> SUFFICES ASSUME r.from > f.cursor
               PROVE  Append(f.out, [from |-> f.cursor, to |-> r.from - 1]) \in Seq(Rules!Ranges)
    OBVIOUS
  <2>1. [from |-> f.cursor, to |-> r.from - 1] \in Rules!Ranges
    BY <1>1, <1>2 DEF Rules!Ranges, Rules!Ports
  <2> QED
    BY <1>2, <2>1
<1> QED
  BY <1>1, <1>2, <1>3 DEF Rules!GapBefore

\* complementRanges returns ranges that cover the other ports, each of them, and
\* neither overlap nor touch.
LEMMA ComplementIs ==
  ASSUME Rules!MaxPortAssumption, NEW rs, IsNamed(rs)
  PROVE  /\ IsNamed(Rules!complementRanges(rs)) /\ Rules!Separate(Rules!complementRanges(rs))
         /\ Rules!PortsIn(Rules!complementRanges(rs)) = Rules!Ports \ Rules!PortsIn(rs)
<1>1. PICK m : m = Rules!mergeRanges(rs)
  OBVIOUS
<1>2. IsNamed(m) /\ Rules!Separate(m) /\ Rules!PortsIn(m) = Rules!PortsIn(rs)
  BY <1>1, MergedIs
<1>3. PICK l \in Nat : l = Len(m)
  BY <1>2 DEF IsNamed
<1>4. m \in Seq(Rules!Ranges) /\ (\A k \in 1..l : m[k] \in Rules!Ranges) /\ PortsOf(m, l) = Rules!PortsIn(rs)
  <2>1. m \in Seq(Rules!Ranges)
    BY <1>2 DEF IsNamed
  <2> QED
    BY <1>2, <1>3, <2>1, PortsInAre
<1> DEFINE start == [out |-> <<>>, cursor |-> 1]
           Is(g) == g = [i \in 0..Len(m) |-> IF i = 0 THEN start ELSE Rules!GapBefore(g[i - 1], m[i])]
           gaps == CHOOSE g : Is(g)
           end == gaps[Len(m)]
<1>5. Rules!complementRanges(rs) = IF end.cursor <= MaxPort
                                     THEN Append(end.out, [from |-> end.cursor, to |-> MaxPort])
                                     ELSE end.out
  BY <1>1 DEF Rules!complementRanges
<1>6. \E g : Is(g)
  <2>1. PICK X : X = [out : Seq(Rules!Ranges), cursor : 1..MaxPort + 1]
    OBVIOUS
  <2> DEFINE F == [k \in 1..l |-> [x \in X |-> Rules!GapBefore(x, m[k])]]
  <2>2. F \in [1..l -> [X -> X]]
    <3>1. \A k \in 1..l, x \in X : Rules!GapBefore(x, m[k]) \in X
      BY <1>4, <2>1, GapTyped
    <3> QED
      BY <3>1
  <2>3. PICK g : IsRun(g, l, X, start, F)
    <3>1. start \in X
      <4>1. MaxPort \in Nat /\ <<>> \in Seq(Rules!Ranges)
        BY DEF Rules!MaxPortAssumption
      <4> QED
        BY <2>1, <4>1
    <3> HIDE DEF F, start
    <3> QED
      BY <2>2, <3>1, LoopThere
  <2>4. ASSUME NEW k \in 1..l PROVE g[k] = Rules!GapBefore(g[k - 1], m[k])
    <3>1. g[k - 1] \in X
      BY <2>3 DEF IsRun
    <3>2. F[k][g[k - 1]] = Rules!GapBefore(g[k - 1], m[k])
      BY <3>1
    <3> QED
      BY <2>3, <3>2 DEF IsRun
  <2>5. \A k \in 0..l : k # 0 => k \in 1..l
    OBVIOUS
  <2> HIDE DEF start
  <2>6. \A k \in 0..l : g[k] = IF k = 0 THEN start ELSE Rules!GapBefore(g[k - 1], m[k])
    BY <2>3, <2>4, <2>5 DEF IsRun
  <2>7. Is(g)
    BY <1>3, <2>3, <2>6 DEF IsRun
  <2> QED
    BY <2>7
<1>7. Is(gaps)
  <2> HIDE DEF Is
  <2> QED
    BY <1>6
<1>8. PICK g : g = gaps
  OBVIOUS
<1>9. end = g[l]
  BY <1>3, <1>8
<1> HIDE DEF gaps, end, start
<1>10. g[0] = start /\ \A k \in 1..l : g[k] = Rules!GapBefore(g[k - 1], m[k])
  <2>1. g = [i \in 0..l |-> IF i = 0 THEN start ELSE Rules!GapBefore(g[i - 1], m[i])]
    BY <1>3, <1>7, <1>8
  <2>2. \A k \in 1..l : k \in 0..l /\ k # 0
    OBVIOUS
  <2> QED
    BY <2>1, <2>2
<1>11. Filling(g[l], m, l)
  <2> DEFINE T == {i \in 0..l : Filling(g[i], m, i)}
  <2>1. 0 \in T
    <3>1. IsNamed(<<>>) /\ Rules!Separate(<<>>)
      BY DEF IsNamed, Rules!Separate
    <3>2. PortsOf(<<>>, 0) = {} /\ PortsOf(m, 0) = {} /\ Len(<<>>) = 0
      BY DEF PortsOf
    <3>3. \A p \in Nat : ~ (1 <= p /\ p < 1)
      OBVIOUS
    <3>4. start.out = <<>> /\ start.cursor = 1 /\ start = [out |-> start.out, cursor |-> start.cursor]
      BY DEF start
    <3>5. Filling(start, m, 0)
      BY <3>1, <3>2, <3>3, <3>4 DEF Filling
    <3> QED
      BY <1>10, <3>5
  <2>2. ASSUME NEW k \in 1..l, k - 1 \in T PROVE k \in T
    <3>1. Filling(g[k - 1], m, k - 1) /\ k \in 0..l
      BY <2>2
    <3>2. Filling(Rules!GapBefore(g[k - 1], m[k]), m, k)
      BY <1>2, <1>3, <3>1, FillStep
    <3> QED
      BY <1>10, <3>1, <3>2
  <2>3. \A k \in 1..l : k - 1 \in T => k \in T
    BY <2>2
  <2>4. \A k \in 0..l : k \in T
    <3> HIDE DEF T
    <3> QED
      BY <2>1, <2>3, UpTo
  <2>5. l \in T
    <3> HIDE DEF T
    <3> QED
      BY <2>4
  <2> QED
    BY <2>5
<1>12. PICK c, out : c = g[l].cursor /\ out = g[l].out
  OBVIOUS
<1>13. /\ IsNamed(out) /\ Rules!Separate(out) /\ (out # <<>> => out[Len(out)].to + 1 < c)
       /\ \A p \in Nat : p \in PortsOf(out, Len(out)) <=> 1 <= p /\ p < c /\ p \notin PortsOf(m, l)
       /\ \A p \in PortsOf(m, l) : p < c
  BY <1>11, <1>12 DEF Filling
<1>14. c \in Nat /\ 1 <= c /\ c <= MaxPort + 1 /\ MaxPort \in Nat
  <2>1. c = IF l = 0 THEN 1 ELSE m[l].to + 1
    BY <1>11, <1>12 DEF Filling
  <2>2. MaxPort \in Nat
    BY DEF Rules!MaxPortAssumption
  <2>3. l # 0 => m[l].to \in Nat /\ m[l].to <= MaxPort
    <3> SUFFICES ASSUME l # 0 PROVE m[l].to \in Nat /\ m[l].to <= MaxPort
      OBVIOUS
    <3>1. m[l] \in Rules!Ranges
      BY <1>4
    <3> QED
      BY <3>1, RangeTyped
  <2> QED
    BY <2>1, <2>2, <2>3
<1>15. PICK all : all = Rules!complementRanges(rs)
  OBVIOUS
<1>16. all = IF c <= MaxPort THEN Append(out, [from |-> c, to |-> MaxPort]) ELSE out
  BY <1>5, <1>9, <1>12, <1>15
<1>17. /\ IsNamed(all) /\ Rules!Separate(all)
       /\ \A p \in Nat : p \in PortsOf(all, Len(all)) <=> p \in PortsOf(out, Len(out)) \/ (c <= p /\ p <= MaxPort)
  <2>1. CASE c <= MaxPort
    <3>1. all = Append(out, [from |-> c, to |-> MaxPort])
      BY <1>16, <2>1
    <3> QED
      BY <1>13, <1>14, <2>1, <3>1, AppendSeparate
  <2>2. CASE ~ c <= MaxPort
    <3>1. all = out /\ \A p \in Nat : ~ (c <= p /\ p <= MaxPort)
      BY <1>14, <1>16, <2>2
    <3> QED
      BY <1>13, <3>1
  <2> QED
    BY <2>1, <2>2
<1>18. \A p \in Nat : p \in PortsOf(all, Len(all)) <=> 1 <= p /\ p <= MaxPort /\ p \notin PortsOf(m, l)
  BY <1>13, <1>14, <1>17
<1>19. Rules!PortsIn(all) = PortsOf(all, Len(all))
  BY <1>17, PortsInAre DEF IsNamed
<1>20. \A p : p \in Rules!Ports <=> p \in Nat /\ 1 <= p /\ p <= MaxPort
  BY <1>14 DEF Rules!Ports
<1>21. PortsOf(all, Len(all)) \subseteq Nat
  BY DEF PortsOf
<1>22. Rules!PortsIn(all) = Rules!Ports \ Rules!PortsIn(rs)
  BY <1>4, <1>18, <1>19, <1>20, <1>21
<1> QED
  BY <1>15, <1>17, <1>22

\* The rules that normalizePortRules makes.
IsNormal(rules) ==
  /\ rules \in Seq([Protocol : {"tcp", "udp", "both"}, From : Rules!Ports, To : Rules!Ports])
  /\ \A i \in 1..Len(rules) : rules[i].From <= rules[i].To

LEMMA NormalRule ==
  ASSUME Rules!MaxPortAssumption, NEW r \in Rules!PortRules
  PROVE  /\ Rules!NormalizeRule(r) \in [Protocol : {"tcp", "udp", "both"}, From : Rules!Ports, To : Rules!Ports]
         /\ Rules!NormalizeRule(r).From <= Rules!NormalizeRule(r).To
<1>1. /\ MaxPort \in Nat \ {0} /\ r.From \in 0..MaxPort /\ r.To \in 0..MaxPort
      /\ r.Protocol \in {"tcp", "udp", "both", "other"}
  BY DEF Rules!MaxPortAssumption, Rules!PortRules
<1> QED
  BY <1>1 DEF Rules!NormalizeRule, Rules!Ports

LEMMA NormalRules ==
  ASSUME Rules!MaxPortAssumption, NEW rules \in Seq(Rules!PortRules)
  PROVE  IsNormal(Rules!normalizePortRules(rules))
<1> DEFINE S == [Protocol : {"tcp", "udp", "both"}, From : Rules!Ports, To : Rules!Ports]
           new == Rules!normalizePortRules(rules)
<1>1. DOMAIN rules = 1..Len(rules) /\ Len(rules) \in Nat
  OBVIOUS
<1>2. new = [i \in 1..Len(rules) |-> Rules!NormalizeRule(rules[i])]
  BY <1>1 DEF Rules!normalizePortRules
<1>3. \A i \in 1..Len(rules) : new[i] \in S /\ new[i].From <= new[i].To
  BY <1>2, NormalRule
<1> HIDE DEF S
<1>4. new \in Seq(S) /\ Len(new) = Len(rules)
  BY <1>1, <1>2, <1>3
<1> QED
  BY <1>3, <1>4 DEF IsNormal, S

\* Rules that are normal stay as they are: what is saved and loaded again is what
\* it was.
LEMMA NormalStay ==
  ASSUME Rules!MaxPortAssumption, NEW rules, IsNormal(rules)
  PROVE  Rules!normalizePortRules(rules) = rules
<1> DEFINE S == [Protocol : {"tcp", "udp", "both"}, From : Rules!Ports, To : Rules!Ports]
<1>1. DOMAIN rules = 1..Len(rules) /\ rules \in Seq(S)
  BY DEF IsNormal
<1>2. ASSUME NEW i \in 1..Len(rules) PROVE Rules!NormalizeRule(rules[i]) = rules[i]
  <2>1. rules[i] \in S /\ rules[i].From <= rules[i].To
    <3>1. rules[i].From <= rules[i].To
      BY DEF IsNormal
    <3> HIDE DEF S
    <3> QED
      BY <1>1, <3>1
  <2>2. PICK r : r = rules[i]
    OBVIOUS
  <2>3. /\ r = [Protocol |-> r.Protocol, From |-> r.From, To |-> r.To]
        /\ r.Protocol \in {"tcp", "udp", "both"} /\ r.From <= r.To
        /\ r.From \in Nat /\ r.To \in Nat /\ r.From # 0 /\ r.To # 0
    BY <2>1, <2>2 DEF Rules!Ports, Rules!MaxPortAssumption
  <2>4. Rules!NormalizeRule(r) = r
    BY <2>3 DEF Rules!NormalizeRule
  <2> QED
    BY <2>2, <2>4
<1>3. rules = [i \in DOMAIN rules |-> rules[i]]
  BY <1>1
<1> QED
  BY <1>1, <1>2, <1>3 DEF Rules!normalizePortRules
\* The ports that the first n rules name for the protocol own.
NamedBy(rules, own, n) ==
  {p \in Nat : \E i \in 1..n : /\ rules[i].Protocol \in {own, "both"}
                               /\ rules[i].From <= p /\ p <= rules[i].To}

\* A round of the loop over the rules, for the protocol own.
NamedWith(x, r, own) == IF r.Protocol \in {own, "both"} THEN Append(x, Rules!RangeOf(r)) ELSE x

LEMMA NameStep ==
  ASSUME Rules!MaxPortAssumption, NEW rules, IsNormal(rules), NEW own, NEW i \in 1..Len(rules),
         NEW x, IsNamed(x), PortsOf(x, Len(x)) = NamedBy(rules, own, i - 1)
  PROVE  LET y == NamedWith(x, rules[i], own)
         IN  IsNamed(y) /\ PortsOf(y, Len(y)) = NamedBy(rules, own, i)
<1>0. PICK y : y = NamedWith(x, rules[i], own)
  OBVIOUS
<1>1. rules[i].From \in Rules!Ports /\ rules[i].To \in Rules!Ports /\ rules[i].From <= rules[i].To
  <2> DEFINE S == [Protocol : {"tcp", "udp", "both"}, From : Rules!Ports, To : Rules!Ports]
  <2>1. rules \in Seq(S) /\ rules[i].From <= rules[i].To
    BY DEF IsNormal
  <2>2. rules[i] \in S
    <3> HIDE DEF S
    <3> QED
      BY <2>1
  <2> QED
    BY <2>1, <2>2
<1>2. PICK r : r = Rules!RangeOf(rules[i])
  OBVIOUS
<1>3. r \in Rules!Ranges /\ r.from = rules[i].From /\ r.to = rules[i].To /\ r.from <= r.to
  BY <1>1, <1>2 DEF Rules!RangeOf, Rules!Ranges
<1>4. 1..i = 1..(i - 1) \cup {i}
  OBVIOUS
<1>5. NamedBy(rules, own, i) =
        IF rules[i].Protocol \in {own, "both"}
          THEN NamedBy(rules, own, i - 1) \cup {p \in Nat : r.from <= p /\ p <= r.to}
          ELSE NamedBy(rules, own, i - 1)
  BY <1>3, <1>4 DEF NamedBy
<1>6. CASE rules[i].Protocol \in {own, "both"}
  <2>1. y = Append(x, r)
    BY <1>0, <1>2, <1>6 DEF NamedWith
  <2>2. x \in Seq(Rules!Ranges) /\ Len(x) \in Nat /\ \A k \in 1..Len(x) : x[k].from <= x[k].to
    BY DEF IsNamed
  <2>3. /\ y \in Seq(Rules!Ranges) /\ Len(y) = Len(x) + 1 /\ y[Len(x) + 1] = r
        /\ \A k \in 1..Len(x) : y[k] = x[k]
    BY <1>3, <2>1, <2>2
  <2>4. 1..Len(y) = 1..Len(x) \cup {Len(x) + 1}
    BY <2>2, <2>3
  <2>5. IsNamed(y)
    BY <1>3, <2>2, <2>3, <2>4 DEF IsNamed
  <2>6. PortsOf(y, Len(y)) = PortsOf(x, Len(x)) \cup {p \in Nat : r.from <= p /\ p <= r.to}
    BY <2>3, <2>4 DEF PortsOf
  <2> QED
    BY <1>0, <1>5, <1>6, <2>5, <2>6
<1>7. CASE rules[i].Protocol \notin {own, "both"}
  <2>1. y = x
    BY <1>0, <1>7 DEF NamedWith
  <2> QED
    BY <1>0, <1>5, <1>7, <2>1
<1> QED
  BY <1>6, <1>7

\* The ranges of a protocol cover the ports that the rules list for it.
LEMMA RangesOfAre ==
  ASSUME Rules!MaxPortAssumption, NEW rules, IsNormal(rules), NEW proto \in Rules!Protocols
  PROVE  IsNamed(Rules!RangesOf(rules, proto))
         /\ Rules!PortsIn(Rules!RangesOf(rules, proto)) = Rules!Listed(rules, proto)
<1> DEFINE S == [Protocol : {"tcp", "udp", "both"}, From : Rules!Ports, To : Rules!Ports]
           own == IF proto = "TCP" THEN "tcp" ELSE "udp"
           Is(g) == g = [i \in 0..Len(rules) |->
                           IF i = 0 THEN <<>>
                           ELSE IF rules[i].Protocol \in {own, "both"}
                             THEN Append(g[i - 1], Rules!RangeOf(rules[i]))
                           ELSE g[i - 1]]
           named == CHOOSE g : Is(g)
<1>1. Rules!RangesOf(rules, proto) = named[Len(rules)]
  BY DEF Rules!RangesOf
<1>2. rules \in Seq(S)
  BY DEF IsNormal
<1>3. PICK l \in Nat : l = Len(rules)
  BY <1>2
<1>4. \A k \in 1..l : rules[k] \in S
  <2> HIDE DEF S
  <2> QED
    BY <1>2, <1>3
<1>5. \E g : Is(g)
  <2>1. PICK X : X = Seq(Rules!Ranges)
    OBVIOUS
  <2> DEFINE F == [k \in 1..l |-> [x \in X |-> NamedWith(x, rules[k], own)]]
  <2>2. F \in [1..l -> [X -> X]]
    <3>1. \A k \in 1..l : Rules!RangeOf(rules[k]) \in Rules!Ranges
      BY <1>4 DEF Rules!RangeOf, Rules!Ranges
    <3>2. \A k \in 1..l, x \in X : NamedWith(x, rules[k], own) \in X
      BY <2>1, <3>1 DEF NamedWith
    <3> QED
      BY <3>2
  <2>3. PICK start : start = <<>>
    OBVIOUS
  <2>4. PICK g : IsRun(g, l, X, start, F)
    <3>1. start \in X
      BY <2>1, <2>3
    <3> HIDE DEF F
    <3> QED
      BY <2>2, <3>1, LoopThere
  <2>5. ASSUME NEW k \in 1..l PROVE g[k] = NamedWith(g[k - 1], rules[k], own)
    <3>1. g[k - 1] \in X
      BY <2>4 DEF IsRun
    <3>2. F[k][g[k - 1]] = NamedWith(g[k - 1], rules[k], own)
      BY <3>1
    <3> QED
      BY <2>4, <3>2 DEF IsRun
  <2>6. \A k \in 0..l : k # 0 => k \in 1..l
    OBVIOUS
  <2>7. \A k \in 0..l : g[k] = IF k = 0 THEN <<>> ELSE NamedWith(g[k - 1], rules[k], own)
    <3> QED
      BY <2>3, <2>4, <2>5, <2>6 DEF IsRun
  <2>8. Is(g)
    BY <1>3, <2>4, <2>7 DEF IsRun, NamedWith
  <2> QED
    BY <2>8
<1>6. Is(named)
  <2> HIDE DEF Is
  <2> QED
    BY <1>5
<1>7. PICK g : g = named
  OBVIOUS
<1> HIDE DEF named
<1>8. g[0] = <<>> /\ \A k \in 1..l : g[k] = NamedWith(g[k - 1], rules[k], own)
  <2>1. g = [i \in 0..l |-> IF i = 0 THEN <<>> ELSE NamedWith(g[i - 1], rules[i], own)]
    BY <1>3, <1>6, <1>7 DEF NamedWith
  <2>2. \A k \in 1..l : k \in 0..l /\ k # 0
    OBVIOUS
  <2> QED
    BY <2>1, <2>2
<1>9. IsNamed(g[l]) /\ PortsOf(g[l], Len(g[l])) = NamedBy(rules, own, l)
  <2> DEFINE T == {i \in 0..l : IsNamed(g[i]) /\ PortsOf(g[i], Len(g[i])) = NamedBy(rules, own, i)}
  <2>1. 0 \in T
    <3>1. IsNamed(<<>>)
      BY DEF IsNamed
    <3>2. PortsOf(<<>>, Len(<<>>)) = NamedBy(rules, own, 0)
      BY DEF PortsOf, NamedBy
    <3> QED
      BY <1>8, <3>1, <3>2
  <2>2. ASSUME NEW k \in 1..l, k - 1 \in T PROVE k \in T
    <3>1. IsNamed(g[k - 1]) /\ PortsOf(g[k - 1], Len(g[k - 1])) = NamedBy(rules, own, k - 1) /\ k \in 0..l
      BY <2>2
    <3> HIDE DEF own
    <3>2. /\ IsNamed(NamedWith(g[k - 1], rules[k], own))
          /\ PortsOf(NamedWith(g[k - 1], rules[k], own), Len(NamedWith(g[k - 1], rules[k], own))) = NamedBy(rules, own, k)
      BY <1>3, <3>1, NameStep
    <3> QED
      BY <1>8, <3>1, <3>2
  <2>3. \A k \in 1..l : k - 1 \in T => k \in T
    BY <2>2
  <2>4. \A k \in 0..l : k \in T
    <3> HIDE DEF T
    <3> QED
      BY <2>1, <2>3, UpTo
  <2>5. l \in T
    <3> HIDE DEF T
    <3> QED
      BY <2>4
  <2> QED
    BY <2>5
<1>10. NamedBy(rules, own, l) = Rules!Listed(rules, proto)
  <2>1. \A i \in 1..l : /\ rules[i].From \in Nat /\ 1 <= rules[i].From
                        /\ rules[i].To \in Nat /\ rules[i].To <= MaxPort
    BY <1>4 DEF Rules!Ports, Rules!MaxPortAssumption
  <2>2. DOMAIN rules = 1..l
    <3> HIDE DEF S
    <3> QED
      BY <1>2, <1>3
  <2>3. MaxPort \in Nat
    BY DEF Rules!MaxPortAssumption
  <2>4. \A p : p \in NamedBy(rules, own, l) =>
               p \in Rules!Ports /\ \E i \in 1..l : /\ rules[i].Protocol \in {"both", own}
                                                    /\ p \in rules[i].From .. rules[i].To
    BY <2>1, <2>3 DEF NamedBy, Rules!Ports
  <2>5. \A p \in Rules!Ports :
          (\E i \in 1..l : rules[i].Protocol \in {"both", own} /\ p \in rules[i].From .. rules[i].To)
            => p \in NamedBy(rules, own, l)
    BY <2>1, <2>3 DEF NamedBy, Rules!Ports
  <2>6. Rules!Listed(rules, proto) =
          {p \in Rules!Ports : \E i \in 1..l : /\ rules[i].Protocol \in {"both", own}
                                               /\ p \in rules[i].From .. rules[i].To}
    BY <2>2 DEF Rules!Listed
  <2> HIDE DEF own
  <2> QED
    BY <2>4, <2>5, <2>6
<1>11. Rules!PortsIn(g[l]) = PortsOf(g[l], Len(g[l]))
  BY <1>9, PortsInAre DEF IsNamed
<1> QED
  BY <1>1, <1>3, <1>7, <1>9, <1>10, <1>11

\* What is blocked by the ranges made of rules is what the mode says of the ports
\* the rules list, for rules of any number and ranges that overlap in any way.
THEOREM RangesMeanTheRules ==
  ASSUME Rules!MaxPortAssumption, NEW mode, NEW rules, IsNormal(rules), NEW proto \in Rules!Protocols
  PROVE  /\ Rules!effectiveBlockRanges(mode, rules)[proto] \in Seq(Rules!Ranges)
         /\ Rules!PortsIn(Rules!effectiveBlockRanges(mode, rules)[proto]) = Rules!ToBlock(mode, rules, proto)
<1>1. PICK rs : rs = Rules!RangesOf(rules, proto)
  OBVIOUS
<1>2. IsNamed(rs) /\ Rules!PortsIn(rs) = Rules!Listed(rules, proto)
  BY <1>1, RangesOfAre
<1>3. PICK b : b = Rules!effectiveBlockRanges(mode, rules)[proto]
  OBVIOUS
<1>4. CASE mode = "blacklist"
  <2>1. b = Rules!mergeRanges(rs) /\ Rules!ToBlock(mode, rules, proto) = Rules!Listed(rules, proto)
    BY <1>1, <1>3, <1>4 DEF Rules!effectiveBlockRanges, Rules!ToBlock
  <2>2. IsNamed(b) /\ Rules!PortsIn(b) = Rules!PortsIn(rs)
    BY <1>2, <2>1, MergedIs
  <2> QED
    BY <1>2, <1>3, <2>1, <2>2 DEF IsNamed
<1>5. CASE mode = "whitelist"
  <2>1. b = Rules!complementRanges(rs) /\ Rules!ToBlock(mode, rules, proto) = Rules!Ports \ Rules!Listed(rules, proto)
    BY <1>1, <1>3, <1>5 DEF Rules!effectiveBlockRanges, Rules!ToBlock
  <2>2. IsNamed(b) /\ Rules!PortsIn(b) = Rules!Ports \ Rules!PortsIn(rs)
    BY <1>2, <2>1, ComplementIs
  <2> QED
    BY <1>2, <1>3, <2>1, <2>2 DEF IsNamed
<1>6. CASE mode # "blacklist" /\ mode # "whitelist"
  <2>1. b = <<>> /\ Rules!ToBlock(mode, rules, proto) = {}
    BY <1>3, <1>6 DEF Rules!effectiveBlockRanges, Rules!ToBlock
  <2>2. Rules!PortsIn(<<>>) = {} /\ <<>> \in Seq(Rules!Ranges)
    BY DEF Rules!PortsIn
  <2> QED
    BY <1>3, <2>1, <2>2
<1> QED
  BY <1>4, <1>5, <1>6
-----------------------------------------------------------------------------
(* PortFirewall.                                                           *)

\* Settings as the manager keeps them, and as it writes them.
IsSettings(c) ==
  c = [mode |-> c.mode, rules |-> c.rules] /\ c.mode \in Rules!Modes /\ IsNormal(c.rules)

\* As long as no tracker reports before InitPortFirewall, no tunnel is active before
\* it; from then on what is blocked for the active tunnel is what the settings mean,
\* unless a failure is noted.
RulesInv ==
  /\ phase \in {"down", "watching", "ready"}
  /\ IsSettings(current) /\ IsSettings(rulesFile)
  /\ activeTunnel \in Tunnels \cup {None}
  /\ firewall \in [Tunnels -> [Rules!Protocols -> Seq(Rules!Ranges)]]
  /\ up \subseteq Tunnels /\ reported \subseteq Tunnels
  /\ rulesUnsaved \in BOOLEAN /\ unapplied \in BOOLEAN
  /\ phase = "ready" /\ ~ rulesUnsaved => current = rulesFile
  /\ activeTunnel # None => activeTunnel \in reported
  /\ "earlyReport" \notin Faults => (phase # "ready" => activeTunnel = None) /\ Rules!ListedPortsOnly

LEMMA RulesConstants ==
  /\ Rules!MaxPortAssumption /\ None \notin Tunnels
  /\ RuleSets \subseteq Seq(Rules!PortRules)
BY ConstantsAssumption DEF Rules!FirewallAssumption

LEMMA NoSettings == IsSettings(Rules!NoConfig)
<1>1. IsNormal(<<>>)
  BY DEF IsNormal
<1> QED
  BY <1>1 DEF IsSettings, Rules!NoConfig, Rules!Modes

LEMMA LoadedAsSaved ==
  ASSUME NEW c, IsSettings(c)
  PROVE  [c EXCEPT !.rules = Rules!normalizePortRules(@)] = c
<1>1. Rules!normalizePortRules(c.rules) = c.rules
  BY RulesConstants, NormalStay DEF IsSettings
<1>2. c = [mode |-> c.mode, rules |-> c.rules]
  BY DEF IsSettings
<1> QED
  BY <1>1, <1>2

LEMMA RulesInit == Rules!Init => RulesInv
<1> SUFFICES ASSUME Rules!Init PROVE RulesInv
  OBVIOUS
<1>1. IsSettings(rulesFile)
  <2>1. CASE rulesFile = Rules!NoConfig
    BY <2>1, NoSettings
  <2>2. CASE rulesFile \in Rules!Saved
    <3>1. PICK mode \in Rules!Modes, rules \in RuleSets :
            rulesFile = [mode |-> mode, rules |-> Rules!normalizePortRules(rules)]
      BY <2>2 DEF Rules!Saved
    <3>2. IsNormal(Rules!normalizePortRules(rules))
      BY RulesConstants, NormalRules
    <3> QED
      BY <3>1, <3>2 DEF IsSettings
  <2> QED
    BY <2>1, <2>2 DEF Rules!Init
<1>2. firewall \in [Tunnels -> [Rules!Protocols -> Seq(Rules!Ranges)]]
  <2>1. <<>> \in Seq(Rules!Ranges)
    OBVIOUS
  <2> QED
    BY <2>1 DEF Rules!Init, Rules!NoRules
<1> QED
  BY <1>1, <1>2, NoSettings DEF Rules!Init, RulesInv, Rules!ListedPortsOnly

LEMMA RulesSame == RulesInv /\ UNCHANGED rulesVars => RulesInv'
BY DEF RulesInv, rulesVars, Rules!ListedPortsOnly

\* What a script leaves are rules; when it has not failed, the ones it was to set.
LEMMA ScriptRuns ==
  ASSUME RulesInv, NEW t \in Tunnels, NEW new \in [Rules!Protocols -> Seq(Rules!Ranges)],
         Rules!RunScript(t, new)
  PROVE  /\ firewall' \in [Tunnels -> [Rules!Protocols -> Seq(Rules!Ranges)]]
         /\ unapplied' \in BOOLEAN
         /\ ~ unapplied' => firewall'[t] = new
<1>1. firewall \in [Tunnels -> [Rules!Protocols -> Seq(Rules!Ranges)]]
  BY DEF RulesInv
<1>2. CASE firewall' = [firewall EXCEPT ![t] = new] /\ unapplied' = FALSE
  BY <1>1, <1>2
<1>3. ASSUME NEW rules \in Rules!Remains(firewall[t], new),
             firewall' = [firewall EXCEPT ![t] = rules], unapplied' = TRUE
      PROVE  /\ firewall' \in [Tunnels -> [Rules!Protocols -> Seq(Rules!Ranges)]]
             /\ unapplied'
  <2>1. <<>> \in Seq(Rules!Ranges)
    OBVIOUS
  <2>2. rules \in [Rules!Protocols -> Seq(Rules!Ranges)]
    BY <1>1, <2>1 DEF Rules!Remains, Rules!NoRules
  <2> QED
    BY <1>1, <1>3, <2>2
<1> QED
  BY <1>2, <1>3 DEF Rules!RunScript

\* The rules of settings are applied to a tunnel.
LEMMA AppliedAre ==
  ASSUME RulesInv, NEW t \in Tunnels \cup {None}, NEW c, IsSettings(c), Rules!applyRules(t, c)
  PROVE  /\ firewall' \in [Tunnels -> [Rules!Protocols -> Seq(Rules!Ranges)]]
         /\ unapplied' \in BOOLEAN
         /\ t # None /\ ~ unapplied' =>
              \A proto \in Rules!Protocols :
                Rules!PortsIn(firewall'[t][proto]) = Rules!ToBlock(c.mode, c.rules, proto)
<1>1. CASE t = None
  BY <1>1 DEF Rules!applyRules, RulesInv
<1>2. CASE t # None
  <2> DEFINE new == Rules!effectiveBlockRanges(c.mode, c.rules)
  <2>1. \A proto \in Rules!Protocols :
          /\ new[proto] \in Seq(Rules!Ranges)
          /\ Rules!PortsIn(new[proto]) = Rules!ToBlock(c.mode, c.rules, proto)
    BY RulesConstants, RangesMeanTheRules DEF IsSettings
  <2>2. new = [proto \in Rules!Protocols |-> new[proto]]
    BY DEF Rules!effectiveBlockRanges
  <2>3. t \in Tunnels /\ Rules!RunScript(t, new)
    BY <1>2 DEF Rules!applyRules
  <2> HIDE DEF new
  <2>4. new \in [Rules!Protocols -> Seq(Rules!Ranges)]
    BY <2>1, <2>2
  <2> QED
    BY <2>1, <2>3, <2>4, ScriptRuns
<1> QED
  BY <1>1, <1>2

LEMMA RulesNext == ASSUME RulesInv, Rules!Next PROVE RulesInv'
<1>1. CASE Rules!InitPortFirewall
  <2>1. current' = rulesFile /\ rulesFile' = rulesFile
    BY <1>1, LoadedAsSaved DEF Rules!InitPortFirewall, RulesInv
  <2>2. firewall' \in [Tunnels -> [Rules!Protocols -> Seq(Rules!Ranges)]]
    <3>1. <<>> \in Seq(Rules!Ranges)
      OBVIOUS
    <3> QED
      BY <1>1, <3>1 DEF Rules!InitPortFirewall, RulesInv, Rules!NoRules
  <2>3. "earlyReport" \notin Faults => activeTunnel' = None
    BY <1>1 DEF Rules!InitPortFirewall, RulesInv
  <2> QED
    BY <1>1, <2>1, <2>2, <2>3 DEF Rules!InitPortFirewall, RulesInv, Rules!ListedPortsOnly
<1>2. ASSUME NEW t \in Tunnels, Rules!OnStarted(t) PROVE RulesInv'
  <2>1. /\ activeTunnel' = t /\ t # None /\ reported' = reported \cup {t}
        /\ Rules!applyRules(t, current) /\ Rules!MayReport
        /\ UNCHANGED <<phase, current, rulesFile, up, rulesUnsaved>>
    BY <1>2, RulesConstants DEF Rules!OnStarted
  <2>2. /\ firewall' \in [Tunnels -> [Rules!Protocols -> Seq(Rules!Ranges)]]
        /\ unapplied' \in BOOLEAN
        /\ ~ unapplied' =>
             \A proto \in Rules!Protocols :
               Rules!PortsIn(firewall'[t][proto]) = Rules!ToBlock(current.mode, current.rules, proto)
    <3>1. IsSettings(current)
      BY DEF RulesInv
    <3> QED
      BY <2>1, <3>1, AppliedAre
  <2>3. Rules!ListedPortsOnly'
    BY <2>1, <2>2 DEF Rules!ListedPortsOnly
  <2>4. "earlyReport" \notin Faults => phase' = "ready"
    BY <2>1 DEF Rules!MayReport
  <2> QED
    BY <2>1, <2>2, <2>3, <2>4 DEF RulesInv
<1>3. ASSUME NEW t \in Tunnels, Rules!OnStopped(t) PROVE RulesInv'
  <2>1. reported' = reported \ {t} /\ UNCHANGED <<phase, current, rulesFile, up, rulesUnsaved>>
    BY <1>3 DEF Rules!OnStopped
  <2>2. CASE activeTunnel = t
    <3>1. activeTunnel' = None /\ Rules!RunScript(t, Rules!NoRules)
      BY <1>3, <2>2 DEF Rules!OnStopped
    <3>2. Rules!NoRules \in [Rules!Protocols -> Seq(Rules!Ranges)]
      <4>1. <<>> \in Seq(Rules!Ranges)
        OBVIOUS
      <4> QED
        BY <4>1 DEF Rules!NoRules
    <3>3. firewall' \in [Tunnels -> [Rules!Protocols -> Seq(Rules!Ranges)]] /\ unapplied' \in BOOLEAN
      BY <3>1, <3>2, ScriptRuns
    <3> QED
      BY <2>1, <3>1, <3>3 DEF RulesInv, Rules!ListedPortsOnly
  <2>3. CASE activeTunnel # t
    <3>1. UNCHANGED <<firewall, unapplied, activeTunnel>>
      BY <1>3, <2>3 DEF Rules!OnStopped
    <3> QED
      BY <2>1, <2>3, <3>1 DEF RulesInv, Rules!ListedPortsOnly
  <2> QED
    BY <2>2, <2>3
<1>4. ASSUME NEW t \in Tunnels, Rules!TunnelStarts(t) \/ Rules!TunnelStops(t) PROVE RulesInv'
  BY <1>4 DEF Rules!TunnelStarts, Rules!TunnelStops, RulesInv, Rules!ListedPortsOnly
<1>5. ASSUME NEW mode \in Rules!Modes, NEW rules \in RuleSets, Rules!SetRules(mode, rules) PROVE RulesInv'
  <2>1. PICK c : c = [mode |-> mode, rules |-> Rules!normalizePortRules(rules)]
    OBVIOUS
  <2>2. IsSettings(c)
    <3>1. IsNormal(Rules!normalizePortRules(rules))
      BY RulesConstants, NormalRules
    <3> QED
      BY <2>1, <3>1 DEF IsSettings
  <2>3. current' = c /\ phase = "ready" /\ UNCHANGED <<phase, activeTunnel, up, reported>>
    BY <1>5, <2>1 DEF Rules!SetRules
  <2>4. CASE rulesFile' = current' /\ rulesUnsaved' = FALSE /\ Rules!applyRules(activeTunnel, current')
    <3>1. activeTunnel \in Tunnels \cup {None} /\ Rules!applyRules(activeTunnel, c)
      BY <2>3, <2>4 DEF RulesInv, Rules!applyRules
    <3>2. /\ firewall' \in [Tunnels -> [Rules!Protocols -> Seq(Rules!Ranges)]]
          /\ unapplied' \in BOOLEAN
          /\ activeTunnel # None /\ ~ unapplied' =>
               \A proto \in Rules!Protocols :
                 Rules!PortsIn(firewall'[activeTunnel][proto]) = Rules!ToBlock(c.mode, c.rules, proto)
      BY <2>2, <3>1, AppliedAre
    <3>3. Rules!ListedPortsOnly'
      BY <2>3, <3>2 DEF Rules!ListedPortsOnly
    <3>4. IsSettings(current') /\ IsSettings(rulesFile')
      BY <2>2, <2>3, <2>4
    <3> QED
      BY <2>3, <2>4, <3>2, <3>3, <3>4 DEF RulesInv, IsSettings
  <2>5. CASE rulesUnsaved' = TRUE /\ unapplied' = TRUE /\ UNCHANGED <<rulesFile, firewall>>
    <3>1. IsSettings(current')
      BY <2>2, <2>3
    <3> QED
      BY <2>3, <2>5, <3>1 DEF RulesInv, Rules!ListedPortsOnly, IsSettings
  <2> QED
    BY <1>5, <2>4, <2>5 DEF Rules!SetRules
<1>6. CASE Rules!Crash
  <2>1. /\ phase' = "down" /\ current' = Rules!NoConfig /\ activeTunnel' = None /\ reported' = {}
        /\ UNCHANGED <<rulesFile, firewall, up, rulesUnsaved, unapplied>>
    BY <1>6 DEF Rules!Crash
  <2>2. IsSettings(current')
    BY <2>1, NoSettings
  <2> QED
    BY <2>1, <2>2 DEF RulesInv, Rules!ListedPortsOnly, IsSettings
<1>7. CASE Rules!Restart
  BY <1>7 DEF Rules!Restart, RulesInv, Rules!ListedPortsOnly
<1> QED
  BY <1>1, <1>2, <1>3, <1>4, <1>5, <1>6, <1>7 DEF Rules!Next

LEMMA RulesKept == RulesInv /\ [Next]_vars => RulesInv'
<1> SUFFICES ASSUME RulesInv, [Next]_vars PROVE RulesInv'
  OBVIOUS
<1>1. CASE Rules!Next
  BY <1>1, RulesNext
<1>2. CASE UNCHANGED rulesVars
  BY <1>2, RulesSame
<1> QED
  BY <1>1, <1>2 DEF Next, InPeers, InFiles, InRules, vars

\* The ports that are blocked on the active tunnel are those that the settings in
\* force mean (SetRules, OnTunnelStateChange, effectiveBlockRanges), unless the last
\* attempt to make them so has failed: for any rules, any number of tunnels and any
\* order of their reports.  A tracker that reports before InitPortFirewall undoes
\* it, and is left out.
THEOREM BlockedAsListed ==
  ASSUME "earlyReport" \notin Faults PROVE Spec => []ListedPortsOnly
<1>1. Init => RulesInv
  BY RulesInit DEF Init
<1>2. RulesInv => ListedPortsOnly
  BY DEF RulesInv, ListedPortsOnly
<1> QED
  BY <1>1, <1>2, RulesKept, PTL DEF Spec

\* The settings that a restart loads are those in force unless the last attempt to
\* save them failed (SetRules, normalizePortRules), and the active tunnel is one
\* that was reported as started and not as stopped since (OnTunnelStateChange).
THEOREM SavedAndReported == Spec => []SettingsOfTheActive
<1>1. Init => RulesInv
  BY RulesInit DEF Init
<1>2. RulesInv => SettingsOfTheActive
  BY LoadedAsSaved DEF RulesInv, SettingsOfTheActive, Rules!SavedIsCurrent, Rules!ActiveIsReported
<1> QED
  BY <1>1, <1>2, RulesKept, PTL DEF Spec
-----------------------------------------------------------------------------
(* TunnelConfigs.                                                          *)

\* The networks have the default route, or the two that are taken for the pattern.
Route(S) == "v4all" \in S \/ ("low" \in S /\ "high" \in S)

\* S is what the manager may have made of the networks w that the user wrote:
\* strip, if the tunnel was started without IPv6.
KeptFrom(S, w, strip) ==
  /\ S \subseteq Configurations!Nets
  /\ "v6all" \notin w =>
       /\ "v6all" \notin S /\ (Route(S) <=> Route(w)) /\ ("lan" \in S <=> "lan" \in w)
       /\ ("lan6" \in S => "lan6" \in w) /\ ("lan6" \in w => "lan6" \in S \/ strip)
       /\ ~ Route(w) => \A n \in {"low", "high", "between"} : n \in S <=> n \in w

Follows(S) == IF settings.excludeLoopback THEN "v4all" \notin S ELSE ~ ("low" \in S /\ "high" \in S)

Written == [ips : Inputs, tableOff : BOOLEAN]

FilesTyped ==
  /\ file \in [Tunnels -> Configurations!Files \cup {None}]
  /\ wanted \in [Tunnels -> Written]
  /\ settings \in Configurations!Settings /\ saved \in Configurations!Settings /\ unsaved \in BOOLEAN
  /\ excused \subseteq Tunnels /\ stripped \subseteq Tunnels /\ stranded \subseteq Tunnels

FilesShape ==
  /\ FilesTyped
  /\ jobs \subseteq [exclude : BOOLEAN, todo : SUBSET Tunnels]
  /\ held \subseteq [t : Tunnels, file : Configurations!Files]

\* One configuration is on its way to a file, one that exists.
OneHeld == \A h \in held : file[h.t] # None /\ \A g \in held : g = h

\* There is one goroutine, which does what is set.
OneJob == \A j \in jobs : j.exclude = settings.excludeLoopback /\ \A k \in jobs : j = k

\* What is managed exists, and what its user wrote of its table is remembered.
ManagedIs ==
  settings.managed \notin stranded \cup {None} =>
    file[settings.managed] # None /\ settings.original = wanted[settings.managed].tableOff

\* The tables of the others are the users', and stay so when what is held is saved.
TablesKept ==
  \A t \in Tunnels \ stranded : t # settings.managed =>
    /\ file[t] # None => file[t].tableOff = wanted[t].tableOff
    /\ \A h \in held : h.t = t => h.file.tableOff = wanted[t].tableOff

NetsKept ==
  \A t \in Tunnels :
    /\ file[t] # None => KeptFrom(file[t].ips, wanted[t].ips, t \in stripped)
    /\ \A h \in held : h.t = t => KeptFrom(h.file.ips, wanted[t].ips, t \in stripped)

\* A file that nothing excuses follows the setting, or is still to be gone through,
\* or what is held for it follows.
FollowedUp ==
  \A t \in Tunnels \ excused : file[t] # None /\ (\A j \in jobs : t \notin j.todo) =>
    /\ \A h \in held : h.t = t => Follows(h.file.ips)
    /\ (\A h \in held : h.t # t) => Follows(file[t].ips)

\* What disturbs the tables, and the networks' following the setting, is not the same.
TablesHold == Disturbances \cap {"torn", "delete"} = {}
FollowHold == Disturbances \cap {"torn", "overlap", "crash"} = {}

FilesInv ==
  /\ FilesShape /\ OneHeld /\ NetsKept
  /\ TablesHold => ManagedIs /\ TablesKept
  /\ FollowHold => OneJob /\ FollowedUp

-----------------------------------------------------------------------------
(* What the functions on networks do.                                      *)

LEMMA InputsAreNets ==
  ASSUME NEW w \in Inputs
  PROVE  w \subseteq Configurations!Nets /\ KeptFrom(w, w, FALSE) /\ KeptFrom(w, w, TRUE)
BY ConstantsAssumption DEF Configurations!TunnelConfigsAssumption, KeptFrom

LEMMA ExcludeIs ==
  ASSUME NEW S \in SUBSET Configurations!Nets, NEW w, NEW strip \in BOOLEAN, KeptFrom(S, w, strip)
  PROVE  LET E == Configurations!ExcludeLoopback(S)
         IN  KeptFrom(E, w, strip) /\ "v4all" \notin E
<1>1. CASE S \cap {"v4all", "v6all"} = {}
  BY <1>1 DEF Configurations!ExcludeLoopback
<1>2. CASE S \cap {"v4all", "v6all"} # {}
  <2> DEFINE E == (S \ {"v4all", "v6all"}) \cup {"low", "high", "between"}
  <2>1. Configurations!ExcludeLoopback(S) = E
    BY <1>2 DEF Configurations!ExcludeLoopback, Configurations!Excluding
  <2>2. /\ "v4all" \in S \/ "v6all" \in S
        /\ S \subseteq Configurations!Nets
    BY <1>2
  <2>3. E \subseteq Configurations!Nets
    BY DEF Configurations!Nets, Configurations!Excluding
  <2>4. /\ "v4all" \notin E /\ "v6all" \notin E /\ Route(E)
        /\ "lan" \in E <=> "lan" \in S
        /\ "lan6" \in E <=> "lan6" \in S
    BY DEF Route
  <2> HIDE DEF E
  <2>5. KeptFrom(E, w, strip)
    BY <2>2, <2>3, <2>4 DEF KeptFrom, Route
  <2> QED
    BY <2>1, <2>4, <2>5
<1> QED
  BY <1>1, <1>2

LEMMA RestoreIs ==
  ASSUME NEW S \in SUBSET Configurations!Nets, NEW w, NEW strip \in BOOLEAN, KeptFrom(S, w, strip)
  PROVE  LET R == Configurations!RestoreLoopback(S)
         IN  KeptFrom(R, w, strip) /\ ~ ("low" \in R /\ "high" \in R)
<1>1. CASE ~ ("low" \in S /\ "high" \in S)
  BY <1>1 DEF Configurations!RestoreLoopback
<1>2. CASE "low" \in S /\ "high" \in S
  <2> DEFINE R == (S \ {"low", "high", "between"}) \cup {"v4all"}
  <2>1. Configurations!RestoreLoopback(S) = R
    BY <1>2 DEF Configurations!RestoreLoopback, Configurations!Excluding
  <2>2. R \subseteq Configurations!Nets
    BY DEF Configurations!Nets, Configurations!Excluding
  <2>3. /\ "low" \notin R /\ Route(R)
        /\ "v6all" \in R <=> "v6all" \in S
        /\ "lan" \in R <=> "lan" \in S
        /\ "lan6" \in R <=> "lan6" \in S
    BY DEF Route
  <2> HIDE DEF R
  <2>4. KeptFrom(R, w, strip)
    BY <1>2, <2>2, <2>3 DEF KeptFrom, Route
  <2> QED
    BY <2>1, <2>3, <2>4
<1> QED
  BY <1>1, <1>2

LEMMA DisableIs ==
  ASSUME NEW S \in SUBSET Configurations!Nets, NEW w, NEW strip \in BOOLEAN, KeptFrom(S, w, strip)
  PROVE  LET D == Configurations!DisableIPv6(S)
         IN  /\ KeptFrom(D, w, TRUE) /\ D \subseteq S
<1> DEFINE D == S \ {"v6all", "lan6"}
<1>1. Configurations!DisableIPv6(S) = D
  BY DEF Configurations!DisableIPv6, Configurations!IPv6
<1>2. /\ D \subseteq S /\ D \subseteq Configurations!Nets
      /\ "v6all" \notin D /\ "lan6" \notin D
      /\ \A n : n # "v6all" /\ n # "lan6" => (n \in D <=> n \in S)
  OBVIOUS
<1> HIDE DEF D
<1>3. Route(D) <=> Route(S)
  BY <1>2 DEF Route
<1>4. KeptFrom(D, w, TRUE)
  BY <1>2, <1>3 DEF KeptFrom
<1> QED
  BY <1>1, <1>2, <1>4

\* The default route of what was made of w is that of w, but for IPv6.
LEMMA DefaultKept ==
  ASSUME NEW w \in Inputs, "v6all" \notin w, NEW strip \in BOOLEAN,
         NEW S, KeptFrom(S, w, strip)
  PROVE  \/ Configurations!Default(S) = Configurations!Default(w)
         \/ strip /\ Configurations!Default(S) = Configurations!Default(w) \ Configurations!IPv6
<1>1. ASSUME NEW T, T \subseteq Configurations!Nets
      PROVE  /\ Configurations!Default(T) \subseteq Configurations!Nets
             /\ "v4all" \in Configurations!Default(T) <=> Route(T)
             /\ \A n \in {"low", "high", "between"} : n \in Configurations!Default(T) <=> n \in T /\ ~ Route(T)
             /\ \A n \in {"lan", "v6all", "lan6"} : n \in Configurations!Default(T) <=> n \in T
  <2>1. CASE Route(T)
    <3>1. Configurations!Default(T) = (T \ {"low", "high", "between"}) \cup {"v4all"}
      BY <2>1 DEF Configurations!Default, Configurations!Excluding, Configurations!Pattern, Route
    <3> QED
      BY <1>1, <2>1, <3>1 DEF Configurations!Nets
  <2>2. CASE ~ Route(T)
    <3>1. Configurations!Default(T) = T /\ "v4all" \notin T
      BY <2>2 DEF Configurations!Default, Configurations!Pattern, Route
    <3> QED
      BY <1>1, <2>2, <3>1
  <2> QED
    BY <2>1, <2>2
<1>2. \A n : n \in Configurations!Nets <=> n \in {"v4all", "lan", "low", "high", "between", "v6all", "lan6"}
  BY DEF Configurations!Nets, Configurations!Excluding, Configurations!IPv6
<1>3. PICK A, B : A = Configurations!Default(S) /\ B = Configurations!Default(w)
  OBVIOUS
<1>4. /\ A \subseteq Configurations!Nets /\ B \subseteq Configurations!Nets
      /\ "v4all" \in A <=> "v4all" \in B
      /\ \A n \in {"low", "high", "between"} : n \in A <=> n \in B
      /\ "lan" \in A <=> "lan" \in B
      /\ "v6all" \notin A /\ "v6all" \notin B
      /\ "lan6" \in A => "lan6" \in B
      /\ "lan6" \in B => "lan6" \in A \/ strip
  <2>1. w \subseteq Configurations!Nets
    BY InputsAreNets
  <2>2. /\ S \subseteq Configurations!Nets
        /\ "v6all" \notin S /\ (Route(S) <=> Route(w)) /\ ("lan" \in S <=> "lan" \in w)
        /\ ("lan6" \in S => "lan6" \in w) /\ ("lan6" \in w => "lan6" \in S \/ strip)
        /\ ~ Route(w) => \A n \in {"low", "high", "between"} : n \in S <=> n \in w
    BY DEF KeptFrom
  <2>3. /\ A \subseteq Configurations!Nets
        /\ "v4all" \in A <=> Route(S)
        /\ \A n \in {"low", "high", "between"} : n \in A <=> n \in S /\ ~ Route(S)
        /\ \A n \in {"lan", "v6all", "lan6"} : n \in A <=> n \in S
    BY <1>1, <1>3, <2>2
  <2>4. /\ B \subseteq Configurations!Nets
        /\ "v4all" \in B <=> Route(w)
        /\ \A n \in {"low", "high", "between"} : n \in B <=> n \in w /\ ~ Route(w)
        /\ \A n \in {"lan", "v6all", "lan6"} : n \in B <=> n \in w
    BY <1>1, <1>3, <2>1
  <2> QED
    BY <2>2, <2>3, <2>4
<1>5. CASE "lan6" \in B => "lan6" \in A
  <2>1. A = B
    BY <1>2, <1>4, <1>5
  <2> QED
    BY <1>3, <2>1
<1>6. CASE "lan6" \in B /\ "lan6" \notin A
  <2>1. A = B \ {"v6all", "lan6"}
    BY <1>2, <1>4, <1>6
  <2> QED
    BY <1>3, <1>4, <1>6, <2>1 DEF Configurations!IPv6
<1> QED
  BY <1>5, <1>6
-----------------------------------------------------------------------------
(* The steps of the manager and of the user.                               *)

LEMMA FilesInit == Configurations!Init => FilesInv
<1> SUFFICES ASSUME Configurations!Init PROVE FilesInv
  OBVIOUS
<1>1. ASSUME NEW t \in Tunnels
      PROVE  /\ file[t] \in Configurations!Files /\ wanted[t] \in Written /\ wanted[t] = file[t]
             /\ KeptFrom(file[t].ips, wanted[t].ips, FALSE)
  <2>1. PICK S \in Inputs : file[t] = [ips |-> S, tableOff |-> FALSE]
    BY DEF Configurations!Init
  <2>2. S \subseteq Configurations!Nets /\ KeptFrom(S, S, FALSE)
    BY InputsAreNets
  <2>3. wanted[t] = file[t] /\ file[t].ips = S
    BY <2>1 DEF Configurations!Init
  <2>4. file[t] \in Configurations!Files /\ wanted[t] \in Written
    BY <2>1, <2>2, <2>3 DEF Configurations!Files, Written
  <2> QED
    BY <2>2, <2>3, <2>4
<1>2. file = [t \in Tunnels |-> file[t]] /\ wanted = file
  BY DEF Configurations!Init
<1>3. Configurations!Defaults \in Configurations!Settings /\ Configurations!Defaults.managed = None
  BY DEF Configurations!Defaults, Configurations!Settings
<1>4. FilesTyped
  BY <1>1, <1>2, <1>3 DEF Configurations!Init, FilesTyped
<1>5. NetsKept
  <2>1. \A t \in Tunnels : (t \in stripped) = FALSE /\ held = {}
    BY DEF Configurations!Init
  <2> QED
    BY <1>1, <2>1 DEF NetsKept
<1> QED
  BY <1>1, <1>3, <1>4, <1>5
     DEF Configurations!Init, FilesInv, FilesShape, OneHeld, OneJob, ManagedIs, TablesKept, FollowedUp

LEMMA FilesSame == FilesInv /\ UNCHANGED filesVars => FilesInv'
BY DEF FilesInv, filesVars, FilesShape, FilesTyped, OneHeld, OneJob, ManagedIs, TablesKept, NetsKept,
   FollowedUp, Follows

LEMMA FilesConstants == None \notin Tunnels /\ None \notin Configurations!Files
BY ConstantsAssumption DEF Configurations!TunnelConfigsAssumption

\* The files g have the networks that the files f have.
SameNets(f, g) ==
  \A t \in Tunnels : (g[t] = None <=> f[t] = None) /\ (f[t] # None => g[t].ips = f[t].ips)

Stored == [Tunnels -> Configurations!Files \cup {None}]

\* A mark that is set or removed.
LEMMA TableOffIs ==
  ASSUME NEW f \in Stored, NEW t \in Tunnels, f[t] # None, NEW b \in BOOLEAN
  PROVE  LET g == Configurations!TableOff(f, t, b)
         IN  /\ g \in Stored /\ SameNets(f, g) /\ g[t].tableOff = b
             /\ \A u \in Tunnels : u # t => g[u] = f[u]
<1> DEFINE d == [f[t] EXCEPT !.tableOff = b]
<1>1. f[t] \in Configurations!Files
  BY DEF Stored
<1>2. d \in Configurations!Files /\ d.ips = f[t].ips /\ d.tableOff = b
  BY <1>1 DEF Configurations!Files
<1>3. d # None
  BY <1>2, FilesConstants
<1>4. Configurations!TableOff(f, t, b) = [f EXCEPT ![t] = d]
  BY DEF Configurations!TableOff
<1> HIDE DEF d
<1> QED
  BY <1>2, <1>3, <1>4 DEF Stored, SameNets

\* What syncManagedRouteTunnelLocked does for the target, with any settings and files,
\* and whatever fails: nothing, or the target is managed.
LEMMA MarkIs ==
  ASSUME NEW c \in Configurations!Settings, NEW f \in Stored, Configurations!Mark(c, f)
  PROVE  /\ settings' \in Configurations!Settings /\ settings'.excludeLoopback = c.excludeLoopback
         /\ settings'.mode = c.mode /\ settings'.routeTunnel = c.routeTunnel
         /\ file' \in Stored /\ SameNets(f, file')
         /\ \/ settings' = c /\ file' = f
            \/ /\ settings'.managed = Configurations!Target(c)
               /\ settings'.managed \in Tunnels \ {None, c.managed}
               /\ f[settings'.managed] # None
               /\ settings'.original = f[settings'.managed].tableOff
               /\ \A u \in Tunnels : u # settings'.managed => file'[u] = f[u]
<1>1. PICK t : t = Configurations!Target(c)
  OBVIOUS
<1>2. t \in Tunnels \cup {None}
  BY <1>1 DEF Configurations!Target, Configurations!Settings
<1>3. SameNets(f, f)
  BY DEF SameNets
<1>4. CASE settings' = c /\ file' = f
  BY <1>3, <1>4
<1>5. CASE /\ t \notin {None, c.managed} /\ f[t] # None
           /\ settings' = [c EXCEPT !.managed = t, !.original = f[t].tableOff]
           /\ file' = Configurations!TableOff(f, t, TRUE) \/ file' = f
  <2>1. t \in Tunnels /\ f[t] \in Configurations!Files
    BY <1>2, <1>5 DEF Stored
  <2>2. PICK b \in BOOLEAN : b = f[t].tableOff
    BY <2>1 DEF Configurations!Files
  <2>3. settings' = [c EXCEPT !.managed = t, !.original = b]
    BY <1>5, <2>2
  <2>4. /\ settings' \in Configurations!Settings /\ settings'.excludeLoopback = c.excludeLoopback
        /\ settings'.mode = c.mode /\ settings'.routeTunnel = c.routeTunnel
        /\ settings'.managed = t /\ settings'.original = b
    BY <2>1, <2>3 DEF Configurations!Settings
  <2>5. /\ file' \in Stored /\ SameNets(f, file')
        /\ \A u \in Tunnels : u # t => file'[u] = f[u]
    <3>1. CASE file' = f
      BY <1>3, <3>1
    <3>2. CASE file' = Configurations!TableOff(f, t, TRUE)
      <4>1. PICK on \in BOOLEAN : on = TRUE
        OBVIOUS
      <4>2. PICK g : g = Configurations!TableOff(f, t, on)
        OBVIOUS
      <4>3. g \in Stored /\ SameNets(f, g) /\ \A u \in Tunnels : u # t => g[u] = f[u]
        BY <1>5, <2>1, <4>2, TableOffIs
      <4> QED
        BY <3>2, <4>1, <4>2, <4>3
    <3> QED
      BY <1>5, <3>1, <3>2
  <2> QED
    BY <1>1, <1>5, <2>1, <2>2, <2>4, <2>5
<1> QED
  BY <1>1, <1>4, <1>5 DEF Configurations!Mark

\* The managed tunnel is restored, if its configuration can be loaded and saved.
LEMMA RestoredIs ==
  ASSUME FilesTyped, NEW c \in Configurations!Settings, c.managed # None, file[c.managed] # None
  PROVE  LET r == [c EXCEPT !.managed = None, !.original = FALSE]
             g == Configurations!TableOff(file, c.managed, c.original)
         IN  /\ r \in Configurations!Settings /\ r.managed = None
             /\ r.excludeLoopback = c.excludeLoopback /\ r.mode = c.mode /\ r.routeTunnel = c.routeTunnel
             /\ g \in Stored /\ SameNets(file, g) /\ g[c.managed].tableOff = c.original
             /\ \A u \in Tunnels : u # c.managed => g[u] = file[u]
<1>1. c.managed \in Tunnels /\ c.original \in BOOLEAN /\ file \in Stored
  BY DEF FilesTyped, Configurations!Settings, Stored
<1>2. PICK r : r = [c EXCEPT !.managed = None, !.original = FALSE]
  OBVIOUS
<1>3. /\ r \in Configurations!Settings /\ r.managed = None
      /\ r.excludeLoopback = c.excludeLoopback /\ r.mode = c.mode /\ r.routeTunnel = c.routeTunnel
  BY <1>2 DEF Configurations!Settings
<1>4. PICK g : g = Configurations!TableOff(file, c.managed, c.original)
  OBVIOUS
<1>5. /\ g \in Stored /\ SameNets(file, g) /\ g[c.managed].tableOff = c.original
      /\ \A u \in Tunnels : u # c.managed => g[u] = file[u]
  BY <1>1, <1>4, TableOffIs
<1> QED
  BY <1>2, <1>3, <1>4, <1>5

\* Only tables change, with any settings and files, those of a managed tunnel that is
\* gone included.
LEMMA SyncTyped ==
  ASSUME FilesTyped, NEW c \in Configurations!Settings, Configurations!Sync(c)
  PROVE  /\ settings' \in Configurations!Settings /\ settings'.excludeLoopback = c.excludeLoopback
         /\ settings'.mode = c.mode /\ settings'.routeTunnel = c.routeTunnel
         /\ file' \in Stored /\ SameNets(file, file')
<1>1. file \in Stored /\ SameNets(file, file)
  BY DEF FilesTyped, Stored, SameNets
<1>2. CASE settings' = c /\ file' = file
  BY <1>1, <1>2
<1>3. CASE Configurations!Mark(c, file)
  BY <1>1, <1>3, MarkIs
<1>4. CASE /\ c.managed # None /\ file[c.managed] # None
           /\ Configurations!Mark([c EXCEPT !.managed = None, !.original = FALSE],
                                  Configurations!TableOff(file, c.managed, c.original))
  <2>1. PICK r, g : /\ r = [c EXCEPT !.managed = None, !.original = FALSE]
                    /\ g = Configurations!TableOff(file, c.managed, c.original)
    OBVIOUS
  <2>2. /\ r \in Configurations!Settings /\ r.excludeLoopback = c.excludeLoopback
        /\ r.mode = c.mode /\ r.routeTunnel = c.routeTunnel
        /\ g \in Stored /\ SameNets(file, g)
    BY <1>4, <2>1, RestoredIs
  <2>3. Configurations!Mark(r, g)
    BY <1>4, <2>1
  <2>4. /\ settings' \in Configurations!Settings /\ settings'.excludeLoopback = r.excludeLoopback
        /\ settings'.mode = r.mode /\ settings'.routeTunnel = r.routeTunnel
        /\ file' \in Stored /\ SameNets(g, file')
    BY <2>2, <2>3, MarkIs
  <2> QED
    BY <2>2, <2>4 DEF SameNets
<1> QED
  BY <1>2, <1>3, <1>4 DEF Configurations!Sync

\* With settings c and files g, the tables that are not managed are the users', but for
\* those that are stranded.
TablesOf(c, g) ==
  /\ c.managed \notin stranded \cup {None} =>
       g[c.managed] # None /\ c.original = wanted[c.managed].tableOff
  /\ \A t \in Tunnels \ stranded : t # c.managed /\ g[t] # None => g[t].tableOff = wanted[t].tableOff

LEMMA MarkKeepsTables ==
  ASSUME NEW c \in Configurations!Settings, NEW f \in Stored, Configurations!Mark(c, f),
         c.managed \in {None, Configurations!Target(c)}, TablesOf(c, f)
  PROVE  TablesOf(settings', file')
<1>1. CASE settings' = c /\ file' = f
  BY <1>1
<1>2. CASE /\ settings'.managed = Configurations!Target(c)
           /\ settings'.managed \in Tunnels \ {None, c.managed}
           /\ f[settings'.managed] # None
           /\ settings'.original = f[settings'.managed].tableOff
           /\ \A u \in Tunnels : u # settings'.managed => file'[u] = f[u]
  <2>1. PICK t : t = settings'.managed
    OBVIOUS
  <2>2. c.managed = None /\ None \notin Tunnels
    BY <1>2, FilesConstants
  <2>3. file'[t] # None
    BY <1>2, <2>1, MarkIs DEF SameNets
  <2>4. t \notin stranded => settings'.original = wanted[t].tableOff
    BY <1>2, <2>1 DEF TablesOf
  <2>5. ASSUME NEW u \in Tunnels \ stranded, u # t, file'[u] # None
        PROVE  file'[u].tableOff = wanted[u].tableOff
    BY <1>2, <2>1, <2>2, <2>5 DEF TablesOf
  <2> QED
    BY <2>1, <2>3, <2>4, <2>5 DEF TablesOf
<1> QED
  BY <1>1, <1>2, MarkIs

\* What it makes of settings c that differ from those in force in what is selected:
\* the tables that are not managed after it are the users', whatever fails.
LEMMA SyncKeepsTables ==
  ASSUME FilesTyped, NEW c \in Configurations!Settings, Configurations!Sync(c), TablesOf(c, file)
  PROVE  TablesOf(settings', file')
<1>1. file \in Stored /\ None \notin Tunnels
  BY FilesConstants DEF FilesTyped, Stored
<1>2. CASE settings' = c /\ file' = file
  BY <1>2
<1>3. CASE c.managed \in {None, Configurations!Target(c)} /\ Configurations!Mark(c, file)
  BY <1>1, <1>3, MarkKeepsTables
<1>4. CASE /\ c.managed # None /\ file[c.managed] # None
           /\ Configurations!Mark([c EXCEPT !.managed = None, !.original = FALSE],
                                  Configurations!TableOff(file, c.managed, c.original))
  <2>1. PICK r, g : /\ r = [c EXCEPT !.managed = None, !.original = FALSE]
                    /\ g = Configurations!TableOff(file, c.managed, c.original)
    OBVIOUS
  <2>2. /\ r \in Configurations!Settings /\ r.managed = None
        /\ g \in Stored /\ g[c.managed].tableOff = c.original
        /\ \A u \in Tunnels : u # c.managed => g[u] = file[u]
    BY <1>4, <2>1, RestoredIs
  <2>3. TablesOf(r, g)
    <3> SUFFICES ASSUME NEW u \in Tunnels \ stranded, g[u] # None
                 PROVE  g[u].tableOff = wanted[u].tableOff
      BY <2>2 DEF TablesOf
    <3>1. CASE u = c.managed
      BY <1>4, <2>2, <3>1 DEF TablesOf
    <3>2. CASE u # c.managed
      BY <2>2, <3>2 DEF TablesOf
    <3> QED
      BY <3>1, <3>2
  <2>4. Configurations!Mark(r, g)
    BY <1>4, <2>1
  <2> QED
    BY <2>2, <2>3, <2>4, MarkKeepsTables
<1> QED
  BY <1>2, <1>3, <1>4 DEF Configurations!Sync

LEMMA SetAndSyncKeeps ==
  ASSUME FilesInv, "torn" \notin Disturbances, NEW c \in Configurations!Settings,
         c.managed = settings.managed, c.original = settings.original,
         c.excludeLoopback = settings.excludeLoopback, Configurations!SetAndSync(c)
  PROVE  FilesInv'
<1>1. held = {} /\ Configurations!Sync(c)
  BY DEF Configurations!SetAndSync, Configurations!MayWrite
<1>2. unsaved' = TRUE /\ UNCHANGED <<saved, jobs, held, wanted, excused, stripped, stranded>>
  BY DEF Configurations!SetAndSync
<1>3. /\ settings' \in Configurations!Settings /\ settings'.excludeLoopback = settings.excludeLoopback
      /\ file' \in [Tunnels -> Configurations!Files \cup {None}] /\ SameNets(file, file')
  BY <1>1, SyncTyped DEF FilesInv, FilesShape, Stored
<1>4. FilesShape'
  BY <1>2, <1>3 DEF FilesInv, FilesShape, FilesTyped, Written
<1>5. OneHeld' /\ NetsKept'
  BY <1>1, <1>2, <1>3 DEF FilesInv, OneHeld, NetsKept, SameNets
<1>6. ASSUME TablesHold PROVE ManagedIs' /\ TablesKept'
  <2>1. TablesOf(c, file)
    BY <1>6 DEF FilesInv, ManagedIs, TablesKept, TablesOf
  <2>2. TablesOf(settings', file')
    BY <1>1, <2>1, SyncKeepsTables DEF FilesInv, FilesShape
  <2>3. ManagedIs'
    BY <1>2, <2>2 DEF ManagedIs, TablesOf
  <2>4. TablesKept'
    BY <1>1, <1>2, <2>2 DEF TablesKept, TablesOf
  <2> QED
    BY <2>3, <2>4
<1>7. ASSUME FollowHold PROVE OneJob' /\ FollowedUp'
  BY <1>1, <1>2, <1>3, <1>7 DEF FilesInv, OneJob, FollowedUp, Follows, SameNets
<1> QED
  BY <1>4, <1>5, <1>6, <1>7 DEF FilesInv, TablesHold, FollowHold

\* A configuration is loaded, and what is made of it is held.
LEMMA HoldKeeps ==
  ASSUME FilesInv, held = {}, NEW t \in Tunnels, file[t] # None,
         NEW ips \in SUBSET Configurations!Nets, NEW off \in BOOLEAN, Configurations!Hold(t, ips, off)
  PROVE  /\ held' \subseteq [t : Tunnels, file : Configurations!Files]
         /\ \A h \in held' : /\ h.t = t /\ h.file.ips = ips /\ h.file.tableOff = off
                             /\ \A g \in held' : g = h
         /\ held' = {} => file[t].ips = ips
<1>1. file[t] \in Configurations!Files
  BY DEF FilesInv, FilesShape, FilesTyped
<1>2. PICK f : f = [ips |-> ips, tableOff |-> off]
  OBVIOUS
<1>3. f \in Configurations!Files /\ f.ips = ips /\ f.tableOff = off
  BY <1>2 DEF Configurations!Files
<1>4. PICK h : h = [t |-> t, file |-> f]
  OBVIOUS
<1>5. h \in [t : Tunnels, file : Configurations!Files] /\ h.t = t /\ h.file = f
  BY <1>3, <1>4
<1>6. held' = IF file[t] = f THEN {} ELSE {h}
  BY <1>2, <1>4 DEF Configurations!Hold
<1> QED
  BY <1>3, <1>5, <1>6

\* The rest of what a step that holds a configuration keeps: held is what it was or
\* is for t, and nothing else of the files changes.
LEMMA HeldKeeps ==
  ASSUME FilesInv, held = {}, NEW t \in Tunnels, file[t] # None,
         NEW ips \in SUBSET Configurations!Nets, NEW off \in BOOLEAN,
         held' \subseteq [t : Tunnels, file : Configurations!Files],
         \A h \in held' : /\ h.t = t /\ h.file.ips = ips /\ h.file.tableOff = off
                          /\ \A g \in held' : g = h,
         UNCHANGED <<file, wanted>>, stripped \subseteq stripped',
         KeptFrom(ips, wanted[t].ips, t \in stripped')
  PROVE  OneHeld' /\ NetsKept'
<1>1. OneHeld'
  BY DEF OneHeld
<1>2. ASSUME NEW u \in Tunnels
      PROVE  /\ file'[u] # None => KeptFrom(file'[u].ips, wanted'[u].ips, u \in stripped')
             /\ \A h \in held' : h.t = u => KeptFrom(h.file.ips, wanted'[u].ips, u \in stripped')
  <2>1. file[u] # None => KeptFrom(file[u].ips, wanted[u].ips, u \in stripped')
    <3> SUFFICES ASSUME file[u] # None PROVE KeptFrom(file[u].ips, wanted[u].ips, u \in stripped')
      OBVIOUS
    <3>1. KeptFrom(file[u].ips, wanted[u].ips, u \in stripped)
      BY DEF FilesInv, NetsKept
    <3> QED
      BY <3>1 DEF KeptFrom
  <2>2. \A h \in held' : h.t = u => u = t /\ h.file.ips = ips
    OBVIOUS
  <2> QED
    BY <2>1, <2>2
<1> QED
  BY <1>1, <1>2 DEF NetsKept

LEMMA UpdateKeepsFiles ==
  ASSUME FilesInv, "torn" \notin Disturbances, NEW j \in jobs, NEW t \in j.todo,
         Configurations!UpdateTunnelConfig(j, t)
  PROVE  FilesInv'
<1> DEFINE rest == [j EXCEPT !.todo = @ \ {t}]
<1>1. /\ held = {} /\ j \in [exclude : BOOLEAN, todo : SUBSET Tunnels] /\ t \in Tunnels
      /\ UNCHANGED <<file, settings, saved, unsaved, stripped, stranded, wanted, fileInputs>>
      /\ excused' \subseteq Tunnels /\ excused \subseteq excused'
  BY DEF FilesInv, FilesShape, FilesTyped, Configurations!UpdateTunnelConfig, Configurations!MayWrite,
         Configurations!settings, Configurations!user
<1>2. /\ rest \in [exclude : BOOLEAN, todo : SUBSET Tunnels]
      /\ rest.exclude = j.exclude /\ rest.todo = j.todo \ {t}
  BY <1>1
<1>3. jobs' = (jobs \ {j}) \cup (IF j.todo = {t} THEN {} ELSE {rest})
  BY DEF Configurations!UpdateTunnelConfig
<1> HIDE DEF rest
<1>4. jobs' \subseteq [exclude : BOOLEAN, todo : SUBSET Tunnels]
  BY <1>2, <1>3 DEF FilesInv, FilesShape
\* The goroutine is the only one.  The files that it does not have before it now
\* follow already, or are still to be gone through.
<1>5. ASSUME FollowHold
      PROVE  /\ OneJob' /\ j.exclude = settings.excludeLoopback
             /\ \A u \in Tunnels \ excused :
                  u # t /\ file[u] # None /\ (\A k \in jobs' : u \notin k.todo) => Follows(file[u].ips)
  <2>1. jobs = {j} /\ j.exclude = settings.excludeLoopback
    BY <1>5 DEF FilesInv, OneJob
  <2>2. jobs' = IF j.todo = {t} THEN {} ELSE {rest}
    BY <1>3, <2>1
  <2>3. OneJob'
    BY <1>1, <1>2, <2>1, <2>2 DEF OneJob
  <2>4. ASSUME NEW u \in Tunnels \ excused, u # t, file[u] # None, \A k \in jobs' : u \notin k.todo
        PROVE  Follows(file[u].ips)
    <3>1. \A k \in jobs : u \notin k.todo
      BY <1>2, <2>1, <2>2, <2>4
    <3> QED
      BY <1>1, <1>5, <2>4, <3>1 DEF FilesInv, FollowedUp
  <2> QED
    BY <2>1, <2>3, <2>4
<1>6. TablesHold => ManagedIs'
  BY <1>1 DEF FilesInv, ManagedIs
\* There is nothing to load, or it cannot be loaded.
<1>7. CASE held' = {} /\ (file[t] = None \/ t \in excused')
  <2>1. held' = {}
    BY <1>7
  <2>2. FilesShape' /\ OneHeld' /\ NetsKept' /\ (TablesHold => TablesKept')
    BY <1>1, <1>4, <2>1 DEF FilesInv, FilesShape, FilesTyped, OneHeld, TablesKept, NetsKept
  <2>3. FollowHold => FollowedUp'
    <3> SUFFICES ASSUME FollowHold, NEW u \in Tunnels \ excused', file[u] # None,
                        \A k \in jobs' : u \notin k.todo
                 PROVE  Follows(file[u].ips)
      BY <1>1, <2>1 DEF FollowedUp, Follows
    <3> QED
      BY <1>1, <1>5, <1>7
  <2> QED
    BY <1>5, <1>6, <2>2, <2>3 DEF FilesInv, TablesHold, FollowHold
<1>8. CASE /\ file[t] # None /\ excused' = excused
           /\ Configurations!Hold(t, Configurations!Modified(j, file[t].ips), file[t].tableOff)
  <2>1. PICK ips, off : ips = Configurations!Modified(j, file[t].ips) /\ off = file[t].tableOff
    OBVIOUS
  <2>2. /\ file[t].ips \in SUBSET Configurations!Nets /\ off \in BOOLEAN
        /\ KeptFrom(file[t].ips, wanted[t].ips, t \in stripped) /\ (t \in stripped) \in BOOLEAN
    BY <1>1, <1>8, <2>1 DEF FilesInv, FilesShape, FilesTyped, Configurations!Files, NetsKept
  <2>3. /\ KeptFrom(ips, wanted[t].ips, t \in stripped)
        /\ IF j.exclude THEN "v4all" \notin ips ELSE ~ ("low" \in ips /\ "high" \in ips)
    <3>1. CASE j.exclude
      <4>1. ips = Configurations!ExcludeLoopback(file[t].ips)
        BY <2>1, <3>1 DEF Configurations!Modified
      <4> QED
        BY <2>2, <3>1, <4>1, ExcludeIs
    <3>2. CASE ~ j.exclude
      <4>1. ips = Configurations!RestoreLoopback(file[t].ips)
        BY <2>1, <3>2 DEF Configurations!Modified
      <4> QED
        BY <2>2, <3>2, <4>1, RestoreIs
    <3> QED
      BY <3>1, <3>2
  <2>4. ips \in SUBSET Configurations!Nets /\ Configurations!Hold(t, ips, off)
    BY <1>8, <2>1, <2>3 DEF KeptFrom
  <2>5. /\ held' \subseteq [t : Tunnels, file : Configurations!Files]
        /\ \A h \in held' : /\ h.t = t /\ h.file.ips = ips /\ h.file.tableOff = off
                            /\ \A g \in held' : g = h
        /\ held' = {} => file[t].ips = ips
    BY <1>1, <1>8, <2>2, <2>4, HoldKeeps
  <2>6. OneHeld' /\ NetsKept'
    BY <1>1, <1>8, <2>2, <2>3, <2>4, <2>5, HeldKeeps
  <2>7. FilesShape' /\ (TablesHold => TablesKept')
    BY <1>1, <1>4, <1>8, <2>1, <2>5 DEF FilesInv, FilesShape, FilesTyped, TablesKept
  <2>8. ASSUME FollowHold PROVE FollowedUp'
    <3> SUFFICES ASSUME NEW u \in Tunnels \ excused, file[u] # None, \A k \in jobs' : u \notin k.todo
                 PROVE  /\ \A h \in held' : h.t = u => Follows(h.file.ips)
                        /\ (\A h \in held' : h.t # u) => Follows(file[u].ips)
      BY <1>1, <1>8 DEF FollowedUp, Follows
    <3>1. CASE u = t
      <4>1. Follows(ips)
        BY <1>5, <2>3, <2>8 DEF Follows
      <4> QED
        BY <2>5, <3>1, <4>1
    <3>2. CASE u # t
      BY <1>5, <2>5, <2>8, <3>2
    <3> QED
      BY <3>1, <3>2
  <2> QED
    BY <1>5, <1>6, <2>6, <2>7, <2>8 DEF FilesInv, TablesHold, FollowHold
<1> QED
  BY <1>1, <1>7, <1>8 DEF Configurations!UpdateTunnelConfig

LEMMA StartKeeps ==
  ASSUME FilesInv, "torn" \notin Disturbances, NEW t \in Tunnels, Configurations!Start(t)
  PROVE  FilesInv'
<1> DEFINE first == IF settings.excludeLoopback THEN Configurations!ExcludeLoopback(file[t].ips)
                    ELSE file[t].ips
           marked == [settings EXCEPT !.managed = t, !.original = file[t].tableOff]
<1>1. /\ held = {} /\ file[t] # None
      /\ settings' = Configurations!Prepared(t)
      /\ saved' \in {saved, settings'} /\ UNCHANGED <<file, unsaved, jobs, wanted, excused>>
      /\ stranded' = IF settings'.managed = settings.managed THEN stranded
                     ELSE stranded \cup ({settings.managed} \ {None})
      /\ stripped' = IF settings.disableIPv6 THEN stripped \cup {t} ELSE stripped
  BY DEF Configurations!Start, Configurations!MayWrite, Configurations!Saves
<1>2. /\ file[t].ips \in SUBSET Configurations!Nets /\ file[t].tableOff \in BOOLEAN
      /\ KeptFrom(file[t].ips, wanted[t].ips, t \in stripped) /\ (t \in stripped) \in BOOLEAN
  BY <1>1 DEF FilesInv, FilesShape, FilesTyped, Configurations!Files, NetsKept
<1>3. PICK ips, off : /\ ips = IF settings.disableIPv6 THEN Configurations!DisableIPv6(first) ELSE first
                      /\ off = (Configurations!Selected(t) \/ file[t].tableOff)
  OBVIOUS
<1>4. KeptFrom(first, wanted[t].ips, t \in stripped) /\ (settings.excludeLoopback => "v4all" \notin first)
  BY <1>2, ExcludeIs
\* The networks that are taken out are not of the default route.
<1>5. /\ ips \subseteq first /\ KeptFrom(ips, wanted[t].ips, t \in stripped')
      /\ first \in SUBSET Configurations!Nets
  <2>1. first \in SUBSET Configurations!Nets
    BY <1>4 DEF KeptFrom
  <2>2. CASE settings.disableIPv6
    <3>1. ips = Configurations!DisableIPv6(first) /\ (t \in stripped') = TRUE
      BY <1>1, <1>3, <2>2
    <3> HIDE DEF first
    <3>2. KeptFrom(ips, wanted[t].ips, TRUE) /\ ips \subseteq first
      BY <1>2, <1>4, <2>1, <3>1, DisableIs
    <3> QED
      BY <2>1, <3>1, <3>2
  <2>3. CASE ~ settings.disableIPv6
    BY <1>1, <1>3, <1>4, <2>1, <2>3
  <2> QED
    BY <2>2, <2>3
<1>6. ips \in SUBSET Configurations!Nets /\ off \in BOOLEAN /\ Configurations!Hold(t, ips, off)
  <2>1. off \in BOOLEAN
    BY <1>2, <1>3 DEF Configurations!Selected
  <2> QED
    BY <1>3, <1>5, <2>1 DEF Configurations!Start, KeptFrom
<1> HIDE DEF first
<1>7. /\ held' \subseteq [t : Tunnels, file : Configurations!Files]
      /\ \A h \in held' : /\ h.t = t /\ h.file.ips = ips /\ h.file.tableOff = off
                          /\ \A g \in held' : g = h
      /\ held' = {} => file[t].ips = ips
  BY <1>1, <1>6, HoldKeeps
\* A tunnel that is selected and not managed yet is managed from now on.
<1>8. /\ settings' \in Configurations!Settings /\ settings'.excludeLoopback = settings.excludeLoopback
      /\ IF Configurations!Selected(t) THEN settings'.managed = t ELSE settings' = settings
      /\ TablesHold => ManagedIs'
  <2>1. CASE Configurations!Selected(t) /\ settings.managed # t
    <3>1. settings' = marked /\ settings \in Configurations!Settings
      BY <1>1, <2>1 DEF Configurations!Prepared, FilesInv, FilesShape, FilesTyped
    <3>2. /\ settings' \in Configurations!Settings /\ settings'.managed = t
          /\ settings'.original = file[t].tableOff /\ settings'.excludeLoopback = settings.excludeLoopback
          /\ settings'.mode = settings.mode /\ settings'.routeTunnel = settings.routeTunnel
      BY <1>2, <3>1 DEF Configurations!Settings
    <3>3. TablesHold /\ t \notin stranded => file[t].tableOff = wanted[t].tableOff
      BY <1>1, <2>1 DEF FilesInv, TablesKept
    <3>4. TablesHold => ManagedIs'
      BY <1>1, <3>2, <3>3 DEF ManagedIs
    <3> QED
      BY <2>1, <3>2, <3>4
  <2>2. CASE ~ (Configurations!Selected(t) /\ settings.managed # t)
    <3>1. settings' = settings
      BY <1>1, <2>2 DEF Configurations!Prepared
    <3> QED
      BY <1>1, <2>2, <3>1 DEF FilesInv, FilesShape, FilesTyped, ManagedIs
  <2> QED
    BY <2>1, <2>2
<1>9. FilesShape'
  <2>1. stranded' \subseteq Tunnels
    BY <1>1 DEF FilesInv, FilesShape, FilesTyped, Configurations!Settings
  <2> QED
    BY <1>1, <1>7, <1>8, <2>1 DEF FilesInv, FilesShape, FilesTyped
<1>10. OneHeld' /\ NetsKept'
  <2>1. UNCHANGED <<file, wanted>> /\ stripped \subseteq stripped'
    BY <1>1
  <2>2. ips \in SUBSET Configurations!Nets /\ off \in BOOLEAN /\ held = {} /\ file[t] # None
    BY <1>1, <1>6
  <2> HIDE DEF marked
  <2> QED
    BY <1>5, <1>7, <2>1, <2>2, HeldKeeps
<1>11. ASSUME TablesHold PROVE TablesKept'
  <2> SUFFICES ASSUME NEW u \in Tunnels \ stranded', u # settings'.managed
               PROVE  /\ file[u] # None => file[u].tableOff = wanted[u].tableOff
                      /\ \A h \in held' : h.t = u => h.file.tableOff = wanted[u].tableOff
    BY <1>1 DEF TablesKept
  <2>1. u # settings.managed /\ u \notin stranded
    BY <1>1, FilesConstants
  <2>2. file[u] # None => file[u].tableOff = wanted[u].tableOff
    BY <1>11, <2>1 DEF FilesInv, TablesKept
  <2>3. ASSUME NEW h \in held', h.t = u PROVE h.file.tableOff = wanted[u].tableOff
    <3>1. u = t /\ h.file.tableOff = off
      BY <1>7, <2>3
    <3>2. ~ Configurations!Selected(t)
      BY <1>8, <3>1
    <3> QED
      BY <1>1, <1>2, <1>3, <2>2, <3>1, <3>2
  <2> QED
    BY <2>2, <2>3
<1>12. ASSUME FollowHold PROVE OneJob' /\ FollowedUp'
  <2> OneJob'
    BY <1>1, <1>8, <1>12 DEF FilesInv, OneJob
  <2> SUFFICES ASSUME NEW u \in Tunnels \ excused, file[u] # None, \A k \in jobs : u \notin k.todo
               PROVE  /\ \A h \in held' : h.t = u => Follows(h.file.ips)
                      /\ (\A h \in held' : h.t # u) => Follows(file[u].ips)
    BY <1>1, <1>8 DEF FollowedUp, Follows
  <2>1. Follows(file[u].ips)
    BY <1>1, <1>12 DEF FilesInv, FollowedUp
  <2>2. ASSUME NEW h \in held', h.t = u PROVE Follows(h.file.ips)
    <3>1. u = t /\ h.file.ips = ips
      BY <1>7, <2>2
    <3>2. Follows(first)
      BY <1>4, <2>1, <3>1 DEF Follows, first
    <3> QED
      BY <1>5, <3>1, <3>2 DEF Follows
  <2> QED
    BY <2>1, <2>2
<1> QED
  BY <1>8, <1>9, <1>10, <1>11, <1>12 DEF FilesInv, TablesHold, FollowHold

LEMMA SaveKeeps ==
  ASSUME FilesInv, NEW h \in held, Configurations!Save(h)
  PROVE  FilesInv'
<1>1. /\ held' = {} /\ h \in [t : Tunnels, file : Configurations!Files] /\ file[h.t] # None
      /\ \A g \in held : g = h
  BY DEF Configurations!Save, FilesInv, FilesShape, OneHeld
<1>2. PICK t \in Tunnels, f \in Configurations!Files : h.t = t /\ h.file = f
  BY <1>1
<1>3. /\ file \in [Tunnels -> Configurations!Files \cup {None}]
      /\ UNCHANGED <<settings, saved, unsaved, jobs, stripped, stranded, wanted>>
      /\ \/ file' = [file EXCEPT ![t] = f] /\ excused' = excused
         \/ file' = file /\ excused' = excused \cup {t}
  BY <1>2 DEF Configurations!Save, Configurations!settings, Configurations!user, FilesInv, FilesShape, FilesTyped
\* The save fails.
<1>4. CASE file' = file /\ excused' = excused \cup {t}
  <2>1. FilesShape' /\ OneHeld' /\ NetsKept'
    BY <1>1, <1>3, <1>4 DEF FilesInv, FilesShape, FilesTyped, OneHeld, NetsKept
  <2>2. TablesHold => ManagedIs' /\ TablesKept'
    BY <1>1, <1>3, <1>4 DEF FilesInv, ManagedIs, TablesKept
  <2>3. ASSUME FollowHold PROVE OneJob' /\ FollowedUp'
    <3>1. OneJob'
      BY <1>3, <2>3 DEF FilesInv, OneJob
    <3> SUFFICES ASSUME NEW u \in Tunnels \ excused', file[u] # None, \A k \in jobs : u \notin k.todo
                 PROVE  Follows(file[u].ips)
      BY <1>1, <1>3, <1>4, <3>1 DEF FollowedUp, Follows
    <3>2. u \in Tunnels \ excused /\ \A g \in held : g.t # u
      BY <1>1, <1>2, <1>4
    <3> QED
      BY <2>3, <3>2 DEF FilesInv, FollowedUp
  <2> QED
    BY <2>1, <2>2, <2>3 DEF FilesInv, TablesHold, FollowHold
<1>5. CASE file' = [file EXCEPT ![t] = f] /\ excused' = excused
  <2>1. /\ file' \in [Tunnels -> Configurations!Files \cup {None}]
        /\ file'[t] = f /\ f # None /\ \A u \in Tunnels : u # t => file'[u] = file[u]
    BY <1>3, <1>5, FilesConstants
  <2>2. FilesShape' /\ OneHeld' /\ NetsKept'
    BY <1>1, <1>2, <1>3, <1>5, <2>1 DEF FilesInv, FilesShape, FilesTyped, OneHeld, NetsKept
  <2>3. TablesHold => ManagedIs'
    BY <1>1, <1>2, <1>3, <1>5, <2>1 DEF FilesInv, ManagedIs, FilesShape, FilesTyped, Configurations!Settings
  <2>4. TablesHold => TablesKept'
    BY <1>1, <1>2, <1>3, <1>5, <2>1 DEF FilesInv, TablesKept
  <2>5. ASSUME FollowHold PROVE OneJob' /\ FollowedUp'
    <3> OneJob'
      BY <1>3, <2>5 DEF FilesInv, OneJob
    <3> SUFFICES ASSUME NEW u \in Tunnels \ excused, file'[u] # None, \A k \in jobs : u \notin k.todo
                 PROVE  Follows(file'[u].ips)
      BY <1>1, <1>3, <1>5 DEF FollowedUp, Follows
    <3>1. file[u] # None
      BY <1>1, <1>2, <2>1
    <3>2. CASE u = t
      BY <1>2, <2>1, <2>5, <3>1, <3>2 DEF FilesInv, FollowedUp
    <3>3. CASE u # t
      <4>1. \A g \in held : g.t # u
        BY <1>1, <1>2, <3>3
      <4> QED
        BY <2>1, <2>5, <3>1, <3>3, <4>1 DEF FilesInv, FollowedUp
    <3> QED
      BY <3>2, <3>3
  <2> QED
    BY <2>2, <2>3, <2>4, <2>5 DEF FilesInv, TablesHold, FollowHold
<1> QED
  BY <1>3, <1>4, <1>5

\* What a user writes in one file, which has the mark that the manager set or the
\* table that the user wants.
LEMMA EditedKeeps ==
  ASSUME FilesInv, NEW t \in Tunnels, NEW S \in Inputs, held = {}, held' = {},
         UNCHANGED <<settings, saved, unsaved, jobs>>,
         excused' = excused \cup {t}, stripped' = stripped \ {t},
         stranded' = IF settings.managed = t THEN stranded ELSE stranded \ {t},
         file' \in [Tunnels -> Configurations!Files \cup {None}], file'[t] # None, file'[t].ips = S,
         wanted' \in [Tunnels -> Written], wanted'[t].ips = S,
         \A u \in Tunnels : u # t => file'[u] = file[u] /\ wanted'[u] = wanted[u],
         TablesHold =>
           /\ settings.managed = t /\ t \notin stranded => wanted'[t].tableOff = wanted[t].tableOff
           /\ t # settings.managed => file'[t].tableOff = wanted'[t].tableOff
  PROVE  FilesInv'
<1>1. FilesShape'
  BY DEF FilesInv, FilesShape, FilesTyped
<1>2. OneHeld' /\ (FollowHold => OneJob')
  BY DEF FilesInv, OneHeld, OneJob
<1>3. ASSUME TablesHold PROVE ManagedIs'
  <2> SUFFICES ASSUME settings.managed \notin stranded' \cup {None}
               PROVE  /\ file'[settings.managed] # None
                      /\ settings.original = wanted'[settings.managed].tableOff
    BY DEF ManagedIs
  <2>1. settings.managed \in Tunnels /\ settings.managed \notin stranded
    BY DEF FilesInv, FilesShape, FilesTyped, Configurations!Settings
  <2>2. file[settings.managed] # None /\ settings.original = wanted[settings.managed].tableOff
    BY <1>3, <2>1 DEF FilesInv, ManagedIs
  <2>3. CASE settings.managed = t
    BY <1>3, <2>1, <2>2, <2>3
  <2>4. CASE settings.managed # t
    BY <2>1, <2>2, <2>4
  <2> QED
    BY <2>3, <2>4
<1>4. ASSUME TablesHold PROVE TablesKept'
  <2> SUFFICES ASSUME NEW u \in Tunnels \ stranded', u # settings.managed, file'[u] # None
               PROVE  file'[u].tableOff = wanted'[u].tableOff
    BY DEF TablesKept
  <2>1. CASE u = t
    BY <1>4, <2>1
  <2>2. CASE u # t
    BY <1>4, <2>2 DEF FilesInv, TablesKept
  <2> QED
    BY <2>1, <2>2
<1>5. NetsKept'
  <2> SUFFICES ASSUME NEW u \in Tunnels, file'[u] # None
               PROVE  KeptFrom(file'[u].ips, wanted'[u].ips, u \in stripped')
    BY DEF NetsKept
  <2>1. CASE u = t
    <3>1. (t \in stripped') = FALSE
      OBVIOUS
    <3> QED
      BY <2>1, <3>1, InputsAreNets
  <2>2. CASE u # t
    <3>1. (u \in stripped') = (u \in stripped)
      BY <2>2
    <3> QED
      BY <2>2, <3>1 DEF FilesInv, NetsKept
  <2> QED
    BY <2>1, <2>2
<1>6. ASSUME FollowHold PROVE FollowedUp'
  <2> SUFFICES ASSUME NEW u \in Tunnels \ excused', file'[u] # None, \A k \in jobs : u \notin k.todo
               PROVE  Follows(file'[u].ips)
    BY DEF FollowedUp, Follows
  <2>1. u # t /\ u \in Tunnels \ excused /\ file'[u] = file[u]
    OBVIOUS
  <2> QED
    BY <1>6, <2>1 DEF FilesInv, FollowedUp
<1> QED
  BY <1>1, <1>2, <1>3, <1>4, <1>5, <1>6 DEF FilesInv, TablesHold, FollowHold

LEMMA EditKeeps ==
  ASSUME FilesInv, "torn" \notin Disturbances, NEW t \in Tunnels, NEW S \in Inputs,
         Configurations!Edit(t, S)
  PROVE  FilesInv'
<1>1. /\ held = {} /\ held' = {} /\ UNCHANGED <<settings, saved, unsaved, jobs>>
      /\ excused' = excused \cup {t} /\ stripped' = stripped \ {t}
      /\ stranded' = IF settings.managed = t THEN stranded ELSE stranded \ {t}
      /\ file \in [Tunnels -> Configurations!Files \cup {None}] /\ wanted \in [Tunnels -> Written]
  BY DEF Configurations!Edit, Configurations!MayWrite, FilesInv, FilesShape, FilesTyped, Configurations!settings
<1>2. CASE settings.managed = t /\ file[t] # None
  <2> DEFINE f == [ips |-> S, tableOff |-> file[t].tableOff]
  <2>1. /\ file' = [file EXCEPT ![t] = f]
        /\ wanted' = [wanted EXCEPT ![t].ips = S, ![t].tableOff = @]
    BY <1>2 DEF Configurations!Edit
  <2>2. f \in Configurations!Files /\ f # None /\ f.ips = S
    <3>1. file[t] \in Configurations!Files
      BY <1>1, <1>2
    <3>2. S \subseteq Configurations!Nets
      BY InputsAreNets
    <3>3. f \in Configurations!Files
      BY <3>1, <3>2 DEF Configurations!Files
    <3> QED
      BY <3>3, FilesConstants
  <2> HIDE DEF f
  <2>3. /\ file' \in [Tunnels -> Configurations!Files \cup {None}] /\ file'[t] = f
        /\ \A u \in Tunnels : u # t => file'[u] = file[u]
    BY <1>1, <2>1, <2>2
  <2>4. /\ wanted' \in [Tunnels -> Written]
        /\ wanted'[t].ips = S /\ wanted'[t].tableOff = wanted[t].tableOff
        /\ \A u \in Tunnels : u # t => wanted'[u] = wanted[u]
    BY <1>1, <2>1 DEF Written
  <2>5. /\ file'[t] # None /\ settings.managed = t /\ file'[t].ips = S
        /\ wanted'[t].tableOff = wanted[t].tableOff
    BY <1>2, <2>2, <2>3, <2>4
  <2> QED
    BY <1>1, <2>3, <2>4, <2>5, EditedKeeps
<1>3. CASE ~ (settings.managed = t /\ file[t] # None)
  <2>1. PICK b \in BOOLEAN : file' = [file EXCEPT ![t] = [ips |-> S, tableOff |-> b]]
    BY <1>3 DEF Configurations!Edit
  <2> DEFINE f == [ips |-> S, tableOff |-> b]
  <2>2. f \in Configurations!Files /\ f # None /\ f.ips = S /\ f.tableOff = b
    <3>1. S \subseteq Configurations!Nets
      BY InputsAreNets
    <3>2. f \in Configurations!Files
      BY <3>1 DEF Configurations!Files
    <3> QED
      BY <3>2, FilesConstants
  <2>3. file' = [file EXCEPT ![t] = f]
    BY <2>1
  <2> HIDE DEF f
  <2>4. /\ file' \in [Tunnels -> Configurations!Files \cup {None}] /\ file'[t] = f
        /\ \A u \in Tunnels : u # t => file'[u] = file[u]
    BY <1>1, <2>2, <2>3
  <2>5. wanted' = [wanted EXCEPT ![t].ips = S, ![t].tableOff = file'[t].tableOff]
    BY <1>3 DEF Configurations!Edit
  <2>6. /\ wanted' \in [Tunnels -> Written]
        /\ wanted'[t].ips = S /\ wanted'[t].tableOff = b
        /\ \A u \in Tunnels : u # t => wanted'[u] = wanted[u]
    BY <1>1, <2>2, <2>4, <2>5 DEF Written
  <2>7. TablesHold => settings.managed # t \/ t \in stranded
    <3>1. t # None
      BY FilesConstants
    <3> QED
      BY <1>3, <3>1 DEF FilesInv, ManagedIs
  <2>8. /\ file'[t] # None /\ file'[t].ips = S /\ file'[t].tableOff = wanted'[t].tableOff
    BY <2>2, <2>4, <2>6
  <2> QED
    BY <1>1, <2>4, <2>6, <2>7, <2>8, EditedKeeps
<1> QED
  BY <1>2, <1>3

\* The managed tunnel is deleted only where nothing is said of tables.
LEMMA DeleteKeeps ==
  ASSUME FilesInv, "torn" \notin Disturbances, NEW t \in Tunnels, Configurations!Delete(t)
  PROVE  FilesInv'
<1>1. /\ held = {}
      /\ TablesHold => t # settings.managed
      /\ file' = [file EXCEPT ![t] = None]
      /\ UNCHANGED <<settings, saved, unsaved, jobs, held, wanted, excused, stripped, stranded>>
  BY DEF Configurations!Delete, Configurations!MayWrite, Configurations!settings, TablesHold
<1>2. file \in [Tunnels -> Configurations!Files \cup {None}]
  BY DEF FilesInv, FilesShape, FilesTyped
<1>3. /\ file' \in [Tunnels -> Configurations!Files \cup {None}]
      /\ file'[t] = None /\ \A u \in Tunnels : u # t => file'[u] = file[u]
  BY <1>1, <1>2
<1>4. FilesShape' /\ OneHeld' /\ NetsKept'
  BY <1>1, <1>3 DEF FilesInv, FilesShape, FilesTyped, OneHeld, NetsKept
<1>5. TablesHold => ManagedIs' /\ TablesKept'
  BY <1>1, <1>3 DEF FilesInv, FilesShape, FilesTyped, ManagedIs, TablesKept, Configurations!Settings
<1>6. FollowHold => OneJob' /\ FollowedUp'
  BY <1>1, <1>3 DEF FilesInv, OneJob, FollowedUp, Follows
<1> QED
  BY <1>4, <1>5, <1>6 DEF FilesInv, TablesHold, FollowHold

\* A restart finds the settings as they were saved and nothing held.  If others are in
\* force, what they say of tables and of loopback is not relied on.
LEMMA RestartKeeps ==
  ASSUME FilesInv, Configurations!Restart
  PROVE  FilesInv'
<1>1. /\ settings' = saved /\ unsaved' = FALSE /\ jobs' = {} /\ held' = {}
      /\ UNCHANGED <<file, saved, wanted, stripped>>
      /\ stranded' = IF saved.managed = settings.managed /\ saved.original = settings.original THEN stranded
                     ELSE stranded \cup ({saved.managed, settings.managed} \ {None})
      /\ excused' = IF saved.excludeLoopback = settings.excludeLoopback THEN excused ELSE Tunnels
  BY DEF Configurations!Restart
<1>2. stranded' \subseteq Tunnels /\ excused' \subseteq Tunnels
  BY <1>1 DEF FilesInv, FilesShape, FilesTyped, Configurations!Settings
<1>3. FilesShape' /\ OneHeld' /\ NetsKept'
  BY <1>1, <1>2 DEF FilesInv, FilesShape, FilesTyped, OneHeld, NetsKept
<1>4. ASSUME TablesHold PROVE ManagedIs' /\ TablesKept'
  <2>1. CASE saved.managed = settings.managed /\ saved.original = settings.original
    BY <1>1, <1>4, <2>1 DEF FilesInv, ManagedIs, TablesKept
  <2>2. CASE ~ (saved.managed = settings.managed /\ saved.original = settings.original)
    <3>1. /\ saved.managed \in stranded' \cup {None}
          /\ \A t \in Tunnels \ stranded' : t \notin stranded /\ t # settings.managed
      BY <1>1, <2>2, FilesConstants
    <3> QED
      BY <1>1, <1>4, <3>1 DEF FilesInv, ManagedIs, TablesKept
  <2> QED
    BY <2>1, <2>2
<1>5. ASSUME FollowHold PROVE OneJob' /\ FollowedUp'
  <2>1. jobs = {} /\ held = {}
    BY <1>5 DEF Configurations!Restart, FollowHold
  <2>2. OneJob'
    BY <1>1 DEF OneJob
  <2>3. CASE saved.excludeLoopback = settings.excludeLoopback
    BY <1>1, <1>5, <2>1, <2>2, <2>3 DEF FilesInv, FollowedUp, Follows
  <2>4. CASE saved.excludeLoopback # settings.excludeLoopback
    BY <1>1, <2>2, <2>4 DEF FollowedUp
  <2> QED
    BY <2>3, <2>4
<1> QED
  BY <1>3, <1>4, <1>5 DEF FilesInv, TablesHold, FollowHold

\* The settings that are not about what is selected.
LEMMA OtherSettingsKeep ==
  ASSUME FilesInv,
         settings'.mode = settings.mode, settings'.routeTunnel = settings.routeTunnel,
         settings'.managed = settings.managed, settings'.original = settings.original,
         UNCHANGED <<file, held, wanted, stripped, stranded>>
  PROVE  OneHeld' /\ NetsKept' /\ (TablesHold => ManagedIs' /\ TablesKept')
BY DEF FilesInv, OneHeld, ManagedIs, TablesKept, NetsKept

LEMMA SetDisableIPv6Keeps ==
  ASSUME FilesInv, Configurations!SetDisableIPv6
  PROVE  FilesInv'
<1>1. /\ settings' = [settings EXCEPT !.disableIPv6 = ~ @] /\ saved' \in {saved, settings'}
      /\ settings \in Configurations!Settings
      /\ UNCHANGED <<file, unsaved, jobs, held, wanted, excused, stripped, stranded>>
  BY DEF Configurations!SetDisableIPv6, Configurations!Saves, FilesInv, FilesShape, FilesTyped
<1>2. /\ settings' \in Configurations!Settings
      /\ settings'.mode = settings.mode /\ settings'.routeTunnel = settings.routeTunnel
      /\ settings'.managed = settings.managed /\ settings'.original = settings.original
      /\ settings'.excludeLoopback = settings.excludeLoopback
  BY <1>1 DEF Configurations!Settings
<1>3. FilesShape'
  BY <1>1, <1>2 DEF FilesInv, FilesShape, FilesTyped
<1>4. FollowHold => OneJob' /\ FollowedUp'
  BY <1>1, <1>2 DEF FilesInv, OneJob, FollowedUp, Follows
<1>5. OneHeld' /\ NetsKept' /\ (TablesHold => ManagedIs' /\ TablesKept')
  BY <1>1, <1>2, OtherSettingsKeep
<1> QED
  BY <1>3, <1>4, <1>5 DEF FilesInv, TablesHold, FollowHold

\* The goroutine has all the files to go through.
LEMMA SetExcludeLoopbackKeeps ==
  ASSUME FilesInv, Configurations!SetExcludeLoopback
  PROVE  FilesInv'
<1>1. PICK todo : todo = {t \in Tunnels : file[t] # None}
  OBVIOUS
<1>2. PICK j : j = [exclude |-> settings'.excludeLoopback, todo |-> todo]
  OBVIOUS
<1>3. /\ settings' = [settings EXCEPT !.excludeLoopback = ~ @] /\ saved' \in {saved, settings'}
      /\ settings \in Configurations!Settings
      /\ \/ excused' = {} /\ jobs' = IF todo = {} THEN jobs ELSE jobs \cup {j}
         \/ excused' = Tunnels /\ jobs' = jobs
      /\ UNCHANGED <<file, unsaved, held, wanted, stripped, stranded>>
  BY <1>1, <1>2 DEF Configurations!SetExcludeLoopback, FilesInv, FilesShape, FilesTyped
<1>4. /\ settings' \in Configurations!Settings
      /\ settings'.mode = settings.mode /\ settings'.routeTunnel = settings.routeTunnel
      /\ settings'.managed = settings.managed /\ settings'.original = settings.original
      /\ settings'.excludeLoopback \in BOOLEAN
  BY <1>3 DEF Configurations!Settings
<1>5. /\ j \in [exclude : BOOLEAN, todo : SUBSET Tunnels]
      /\ j.exclude = settings'.excludeLoopback /\ j.todo = todo
  BY <1>1, <1>2, <1>4
<1>6. FilesShape'
  BY <1>3, <1>4, <1>5 DEF FilesInv, FilesShape, FilesTyped
<1>7. ASSUME FollowHold PROVE OneJob' /\ FollowedUp'
  <2>1. jobs = {}
    BY <1>7 DEF Configurations!SetExcludeLoopback, FollowHold
  <2>2. OneJob'
    BY <1>3, <1>5, <2>1 DEF OneJob
  <2>3. FollowedUp'
    BY <1>1, <1>3, <1>5, <2>1 DEF FollowedUp
  <2> QED
    BY <2>2, <2>3
<1>8. OneHeld' /\ NetsKept' /\ (TablesHold => ManagedIs' /\ TablesKept')
  BY <1>3, <1>4, OtherSettingsKeep
<1> QED
  BY <1>6, <1>7, <1>8 DEF FilesInv, TablesHold, FollowHold

LEMMA FilesNext ==
  ASSUME FilesInv, "torn" \notin Disturbances, Configurations!Next
  PROVE  FilesInv'
<1>1. settings \in Configurations!Settings
  BY DEF FilesInv, FilesShape, FilesTyped
<1>2. ASSUME NEW m \in {"off", "on"}, Configurations!SetMode(m) PROVE FilesInv'
  <2>1. PICK c : c = [settings EXCEPT !.mode = m]
    OBVIOUS
  <2>2. /\ c \in Configurations!Settings /\ c.managed = settings.managed
        /\ c.original = settings.original /\ c.excludeLoopback = settings.excludeLoopback
    BY <1>1, <2>1 DEF Configurations!Settings
  <2>3. Configurations!SetAndSync(c)
    BY <1>2, <2>1 DEF Configurations!SetMode
  <2> QED
    BY <2>2, <2>3, SetAndSyncKeeps
<1>3. ASSUME NEW t \in Tunnels \cup {None}, Configurations!SetDNSSettings(t) PROVE FilesInv'
  <2>1. PICK c : c = [settings EXCEPT !.routeTunnel = t]
    OBVIOUS
  <2>2. /\ c \in Configurations!Settings /\ c.managed = settings.managed
        /\ c.original = settings.original /\ c.excludeLoopback = settings.excludeLoopback
    BY <1>1, <2>1 DEF Configurations!Settings
  <2>3. Configurations!SetAndSync(c)
    BY <1>3, <2>1 DEF Configurations!SetDNSSettings
  <2> QED
    BY <2>2, <2>3, SetAndSyncKeeps
<1>4. CASE Configurations!SaveConfig
  <2>1. /\ saved' \in {saved, settings} /\ unsaved' = FALSE
        /\ UNCHANGED <<file, settings, jobs, held, wanted, excused, stripped, stranded>>
    BY <1>4 DEF Configurations!SaveConfig, Configurations!Saves, Configurations!user
  <2>2. FilesShape'
    BY <2>1 DEF FilesInv, FilesShape, FilesTyped
  <2>3. OneHeld' /\ NetsKept' /\ (TablesHold => ManagedIs' /\ TablesKept')
    BY <2>1, OtherSettingsKeep
  <2>4. FollowHold => OneJob' /\ FollowedUp'
    BY <2>1 DEF FilesInv, OneJob, FollowedUp, Follows
  <2> QED
    BY <2>2, <2>3, <2>4 DEF FilesInv, TablesHold, FollowHold
<1> QED
  BY <1>2, <1>3, <1>4, SetExcludeLoopbackKeeps, SetDisableIPv6Keeps, UpdateKeepsFiles, StartKeeps,
     SaveKeeps, EditKeeps, DeleteKeeps, RestartKeeps
     DEF Configurations!Next

LEMMA FilesKept == "torn" \notin Disturbances /\ FilesInv /\ [Next]_vars => FilesInv'
<1> SUFFICES ASSUME "torn" \notin Disturbances, FilesInv, [Next]_vars PROVE FilesInv'
  OBVIOUS
<1>1. CASE UNCHANGED filesVars
  BY <1>1, FilesSame
<1>2. CASE Configurations!Next
  BY <1>2, FilesNext
<1> QED
  BY <1>1, <1>2 DEF Next, InPeers, InFiles, InRules, vars

\* Whatever is selected and in whatever order, however the starts of tunnels, the saves
\* of their files, the user's edits and the manager's restarts mix, and whichever loads
\* and saves fail: a tunnel that is not managed has the table its user gave it
\* (syncManagedRouteTunnelLocked, restoreTunnelTableOff), with any number of goroutines
\* of updateAllTunnelConfigs at a time, unless the settings have lost track of its mark.
\* A file that changes between a load and its save breaks it, and so does the deletion
\* of the managed tunnel.
THEOREM TablesComeBack ==
  ASSUME Disturbances \cap {"torn", "delete"} = {}
  PROVE  Spec => []TableOffComesBack
<1>1. Init => FilesInv
  BY FilesInit DEF Init
<1>2. FilesInv => TableOffComesBack
  BY DEF FilesInv, TablesHold, TablesKept, TableOffComesBack, Configurations!TableOffComesBack
<1>3. FilesInv /\ [Next]_vars => FilesInv'
  BY FilesKept
<1> QED
  BY <1>1, <1>2, <1>3, PTL DEF Spec

\* Without a fault: no mark is lost track of, what a restart finds is what is in force,
\* and what is managed is what is selected.
Tracked ==
  /\ stranded = {}
  /\ ~ unsaved => saved = settings
  /\ settings.managed # None => settings.mode # "off" /\ settings.managed = settings.routeTunnel

LEMMA SyncTracks ==
  ASSUME FilesInv, Disturbances \subseteq {"overlap"}, Tracked, NEW c \in Configurations!Settings,
         c.managed = settings.managed, Configurations!Sync(c)
  PROVE  settings'.managed # None =>
           settings'.mode # "off" /\ settings'.managed = settings'.routeTunnel
<1>1. /\ ~ Configurations!FileFails /\ None \notin Tunnels /\ file \in Stored
      /\ c.managed # None => file[c.managed] # None
  BY FilesConstants
     DEF Tracked, FilesInv, FilesShape, FilesTyped, TablesHold, ManagedIs, Configurations!FileFails, Stored
<1>2. ASSUME NEW d \in Configurations!Settings, NEW f \in Stored, d.managed \in {None, Configurations!Target(d)},
             Configurations!Mark(d, f)
      PROVE  settings'.managed # None =>
               settings'.mode # "off" /\ settings'.managed = settings'.routeTunnel
  <2>1. settings'.managed \in {None, Configurations!Target(d)}
    BY <1>2, MarkIs
  <2>2. settings'.mode = d.mode /\ settings'.routeTunnel = d.routeTunnel
    BY <1>2, MarkIs
  <2> QED
    BY <2>1, <2>2 DEF Configurations!Target
<1>3. CASE c.managed \in {None, Configurations!Target(c)} /\ Configurations!Mark(c, file)
  BY <1>1, <1>2, <1>3
<1>4. CASE /\ c.managed # None
           /\ Configurations!Mark([c EXCEPT !.managed = None, !.original = FALSE],
                                  Configurations!TableOff(file, c.managed, c.original))
  <2>1. PICK r, g : /\ r = [c EXCEPT !.managed = None, !.original = FALSE]
                    /\ g = Configurations!TableOff(file, c.managed, c.original)
    OBVIOUS
  <2>2. r \in Configurations!Settings /\ r.managed = None /\ g \in Stored
    BY <1>1, <1>4, <2>1, RestoredIs DEF FilesInv, FilesShape
  <2>3. Configurations!Mark(r, g)
    BY <1>4, <2>1
  <2> QED
    BY <1>2, <2>2, <2>3
<1> QED
  BY <1>1, <1>3, <1>4 DEF Configurations!Sync

LEMMA TrackedNext ==
  ASSUME FilesInv, Disturbances \subseteq {"overlap"}, Tracked, Configurations!Next
  PROVE  Tracked'
<1>1. /\ settings \in Configurations!Settings /\ None \notin Tunnels
      /\ "saveFails" \notin Disturbances /\ "crash" \notin Disturbances
      /\ \A c : Configurations!Saves(c) => saved' = c
  BY FilesConstants DEF FilesInv, FilesShape, FilesTyped, Configurations!Saves
<1>2. ASSUME NEW c \in Configurations!Settings, c.managed = settings.managed, Configurations!SetAndSync(c)
      PROVE  Tracked'
  <2>1. Configurations!Sync(c) /\ unsaved' = TRUE /\ stranded' = stranded
    BY <1>2 DEF Configurations!SetAndSync
  <2> QED
    BY <1>2, <2>1, SyncTracks DEF Tracked
<1>3. ASSUME NEW m \in {"off", "on"}, Configurations!SetMode(m) PROVE Tracked'
  <2>1. PICK c : c = [settings EXCEPT !.mode = m]
    OBVIOUS
  <2>2. c \in Configurations!Settings /\ c.managed = settings.managed
    BY <1>1, <2>1 DEF Configurations!Settings
  <2> QED
    BY <1>2, <1>3, <2>1, <2>2 DEF Configurations!SetMode
<1>4. ASSUME NEW t \in Tunnels \cup {None}, Configurations!SetDNSSettings(t) PROVE Tracked'
  <2>1. PICK c : c = [settings EXCEPT !.routeTunnel = t]
    OBVIOUS
  <2>2. c \in Configurations!Settings /\ c.managed = settings.managed
    BY <1>1, <2>1 DEF Configurations!Settings
  <2> QED
    BY <1>2, <1>4, <2>1, <2>2 DEF Configurations!SetDNSSettings
<1>5. CASE Configurations!SaveConfig
  BY <1>1, <1>5 DEF Configurations!SaveConfig, Tracked
\* The settings that are not about what is selected.
<1>6. ASSUME settings'.mode = settings.mode, settings'.routeTunnel = settings.routeTunnel,
             settings'.managed = settings.managed, saved' = settings', stranded' = stranded
      PROVE  Tracked'
  BY <1>6 DEF Tracked
<1>7. CASE Configurations!SetExcludeLoopback
  <2>1. settings' = [settings EXCEPT !.excludeLoopback = ~ @] /\ saved' = settings' /\ stranded' = stranded
    BY <1>1, <1>7 DEF Configurations!SetExcludeLoopback
  <2>2. /\ settings'.mode = settings.mode /\ settings'.routeTunnel = settings.routeTunnel
        /\ settings'.managed = settings.managed
    BY <1>1, <2>1 DEF Configurations!Settings
  <2> QED
    BY <1>6, <2>1, <2>2
<1>8. CASE Configurations!SetDisableIPv6
  <2>1. settings' = [settings EXCEPT !.disableIPv6 = ~ @] /\ saved' = settings' /\ stranded' = stranded
    BY <1>1, <1>8 DEF Configurations!SetDisableIPv6
  <2>2. /\ settings'.mode = settings.mode /\ settings'.routeTunnel = settings.routeTunnel
        /\ settings'.managed = settings.managed
    BY <1>1, <2>1 DEF Configurations!Settings
  <2> QED
    BY <1>6, <2>1, <2>2
\* What is recorded by a start is recorded over nothing.
<1>9. ASSUME NEW t \in Tunnels, Configurations!Start(t) PROVE Tracked'
  <2>1. /\ settings' = Configurations!Prepared(t) /\ ~ unsaved /\ unsaved' = unsaved
        /\ saved' = settings'
        /\ stranded' = IF settings'.managed = settings.managed THEN stranded
                       ELSE stranded \cup ({settings.managed} \ {None})
    BY <1>1, <1>9 DEF Configurations!Start, Tracked
  <2>2. CASE settings' = settings
    BY <2>1, <2>2 DEF Tracked
  <2>3. CASE Configurations!Selected(t) /\ settings.managed # t
    <3>1. settings.mode # "off" /\ settings.routeTunnel = t /\ settings.managed = None
      BY <2>3 DEF Configurations!Selected, Tracked
    <3>2. PICK b : b = file[t].tableOff
      OBVIOUS
    <3>3. settings' = [settings EXCEPT !.managed = t, !.original = b]
      BY <2>1, <2>3, <3>2 DEF Configurations!Prepared
    <3>4. /\ settings'.mode = settings.mode /\ settings'.routeTunnel = settings.routeTunnel
          /\ settings'.managed = t
      BY <1>1, <3>3 DEF Configurations!Settings
    <3> QED
      BY <1>1, <2>1, <3>1, <3>4 DEF Tracked
  <2> QED
    BY <2>1, <2>2, <2>3 DEF Configurations!Prepared
<1>10. ASSUME NEW t \in Tunnels, NEW S \in Inputs, Configurations!Edit(t, S) PROVE Tracked'
  BY <1>10 DEF Configurations!Edit, Configurations!settings, Tracked
<1>11. CASE Configurations!Restart
  BY <1>1, <1>11 DEF Configurations!Restart, Tracked
<1>12. ASSUME UNCHANGED <<settings, saved, unsaved, stranded>> PROVE Tracked'
  BY <1>12 DEF Tracked
<1>13. ASSUME NEW j \in jobs, NEW t \in j.todo, Configurations!UpdateTunnelConfig(j, t) PROVE Tracked'
  BY <1>12, <1>13 DEF Configurations!UpdateTunnelConfig, Configurations!settings
<1>14. ASSUME NEW h \in held, Configurations!Save(h) PROVE Tracked'
  BY <1>12, <1>14 DEF Configurations!Save, Configurations!settings
<1>15. ASSUME NEW t \in Tunnels, Configurations!Delete(t) PROVE Tracked'
  BY <1>12, <1>15 DEF Configurations!Delete, Configurations!settings
<1> QED
  BY <1>3, <1>4, <1>5, <1>7, <1>8, <1>9, <1>10, <1>11, <1>13, <1>14, <1>15 DEF Configurations!Next

\* While no load or save fails, nobody deletes the selected tunnel and no restart is in the
\* middle of an operation, the settings lose track of no mark: a start never records
\* the selected tunnel over another one (PrepareTunnelConfigForStart).
THEOREM NoneIsStranded ==
  ASSUME Disturbances \subseteq {"overlap"}
  PROVE  Spec => [](stranded = {})
<1>1. Init => FilesInv /\ Tracked
  BY FilesInit DEF Init, Tracked, Configurations!Init, Configurations!Defaults
<1>2. FilesInv /\ Tracked => stranded = {}
  BY DEF Tracked
<1>3. FilesInv /\ Tracked /\ [Next]_vars => FilesInv' /\ Tracked'
  <2> SUFFICES ASSUME FilesInv, Tracked, [Next]_vars PROVE Tracked'
    BY FilesKept
  <2>1. CASE UNCHANGED filesVars
    BY <2>1 DEF filesVars, Tracked
  <2>2. CASE Configurations!Next
    BY <2>2, TrackedNext
  <2> QED
    BY <2>1, <2>2 DEF Next, InPeers, InFiles, InRules, vars
<1> QED
  BY <1>1, <1>2, <1>3, PTL DEF Spec

LEMMA InvKeepsNetworks == FilesInv => Configurations!NetworksKept
<1> SUFFICES ASSUME FilesInv, NEW t \in Tunnels, file[t] # None, "v6all" \notin wanted[t].ips
             PROVE  Configurations!Default(file[t].ips)
                      \in {Configurations!Default(wanted[t].ips)}
                          \cup (IF t \in stripped
                                THEN {Configurations!Default(wanted[t].ips) \ Configurations!IPv6} ELSE {})
  BY DEF Configurations!NetworksKept
<1>1. PICK S, w : S = file[t].ips /\ w = wanted[t].ips
  OBVIOUS
<1>2. w \in Inputs /\ KeptFrom(S, w, t \in stripped) /\ (t \in stripped) \in BOOLEAN
  BY <1>1 DEF FilesInv, FilesShape, FilesTyped, NetsKept, Written
<1>3. \/ Configurations!Default(S) = Configurations!Default(w)
      \/ (t \in stripped) /\ Configurations!Default(S) = Configurations!Default(w) \ Configurations!IPv6
  BY <1>1, <1>2, DefaultKept
<1> QED
  BY <1>1, <1>3

\* Whatever lists without ::/0 users write: taking loopback out of the default route and
\* putting it back, in any order with starts without IPv6, deletions and edits, loses no
\* network and adds none to what is taken for the default route (excludeLoopbackFromConfig,
\* RestoreLoopbackToAllowedIPs), not even with several goroutines of
\* updateAllTunnelConfigs, a restart in the middle of one, or loads and saves that fail.
\* A file that changes between a reader's load and its save does lose some.
THEOREM NetworksStay ==
  ASSUME "torn" \notin Disturbances
  PROVE  Spec => []Configurations!NetworksKept
<1>1. Init => FilesInv
  BY FilesInit DEF Init
<1>2. FilesInv /\ [Next]_vars => FilesInv'
  BY FilesKept
<1> QED
  BY <1>1, <1>2, InvKeepsNetworks, PTL DEF Spec

\* And the files that nobody edited, and that could be loaded and saved, follow the
\* setting when its goroutine is done (updateAllTunnelConfigs), whichever other file's
\* load or save fails, and the settings' own.
THEOREM RoutesFollow ==
  ASSUME Disturbances \cap {"torn", "overlap", "crash"} = {}
  PROVE  Spec => []ConfigsFollow
<1>1. Init => FilesInv
  BY FilesInit DEF Init
<1>2. ASSUME FilesInv PROVE Configurations!ConfigsFollow
  <2> SUFFICES ASSUME NEW t \in Tunnels, jobs = {}, held = {}, t \notin excused, file[t] # None
               PROVE  IF settings.excludeLoopback THEN "v4all" \notin file[t].ips
                      ELSE ~ Configurations!Pattern \subseteq file[t].ips
    BY DEF Configurations!ConfigsFollow
  <2>1. Follows(file[t].ips)
    BY <1>2 DEF FilesInv, FollowHold, FollowedUp
  <2> QED
    BY <2>1 DEF Follows, Configurations!Pattern
<1>3. FilesInv => ConfigsFollow
  BY <1>2, InvKeepsNetworks DEF ConfigsFollow
<1>4. FilesInv /\ [Next]_vars => FilesInv'
  BY FilesKept
<1> QED
  BY <1>1, <1>3, <1>4, PTL DEF Spec
-----------------------------------------------------------------------------
(* PeerViews.                                                              *)

OfAdmin == [key : Keys, data : Data]

\* Groups g and the map p of them as an administrator has them: each group is under
\* the key that it shows, and under no other.
Matched(g, p) ==
  /\ DOMAIN g \subseteq Nat /\ IsFiniteSet(DOMAIN g) /\ g \in [DOMAIN g -> OfAdmin]
  /\ p \in [DOMAIN p -> DOMAIN g] /\ DOMAIN p \subseteq Keys
  /\ \A k \in DOMAIN p : g[p[k]].key = k
  /\ \A x \in DOMAIN g : g[x].key \in DOMAIN p /\ p[g[x].key] = x

\* They show the first n peers of c.
ShowFirst(c, n, g, p) ==
  \A i \in 1..n : c[i].key \in DOMAIN p /\ p[c[i].key] \in DOMAIN g /\ g[p[c[i].key]] = c[i]

\* The groups of a limited user: none, or one that shows the last peer of c.
OneGroup(c, n, g, p) ==
  /\ DOMAIN p \subseteq {ZeroKey} /\ p \in [DOMAIN p -> Nat]
  /\ DOMAIN g = {p[k] : k \in DOMAIN p} /\ g \in [DOMAIN g -> [key : {NoText}, data : Data]]
  /\ n # 0 => ZeroKey \in DOMAIN p /\ g[p[ZeroKey]] = Peers!Applied(c[n])

PeersInv ==
  /\ isAdmin \in BOOLEAN /\ peerConfig \in Peers!Configs
  /\ isAdmin =>
       /\ Matched(groups, peers) /\ ShowFirst(peerConfig, Len(peerConfig), groups, peers)
       /\ \A x \in DOMAIN groups : \E i \in 1..Len(peerConfig) : x = peers[peerConfig[i].key]
  /\ ~ isAdmin => OneGroup(peerConfig, Len(peerConfig), groups, peers)

LEMMA PeersConstants == ZeroKey \notin Keys /\ NoText \notin Keys /\ NoText # ZeroKey
BY ConstantsAssumption DEF Peers!PeerViewsAssumption

\* The lists of at most MaxPeers peers with keys of K; no two peers of c have
\* the same key.
ListsOf(K) == UNION {[1..n -> {Peers!Peer(k, d) : k \in K, d \in Data}] : n \in 0..MaxPeers}
Apart(c) == Peers!IsInjective([i \in 1..Len(c) |-> c[i].key])

LEMMA ConfigsHold ==
  ASSUME NEW c \in Peers!Configs
  PROVE  c \in ListsOf(IF isAdmin THEN Keys ELSE {ZeroKey}) /\ (isAdmin => Apart(c))
<1>1. Peers!Configs = IF isAdmin THEN {b \in ListsOf(Keys) : Apart(b)} ELSE ListsOf({ZeroKey})
  BY DEF Peers!Configs, ListsOf, Apart
<1> QED
  BY <1>1

LEMMA ConfigsAre ==
  ASSUME isAdmin \in BOOLEAN, NEW c \in Peers!Configs
  PROVE  /\ c \in Seq([key : IF isAdmin THEN Keys ELSE {ZeroKey}, data : Data])
         /\ isAdmin => \A i, j \in 1..Len(c) : c[i].key = c[j].key => i = j
<1>1. PICK K : K = IF isAdmin THEN Keys ELSE {ZeroKey}
  OBVIOUS
<1>2. PICK n \in 0..MaxPeers : c \in [1..n -> {Peers!Peer(k, d) : k \in K, d \in Data}]
  <2>1. c \in ListsOf(K)
    BY <1>1, ConfigsHold
  <2> QED
    BY <2>1 DEF ListsOf
<1>3. ASSUME NEW i \in 1..n PROVE c[i] \in [key : K, data : Data]
  <2>1. PICK k \in K, d \in Data : c[i] = Peers!Peer(k, d)
    BY <1>2
  <2> QED
    BY <2>1 DEF Peers!Peer
<1>4. n \in Nat
  BY <1>2, ConstantsAssumption DEF Peers!PeerViewsAssumption
<1>5. c \in [1..n -> [key : K, data : Data]]
  BY <1>2, <1>3
<1>6. c \in Seq([key : K, data : Data]) /\ Len(c) = n
  <2>1. c \in UNION {[1..m -> [key : K, data : Data]] : m \in Nat}
    BY <1>4, <1>5
  <2>2. c \in Seq([key : K, data : Data])
    BY <2>1, SeqDef
  <2> QED
    BY <1>4, <1>5, <2>2, LenProperties
<1>7. ASSUME isAdmin PROVE \A i, j \in 1..Len(c) : c[i].key = c[j].key => i = j
  <2>1. Apart(c)
    BY <1>7, ConfigsHold
  <2>2. PICK u : u = [i \in 1..Len(c) |-> c[i].key]
    OBVIOUS
  <2>3. \A i, j \in 1..Len(c) : u[i] = u[j] => i = j
    BY <2>1, <2>2 DEF Apart, Peers!IsInjective
  <2>4. \A i \in 1..Len(c) : u[i] = c[i].key
    BY <2>2
  <2> QED
    BY <2>3, <2>4
<1>8. c \in Seq([key : K, data : Data])
  BY <1>6
<1> QED
  BY <1>1, <1>7, <1>8

\* The loop over the first l peers of c (setTunnel).
AfterPeers(l, c, sm, start) ==
  LET after[i \in 0..l] == IF i = 0 THEN start ELSE Peers!SetPeer(after[i - 1], c[i], sm)
  IN  after[l]

\* If each round leads from one of the sets G to the next, the whole leads to the last.
LEMMA LoopOfPeers ==
  ASSUME NEW l \in Nat, NEW c, NEW sm, NEW start, NEW G, start \in G[0],
         \A k \in 1..l : \A s \in G[k - 1] : Peers!SetPeer(s, c[k], sm) \in G[k]
  PROVE  AfterPeers(l, c, sm, start) \in G[l]
<1> DEFINE Is(g) == g = [i \in 0..l |-> IF i = 0 THEN start ELSE Peers!SetPeer(g[i - 1], c[i], sm)]
           X == UNION {G[k] : k \in 0..l}
           Round(k, x) == Peers!SetPeer(x, c[k], sm)
           F == [k \in 1..l |-> [x \in X |-> IF Round(k, x) \in X THEN Round(k, x) ELSE x]]
<1>1. \A k \in 1..l : k \in 0..l /\ k - 1 \in 0..l
  OBVIOUS
<1>2. \A k \in 0..l : \A x \in G[k] : x \in X
  OBVIOUS
<1>3. \A k \in 1..l : \A x \in G[k - 1] : Round(k, x) \in G[k]
  OBVIOUS
<1>4. F \in [1..l -> [X -> X]] /\ \A k \in 1..l : \A x \in G[k - 1] : F[k][x] = Round(k, x)
  BY <1>1, <1>2, <1>3
<1> HIDE DEF X, F
<1>5. PICK g : IsRun(g, l, X, start, F)
  BY <1>2, <1>4, LoopThere
<1>6. \A k \in 0..l : g[k] \in G[k]
  <2> DEFINE T == {k \in 0..l : g[k] \in G[k]}
  <2>1. 0 \in T
    BY <1>5 DEF IsRun
  <2>2. \A k \in 1..l : k - 1 \in T => k \in T
    BY <1>1, <1>3, <1>4, <1>5 DEF IsRun
  <2>3. \A k \in 0..l : k \in T
    <3> HIDE DEF T
    <3> QED
      BY <2>1, <2>2, UpTo
  <2> QED
    BY <2>3
<1>7. Is(g)
  <2>1. \A k \in 1..l : g[k] = Round(k, g[k - 1])
    BY <1>1, <1>4, <1>5, <1>6 DEF IsRun
  <2>2. \A k \in 0..l : k # 0 => k \in 1..l
    OBVIOUS
  <2>3. \A k \in 0..l : g[k] = IF k = 0 THEN start ELSE Round(k, g[k - 1])
    BY <1>5, <2>1, <2>2 DEF IsRun
  <2> QED
    BY <1>5, <2>3 DEF IsRun
<1>8. PICK f : f = CHOOSE h : Is(h)
  OBVIOUS
<1>9. Is(f)
  <2> HIDE DEF Is
  <2> QED
    BY <1>7, <1>8
<1>10. f[l] \in G[l]
  <2> DEFINE T == {k \in 0..l : f[k] \in G[k]}
  <2>1. 0 \in T
    BY <1>9
  <2>2. \A k \in 1..l : k - 1 \in T => k \in T
    <3>1. \A k \in 1..l : k # 0 /\ f[k] = Round(k, f[k - 1])
      BY <1>1, <1>9
    <3> QED
      BY <1>1, <1>3, <3>1
  <2>3. \A k \in 0..l : k \in T
    <3> HIDE DEF T
    <3> QED
      BY <2>1, <2>2, UpTo
  <2> QED
    BY <2>3
<1> QED
  BY <1>8, <1>10 DEF AfterPeers

\* Groups h and their map r are g and p after group x got to show q, of which there
\* is no other group.
PutAs(g, p, x, q, h, r) ==
  /\ h \in [DOMAIN g \cup {x} -> OfAdmin] /\ h[x] = q
  /\ \A y \in DOMAIN g \ {x} : h[y] = g[y] /\ g[y].key # q.key
  /\ r \in [{k \in DOMAIN p : p[k] # x} \cup {q.key} -> DOMAIN g \cup {x}] /\ r[q.key] = x
  /\ \A k \in DOMAIN p : p[k] # x => r[k] = p[k]

LEMMA PutGroup ==
  ASSUME NEW g, NEW p, Matched(g, p), NEW x \in Nat, NEW q \in OfAdmin,
         NEW h, NEW r, PutAs(g, p, x, q, h, r)
  PROVE  Matched(h, r)
<1> USE DEF PutAs
<1>1. q.key \in Keys
  BY DEF OfAdmin
<1>2. DOMAIN h \subseteq Nat /\ IsFiniteSet(DOMAIN h)
  <2>1. IsFiniteSet(DOMAIN g \cup {x})
    BY FS_AddElement DEF Matched
  <2> QED
    BY <2>1 DEF Matched
<1>3. \A k \in DOMAIN p : p[k] # x => p[k] \in DOMAIN g \ {x} /\ g[p[k]].key = k /\ k # q.key
  BY DEF Matched
<1>4. ASSUME NEW k \in DOMAIN r PROVE h[r[k]].key = k
  <2>1. CASE k = q.key
    BY <2>1
  <2>2. CASE k # q.key
    <3>1. k \in DOMAIN p /\ p[k] # x
      BY <2>2
    <3> QED
      BY <1>3, <3>1
  <2> QED
    BY <2>1, <2>2
<1>5. ASSUME NEW y \in DOMAIN h PROVE h[y].key \in DOMAIN r /\ r[h[y].key] = y
  <2>1. CASE y = x
    BY <2>1
  <2>2. CASE y # x
    <3>1. y \in DOMAIN g \ {x} /\ h[y] = g[y]
      BY <2>2
    <3>2. g[y].key \in DOMAIN p /\ p[g[y].key] = y
      BY <3>1 DEF Matched
    <3> QED
      BY <2>2, <3>1, <3>2
  <2> QED
    BY <2>1, <2>2
<1>6. DOMAIN r \subseteq Keys
  BY <1>1 DEF Matched
<1> QED
  BY <1>2, <1>4, <1>5, <1>6 DEF Matched

\* n is what s becomes when group x, which was not kept yet, gets to show q.
SetBy(n, s, q, x, sm) ==
  /\ n = Peers!State(n.groups, n.peers, n.spare, n.kept)
  /\ x \in Nat /\ x \notin s.kept /\ n.kept = s.kept \cup {x}
  /\ PutAs(s.groups, s.peers, x, q, n.groups, n.peers)
  /\ n.spare \in Seq(Nat)
  /\ ~ sm =>
       /\ \A i \in 1..Len(n.spare) : n.spare[i] \in DOMAIN s.groups \ s.kept /\ n.spare[i] # x
       /\ \A i, j \in 1..Len(n.spare) : n.spare[i] = n.spare[j] => i = j

\* What the loop has after k of the peers c of an administrator's configuration.
AdminLoop(s, c, k, sm) ==
  /\ s = Peers!State(s.groups, s.peers, s.spare, s.kept)
  /\ Matched(s.groups, s.peers) /\ ShowFirst(c, k, s.groups, s.peers)
  /\ s.kept = {s.peers[c[i].key] : i \in 1..k}
  /\ s.spare \in Seq(Nat)
  /\ ~ sm =>
       /\ \A i \in 1..Len(s.spare) : s.spare[i] \in DOMAIN s.groups \ s.kept
       /\ \A i, j \in 1..Len(s.spare) : s.spare[i] = s.spare[j] => i = j
       /\ \A i \in k + 1..Len(c) : c[i].key \notin DOMAIN s.peers

LEMMA FreshIs ==
  ASSUME NEW s, IsFiniteSet(DOMAIN s.groups)
  PROVE  Peers!Fresh(s) \in Nat /\ Peers!Fresh(s) \notin DOMAIN s.groups
<1> DEFINE m == Cardinality(DOMAIN s.groups)
<1>1. m \in Nat
  BY FS_CardinalityType
<1>2. \E g \in 1..m + 1 : g \notin DOMAIN s.groups
  <2> SUFFICES ASSUME 1..m + 1 \in SUBSET DOMAIN s.groups PROVE FALSE
    OBVIOUS
  <2>1. Cardinality(1..m + 1) <= m
    BY FS_Subset
  <2>2. Cardinality(1..m + 1) = m + 1
    <3> HIDE DEF m
    <3>1. 1 \in Int /\ m + 1 \in Int /\ ~ (1 > m + 1) /\ m + 1 - 1 + 1 = m + 1
      BY <1>1
    <3> QED
      BY <3>1, FS_Interval
  <2> HIDE DEF m
  <2> QED
    BY <1>1, <2>1, <2>2
<1>3. Peers!Cardinality(DOMAIN s.groups) = m
  BY DEF Peers!Cardinality, Cardinality
<1>4. Peers!Fresh(s) = CHOOSE g \in 1..m + 1 : g \notin DOMAIN s.groups
  BY <1>3 DEF Peers!Fresh
<1> HIDE DEF m
<1>5. Peers!Fresh(s) \in 1..m + 1 /\ Peers!Fresh(s) \notin DOMAIN s.groups
  BY <1>2, <1>4
<1> QED
  BY <1>1, <1>5

\* One round of the loop: the group of the peer's key, a group that is spare, or a
\* new one.
LEMMA RoundIs ==
  ASSUME isAdmin, NEW c \in Seq(OfAdmin), \A i, j \in 1..Len(c) : c[i].key = c[j].key => i = j,
         NEW k \in 1..Len(c), NEW sm \in BOOLEAN, NEW s, AdminLoop(s, c, k - 1, sm)
  PROVE  \E x : SetBy(Peers!SetPeer(s, c[k], sm), s, c[k], x, sm)
<1>1. PICK q \in OfAdmin : q = c[k]
  BY ElementOfSeq
<1>2. Peers!Applied(q) = q /\ q.key \in Keys
  <2>1. q = [key |-> q.key, data |-> q.data]
    BY DEF OfAdmin
  <2> QED
    BY <2>1 DEF Peers!Applied, OfAdmin
<1>3. PICK g, p, a, kept : s = Peers!State(g, p, a, kept)
  BY DEF AdminLoop
<1>4. s.groups = g /\ s.peers = p /\ s.spare = a /\ s.kept = kept
  BY <1>3 DEF Peers!State
<1>5. /\ Matched(g, p) /\ a \in Seq(Nat)
      /\ \A y \in kept : \E i \in 1..k - 1 : c[i].key \in DOMAIN p /\ y = p[c[i].key]
      /\ ~ sm => /\ \A i \in 1..Len(a) : a[i] \in DOMAIN g \ kept
                 /\ \A i, j \in 1..Len(a) : a[i] = a[j] => i = j
                 /\ \A i \in k..Len(c) : c[i].key \notin DOMAIN p
  <2>1. Matched(g, p) /\ a \in Seq(Nat)
    BY <1>4 DEF AdminLoop
  <2>2. \A y \in kept : \E i \in 1..k - 1 : c[i].key \in DOMAIN p /\ y = p[c[i].key]
    <3>1. kept = {p[c[i].key] : i \in 1..k - 1}
      BY <1>4 DEF AdminLoop
    <3>2. \A i \in 1..k - 1 : c[i].key \in DOMAIN p
      BY <1>4 DEF AdminLoop, ShowFirst
    <3> QED
      BY <3>1, <3>2
  <2>3. ASSUME ~ sm
        PROVE  /\ \A i \in 1..Len(a) : a[i] \in DOMAIN g \ kept
               /\ \A i, j \in 1..Len(a) : a[i] = a[j] => i = j
               /\ \A i \in k - 1 + 1..Len(c) : c[i].key \notin DOMAIN p
    BY <1>4, <2>3 DEF AdminLoop
  <2>4. k - 1 + 1 = k
    OBVIOUS
  <2> QED
    BY <2>1, <2>2, <2>3, <2>4
<1>6. PICK n : n = Peers!SetPeer(s, q, sm)
  OBVIOUS
<1>7. CASE q.key \in DOMAIN p
  <2>1. PICK x : x = p[q.key]
    OBVIOUS
  <2>2. x \in DOMAIN g /\ x \in Nat /\ g[x].key = q.key
    BY <1>5, <1>7, <2>1 DEF Matched
  <2>3. n = Peers!State([g EXCEPT ![x] = q], p, a, kept \cup {x})
    BY <1>2, <1>3, <1>4, <1>6, <1>7, <2>1 DEF Peers!SetPeer, Peers!State
  <2>4. x \notin kept
    <3> SUFFICES ASSUME x \in kept PROVE FALSE
      OBVIOUS
    <3>1. PICK i \in 1..k - 1 : c[i].key \in DOMAIN p /\ x = p[c[i].key]
      BY <1>5
    <3>2. c[i].key = q.key
      BY <1>5, <2>2, <3>1 DEF Matched
    <3>3. i \in 1..Len(c) /\ i # k
      OBVIOUS
    <3> QED
      BY <1>1, <3>2, <3>3
  <2>5. sm
    <3>1. k \in k..Len(c)
      OBVIOUS
    <3> QED
      BY <1>1, <1>5, <1>7, <3>1
  <2>6. \A y \in DOMAIN g \ {x} : g[y].key # q.key
    BY <1>5, <2>1 DEF Matched
  <2>7. {l \in DOMAIN p : p[l] # x} \cup {q.key} = DOMAIN p
    <3>1. \A l \in DOMAIN p : g[p[l]].key = l
      BY <1>5 DEF Matched
    <3>2. \A l \in DOMAIN p : p[l] # x \/ l = q.key
      BY <2>2, <3>1
    <3>3. PICK D : D = DOMAIN p
      OBVIOUS
    <3> QED
      BY <1>7, <3>2, <3>3
  <2>8. [g EXCEPT ![x] = q] \in [DOMAIN g \cup {x} -> OfAdmin] /\ p \in [DOMAIN p -> DOMAIN g \cup {x}]
    <3>1. PICK D : D = DOMAIN g
      OBVIOUS
    <3>2. D \cup {x} = D
      BY <2>2, <3>1
    <3>3. g \in [D -> OfAdmin] /\ p \in [DOMAIN p -> D]
      <4>1. g \in [DOMAIN g -> OfAdmin] /\ p \in [DOMAIN p -> DOMAIN g]
        BY <1>5 DEF Matched
      <4> QED
        BY <3>1, <4>1
    <3> QED
      BY <3>1, <3>2, <3>3
  <2>9. /\ n.groups = [g EXCEPT ![x] = q] /\ n.peers = p /\ n.spare = a /\ n.kept = kept \cup {x}
        /\ n = Peers!State(n.groups, n.peers, n.spare, n.kept)
    BY <2>3 DEF Peers!State
  <2>10. SetBy(n, s, q, x, sm)
    BY <1>4, <1>5, <2>1, <2>2, <2>4, <2>5, <2>6, <2>7, <2>8, <2>9 DEF SetBy, PutAs, Matched
  <2> QED
    BY <1>1, <1>6, <2>10
<1>8. CASE q.key \notin DOMAIN p /\ ~ sm /\ a # <<>>
  <2>1. PICK x : x = Head(a)
    OBVIOUS
  <2>2. Len(a) \in Nat \ {0} /\ x = a[1] /\ x \in DOMAIN g /\ x \notin kept /\ x \in Nat
    <3>1. Len(a) \in Nat \ {0} /\ x = a[1]
      BY <1>5, <1>8, <2>1, EmptySeq
    <3>2. 1 \in 1..Len(a)
      BY <3>1
    <3> QED
      BY <1>5, <1>8, <3>1, <3>2 DEF Matched
  <2>3. g[x] \in OfAdmin /\ g[x].key \in Keys /\ g[x].key \in DOMAIN p /\ p[g[x].key] = x
    BY <1>5, <2>2 DEF Matched, OfAdmin
  <2>4. Peers!Readable(g[x])
    BY <2>3, PeersConstants DEF Peers!Readable
  <2>5. PICK r : r = Peers!Put(Peers!Drop(p, g[x].key), q.key, x)
    OBVIOUS
  <2>6. n = Peers!State([g EXCEPT ![x] = q], r, Tail(a), kept \cup {x})
    BY <1>2, <1>3, <1>4, <1>6, <1>8, <2>1, <2>4, <2>5 DEF Peers!SetPeer, Peers!Reuse, Peers!State
  <2>7. \A l \in DOMAIN p : p[l] # x <=> l # g[x].key
    BY <1>5, <2>3 DEF Matched
  <2>8. DOMAIN Peers!Drop(p, g[x].key) = {l \in DOMAIN p : p[l] # x}
    BY <2>7 DEF Peers!Drop
  <2>9. \A l \in DOMAIN p : p[l] # x => Peers!Drop(p, g[x].key)[l] = p[l] /\ p[l] \in DOMAIN g
    BY <1>5, <2>7 DEF Peers!Drop, Matched
  <2>10. /\ r \in [{l \in DOMAIN p : p[l] # x} \cup {q.key} -> DOMAIN g \cup {x}]
         /\ r[q.key] = x /\ \A l \in DOMAIN p : p[l] # x => r[l] = p[l]
    BY <1>8, <2>2, <2>5, <2>8, <2>9 DEF Peers!Put
  <2>11. \A y \in DOMAIN g \ {x} : g[y].key # q.key
    BY <1>5, <1>8 DEF Matched
  <2>12. [g EXCEPT ![x] = q] \in [DOMAIN g \cup {x} -> OfAdmin]
    <3>1. PICK D : D = DOMAIN g
      OBVIOUS
    <3>2. D \cup {x} = D
      BY <2>2, <3>1
    <3>3. g \in [D -> OfAdmin]
      <4>1. g \in [DOMAIN g -> OfAdmin]
        BY <1>5 DEF Matched
      <4> QED
        BY <3>1, <4>1
    <3> QED
      BY <3>1, <3>2, <3>3
  <2>13. PICK t : t = Tail(a)
    OBVIOUS
  <2>14. t \in Seq(Nat) /\ \A i \in 1..Len(t) : i + 1 \in 1..Len(a) /\ i + 1 # 1 /\ t[i] = a[i + 1]
    BY <1>5, <1>8, <2>2, <2>13, HeadTailProperties
  <2>15. /\ \A i \in 1..Len(t) : t[i] \in DOMAIN g \ kept /\ t[i] # x
         /\ \A i, j \in 1..Len(t) : t[i] = t[j] => i = j
    <3>1. 1 \in 1..Len(a)
      BY <2>2
    <3>2. ASSUME NEW i \in 1..Len(t) PROVE t[i] \in DOMAIN g \ kept /\ t[i] # x
      <4>1. PICK j \in 1..Len(a) : j = i + 1 /\ j # 1 /\ t[i] = a[j]
        BY <2>14
      <4>2. a[j] \in DOMAIN g \ kept /\ a[j] # a[1]
        BY <1>5, <1>8, <3>1, <4>1
      <4> QED
        BY <2>2, <4>1, <4>2
    <3>3. ASSUME NEW i \in 1..Len(t), NEW j \in 1..Len(t), t[i] = t[j] PROVE i = j
      <4>1. i + 1 = j + 1
        BY <1>5, <1>8, <2>14, <3>3
      <4>2. i \in Int /\ j \in Int
        OBVIOUS
      <4> QED
        BY <4>1, <4>2
    <3> QED
      BY <3>2, <3>3
  <2>16. /\ n.groups = [g EXCEPT ![x] = q] /\ n.peers = r /\ n.spare = t /\ n.kept = kept \cup {x}
         /\ n = Peers!State(n.groups, n.peers, n.spare, n.kept)
    BY <2>6, <2>13 DEF Peers!State
  <2>17. n.groups[x] = q /\ \A y \in DOMAIN g \ {x} : n.groups[y] = g[y]
    BY <2>2, <2>16
  <2>18. SetBy(n, s, q, x, sm)
    BY <1>4, <2>2, <2>10, <2>11, <2>12, <2>14, <2>15, <2>16, <2>17 DEF SetBy, PutAs
  <2> QED
    BY <1>1, <1>6, <2>18
<1>9. CASE q.key \notin DOMAIN p /\ (sm \/ a = <<>>)
  <2>1. PICK x : x = Peers!Fresh(s)
    OBVIOUS
  <2>2. x \in Nat /\ x \notin DOMAIN g
    BY <1>4, <1>5, <2>1, FreshIs DEF Matched
  <2>3. n = Peers!State(Peers!Put(g, x, q), Peers!Put(p, q.key, x), a, kept \cup {x})
    BY <1>2, <1>3, <1>4, <1>6, <1>9, <2>1 DEF Peers!SetPeer, Peers!State
  <2>4. x \notin kept
    BY <1>5, <2>2 DEF Matched
  <2>5. \A l \in DOMAIN p : p[l] # x /\ p[l] \in DOMAIN g
    BY <1>5, <2>2 DEF Matched
  <2>6. /\ Peers!Put(p, q.key, x) \in [{l \in DOMAIN p : p[l] # x} \cup {q.key} -> DOMAIN g \cup {x}]
        /\ Peers!Put(p, q.key, x)[q.key] = x
        /\ \A l \in DOMAIN p : p[l] # x => Peers!Put(p, q.key, x)[l] = p[l]
    BY <1>9, <2>5 DEF Peers!Put
  <2>7. /\ Peers!Put(g, x, q) \in [DOMAIN g \cup {x} -> OfAdmin] /\ Peers!Put(g, x, q)[x] = q
        /\ \A y \in DOMAIN g \ {x} : Peers!Put(g, x, q)[y] = g[y]
    BY <1>5, <2>2 DEF Peers!Put, Matched
  <2>8. \A y \in DOMAIN g \ {x} : g[y].key # q.key
    BY <1>5, <1>9 DEF Matched
  <2>9. /\ n.groups = Peers!Put(g, x, q) /\ n.peers = Peers!Put(p, q.key, x)
        /\ n.spare = a /\ n.kept = kept \cup {x}
        /\ n = Peers!State(n.groups, n.peers, n.spare, n.kept)
    BY <2>3 DEF Peers!State
  <2>10. ~ sm => \A i \in 1..Len(a) : a[i] \in DOMAIN g \ kept /\ a[i] # x
    BY <1>5, <2>2
  <2>11. SetBy(n, s, q, x, sm)
    BY <1>4, <1>5, <2>2, <2>4, <2>6, <2>7, <2>8, <2>9, <2>10 DEF SetBy, PutAs
  <2> QED
    BY <1>1, <1>6, <2>11
<1> QED
  BY <1>7, <1>8, <1>9

LEMMA RoundKeeps ==
  ASSUME isAdmin, NEW c \in Seq(OfAdmin), \A i, j \in 1..Len(c) : c[i].key = c[j].key => i = j,
         NEW k \in 1..Len(c), NEW sm \in BOOLEAN, NEW s, AdminLoop(s, c, k - 1, sm)
  PROVE  AdminLoop(Peers!SetPeer(s, c[k], sm), c, k, sm)
<1>1. PICK n : n = Peers!SetPeer(s, c[k], sm)
  OBVIOUS
<1>2. PICK x : SetBy(n, s, c[k], x, sm)
  BY <1>1, RoundIs
<1>3. c[k] \in OfAdmin
  BY ElementOfSeq
<1>4. Matched(n.groups, n.peers)
  BY <1>2, <1>3, PutGroup DEF SetBy, AdminLoop
\* The groups of the peers before stay.
<1>5. ASSUME NEW i \in 1..k - 1
      PROVE  /\ c[i].key \in DOMAIN s.peers /\ s.peers[c[i].key] \in DOMAIN s.groups
             /\ s.peers[c[i].key] \in s.kept /\ s.peers[c[i].key] # x
             /\ n.peers[c[i].key] = s.peers[c[i].key] /\ c[i].key \in DOMAIN n.peers
             /\ n.groups[s.peers[c[i].key]] = c[i]
  <2>1. /\ c[i].key \in DOMAIN s.peers /\ s.peers[c[i].key] \in DOMAIN s.groups
        /\ s.peers[c[i].key] \in s.kept /\ s.groups[s.peers[c[i].key]] = c[i]
    BY DEF AdminLoop, ShowFirst
  <2>2. s.peers[c[i].key] # x
    BY <1>2, <2>1 DEF SetBy, PutAs
  <2> QED
    BY <1>2, <2>1, <2>2 DEF SetBy, PutAs
<1>6. \A i \in 1..k : i = k \/ i \in 1..k - 1
  OBVIOUS
<1>7. /\ c[k].key \in DOMAIN n.peers /\ n.peers[c[k].key] = x /\ x \in DOMAIN n.groups
      /\ n.groups[x] = c[k] /\ k \in 1..k /\ \A i \in 1..k - 1 : i \in 1..k
  BY <1>2 DEF SetBy, PutAs
<1>8. ShowFirst(c, k, n.groups, n.peers)
  <2>1. DOMAIN n.groups = DOMAIN s.groups \cup {x}
    BY <1>2 DEF SetBy, PutAs
  <2> QED
    BY <1>5, <1>6, <1>7, <2>1 DEF ShowFirst
<1>9. n.kept = {n.peers[c[i].key] : i \in 1..k}
  <2>1. n.kept = s.kept \cup {x} /\ s.kept = {s.peers[c[i].key] : i \in 1..k - 1}
    BY <1>2 DEF SetBy, AdminLoop
  <2> QED
    BY <1>5, <1>6, <1>7, <2>1
<1>10. ASSUME ~ sm
       PROVE  /\ \A i \in 1..Len(n.spare) : n.spare[i] \in DOMAIN n.groups \ n.kept
              /\ \A i, j \in 1..Len(n.spare) : n.spare[i] = n.spare[j] => i = j
              /\ \A i \in k + 1..Len(c) : c[i].key \notin DOMAIN n.peers
  <2>1. /\ \A i \in 1..Len(n.spare) : n.spare[i] \in DOMAIN s.groups \ s.kept /\ n.spare[i] # x
        /\ \A i, j \in 1..Len(n.spare) : n.spare[i] = n.spare[j] => i = j
        /\ DOMAIN n.groups = DOMAIN s.groups \cup {x} /\ n.kept = s.kept \cup {x}
        /\ \A l \in DOMAIN n.peers : l \in DOMAIN s.peers \/ l = c[k].key
    <3>1. /\ \A i \in 1..Len(n.spare) : n.spare[i] \in DOMAIN s.groups \ s.kept /\ n.spare[i] # x
          /\ \A i, j \in 1..Len(n.spare) : n.spare[i] = n.spare[j] => i = j
          /\ n.kept = s.kept \cup {x}
      BY <1>2, <1>10 DEF SetBy
    <3>2. DOMAIN n.groups = DOMAIN s.groups \cup {x}
      BY <1>2 DEF SetBy, PutAs
    <3>3. DOMAIN n.peers = {l \in DOMAIN s.peers : s.peers[l] # x} \cup {c[k].key}
      BY <1>2 DEF SetBy, PutAs
    <3> QED
      BY <3>1, <3>2, <3>3
  <2>2. \A i \in k + 1..Len(c) : c[i].key \notin DOMAIN s.peers /\ i \in 1..Len(c) /\ i # k
    BY <1>10 DEF AdminLoop
  <2> QED
    BY <2>1, <2>2
<1>11. n = Peers!State(n.groups, n.peers, n.spare, n.kept) /\ n.spare \in Seq(Nat)
  BY <1>2 DEF SetBy, PutAs
<1> QED
  BY <1>1, <1>4, <1>8, <1>9, <1>10, <1>11 DEF AdminLoop

\* The loop of a setTunnel that goes through the groups in the order all.
After(c, all, sm) == AfterPeers(Len(c), c, sm, Peers!State(groups, peers, all, {}))

LEMMA AdminLoopIs ==
  ASSUME isAdmin, Matched(groups, peers), NEW c \in Seq(OfAdmin),
         \A i, j \in 1..Len(c) : c[i].key = c[j].key => i = j,
         NEW all \in Peers!SetToSeqs(DOMAIN groups), NEW sm \in BOOLEAN,
         sm = \E i \in 1..Len(c) : c[i].key \in DOMAIN peers
  PROVE  AdminLoop(After(c, all, sm), c, Len(c), sm)
<1>1. PICK start : start = Peers!State(groups, peers, all, {})
  OBVIOUS
<1>2. /\ start.groups = groups /\ start.peers = peers /\ start.spare = all /\ start.kept = {}
      /\ start = Peers!State(start.groups, start.peers, start.spare, start.kept)
  BY <1>1 DEF Peers!State
<1>3. AdminLoop(start, c, 0, sm)
  <2>1. PICK m \in Nat : all \in [1..m -> DOMAIN groups] /\ \A i, j \in 1..m : i # j => all[i] # all[j]
    <3>1. Peers!Cardinality(DOMAIN groups) = Cardinality(DOMAIN groups)
      BY DEF Peers!Cardinality, Cardinality
    <3>2. Cardinality(DOMAIN groups) \in Nat
      BY FS_CardinalityType DEF Matched
    <3>3. PICK m : m = Cardinality(DOMAIN groups)
      OBVIOUS
    <3> QED
      BY <3>1, <3>2, <3>3 DEF Peers!SetToSeqs
  <2>2. all \in Seq(DOMAIN groups) /\ Len(all) = m
    <3>1. all \in UNION {[1..n -> DOMAIN groups] : n \in Nat}
      BY <2>1
    <3>2. all \in Seq(DOMAIN groups)
      BY <3>1, SeqDef
    <3> QED
      BY <2>1, <3>2, LenProperties
  <2>3. all \in Seq(Nat)
    BY <2>2, SeqMonotonic DEF Matched
  <2>4. /\ \A i \in 1..Len(all) : all[i] \in DOMAIN groups \ {}
        /\ \A i, j \in 1..Len(all) : all[i] = all[j] => i = j
    BY <2>1, <2>2
  <2>5. ShowFirst(c, 0, groups, peers)
    BY DEF ShowFirst
  <2>6. {peers[c[i].key] : i \in 1..0} = {}
    OBVIOUS
  <2>7. ~ sm => \A i \in 0 + 1..Len(c) : c[i].key \notin DOMAIN peers
    OBVIOUS
  <2> QED
    BY <1>2, <2>3, <2>4, <2>5, <2>6, <2>7 DEF AdminLoop
<1>4. PICK l \in Nat : l = Len(c)
  BY LenProperties
\* The states that the loop can have after k peers: they are in one set.
<1> DEFINE P == [groups : UNION {[D -> OfAdmin] : D \in SUBSET Nat},
                 peers : UNION {[D -> Nat] : D \in SUBSET Keys},
                 spare : Seq(Nat), kept : SUBSET Nat]
           G == [k \in 0..l |-> {s \in P : AdminLoop(s, c, k, sm)}]
<1>5. ASSUME NEW s, NEW k \in 0..l, AdminLoop(s, c, k, sm) PROVE s \in G[k]
  <2>1. PICK g, p, a, kept : g = s.groups /\ p = s.peers /\ a = s.spare /\ kept = s.kept
    OBVIOUS
  <2>2. s = [groups |-> g, peers |-> p, spare |-> a, kept |-> kept]
    BY <1>5, <2>1 DEF AdminLoop, Peers!State
  <2>3. Matched(g, p) /\ a \in Seq(Nat)
    BY <1>5, <2>1 DEF AdminLoop
  <2>4. kept \in SUBSET Nat
    <3>1. \A i \in 1..k : p[c[i].key] \in DOMAIN g
      BY <1>5, <2>1 DEF AdminLoop, ShowFirst
    <3>2. kept = {p[c[i].key] : i \in 1..k}
      BY <1>5, <2>1 DEF AdminLoop
    <3> QED
      BY <2>3, <3>1, <3>2 DEF Matched
  <2>5. g \in UNION {[D -> OfAdmin] : D \in SUBSET Nat}
    <3>1. DOMAIN g \in SUBSET Nat /\ g \in [DOMAIN g -> OfAdmin]
      BY <2>3 DEF Matched
    <3> QED
      BY <3>1
  <2>6. p \in UNION {[D -> Nat] : D \in SUBSET Keys}
    <3>1. DOMAIN p \in SUBSET Keys /\ p \in [DOMAIN p -> DOMAIN g] /\ DOMAIN g \subseteq Nat
      BY <2>3 DEF Matched
    <3>2. p \in [DOMAIN p -> Nat]
      BY <3>1
    <3> QED
      BY <3>1, <3>2
  <2>7. s \in P
    BY <2>2, <2>3, <2>4, <2>5, <2>6
  <2> HIDE DEF P
  <2> QED
    BY <1>5, <2>7
<1>6. \A k \in 0..l : \A s \in G[k] : AdminLoop(s, c, k, sm)
  OBVIOUS
<1> HIDE DEF G
<1>7. start \in G[0]
  <2>1. 0 \in 0..l
    OBVIOUS
  <2> QED
    BY <1>3, <1>5, <2>1
<1>8. ASSUME NEW k \in 1..l, NEW s \in G[k - 1] PROVE Peers!SetPeer(s, c[k], sm) \in G[k]
  <2>1. k - 1 \in 0..l /\ k \in 0..l /\ k \in 1..Len(c)
    BY <1>4
  <2>2. AdminLoop(s, c, k - 1, sm)
    BY <1>6, <1>8, <2>1
  <2>3. AdminLoop(Peers!SetPeer(s, c[k], sm), c, k, sm)
    BY <2>1, <2>2, RoundKeeps
  <2> QED
    BY <1>5, <2>1, <2>3
<1>9. AfterPeers(l, c, sm, start) \in G[l]
  BY <1>7, <1>8, LoopOfPeers
<1>10. After(c, all, sm) = AfterPeers(l, c, sm, start)
  BY <1>1, <1>4 DEF After
<1>11. l \in 0..l
  OBVIOUS
<1> QED
  BY <1>4, <1>6, <1>9, <1>10, <1>11

\* What setTunnel leaves when its loop has come to s.
LeftBy(s, g, p) ==
  /\ g = [x \in DOMAIN s.groups \ Peers!Removed(s) |-> s.groups[x]]
  /\ p = [k \in DOMAIN s.peers \ {s.groups[x].key : x \in Peers!Removed(s)} |-> s.peers[k]]

LEMMA SetTunnelIs ==
  ASSUME NEW c, Peers!SetTunnel(c)
  PROVE  \E all \in Peers!SetToSeqs(DOMAIN groups) :
           LeftBy(After(c, all, \E i \in 1..Len(c) : c[i].key \in DOMAIN peers), groups', peers')
BY Zenon DEF Peers!SetTunnel, After, AfterPeers, LeftBy

\* What setTunnel leaves an administrator: the groups that were kept.
LEMMA SetTunnelByAdmin ==
  ASSUME PeersInv, isAdmin, NEW c \in Peers!Configs, Peers!SetTunnel(c)
  PROVE  PeersInv'
<1>1. /\ c \in Seq(OfAdmin) /\ \A i, j \in 1..Len(c) : c[i].key = c[j].key => i = j
      /\ Len(c) \in Nat
  BY ConfigsAre, LenProperties DEF PeersInv, OfAdmin
<1>2. PICK sm \in BOOLEAN : sm = \E i \in 1..Len(c) : c[i].key \in DOMAIN peers
  OBVIOUS
<1>3. PICK all \in Peers!SetToSeqs(DOMAIN groups) :
        LeftBy(After(c, all, sm), groups', peers')
  BY <1>2, SetTunnelIs
<1>4. PICK s : s = After(c, all, sm)
  OBVIOUS
<1>5. AdminLoop(s, c, Len(c), sm)
  BY <1>1, <1>2, <1>4, AdminLoopIs DEF PeersInv
<1>6. PICK g, p, kept : g = s.groups /\ p = s.peers /\ kept = s.kept
  OBVIOUS
<1>7. /\ Matched(g, p) /\ ShowFirst(c, Len(c), g, p)
      /\ kept = {p[c[i].key] : i \in 1..Len(c)}
  BY <1>5, <1>6 DEF AdminLoop
<1>8. Peers!Removed(s) = DOMAIN g \ kept
  BY <1>6, <1>7, PeersConstants DEF Peers!Removed, Peers!Readable, Matched, OfAdmin
<1>9. kept \in SUBSET DOMAIN g
  BY <1>7 DEF ShowFirst
<1>10. groups' = [x \in kept |-> g[x]]
  <2>1. DOMAIN g \ (DOMAIN g \ kept) = kept
    BY <1>9
  <2> QED
    BY <1>3, <1>4, <1>6, <1>8, <2>1 DEF LeftBy
<1>11. PICK K : K = {k \in DOMAIN p : p[k] \in kept}
  OBVIOUS
<1>12. peers' = [k \in K |-> p[k]]
  <2>1. DOMAIN p \ {g[x].key : x \in DOMAIN g \ kept} = K
    BY <1>7, <1>11 DEF Matched
  <2> QED
    BY <1>3, <1>4, <1>6, <1>8, <2>1 DEF LeftBy
<1>13. Matched(groups', peers')
  <2>1. DOMAIN groups' = kept /\ DOMAIN peers' = K /\ kept \subseteq Nat /\ K \subseteq Keys
    BY <1>7, <1>9, <1>10, <1>11, <1>12 DEF Matched
  <2>2. IsFiniteSet(kept)
    BY <1>7, <1>9, FS_Subset DEF Matched
  <2>3. groups' \in [kept -> OfAdmin] /\ peers' \in [K -> kept]
    BY <1>7, <1>9, <1>10, <1>11, <1>12 DEF Matched
  <2>4. \A k \in K : groups'[peers'[k]].key = k
    BY <1>7, <1>10, <1>11, <1>12 DEF Matched
  <2>5. \A x \in kept : groups'[x].key \in K /\ peers'[groups'[x].key] = x
    BY <1>7, <1>9, <1>10, <1>11, <1>12 DEF Matched
  <2> QED
    BY <2>1, <2>2, <2>3, <2>4, <2>5 DEF Matched
<1>14. \A i \in 1..Len(c) : c[i].key \in K /\ p[c[i].key] \in kept /\ g[p[c[i].key]] = c[i]
  BY <1>7, <1>11 DEF ShowFirst
<1>15. ShowFirst(c, Len(c), groups', peers')
  BY <1>10, <1>12, <1>14 DEF ShowFirst
<1>16. \A x \in DOMAIN groups' : \E i \in 1..Len(c) : x = peers'[c[i].key]
  BY <1>7, <1>10, <1>12, <1>14
<1>17. peerConfig' = c /\ isAdmin' = isAdmin
  BY DEF Peers!SetTunnel
<1>18. Peers!Configs' = Peers!Configs
  BY <1>17 DEF Peers!Configs
<1> QED
  BY <1>13, <1>15, <1>16, <1>17, <1>18 DEF PeersInv

\* What the loop has after k of the peers c that a limited user is sent: as all have
\* the same key, no group is used again.
OneLoop(s, c, k, all) ==
  /\ s = Peers!State(s.groups, s.peers, all, s.kept) /\ s.kept \subseteq Nat
  /\ OneGroup(c, k, s.groups, s.peers)

OfLimited == [key : {ZeroKey}, data : Data]

LEMMA RoundKeepsOne ==
  ASSUME ~ isAdmin, NEW c \in Seq(OfLimited), NEW k \in 1..Len(c), NEW sm \in BOOLEAN,
         NEW all, sm \/ all = <<>>, NEW s, NEW l, OneLoop(s, c, l, all)
  PROVE  OneLoop(Peers!SetPeer(s, c[k], sm), c, k, all)
<1>1. PICK q : q = c[k]
  OBVIOUS
<1>2. PICK e : e = Peers!Applied(q)
  OBVIOUS
<1>3. q.key = ZeroKey /\ e \in [key : {NoText}, data : Data]
  <2>1. q \in OfLimited
    BY <1>1, ElementOfSeq
  <2> QED
    BY <1>2, <2>1 DEF Peers!Applied, OfLimited
<1>4. PICK g, p, kept : s = Peers!State(g, p, all, kept)
  BY DEF OneLoop
<1>5. /\ s.groups = g /\ s.peers = p /\ s.spare = all /\ s.kept = kept /\ kept \subseteq Nat
      /\ DOMAIN p \subseteq {ZeroKey} /\ p \in [DOMAIN p -> Nat]
      /\ DOMAIN g = {p[z] : z \in DOMAIN p} /\ g \in [DOMAIN g -> [key : {NoText}, data : Data]]
  <2>1. s.groups = g /\ s.peers = p /\ s.spare = all /\ s.kept = kept
    BY <1>4 DEF Peers!State
  <2> QED
    BY <2>1 DEF OneLoop, OneGroup
<1>6. PICK n : n = Peers!SetPeer(s, q, sm)
  OBVIOUS
<1>7. ASSUME NEW h, NEW r, NEW x \in Nat, n = Peers!State(h, r, all, kept \cup {x}),
             r \in [{ZeroKey} -> {x}], h \in [{x} -> {e}]
      PROVE  OneLoop(n, c, k, all)
  <2>1. /\ n.groups = h /\ n.peers = r /\ n.kept = kept \cup {x}
        /\ n = Peers!State(n.groups, n.peers, all, n.kept)
    BY <1>7 DEF Peers!State
  <2>2. DOMAIN r = {ZeroKey} /\ r[ZeroKey] = x /\ r \in [DOMAIN r -> Nat]
    BY <1>7
  <2>3. DOMAIN h = {x} /\ h[x] = e /\ h \in [DOMAIN h -> [key : {NoText}, data : Data]]
    BY <1>3, <1>7
  <2>4. {r[z] : z \in DOMAIN r} = {x}
    BY <2>2
  <2>5. OneGroup(c, k, h, r)
    BY <1>1, <1>2, <2>2, <2>3, <2>4 DEF OneGroup
  <2> QED
    BY <1>5, <1>7, <2>1, <2>5 DEF OneLoop
<1>8. CASE q.key \in DOMAIN p
  <2>1. PICK x : x = p[ZeroKey]
    OBVIOUS
  <2>2. DOMAIN p = {ZeroKey} /\ x \in Nat /\ DOMAIN g = {x}
    <3>1. DOMAIN p = {ZeroKey}
      BY <1>3, <1>5, <1>8
    <3>2. x \in Nat
      BY <1>5, <2>1, <3>1
    <3>3. {p[z] : z \in DOMAIN p} = {x}
      BY <2>1, <3>1
    <3> QED
      BY <1>5, <3>1, <3>2, <3>3
  <2>3. n = Peers!State([g EXCEPT ![x] = e], p, all, kept \cup {x})
    BY <1>2, <1>3, <1>4, <1>5, <1>6, <1>8, <2>1 DEF Peers!SetPeer, Peers!State
  <2>4. p \in [{ZeroKey} -> {x}]
    BY <1>5, <2>1, <2>2
  <2>5. [g EXCEPT ![x] = e] \in [{x} -> {e}]
    <3>1. g \in [DOMAIN g -> [key : {NoText}, data : Data]]
      BY <1>5
    <3>2. g \in [{x} -> [key : {NoText}, data : Data]]
      BY <2>2, <3>1
    <3>3. PICK S : g \in [{x} -> S]
      BY <3>2
    <3>4. [g EXCEPT ![x] = e] = [y \in {x} |-> IF y = x THEN e ELSE g[y]]
      BY <3>3
    <3>5. PICK h : h = [g EXCEPT ![x] = e]
      OBVIOUS
    <3>6. h = [y \in {x} |-> IF y = x THEN e ELSE g[y]]
      BY <3>4, <3>5
    <3>7. h \in [{x} -> {e}]
      BY <3>6
    <3> QED
      BY <3>5, <3>7
  <2>6. OneLoop(n, c, k, all)
    BY <1>7, <2>2, <2>3, <2>4, <2>5
  <2> QED
    BY <1>1, <1>6, <2>6
<1>9. CASE q.key \notin DOMAIN p
  <2>1. DOMAIN p = {} /\ DOMAIN g = {}
    <3>1. DOMAIN p = {}
      BY <1>3, <1>5, <1>9
    <3>2. DOMAIN g = {p[z] : z \in DOMAIN p}
      BY <1>5
    <3> QED
      BY <3>1, <3>2
  <2>2. PICK x : x = Peers!Fresh(s)
    OBVIOUS
  <2>3. x \in Nat
    BY <1>5, <2>1, <2>2, FreshIs, FS_EmptySet
  <2>4. n = Peers!State(Peers!Put(g, x, e), Peers!Put(p, ZeroKey, x), all, kept \cup {x})
    BY <1>2, <1>3, <1>4, <1>5, <1>6, <1>9, <2>2 DEF Peers!SetPeer, Peers!State
  <2>5. Peers!Put(g, x, e) \in [{x} -> {e}]
    BY <2>1 DEF Peers!Put
  <2>6. Peers!Put(p, ZeroKey, x) \in [{ZeroKey} -> {x}]
    BY <2>1 DEF Peers!Put
  <2>7. OneLoop(n, c, k, all)
    BY <1>7, <2>3, <2>4, <2>5, <2>6
  <2> QED
    BY <1>1, <1>6, <2>7
<1> QED
  BY <1>8, <1>9

LEMMA OneLoopIs ==
  ASSUME ~ isAdmin, NEW d, OneGroup(d, Len(d), groups, peers), NEW c \in Seq(OfLimited), c # <<>>,
         NEW all \in Peers!SetToSeqs(DOMAIN groups), NEW sm \in BOOLEAN,
         sm = \E i \in 1..Len(c) : c[i].key \in DOMAIN peers
  PROVE  OneLoop(After(c, all, sm), c, Len(c), all)
<1>1. PICK start : start = Peers!State(groups, peers, all, {})
  OBVIOUS
<1>2. /\ start.groups = groups /\ start.peers = peers /\ start.kept = {}
      /\ start = Peers!State(start.groups, start.peers, all, start.kept)
  BY <1>1 DEF Peers!State
<1>3. PICK l \in Nat \ {0} : l = Len(c)
  BY EmptySeq
<1>4. sm \/ all = <<>>
  <2> SUFFICES ASSUME ~ sm PROVE all = <<>>
    OBVIOUS
  <2>1. 1 \in 1..Len(c) /\ c[1].key = ZeroKey
    <3>1. 1 \in 1..Len(c)
      BY <1>3
    <3>2. c[1] \in OfLimited
      BY <3>1, ElementOfSeq
    <3> QED
      BY <3>1, <3>2 DEF OfLimited
  <2>2. DOMAIN groups = {}
    BY <2>1 DEF OneGroup
  <2>3. Peers!Cardinality({}) = 0
    BY FS_EmptySet DEF Peers!Cardinality, Cardinality
  <2>4. all \in [1..0 -> {}]
    BY <2>2, <2>3 DEF Peers!SetToSeqs
  <2>5. all \in Seq({}) /\ Len(all) = 0
    <3>1. all \in UNION {[1..n -> {}] : n \in Nat}
      BY <2>4
    <3>2. all \in Seq({})
      BY <3>1, SeqDef
    <3> QED
      BY <2>4, <3>2, LenProperties
  <2> QED
    BY <2>5, EmptySeq
\* Before the loop the group is that of the peers before, if any.
<1>5. OneLoop(start, c, 0, all)
  BY <1>2 DEF OneLoop, OneGroup
<1> DEFINE P == [groups : UNION {[X -> [key : {NoText}, data : Data]] : X \in SUBSET Nat},
                 peers : UNION {[X -> Nat] : X \in SUBSET {ZeroKey}},
                 spare : {all}, kept : SUBSET Nat]
           G == [k \in 0..l |-> {s \in P : OneLoop(s, c, k, all)}]
<1>6. ASSUME NEW s, NEW k \in 0..l, OneLoop(s, c, k, all) PROVE s \in G[k]
  <2>1. PICK g, p, kept : g = s.groups /\ p = s.peers /\ kept = s.kept
    OBVIOUS
  <2>2. s = [groups |-> g, peers |-> p, spare |-> all, kept |-> kept] /\ kept \in SUBSET Nat
    BY <1>6, <2>1 DEF OneLoop, Peers!State
  <2>3. /\ DOMAIN p \in SUBSET {ZeroKey} /\ p \in [DOMAIN p -> Nat]
        /\ DOMAIN g = {p[z] : z \in DOMAIN p} /\ g \in [DOMAIN g -> [key : {NoText}, data : Data]]
    BY <1>6, <2>1 DEF OneLoop, OneGroup
  <2>4. DOMAIN g \in SUBSET Nat
    BY <2>3
  <2>5. g \in UNION {[X -> [key : {NoText}, data : Data]] : X \in SUBSET Nat}
    BY <2>3, <2>4
  <2>6. p \in UNION {[X -> Nat] : X \in SUBSET {ZeroKey}}
    BY <2>3
  <2>7. s \in P
    BY <2>2, <2>5, <2>6
  <2> HIDE DEF P
  <2> QED
    BY <1>6, <2>7
<1>7. \A k \in 0..l : \A s \in G[k] : OneLoop(s, c, k, all)
  OBVIOUS
<1> HIDE DEF G
<1>8. start \in G[0]
  <2>1. 0 \in 0..l
    OBVIOUS
  <2> QED
    BY <1>5, <1>6, <2>1
<1>9. ASSUME NEW k \in 1..l, NEW s \in G[k - 1] PROVE Peers!SetPeer(s, c[k], sm) \in G[k]
  <2>1. k - 1 \in 0..l /\ k \in 0..l /\ k \in 1..Len(c)
    BY <1>3
  <2>2. OneLoop(s, c, k - 1, all)
    BY <1>7, <1>9, <2>1
  <2>3. OneLoop(Peers!SetPeer(s, c[k], sm), c, k, all)
    BY <1>4, <2>1, <2>2, RoundKeepsOne
  <2> QED
    BY <1>6, <2>1, <2>3
<1>10. l \in Nat /\ l \in 0..l
  OBVIOUS
<1>11. AfterPeers(l, c, sm, start) \in G[l]
  BY <1>8, <1>9, <1>10, LoopOfPeers
<1>12. After(c, all, sm) = AfterPeers(l, c, sm, start)
  BY <1>1, <1>3 DEF After
<1> QED
  BY <1>3, <1>7, <1>10, <1>11, <1>12

\* A limited user's group is never removed, since its key cannot be read.
LEMMA SetTunnelByLimited ==
  ASSUME PeersInv, ~ isAdmin, NEW c \in Peers!Configs, Peers!SetTunnel(c)
  PROVE  PeersInv'
<1>1. c \in Seq(OfLimited) /\ Len(c) \in Nat /\ OneGroup(peerConfig, Len(peerConfig), groups, peers)
  BY ConfigsAre, LenProperties DEF PeersInv, OfLimited
<1>2. PICK sm \in BOOLEAN : sm = \E i \in 1..Len(c) : c[i].key \in DOMAIN peers
  OBVIOUS
<1>3. PICK all \in Peers!SetToSeqs(DOMAIN groups) :
        LeftBy(After(c, all, sm), groups', peers')
  BY <1>2, SetTunnelIs
<1>4. PICK s : s = After(c, all, sm)
  OBVIOUS
<1>5. OneGroup(c, Len(c), s.groups, s.peers)
  <2>1. CASE c = <<>>
    <3>1. s = Peers!State(groups, peers, all, {}) /\ Len(c) = 0
      <4>1. Len(c) = 0
        BY <2>1, EmptySeq
      <4> DEFINE start == Peers!State(groups, peers, all, {})
                 G == [k \in 0..0 |-> {start}]
      <4>2. start \in G[0]
        OBVIOUS
      <4>3. \A k \in 1..0 : \A x \in G[k - 1] : Peers!SetPeer(x, c[k], sm) \in G[k]
        OBVIOUS
      <4>4. \A x \in G[0] : x = start
        OBVIOUS
      <4>5. s = AfterPeers(0, c, sm, start)
        BY <1>4, <4>1 DEF After
      <4> HIDE DEF G, start
      <4>6. AfterPeers(0, c, sm, start) \in G[0]
        BY <4>2, <4>3, LoopOfPeers
      <4> QED
        BY <4>1, <4>4, <4>5, <4>6 DEF start
    <3> QED
      BY <1>1, <3>1 DEF Peers!State, OneGroup
  <2>2. CASE c # <<>>
    BY <1>1, <1>2, <1>4, <2>2, OneLoopIs DEF OneLoop
  <2> QED
    BY <2>1, <2>2
<1>6. Peers!Removed(s) = {}
  BY <1>5 DEF OneGroup, Peers!Removed, Peers!Readable
<1>7. groups' = s.groups /\ peers' = s.peers
  <2>1. PICK g, p : g = s.groups /\ p = s.peers
    OBVIOUS
  <2>2. g = [x \in DOMAIN g |-> g[x]] /\ p = [k \in DOMAIN p |-> p[k]]
    BY <1>5, <2>1 DEF OneGroup
  <2>3. groups' = [x \in DOMAIN g |-> g[x]] /\ peers' = [k \in DOMAIN p |-> p[k]]
    BY <1>3, <1>4, <1>6, <2>1 DEF LeftBy
  <2> QED
    BY <2>1, <2>2, <2>3
<1>8. peerConfig' = c /\ isAdmin' = isAdmin
  BY DEF Peers!SetTunnel
<1>9. Peers!Configs' = Peers!Configs
  BY <1>8 DEF Peers!Configs
<1>10. OneGroup(c, Len(c), groups', peers')
  BY <1>5, <1>7
<1>11. OneGroup(peerConfig, Len(peerConfig), groups, peers)'
  BY <1>8, <1>10 DEF OneGroup, Peers!Applied
<1> QED
  BY <1>8, <1>9, <1>11 DEF PeersInv

LEMMA PeersInit == Peers!Init => PeersInv
<1> SUFFICES ASSUME Peers!Init PROVE PeersInv
  OBVIOUS
<1>1. DOMAIN groups = {} /\ DOMAIN peers = {} /\ peerConfig = <<>>
  BY DEF Peers!Init, Peers!Empty
<1>2. /\ groups \in [DOMAIN groups -> OfAdmin] /\ peers \in [DOMAIN peers -> DOMAIN groups]
      /\ groups \in [DOMAIN groups -> [key : {NoText}, data : Data]] /\ peers \in [DOMAIN peers -> Nat]
  BY DEF Peers!Init, Peers!Empty
<1>3. IsFiniteSet(DOMAIN groups)
  BY <1>1, FS_EmptySet
<1>4. Matched(groups, peers)
  BY <1>1, <1>2, <1>3 DEF Matched
<1>5. Len(peerConfig) = 0 /\ \A i \in 1..Len(peerConfig) : FALSE
  BY <1>1
<1>6. OneGroup(peerConfig, Len(peerConfig), groups, peers)
  BY <1>1, <1>2, <1>5 DEF OneGroup
<1>7. ShowFirst(peerConfig, Len(peerConfig), groups, peers)
  BY <1>5 DEF ShowFirst
<1>8. peerConfig \in Peers!Configs
  <2>1. \A K : <<>> \in [1..0 -> {Peers!Peer(k, d) : k \in K, d \in Data}] /\ 0 \in 0..MaxPeers
    BY ConstantsAssumption DEF Peers!PeerViewsAssumption
  <2>2. \A K : <<>> \in UNION {[1..n -> {Peers!Peer(k, d) : k \in K, d \in Data}] : n \in 0..MaxPeers}
    BY <2>1
  <2>3. Peers!IsInjective([i \in 1..Len(<<>>) |-> <<>>[i].key])
    BY DEF Peers!IsInjective
  <2> QED
    BY <1>1, <2>2, <2>3 DEF Peers!Configs
<1> QED
  BY <1>1, <1>4, <1>6, <1>7, <1>8 DEF PeersInv, Peers!Init

LEMMA PeersKept == PeersInv /\ [Next]_vars => PeersInv'
<1> SUFFICES ASSUME PeersInv, [Next]_vars PROVE PeersInv'
  OBVIOUS
<1>1. CASE UNCHANGED peersVars
  <2>1. isAdmin' = isAdmin /\ peerConfig' = peerConfig /\ groups' = groups /\ peers' = peers
    BY <1>1 DEF peersVars
  <2>2. Peers!Configs' = Peers!Configs
    BY <2>1 DEF Peers!Configs
  <2>3. Matched(groups, peers) => Matched(groups, peers)'
    BY <2>1 DEF Matched
  <2>4. ShowFirst(peerConfig, Len(peerConfig), groups, peers)
          => ShowFirst(peerConfig, Len(peerConfig), groups, peers)'
    BY <2>1 DEF ShowFirst
  <2>5. OneGroup(peerConfig, Len(peerConfig), groups, peers)
          => OneGroup(peerConfig, Len(peerConfig), groups, peers)'
    BY <2>1 DEF OneGroup, Peers!Applied
  <2> QED
    BY <2>1, <2>2, <2>3, <2>4, <2>5 DEF PeersInv
<1>2. ASSUME NEW c \in Peers!Configs, Peers!SetTunnel(c) PROVE PeersInv'
  BY <1>2, SetTunnelByAdmin, SetTunnelByLimited
<1> QED
  BY <1>1, <1>2 DEF Next, InPeers, InFiles, InRules, vars, Peers!Next

LEMMA InvShowsPeers == PeersInv => PeersShown
<1> SUFFICES ASSUME PeersInv PROVE Peers!PeersShown
  BY DEF PeersShown
<1>1. PICK seen : seen = {groups[g] : g \in DOMAIN groups}
  OBVIOUS
<1>2. PICK c, l : c = peerConfig /\ l = Len(c) /\ l \in Nat
  BY ConfigsAre, LenProperties DEF PeersInv
<1>3. ASSUME isAdmin PROVE seen = Peers!Range(peerConfig) /\ Peers!Cardinality(DOMAIN groups) = Len(peerConfig)
  <2>1. /\ c \in Seq(OfAdmin) /\ \A i, j \in 1..l : c[i].key = c[j].key => i = j
        /\ DOMAIN c = 1..l
    BY <1>2, <1>3, ConfigsAre, LenProperties DEF PeersInv, OfAdmin
  <2>2. /\ \A i \in 1..l : /\ c[i].key \in DOMAIN peers /\ peers[c[i].key] \in DOMAIN groups
                           /\ groups[peers[c[i].key]] = c[i]
        /\ \A x \in DOMAIN groups : \E i \in 1..l : x = peers[c[i].key]
    BY <1>2, <1>3 DEF PeersInv, ShowFirst
  <2>3. seen = {c[i] : i \in 1..l}
    BY <1>1, <2>2
  <2>4. Peers!Range(peerConfig) = {c[i] : i \in 1..l}
    BY <1>2, <2>1 DEF Peers!Range
  <2>5. PICK f : f = [i \in 1..l |-> peers[c[i].key]]
    OBVIOUS
  <2>6. f \in [1..l -> DOMAIN groups] /\ \A x \in DOMAIN groups : \E i \in 1..l : f[i] = x
    BY <2>2, <2>5
  <2>7. ASSUME NEW i \in 1..l, NEW j \in 1..l, f[i] = f[j] PROVE i = j
    <3>1. peers[c[i].key] = peers[c[j].key]
      BY <2>5, <2>7
    <3>2. c[i] = c[j]
      BY <2>2, <3>1
    <3> QED
      BY <2>1, <3>2
  <2>8. f \in Bijection(1..l, DOMAIN groups)
    BY <2>6, <2>7 DEF Bijection, Injection, Surjection, IsInjective
  <2>9. IsFiniteSet(1..l) /\ Cardinality(1..l) = l
    <3>1. 1 \in Int /\ l \in Int /\ (IF 1 > l THEN 0 ELSE l - 1 + 1) = l
      BY <1>2
    <3> QED
      BY <3>1, FS_Interval
  <2>10. Cardinality(DOMAIN groups) = l
    BY <2>8, <2>9, FS_Bijection DEF ExistsBijection
  <2>11. Peers!Cardinality(DOMAIN groups) = Cardinality(DOMAIN groups)
    BY DEF Peers!Cardinality, Cardinality
  <2> QED
    BY <1>2, <2>3, <2>4, <2>10, <2>11
<1>4. ASSUME ~ isAdmin
      PROVE  /\ Peers!Cardinality(seen) <= 1
             /\ peerConfig # <<>> => seen = {Peers!Applied(Peers!Last(peerConfig))}
  <2>1. OneGroup(c, l, groups, peers)
    BY <1>2, <1>4 DEF PeersInv
  <2>2. CASE DOMAIN peers = {}
    <3>1. seen = {} /\ l = 0
      BY <1>1, <2>1, <2>2 DEF OneGroup
    <3>2. peerConfig = <<>>
      <4>1. peerConfig \in Seq([key : {ZeroKey}, data : Data])
        BY <1>4, ConfigsAre DEF PeersInv
      <4> QED
        BY <1>2, <3>1, <4>1, EmptySeq
    <3>3. Peers!Cardinality({}) = 0
      BY FS_EmptySet DEF Peers!Cardinality, Cardinality
    <3> QED
      BY <3>1, <3>2, <3>3
  <2>3. CASE DOMAIN peers # {}
    <3>1. seen = {groups[peers[ZeroKey]]}
      BY <1>1, <2>1, <2>3 DEF OneGroup
    <3>2. PICK e : e = groups[peers[ZeroKey]]
      OBVIOUS
    <3>3. Cardinality({e}) = 1
      BY FS_Singleton
    <3>4. Peers!Cardinality({e}) = Cardinality({e})
      BY DEF Peers!Cardinality, Cardinality
    <3>5. l # 0 => e = Peers!Applied(c[l])
      BY <2>1, <3>2 DEF OneGroup
    <3>6. peerConfig # <<>> => l # 0
      <4>1. peerConfig \in Seq([key : {ZeroKey}, data : Data])
        BY <1>4, ConfigsAre DEF PeersInv
      <4> QED
        BY <1>2, <4>1, EmptySeq
    <3> QED
      BY <1>2, <3>1, <3>2, <3>3, <3>4, <3>5, <3>6 DEF Peers!Last
  <2> QED
    BY <2>2, <2>3
<1> QED
  BY <1>1, <1>3, <1>4 DEF Peers!PeersShown

\* An administrator sees a group for each peer of the configuration and no other,
\* whatever was shown before, however many peers there were, and in whatever order
\* groups were found by their key or used again; a limited user sees one, with what
\* the last peer has (setTunnel).
THEOREM PeersAreShown == Spec => []PeersShown
<1>1. Init => PeersInv
  BY PeersInit DEF Init
<1> QED
  BY <1>1, InvShowsPeers, PeersKept, PTL DEF Spec

-----------------------------------------------------------------------------
(* The types, whatever disturbs.                                           *)

LEMMA ShapeInit == Configurations!Init => FilesShape
BY FilesInit DEF FilesInv

LEMMA HoldTyped ==
  ASSUME FilesShape, NEW t \in Tunnels, NEW ips \in SUBSET Configurations!Nets, NEW off \in BOOLEAN,
         Configurations!Hold(t, ips, off)
  PROVE  held' \subseteq [t : Tunnels, file : Configurations!Files]
<1>1. PICK f : f = [ips |-> ips, tableOff |-> off]
  OBVIOUS
<1>2. f \in Configurations!Files
  BY <1>1 DEF Configurations!Files
<1>3. held' = IF file[t] = f THEN held ELSE held \cup {[t |-> t, file |-> f]}
  BY <1>1 DEF Configurations!Hold
<1> QED
  BY <1>2, <1>3 DEF FilesShape

LEMMA NetsTyped ==
  ASSUME NEW S \in SUBSET Configurations!Nets
  PROVE  /\ Configurations!ExcludeLoopback(S) \in SUBSET Configurations!Nets
         /\ Configurations!RestoreLoopback(S) \in SUBSET Configurations!Nets
         /\ Configurations!DisableIPv6(S) \in SUBSET Configurations!Nets
BY DEF Configurations!ExcludeLoopback, Configurations!RestoreLoopback, Configurations!DisableIPv6,
       Configurations!Nets

LEMMA ShapeNext ==
  ASSUME FilesShape, Configurations!Next
  PROVE  FilesShape'
<1>1. /\ file \in [Tunnels -> Configurations!Files \cup {None}] /\ wanted \in [Tunnels -> Written]
      /\ settings \in Configurations!Settings /\ saved \in Configurations!Settings /\ unsaved \in BOOLEAN
      /\ excused \subseteq Tunnels /\ stripped \subseteq Tunnels /\ stranded \subseteq Tunnels
  BY DEF FilesShape, FilesTyped
<1>2. ASSUME NEW c \in Configurations!Settings, Configurations!SetAndSync(c) PROVE FilesShape'
  <2>1. Configurations!Sync(c) /\ unsaved' = TRUE
        /\ UNCHANGED <<saved, jobs, held, wanted, excused, stripped, stranded>>
    BY <1>2 DEF Configurations!SetAndSync
  <2>2. /\ settings' \in Configurations!Settings
        /\ file' \in [Tunnels -> Configurations!Files \cup {None}]
    BY <2>1, SyncTyped DEF FilesShape, Stored
  <2> QED
    BY <1>1, <2>1, <2>2 DEF FilesShape, FilesTyped
<1>3. ASSUME NEW m \in {"off", "on"}, Configurations!SetMode(m) PROVE FilesShape'
  <2>1. PICK c : c = [settings EXCEPT !.mode = m]
    OBVIOUS
  <2>2. c \in Configurations!Settings
    BY <1>1, <2>1 DEF Configurations!Settings
  <2> QED
    BY <1>2, <1>3, <2>1, <2>2 DEF Configurations!SetMode
<1>4. ASSUME NEW t \in Tunnels \cup {None}, Configurations!SetDNSSettings(t) PROVE FilesShape'
  <2>1. PICK c : c = [settings EXCEPT !.routeTunnel = t]
    OBVIOUS
  <2>2. c \in Configurations!Settings
    BY <1>1, <2>1 DEF Configurations!Settings
  <2> QED
    BY <1>2, <1>4, <2>1, <2>2 DEF Configurations!SetDNSSettings
<1>5. CASE Configurations!SaveConfig
  BY <1>1, <1>5 DEF Configurations!SaveConfig, Configurations!Saves, Configurations!user, FilesShape, FilesTyped
<1>6. CASE Configurations!SetExcludeLoopback
  <2>1. /\ settings' = [settings EXCEPT !.excludeLoopback = ~ @] /\ saved' \in {saved, settings'}
        /\ excused' \subseteq Tunnels /\ UNCHANGED <<file, unsaved, held, wanted, stripped, stranded>>
    BY <1>6 DEF Configurations!SetExcludeLoopback
  <2>2. settings' \in Configurations!Settings /\ settings'.excludeLoopback \in BOOLEAN
    BY <1>1, <2>1 DEF Configurations!Settings
  <2>3. PICK todo : todo = {t \in Tunnels : file[t] # None}
    OBVIOUS
  <2>4. PICK j : j = [exclude |-> settings'.excludeLoopback, todo |-> todo]
    OBVIOUS
  <2>5. j \in [exclude : BOOLEAN, todo : SUBSET Tunnels] /\ jobs' \subseteq jobs \cup {j}
    BY <1>6, <2>2, <2>3, <2>4 DEF Configurations!SetExcludeLoopback
  <2>6. jobs' \subseteq [exclude : BOOLEAN, todo : SUBSET Tunnels]
    BY <2>5 DEF FilesShape
  <2> QED
    BY <1>1, <2>1, <2>2, <2>6 DEF FilesShape, FilesTyped
<1>7. CASE Configurations!SetDisableIPv6
  <2>1. /\ settings' = [settings EXCEPT !.disableIPv6 = ~ @] /\ saved' \in {saved, settings'}
        /\ UNCHANGED <<file, unsaved, jobs, held, wanted, excused, stripped, stranded>>
    BY <1>7 DEF Configurations!SetDisableIPv6, Configurations!Saves
  <2>2. settings' \in Configurations!Settings
    BY <1>1, <2>1 DEF Configurations!Settings
  <2> QED
    BY <1>1, <2>1, <2>2 DEF FilesShape, FilesTyped
<1>8. ASSUME NEW j \in jobs, NEW t \in j.todo, Configurations!UpdateTunnelConfig(j, t) PROVE FilesShape'
  <2>1. PICK rest : rest = [j EXCEPT !.todo = @ \ {t}]
    OBVIOUS
  <2>2. /\ j \in [exclude : BOOLEAN, todo : SUBSET Tunnels] /\ t \in Tunnels
        /\ rest \in [exclude : BOOLEAN, todo : SUBSET Tunnels]
    BY <1>8, <2>1 DEF FilesShape
  <2>3. jobs' \subseteq jobs \cup {rest}
    BY <1>8, <2>1 DEF Configurations!UpdateTunnelConfig
  <2>4. held' \subseteq [t : Tunnels, file : Configurations!Files]
    <3>1. CASE held' = held
      BY <3>1 DEF FilesShape
    <3>2. CASE file[t] # None /\ Configurations!Hold(t, Configurations!Modified(j, file[t].ips), file[t].tableOff)
      <4>1. file[t] \in Configurations!Files
        BY <1>1, <2>2, <3>2
      <4>2. file[t].ips \in SUBSET Configurations!Nets /\ file[t].tableOff \in BOOLEAN
        BY <4>1 DEF Configurations!Files
      <4>3. Configurations!Modified(j, file[t].ips) \in SUBSET Configurations!Nets
        BY <4>2, NetsTyped DEF Configurations!Modified
      <4> QED
        BY <2>2, <3>2, <4>2, <4>3, HoldTyped
    <3> QED
      BY <1>8, <3>1, <3>2 DEF Configurations!UpdateTunnelConfig
  <2>5. /\ UNCHANGED <<file, settings, saved, unsaved, wanted, stripped, stranded>>
        /\ excused' \subseteq Tunnels
    BY <1>1, <1>8, <2>2 DEF Configurations!UpdateTunnelConfig, Configurations!settings, Configurations!user
  <2> QED
    BY <1>1, <2>2, <2>3, <2>4, <2>5 DEF FilesShape, FilesTyped
<1>9. ASSUME NEW t \in Tunnels, Configurations!Start(t) PROVE FilesShape'
  <2>1. PICK first : first = IF settings.excludeLoopback THEN Configurations!ExcludeLoopback(file[t].ips)
                             ELSE file[t].ips
    OBVIOUS
  <2>2. PICK ips, off : /\ ips = IF settings.disableIPv6 THEN Configurations!DisableIPv6(first) ELSE first
                        /\ off = (Configurations!Selected(t) \/ file[t].tableOff)
    OBVIOUS
  <2>3. /\ file[t] # None /\ settings' = Configurations!Prepared(t) /\ Configurations!Hold(t, ips, off)
        /\ saved' \in {saved, settings'}
        /\ stranded' = IF settings'.managed = settings.managed THEN stranded
                       ELSE stranded \cup ({settings.managed} \ {None})
        /\ stripped' = IF settings.disableIPv6 THEN stripped \cup {t} ELSE stripped
        /\ UNCHANGED <<file, unsaved, jobs, wanted, excused>>
    BY <1>9, <2>1, <2>2 DEF Configurations!Start, Configurations!Saves
  <2>4. file[t] \in Configurations!Files
    BY <1>1, <2>3
  <2>5. file[t].ips \in SUBSET Configurations!Nets /\ file[t].tableOff \in BOOLEAN
    BY <2>4 DEF Configurations!Files
  <2>6. off \in BOOLEAN
    BY <2>2, <2>5 DEF Configurations!Selected
  <2>7. ips \in SUBSET Configurations!Nets
    BY <2>1, <2>2, <2>5, NetsTyped
  <2>8. held' \subseteq [t : Tunnels, file : Configurations!Files]
    BY <2>3, <2>6, <2>7, HoldTyped
  <2>9. settings' \in Configurations!Settings
    <3>1. PICK b : b = file[t].tableOff
      OBVIOUS
    <3>2. settings' = settings \/ settings' = [settings EXCEPT !.managed = t, !.original = b]
      BY <2>3, <3>1 DEF Configurations!Prepared
    <3>3. [settings EXCEPT !.managed = t, !.original = b] \in Configurations!Settings
      BY <1>1, <2>5, <3>1 DEF Configurations!Settings
    <3> QED
      BY <1>1, <3>2, <3>3
  <2>10. saved' \in Configurations!Settings /\ stripped' \subseteq Tunnels /\ stranded' \subseteq Tunnels
    BY <1>1, <2>3, <2>9 DEF Configurations!Settings
  <2> QED
    BY <1>1, <2>3, <2>8, <2>9, <2>10 DEF FilesShape, FilesTyped
<1>10. ASSUME NEW h \in held, Configurations!Save(h) PROVE FilesShape'
  <2>1. PICK t \in Tunnels, f \in Configurations!Files : h.t = t /\ h.file = f
    BY <1>10 DEF FilesShape
  <2>2. /\ file' = [file EXCEPT ![t] = f] \/ file' = file
        /\ held' \subseteq held /\ excused' \subseteq Tunnels
        /\ UNCHANGED <<settings, saved, unsaved, jobs, stripped, stranded, wanted>>
    BY <1>1, <1>10, <2>1 DEF Configurations!Save, Configurations!settings, Configurations!user
  <2>3. file' \in [Tunnels -> Configurations!Files \cup {None}]
    BY <1>1, <2>2
  <2> QED
    BY <1>1, <2>2, <2>3 DEF FilesShape, FilesTyped
<1>11. ASSUME NEW t \in Tunnels, NEW S \in Inputs, Configurations!Edit(t, S) PROVE FilesShape'
  <2>1. S \in SUBSET Configurations!Nets
    BY InputsAreNets DEF KeptFrom
  <2>2. PICK b \in BOOLEAN : file' = [file EXCEPT ![t] = [ips |-> S, tableOff |-> b]]
    <3>1. file[t] # None => file[t].tableOff \in BOOLEAN
      <4>1. file[t] # None => file[t] \in Configurations!Files
        BY <1>1
      <4> QED
        BY <4>1 DEF Configurations!Files
    <3> QED
      BY <1>11, <3>1 DEF Configurations!Edit
  <2>3. [ips |-> S, tableOff |-> b] \in Configurations!Files
    BY <2>1 DEF Configurations!Files
  <2>4. file' \in [Tunnels -> Configurations!Files \cup {None}] /\ file'[t].tableOff = b
    BY <1>1, <2>2, <2>3
  <2>5. PICK d \in BOOLEAN : wanted' = [wanted EXCEPT ![t].ips = S, ![t].tableOff = d]
    <3>1. wanted[t].tableOff \in BOOLEAN
      BY <1>1 DEF Written
    <3>2. CASE settings.managed = t /\ file[t] # None
      BY <1>1, <1>11, <3>1, <3>2 DEF Configurations!Edit
    <3>3. CASE ~ (settings.managed = t /\ file[t] # None)
      BY <1>11, <2>4, <3>3 DEF Configurations!Edit
    <3> QED
      BY <3>2, <3>3
  <2>6. wanted' \in [Tunnels -> Written]
    BY <1>1, <2>5 DEF Written
  <2>7. /\ excused' \subseteq Tunnels /\ stripped' \subseteq Tunnels /\ stranded' \subseteq Tunnels
        /\ UNCHANGED <<settings, saved, unsaved, jobs, held>>
    BY <1>1, <1>11 DEF Configurations!Edit, Configurations!settings
  <2> QED
    BY <1>1, <2>4, <2>6, <2>7 DEF FilesShape, FilesTyped
<1>12. ASSUME NEW t \in Tunnels, Configurations!Delete(t) PROVE FilesShape'
  <2>1. /\ file' = [file EXCEPT ![t] = None]
        /\ UNCHANGED <<settings, saved, unsaved, jobs, held, wanted, excused, stripped, stranded>>
    BY <1>12 DEF Configurations!Delete, Configurations!settings
  <2>2. file' \in [Tunnels -> Configurations!Files \cup {None}]
    BY <1>1, <2>1
  <2> QED
    BY <1>1, <2>1, <2>2 DEF FilesShape, FilesTyped
<1>13. CASE Configurations!Restart
  BY <1>1, <1>13 DEF Configurations!Restart, Configurations!Settings, FilesShape, FilesTyped
<1> QED
  BY <1>3, <1>4, <1>5, <1>6, <1>7, <1>8, <1>9, <1>10, <1>11, <1>12, <1>13 DEF Configurations!Next

LEMMA ShapeKept == FilesShape /\ [Next]_vars => FilesShape'
<1> SUFFICES ASSUME FilesShape, [Next]_vars PROVE FilesShape'
  OBVIOUS
<1>1. CASE UNCHANGED filesVars
  BY <1>1 DEF filesVars, FilesShape, FilesTyped
<1>2. CASE Configurations!Next
  BY <1>2, ShapeNext
<1> QED
  BY <1>1, <1>2 DEF Next, InPeers, InFiles, InRules, vars

LEMMA FilesOfType ==
  ASSUME FilesShape, "torn" \notin Disturbances => FilesInv
  PROVE  Configurations!TypeOK
<1>1. wanted \in [Tunnels -> Configurations!Files]
  <2>1. \A S \in Inputs : S \subseteq Configurations!Nets
    BY InputsAreNets
  <2>2. Written \subseteq Configurations!Files
    BY <2>1 DEF Written, Configurations!Files
  <2> QED
    BY <2>2 DEF FilesShape, FilesTyped
<1>2. ASSUME Disturbances \cap {"torn", "delete"} = {}
      PROVE  /\ settings.managed \notin stranded \cup {None} => file[settings.managed] # None
             /\ Configurations!Cardinality(held) <= 1
  <2>1. settings.managed \notin stranded \cup {None} => file[settings.managed] # None
    BY <1>2 DEF FilesInv, TablesHold, ManagedIs
  <2>2. Configurations!Cardinality(held) = Cardinality(held)
    BY DEF Configurations!Cardinality, Cardinality
  <2>3. CASE held = {}
    BY <2>1, <2>2, <2>3, FS_EmptySet
  <2>4. ASSUME NEW h \in held PROVE Cardinality(held) = 1
    <3>1. held = {h}
      BY <1>2, <2>4 DEF FilesInv, OneHeld
    <3> QED
      BY <3>1, FS_Singleton
  <2> QED
    BY <2>1, <2>2, <2>3, <2>4
<1> QED
  BY <1>1, <1>2 DEF FilesShape, FilesTyped, Configurations!TypeOK

LEMMA PeersOfType == PeersInv => Peers!TypeOK
<1> SUFFICES ASSUME PeersInv PROVE Peers!TypeOK
  OBVIOUS
<1>1. CASE isAdmin
  <2>1. Matched(groups, peers)
    BY <1>1 DEF PeersInv
  <2>2. {peers[k] : k \in DOMAIN peers} = DOMAIN groups
    <3>1. \A k \in DOMAIN peers : peers[k] \in DOMAIN groups
      BY <2>1 DEF Matched
    <3>2. \A x \in DOMAIN groups : \E k \in DOMAIN peers : x = peers[k]
      BY <2>1 DEF Matched
    <3> QED
      BY <3>1, <3>2
  <2> QED
    BY <2>1, <2>2 DEF PeersInv, Matched, Peers!TypeOK
<1>2. CASE ~ isAdmin
  BY <1>2 DEF PeersInv, OneGroup, Peers!TypeOK
<1> QED
  BY <1>1, <1>2

LEMMA RulesOfType == RulesInv => Rules!TypeOK
<1> SUFFICES ASSUME RulesInv PROVE Rules!TypeOK
  OBVIOUS
<1>1. ASSUME NEW c, IsSettings(c) PROVE c \in Rules!Configs
  <2>1. PICK N : N = [Protocol : {"tcp", "udp", "both"}, From : Rules!Ports, To : Rules!Ports]
    OBVIOUS
  <2>2. N \subseteq Rules!PortRules
    BY <2>1, RulesConstants DEF Rules!PortRules, Rules!Ports, Rules!MaxPortAssumption
  <2>3. c.rules \in Seq(N)
    BY <1>1, <2>1 DEF IsSettings, IsNormal
  <2>4. c.rules \in Seq(Rules!PortRules)
    BY <2>2, <2>3, SeqMonotonic
  <2> QED
    BY <1>1, <2>4 DEF IsSettings, Rules!Configs
<1> QED
  BY <1>1 DEF RulesInv, Rules!TypeOK

\* The state of each part is of its type.  For the configurations that says also
\* that one of them at a time is on its way to its file, and that the managed tunnel
\* has a configuration, unless the settings have lost track of it; for the view of peers, that each group
\* is in the map of keys (ConfView.peers).
THEOREM PartsTyped == Spec => []TypeOK
<1>1. Init => PeersInv /\ FilesShape /\ FilesInv /\ RulesInv
  BY PeersInit, ShapeInit, FilesInit, RulesInit DEF Init
<1> DEFINE Inv == PeersInv /\ FilesShape /\ ("torn" \notin Disturbances => FilesInv) /\ RulesInv
<1>2. Init => Inv
  BY <1>1
<1>3. Inv /\ [Next]_vars => Inv'
  BY PeersKept, ShapeKept, FilesKept, RulesKept
<1>4. Inv => TypeOK
  BY PeersOfType, FilesOfType, RulesOfType DEF TypeOK
<1> QED
  BY <1>2, <1>3, <1>4, PTL DEF Spec
=============================================================================
