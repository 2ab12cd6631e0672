----------------------------- MODULE PeerViews ------------------------------
(***************************************************************************)
(* The groups of the tunnel's view that show the peers of a configuration  *)
(* (setTunnel and peerView.apply, ui/confview.go).  Groups are kept and    *)
(* used again: a group is found by the public key of its peer, and the     *)
(* other way round by the text of the key that it shows.  A limited user   *)
(* is sent configurations without keys (Redact), and shown none.           *)
(***************************************************************************)
EXTENDS Naturals, Sequences, FiniteSets, SequencesExt

CONSTANTS
  Keys,      \* public keys of peers
  ZeroKey,   \* what Redact makes of each
  Data,      \* the rest of a peer's lines, each of them shown or hidden
  MaxPeers,  \* bound on the peers of a configuration
  NoText     \* the text of a hidden line

PeerViewsAssumption == ZeroKey \notin Keys /\ NoText \notin Keys \cup {ZeroKey} /\ MaxPeers \in Nat

Peer(k, d) == [key |-> k, data |-> d]

VARIABLES
  isAdmin,
  config,  \* the peers of the configuration that was set last
  groups,  \* the groups: the key and the data each shows
  peers    \* cv.peers, from keys to groups

vars == <<isAdmin, config, groups, peers>>

Empty == [x \in {} |-> x]

Init ==
  /\ isAdmin \in BOOLEAN
  /\ config = <<>> /\ groups = Empty /\ peers = Empty

\* The configurations the process gets: an administrator's have one peer to a key.
Configs ==
  LET of(K) == UNION {[1..n -> {Peer(k, d) : k \in K, d \in Data}] : n \in 0..MaxPeers}
  IN  IF isAdmin
      THEN {c \in of(Keys) : IsInjective([i \in 1..Len(c) |-> c[i].key])}
      ELSE of({ZeroKey})

-----------------------------------------------------------------------------
\* peerView.apply: every line is set, or hidden.
Applied(p) == [p EXCEPT !.key = IF isAdmin THEN @ ELSE NoText]

Put(f, x, y) == [z \in DOMAIN f \cup {x} |-> IF z = x THEN y ELSE f[z]]
Drop(f, x) == [z \in DOMAIN f \ {x} |-> f[z]]

\* NewPrivateKeyFromString of the text of a group's key.
Readable(g) == g.key # NoText

\* What the loop over the peers has: the groups that it may use again, and those
\* it has kept.
State(g, p, a, k) == [groups |-> g, peers |-> p, spare |-> a, kept |-> k]

Fresh(s) == CHOOSE g \in 1..Cardinality(DOMAIN s.groups) + 1 : g \notin DOMAIN s.groups

\* Mutant of Reuse: the group stays under its old key too.
ReuseTwice(s, g, p) ==
  [s EXCEPT !.spare = Tail(@), !.groups[g] = Applied(p), !.peers = Put(@, p.key, g), !.kept = @ \cup {g}]

\* A group of another peer becomes that of p.
Reuse(s, g, p) ==
  [s EXCEPT !.spare = Tail(@), !.groups[g] = Applied(p),
            !.peers = Put(Drop(@, s.groups[g].key), p.key, g), !.kept = @ \cup {g}]

\* When no peer has a group yet, the groups there are are used again.
SetPeer(s, p, someMatch) ==
  IF p.key \in DOMAIN s.peers
  THEN [s EXCEPT !.groups[s.peers[p.key]] = Applied(p), !.kept = @ \cup {s.peers[p.key]}]
  ELSE IF ~someMatch /\ s.spare # <<>>
  THEN IF Readable(s.groups[Head(s.spare)]) THEN Reuse(s, Head(s.spare), p)
       ELSE [s EXCEPT !.spare = Tail(@)]
  ELSE LET g == Fresh(s)
       IN  [s EXCEPT !.groups = Put(@, g, Applied(p)), !.peers = Put(@, p.key, g), !.kept = @ \cup {g}]

\* The groups that were not kept go, those whose key can be read.
Removed(s) == {g \in DOMAIN s.groups \ s.kept : Readable(s.groups[g])}

\* setTunnel; a map is gone through in any order.
SetTunnel(c) ==
  /\ config' = c
  /\ \E all \in SetToSeqs(DOMAIN groups) :
       LET someMatch == \E i \in 1..Len(c) : c[i].key \in DOMAIN peers
           after[i \in 0..Len(c)] ==
             IF i = 0 THEN State(groups, peers, all, {}) ELSE SetPeer(after[i - 1], c[i], someMatch)
           s == after[Len(c)]
       IN  /\ groups' = [g \in DOMAIN s.groups \ Removed(s) |-> s.groups[g]]
           /\ peers' = [k \in DOMAIN s.peers \ {s.groups[g].key : g \in Removed(s)} |-> s.peers[k]]
  /\ UNCHANGED isAdmin

Next == \E c \in Configs : SetTunnel(c)

Spec == Init /\ [][Next]_vars

-----------------------------------------------------------------------------
(* Properties.                                                             *)

\* The type of the state; every group is in the map (ConfView.peers).
TypeOK ==
  /\ config \in Configs
  /\ DOMAIN peers \subseteq Keys \cup {ZeroKey}
  /\ {peers[k] : k \in DOMAIN peers} = DOMAIN groups

\* An administrator sees a group for each peer, and no other, whatever was shown
\* before and in whatever order the groups were used again.  A limited user sees
\* one group for all peers, with what the last of them has, and goes on seeing it
\* when a configuration has no peer at all (setTunnel, ui/confview.go).
PeersShown ==
  LET seen == {groups[g] : g \in DOMAIN groups}
  IN  IF isAdmin
      THEN seen = Range(config) /\ Cardinality(DOMAIN groups) = Len(config)
      ELSE /\ Cardinality(seen) <= 1
           /\ config # <<>> => seen = {Applied(Last(config))}
=============================================================================
