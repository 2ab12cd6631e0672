--------------------------- MODULE MCTunnelsPage ---------------------------
(* Instances of TunnelsPage for TLC.                                       *)
EXTENDS TunnelsPage

\* An import of two configurations.
OneImport == {<<1, 2>>}

\* The arrays of append double, and start with one row.
Doubled(n) == CHOOSE c \in {0, 1, 2, 4} : c >= n /\ (c < 2 * n \/ c = 0)

\* List and menu come to show the tunnels there are, however their asynchronous
\* loads overlap (ListMirrors, MenuMirrors).
ListsMirror == ListMirrors /\ MenuMirrors
=============================================================================
