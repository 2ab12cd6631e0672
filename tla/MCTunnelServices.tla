-------------------------- MODULE MCTunnelServices --------------------------
(* Instances of TunnelServices for TLC.                                    *)
EXTENDS TunnelServices, TLC

AllIntersect == Tunnels \X Tunnels

Symmetry == Permutations(Clients) \cup Permutations(Goroutines)

\* Nothing is installed when the manager starts.
CleanSpec == Init /\ service = [t \in Tunnels |-> None] /\ [][Next]_vars
=============================================================================
