---------------------------- MODULE MCManagerIpc ----------------------------
(* Instances of ManagerIpc for TLC.                                        *)
EXTENDS ManagerIpc

\* Calls of two threads, of every shape: with and without an argument, a result
\* and an answer.
Pairs ==
  {<<<<"SetEnabled">>, <<m>>>> : m \in {"SetEnabled", "AddRecord", "Quit"}}
  \cup {<<<<"Quit">>, <<m>>>> : m \in {"Clear", "State"}}

\* The first client makes such a pair, or it and each other client quit.
First == CHOOSE c \in Clients : TRUE
TwoThreads == [c \in Clients |-> IF c = First THEN {1, 2} ELSE {1}]
PairOrQuit ==
  {[c \in Clients |-> IF c = First THEN p ELSE <<<<>>>>] : p \in Pairs}
  \cup {[c \in Clients |-> IF c = First THEN <<<<"Quit">>, <<>>>> ELSE <<<<"Quit">>>>]}
=============================================================================
