----------------------------- MODULE MCProcesses ----------------------------
(* The instance of ProcessParts for TLC.                                   *)
EXTENDS ProcessParts

\* Newer, older and equal versions, shorter and longer ones, and such as are none.
SomeLists == {{}, {<<1>>, <<0, 1, 0>>}, {<<0, 1, 1>>, <<0>>}, {<<0, 2>>, <<65536>>}, {<<0, 65536>>}}
OurVersion == <<0, 1>>

\* The parts that do not run are in one initial state of theirs.
OthersRest ==
  /\ part \in {"ring", "updater", "sessions", "pipes"}
  /\ part = "ring" \/ nextIndex = 0
  /\ part = "updater" \/ (official = TRUE /\ list = {})
  /\ part = "sessions" \/ user = [s \in Sessions |-> "none"]
  /\ part = "pipes" \/ up = TRUE

OneInit == Init /\ OthersRest

\* The fairness of each part, while it runs.  Of the callers of a tunnel only the
\* one that PipesServe asks about needs the strong form: while it waits, nothing
\* but its own state stops the other.
Fairness ==
  /\ WF_ringVars(part = "ring" /\ Ring!WriteStep) /\ WF_ringVars(part = "ring" /\ Ring!Read)
  /\ \A u \in Updates :
       /\ WF_updaterVars(part = "updater" /\ Updating!DoIt(u))
       /\ WF_updaterVars(part = "updater" /\ Updating!Forward(u))
  /\ \A c \in Admins : WF_updaterVars(part = "updater" /\ Updating!UIStep(c))
  /\ WF_sessionsVars(part = "sessions" /\ UIs!Execute)
  /\ \A s \in Sessions :
       /\ WF_sessionsVars(part = "sessions" /\ UIs!StartProcess(s))
       /\ WF_sessionsVars(part = "sessions" /\ UIs!WindowsEnds(s))
  /\ SF_pipesVars(part = "pipes" /\ Piping!Step("c1"))
  /\ WF_pipesVars(part = "pipes" /\ Piping!Step("c2"))

FairSpec == OneInit /\ [][Next]_vars /\ Fairness

-----------------------------------------------------------------------------
(* What happens in the end in the parts, that of a kind in one property.   *)

\* The page of the log comes to show the last line (RingLog).
LogFollowed == Ring!PageCatchesUp

\* An update that was asked for ends, and one that was found is shown (Updater).
UpdateComes == Updating!UpdateEnds /\ Updating!FoundIsShown

\* UI processes come back, and end with their sessions and with the service
\* (UISessions).  The two sessions are alike: one speaks for both.
SessionsGoOn == UIs!UIComesBack("s1") /\ UIs!LogoffEnds("s1") /\ UIs!StopEnds

\* The calls of all clients get the connection to a tunnel one at a time, none is
\* lost or closed under a call, and each call returns: no two wait for the locks
\* of each other (TunnelPipes).  The callers are alike: one speaks for all.
PipesServe == []Piping!PipesKept /\ Piping!CallReturns("c1")
=============================================================================
