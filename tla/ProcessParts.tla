---------------------------- MODULE ProcessParts ----------------------------
(***************************************************************************)
(* What goes on between the processes and shares no state, as one          *)
(* specification: the log in the memory of all of them with the page that  *)
(* follows it, updates, the UI processes of the sessions, and the          *)
(* connections to the tunnel services.  The initial state chooses a part,  *)
(* and only that one runs: a behaviour is one of a part's.                 *)
(***************************************************************************)
EXTENDS Naturals, Sequences

CONSTANTS
  M, MaxLines, MaxWriters, MaxSaves,              \* RingLog
  Lists, Ours, Admins, Updates, Cap, MaxNotes,    \* Updater
  Sessions,                                       \* UISessions
  Callers, Pipes, None                            \* TunnelPipes

VARIABLES
  part,
  nextIndex, lines, writes, clashed, copy, cursor, shown, saved, saves,   \* RingLog
  pageLoses, saveLoses,
  official, list, state, inProgress, run, progress, reader, files,        \* Updater
  notes, ui,
  phase, stoppingManager, user, events, aliveSessions, procs, pc,         \* UISessions
  proc, missed, failed,
  up, conn, cached, owner, call                                           \* TunnelPipes

ringVars == <<nextIndex, lines, writes, clashed, copy, cursor, shown, saved, saves, pageLoses, saveLoses>>
updaterVars == <<official, list, state, inProgress, run, progress, reader, files, notes, ui>>
sessionsVars == <<phase, stoppingManager, user, events, aliveSessions, procs, pc, proc, missed, failed>>
pipesVars == <<up, conn, cached, owner, call>>
vars == <<part, ringVars, updaterVars, sessionsVars, pipesVars>>

Ring == INSTANCE RingLog
Updating == INSTANCE Updater
UIs == INSTANCE UISessions
Piping == INSTANCE TunnelPipes

ASSUME ConstantsAssumption ==
  Ring!RingLogAssumption /\ Updating!UpdaterAssumption /\ Piping!TunnelPipesAssumption

Init ==
  /\ part \in {"ring", "updater", "sessions", "pipes"}
  /\ Ring!Init /\ Updating!Init /\ UIs!Init /\ Piping!Init

InRing == part = "ring" /\ UNCHANGED <<part, updaterVars, sessionsVars, pipesVars>>
InUpdater == part = "updater" /\ UNCHANGED <<part, ringVars, sessionsVars, pipesVars>>
InSessions == part = "sessions" /\ UNCHANGED <<part, ringVars, updaterVars, pipesVars>>
InPipes == part = "pipes" /\ UNCHANGED <<part, ringVars, updaterVars, sessionsVars>>

Next ==
  \/ InRing /\ Ring!Next
  \/ InUpdater /\ Updating!Next
  \/ InSessions /\ UIs!Next
  \/ InPipes /\ Piping!Next

Spec == Init /\ [][Next]_vars

-----------------------------------------------------------------------------
(* Properties: those of the parts.                                         *)

\* The types of the parts, each with what relates its state.
TypeOK == Ring!TypeOK /\ Updating!TypeOK /\ UIs!TypeOK /\ Piping!TypeOK

\* Only a newer, listed and authentic version is installed (Updater).
InstallsNewer == Updating!InstallsNewer

\* Who is marked as served is served (UISessions).
AliveIsServed == UIs!AliveIsServed

\* The page of the log shows every line once and in order, and so does a file of
\* it, unless a named race has met them (RingLog).
LogInOrder == Ring!PageInOrder /\ Ring!SavedInOrder
=============================================================================
