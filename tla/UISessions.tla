----------------------------- MODULE UISessions -----------------------------
(***************************************************************************)
(* How the manager's service keeps a UI process in every session           *)
(* (managerService.Execute in manager/service.go, manager/uiprocess.go):   *)
(* one goroutine of startProcess for each session launches the process,    *)
(* waits for it and launches it again; the service's own thread hears of   *)
(* sessions that log on and off, and stops them all.                       *)
(*                                                                         *)
(* Sessions, their users, all of them administrators, and Windows, which   *)
(* ends the processes of a session that logs off, are the environment.  A  *)
(* session that has logged off does not log on again.                      *)
(***************************************************************************)
EXTENDS Sequences

CONSTANT Sessions

\* Where the goroutine of a session is in startProcess.
Places == {"none", "token", "stopCheck", "aliveCheck", "listen", "launch",
           "register", "wait", "unregister", "leave"}

VARIABLES
  phase,            \* of Execute: enumerate, accept, loop, kill, wait, done
  stoppingManager,  \* stoppingManager
  user,             \* of each session: none yet, on, or off
  events,           \* session changes sent to the service, not yet handled
  aliveSessions,    \* aliveSessions
  procs,            \* the sessions with an entry in procs
  pc,               \* the goroutine of each session
  proc,             \* the UI process of each session
  missed,           \* goroutines between two checks when the service stopped
  failed            \* sessions whose goroutine an error has ended

mainVars == <<phase, stoppingManager, missed>>
sessionVars == <<user, events>>
lockedVars == <<aliveSessions, procs>>
uiVars == <<pc, proc, failed>>
vars == <<mainVars, sessionVars, lockedVars, uiVars>>

\* procsLock is held while the service kills the processes.
Unlocked == phase # "kill"

\* The service handles session changes only once it has said that it does.
Accepting == phase \notin {"enumerate", "accept"}

Init ==
  /\ phase = "enumerate"
  /\ stoppingManager = FALSE
  /\ user \in [Sessions -> {"none", "on"}]
  /\ events = <<>>
  /\ aliveSessions = {}
  /\ procs = {}
  /\ pc = [s \in Sessions |-> "none"]
  /\ proc = [s \in Sessions |-> "none"]
  /\ missed = {}
  /\ failed = {}

-----------------------------------------------------------------------------
(* The environment.                                                        *)

Tell(kind, s) ==
  events' = IF Accepting THEN Append(events, [kind |-> kind, session |-> s]) ELSE events

LogsOn(s) ==
  /\ user[s] = "none"
  /\ user' = [user EXCEPT ![s] = "on"]
  /\ Tell("logon", s)
  /\ UNCHANGED <<mainVars, lockedVars, uiVars>>

LogsOff(s) ==
  /\ user[s] = "on"
  /\ user' = [user EXCEPT ![s] = "off"]
  /\ Tell("logoff", s)
  /\ UNCHANGED <<mainVars, lockedVars, uiVars>>

\* The process of s ends, with the status of a session that logs off or another.
ProcessEnds(s, how) ==
  /\ proc[s] = "up"
  /\ proc' = [proc EXCEPT ![s] = how]
  /\ UNCHANGED <<mainVars, sessionVars, lockedVars, pc, failed>>

WindowsEnds(s) == user[s] = "off" /\ \E how \in {"loggedOff", "exited"} : ProcessEnds(s, how)

UIExits(s) == ProcessEnds(s, "exited")

-----------------------------------------------------------------------------
(* startProcess.                                                           *)

\* The goroutine of s goes from one place to another.
Step(s, from, to) ==
  /\ pc[s] = from
  /\ pc' = [pc EXCEPT ![s] = to]
  /\ UNCHANGED failed

\* A call of Windows fails, and the goroutine logs that and returns.
GiveUp(s, from) ==
  /\ pc[s] = from
  /\ pc' = [pc EXCEPT ![s] = "leave"]
  /\ failed' = failed \cup {s}

\* WTSQueryUserToken fails for a session nobody is logged on to; it, the look-up
\* of the account or the elevation of the token may fail for others.
QueryToken(s) ==
  /\ \/ Step(s, "token", IF user[s] = "on" THEN "stopCheck" ELSE "leave")
     \/ user[s] = "on" /\ GiveUp(s, "token")
  /\ UNCHANGED <<mainVars, sessionVars, lockedVars, proc>>

\* Mutant of CheckStopping: the loop does not end when the service stops.
CheckStoppingNever(s) ==
  /\ Step(s, "stopCheck", "aliveCheck")
  /\ UNCHANGED <<mainVars, sessionVars, lockedVars, proc>>

\* stoppingManager is read without the lock.
CheckStopping(s) ==
  /\ Step(s, "stopCheck", IF stoppingManager THEN "leave" ELSE "aliveCheck")
  /\ UNCHANGED <<mainVars, sessionVars, lockedVars, proc>>

CheckAlive(s) ==
  /\ Unlocked
  /\ Step(s, "aliveCheck", IF s \in aliveSessions THEN "listen" ELSE "leave")
  /\ UNCHANGED <<mainVars, sessionVars, lockedVars, proc>>

\* A second's sleep, but for the first process, then the pipes, IPCServerListen
\* and the handle of the log.
Listen(s) ==
  /\ Step(s, "listen", "launch") \/ GiveUp(s, "listen")
  /\ UNCHANGED <<mainVars, sessionVars, lockedVars, proc>>

\* The process is launched if the session is still alive, and if Windows can.
LaunchProcess(s) ==
  /\ Unlocked
  /\ \/ /\ s \in aliveSessions
        /\ Step(s, "launch", "register")
        /\ proc' = [proc EXCEPT ![s] = "up"]
     \/ s \in aliveSessions /\ GiveUp(s, "launch") /\ UNCHANGED proc
     \/ s \notin aliveSessions /\ Step(s, "launch", "leave") /\ UNCHANGED proc
  /\ UNCHANGED <<mainVars, sessionVars, lockedVars>>

Register(s) ==
  /\ Unlocked
  /\ Step(s, "register", "wait")
  /\ procs' = procs \cup {s}
  /\ UNCHANGED <<mainVars, sessionVars, aliveSessions, proc>>

Wait(s) ==
  /\ proc[s] # "up"
  /\ Step(s, "wait", "unregister")
  /\ UNCHANGED <<mainVars, sessionVars, lockedVars, proc>>

\* Mutant of Unregister: a process that ended is the end of its session.
UnregisterLeaves(s) ==
  /\ Unlocked
  /\ Step(s, "unregister", "leave")
  /\ procs' = procs \ {s}
  /\ proc' = [proc EXCEPT ![s] = "none"]
  /\ UNCHANGED <<mainVars, sessionVars, aliveSessions>>

Unregister(s) ==
  /\ Unlocked
  /\ Step(s, "unregister", IF proc[s] = "loggedOff" THEN "leave" ELSE "stopCheck")
  /\ procs' = procs \ {s}
  /\ proc' = [proc EXCEPT ![s] = "none"]
  /\ UNCHANGED <<mainVars, sessionVars, aliveSessions>>

\* Mutant of Leave: the deferred deletion of the session is missing.
LeaveAlive(s) ==
  /\ Unlocked
  /\ Step(s, "leave", "none")
  /\ UNCHANGED <<mainVars, sessionVars, lockedVars, proc>>

Leave(s) ==
  /\ Unlocked
  /\ Step(s, "leave", "none")
  /\ aliveSessions' = aliveSessions \ {s}
  /\ UNCHANGED <<mainVars, sessionVars, procs, proc>>

StartProcess(s) ==
  \/ QueryToken(s) \/ CheckStopping(s) \/ CheckAlive(s) \/ Listen(s)
  \/ LaunchProcess(s) \/ Register(s) \/ Wait(s) \/ Unregister(s) \/ Leave(s)

-----------------------------------------------------------------------------
(* Execute.                                                                *)

\* The sessions of S become alive and get a goroutine, unless they are alive or
\* have a process.
Begin(S) ==
  LET started == (S \ aliveSessions) \ procs
  IN  /\ aliveSessions' = aliveSessions \cup S
      /\ pc' = [s \in Sessions |-> IF s \in started THEN "token" ELSE pc[s]]
      /\ failed' = failed \ started

\* WTSEnumerateSessions also finds a session nobody has logged on to yet.
Enumerate ==
  /\ phase = "enumerate"
  /\ phase' = "accept"
  /\ \E idle \in SUBSET {s \in Sessions : user[s] = "none"} :
       Begin(idle \cup {s \in Sessions : user[s] = "on"})
  /\ UNCHANGED <<stoppingManager, missed, sessionVars, procs, proc>>

Accept ==
  /\ phase = "accept"
  /\ phase' = "loop"
  /\ UNCHANGED <<stoppingManager, missed, sessionVars, lockedVars, uiVars>>

\* Mutant of Kill: the other sessions' processes are lost sight of.
KillForgets(S) == proc' = [s \in procs \cap S |-> "exited"]

\* TerminateProcess for the processes in procs of the sessions in S.
Kill(S) ==
  proc' = [s \in Sessions |-> IF s \in procs \cap S /\ proc[s] = "up" THEN "exited" ELSE proc[s]]

\* Mutant of HandleLogoff: the session is killed but stays alive.
HandleLogoffKills(s) ==
  /\ Kill({s})
  /\ UNCHANGED <<aliveSessions, pc, failed>>

HandleLogoff(s) ==
  /\ aliveSessions' = aliveSessions \ {s}
  /\ Kill({s})
  /\ UNCHANGED <<pc, failed>>

HandleLogon(s) ==
  /\ Begin({s})
  /\ UNCHANGED proc

HandleEvent ==
  /\ phase = "loop"
  /\ events # <<>>
  /\ LET e == Head(events)
     IN  IF e.kind = "logoff" THEN HandleLogoff(e.session) ELSE HandleLogon(e.session)
  /\ events' = Tail(events)
  /\ UNCHANGED <<mainVars, user, procs>>

\* A stop request, or Quit: the lock is taken and the flag is set.
Stop ==
  /\ phase = "loop"
  /\ phase' = "kill"
  /\ stoppingManager' = TRUE
  /\ UNCHANGED <<missed, sessionVars, lockedVars, uiVars>>

\* The processes in procs are killed, and the lock is released.
KillProcs ==
  /\ phase = "kill"
  /\ phase' = "wait"
  /\ Kill(Sessions)
  /\ missed' = {s \in Sessions : pc[s] \in {"aliveCheck", "listen", "launch", "register"}}
  /\ UNCHANGED <<stoppingManager, sessionVars, lockedVars, pc, failed>>

\* procsGroup.Wait.
WaitForProcs ==
  /\ phase = "wait"
  /\ \A s \in Sessions : pc[s] = "none"
  /\ phase' = "done"
  /\ UNCHANGED <<stoppingManager, missed, sessionVars, lockedVars, uiVars>>

Execute == Enumerate \/ Accept \/ HandleEvent \/ KillProcs \/ WaitForProcs

-----------------------------------------------------------------------------

Next ==
  \/ \E s \in Sessions :
       LogsOn(s) \/ LogsOff(s) \/ WindowsEnds(s) \/ UIExits(s) \/ StartProcess(s)
  \/ Execute
  \/ Stop

Spec == Init /\ [][Next]_vars

\* Goroutines and the service's thread are scheduled, Windows ends the processes
\* of a session that logged off; users do as they like.
FairSpec ==
  /\ Spec
  /\ WF_vars(Execute)
  /\ \A s \in Sessions : WF_vars(StartProcess(s)) /\ WF_vars(WindowsEnds(s))

-----------------------------------------------------------------------------
(* Properties.                                                             *)

TypeOK ==
  /\ phase \in {"enumerate", "accept", "loop", "kill", "wait", "done"}
  /\ stoppingManager \in BOOLEAN
  /\ user \in [Sessions -> {"none", "on", "off"}]
  /\ events \in Seq([kind : {"logon", "logoff"}, session : Sessions])
  /\ aliveSessions \subseteq Sessions
  /\ procs \subseteq Sessions
  /\ pc \in [Sessions -> Places]
  /\ proc \in [Sessions -> {"none", "up", "exited", "loggedOff"}]
  /\ missed \subseteq Sessions
  /\ failed \subseteq Sessions /\ \A s \in failed : pc[s] \in {"leave", "none"}

\* An entry of aliveSessions always has its goroutine: nothing leaves a session
\* marked as served, so that its logon is ignored, when nobody serves it.
AliveIsServed == \A s \in aliveSessions : pc[s] # "none"

\* A UI that ends while its user is logged on is launched again, whatever the other
\* sessions do, until the service stops or Windows refuses one of the calls it takes:
\* an error there leaves the session without a UI until its next logon.
UIComesBack(s) ==
  (proc[s] = "exited" /\ user[s] = "on") ~>
    (proc[s] = "up" \/ user[s] = "off" \/ stoppingManager \/ s \in failed)

\* A session whose logoff the service hears of is let go of: neither is its goroutine
\* left waiting for a process nobody kills, nor does it launch one after another.
LogoffEnds(s) ==
  (\E i \in DOMAIN events : events[i] = [kind |-> "logoff", session |-> s]) ~>
    (pc[s] = "none" \/ stoppingManager)

\* While the service waits to stop, everything ends but a process that nobody has
\* killed, because its goroutine had looked at stoppingManager before that was set
\* and registered the process after procs was gone through: the service waits for
\* nothing but the user who is logged on and ends that UI.
StopEnds ==
  []<>(phase = "wait" =>
         \A s \in Sessions : pc[s] # "none" =>
           s \in missed /\ pc[s] = "wait" /\ proc[s] = "up" /\ user[s] = "on")
=============================================================================
