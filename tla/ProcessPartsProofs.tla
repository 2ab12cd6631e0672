-------------------------- MODULE ProcessPartsProofs --------------------------
(***************************************************************************)
(* Proofs about the parts of ProcessParts, for any constants: the UI       *)
(* processes of the sessions, updates, the connections to tunnels and the  *)
(* log.                                                                    *)
(***************************************************************************)
EXTENDS ProcessParts, TLAPS, SequenceTheorems, WellFoundedInduction, FiniteSetTheorems

-----------------------------------------------------------------------------
(* UISessions.                                                             *)

\* A session that is marked as served has a goroutine, and so has one with a
\* process, which is where startProcess has launched it.
GoroutinesThere ==
  /\ \A s \in aliveSessions : pc[s] # "none"
  /\ \A s \in procs : pc[s] \in {"wait", "unregister"}
  /\ \A s \in Sessions : proc[s] # "none" => pc[s] \in {"register", "wait", "unregister"}

\* A session logs on and off once each: what is told of it is in that order.
EventsInOrder ==
  /\ \A i \in DOMAIN events :
       /\ user[events[i].session] # "none"
       /\ events[i].kind = "logoff" => user[events[i].session] = "off"
  /\ \A i, j \in DOMAIN events :
       i < j /\ events[i].session = events[j].session =>
         events[i].kind = "logon" /\ events[j].kind = "logoff"

NoLogonToCome(s) ==
  /\ user[s] = "off"
  /\ \A i \in DOMAIN events : events[i].session = s => events[i].kind = "logoff"

\* Whose goroutine goes on although its session is not marked as served any more
\* has logged off.
OldGoroutines ==
  \A s \in Sessions \ aliveSessions : pc[s] # "none" => NoLogonToCome(s)

NoneYet ==
  phase = "enumerate" => aliveSessions = {} /\ \A s \in Sessions : pc[s] = "none"

SessionsInv ==
  UIs!TypeOK /\ GoroutinesThere /\ EventsInOrder /\ OldGoroutines /\ NoneYet

Events == [kind : {"logon", "logoff"}, session : Sessions]

LEMMA SessionsInit == UIs!Init => SessionsInv
<1> SUFFICES ASSUME UIs!Init PROVE SessionsInv
  OBVIOUS
<1>1. <<>> \in Seq(Events) /\ DOMAIN <<>> = {}
  BY EmptySeq
<1>2. UIs!TypeOK
  BY <1>1 DEF UIs!Init, UIs!TypeOK, UIs!Places, Events
<1> QED
  BY <1>1, <1>2 DEF UIs!Init, SessionsInv, GoroutinesThere, EventsInOrder, OldGoroutines, NoneYet

LEMMA SessionsSame == SessionsInv /\ UNCHANGED sessionsVars => SessionsInv'
BY DEF sessionsVars, SessionsInv, UIs!TypeOK, GoroutinesThere, EventsInOrder, OldGoroutines,
   NoneYet, NoLogonToCome

\* Nobody logs on or off: the goroutine of s goes on from one place to another,
\* and its process and the entries of s go with it.
LEMMA GoroutineStep ==
  ASSUME SessionsInv, NEW s \in Sessions, NEW a \in UIs!Places, NEW b, pc[s] # "none",
         b \in {"none", "up", "exited", "loggedOff"},
         pc' = [pc EXCEPT ![s] = a], proc' = [proc EXCEPT ![s] = b],
         UNCHANGED <<phase, stoppingManager, missed, user, events>>,
         procs' \subseteq Sessions, aliveSessions' \subseteq Sessions,
         procs' \ {s} = procs \ {s}, aliveSessions' \ {s} = aliveSessions \ {s},
         s \in procs' => a \in {"wait", "unregister"},
         s \in aliveSessions' => a # "none",
         s \in aliveSessions /\ s \notin aliveSessions' => a = "none",
         failed' \subseteq Sessions, failed' \ {s} = failed \ {s},
         s \in failed' => a \in {"leave", "none"},
         b # "none" => a \in {"register", "wait", "unregister"}
  PROVE  SessionsInv'
<1>1. UIs!TypeOK'
  <2>1. \A t \in failed' : pc'[t] \in {"leave", "none"}
    BY DEF SessionsInv, UIs!TypeOK
  <2> QED
    BY <2>1 DEF SessionsInv, UIs!TypeOK
<1>2. /\ pc'[s] = a /\ proc'[s] = b
      /\ \A t \in Sessions \ {s} : /\ pc'[t] = pc[t] /\ proc'[t] = proc[t]
                                   /\ t \in procs' <=> t \in procs
                                   /\ t \in aliveSessions' <=> t \in aliveSessions
  BY DEF SessionsInv, UIs!TypeOK
<1>3. GoroutinesThere'
  BY <1>2 DEF SessionsInv, GoroutinesThere
<1>4. EventsInOrder'
  BY DEF SessionsInv, EventsInOrder
<1>5. \A t \in Sessions : NoLogonToCome(t) => NoLogonToCome(t)'
  BY DEF NoLogonToCome
<1>6. OldGoroutines'
  BY <1>2, <1>5 DEF SessionsInv, OldGoroutines
<1>7. NoneYet'
  BY <1>2 DEF SessionsInv, NoneYet
<1> QED
  BY <1>1, <1>3, <1>4, <1>6, <1>7 DEF SessionsInv

\* An error ends the goroutine of s.
LEMMA GiveUpKeeps ==
  ASSUME SessionsInv, NEW s \in Sessions, NEW from \in {"token", "listen", "launch"},
         UIs!GiveUp(s, from),
         UNCHANGED <<phase, stoppingManager, missed, user, events, aliveSessions, procs, proc>>
  PROVE  SessionsInv'
<1>1. /\ pc \in [Sessions -> UIs!Places] /\ proc \in [Sessions -> {"none", "up", "exited", "loggedOff"}]
      /\ aliveSessions \subseteq Sessions /\ procs \subseteq Sessions /\ failed \subseteq Sessions
      /\ s \in procs => pc[s] \in {"wait", "unregister"}
      /\ proc[s] # "none" => pc[s] \in {"register", "wait", "unregister"}
  BY DEF SessionsInv, UIs!TypeOK, GoroutinesThere
<1>2. /\ pc[s] \in {"token", "listen", "launch"} /\ pc' = [pc EXCEPT ![s] = "leave"]
      /\ "leave" \in UIs!Places
      /\ failed' \subseteq Sessions /\ failed' \ {s} = failed \ {s}
  BY <1>1 DEF UIs!GiveUp, UIs!Places
<1>3. proc[s] = "none" /\ s \notin procs /\ proc' = [proc EXCEPT ![s] = "none"]
  BY <1>1, <1>2
<1> QED
  BY <1>1, <1>2, <1>3, GoroutineStep

LEMMA StartProcessKeeps ==
  ASSUME SessionsInv, NEW s \in Sessions, UIs!StartProcess(s)
  PROVE  SessionsInv'
<1> USE DEF UIs!Step, UIs!mainVars, UIs!sessionVars, UIs!lockedVars, UIs!Places
<1>1. /\ pc \in [Sessions -> UIs!Places] /\ proc \in [Sessions -> {"none", "up", "exited", "loggedOff"}]
      /\ proc = [proc EXCEPT ![s] = proc[s]]
      /\ aliveSessions \subseteq Sessions /\ procs \subseteq Sessions
      /\ s \in procs => pc[s] \in {"wait", "unregister"}
      /\ proc[s] # "none" => pc[s] \in {"register", "wait", "unregister"}
      /\ failed \subseteq Sessions /\ (s \in failed => pc[s] \in {"leave", "none"})
  BY DEF SessionsInv, UIs!TypeOK, GoroutinesThere
<1>2. CASE UIs!QueryToken(s)
  <2>1. CASE UIs!Step(s, "token", IF user[s] = "on" THEN "stopCheck" ELSE "leave")
    BY <1>1, <1>2, <2>1, GoroutineStep DEF UIs!QueryToken
  <2>2. CASE UIs!GiveUp(s, "token")
    BY <1>2, <2>2, GiveUpKeeps DEF UIs!QueryToken
  <2> QED
    BY <1>2, <2>1, <2>2 DEF UIs!QueryToken
<1>3. CASE UIs!CheckStopping(s)
  BY <1>1, <1>3, GoroutineStep DEF UIs!CheckStopping
<1>4. CASE UIs!CheckAlive(s)
  BY <1>1, <1>4, GoroutineStep DEF UIs!CheckAlive
<1>5. CASE UIs!Listen(s)
  <2>1. CASE UIs!Step(s, "listen", "launch")
    BY <1>1, <1>5, <2>1, GoroutineStep DEF UIs!Listen
  <2>2. CASE UIs!GiveUp(s, "listen")
    BY <1>5, <2>2, GiveUpKeeps DEF UIs!Listen
  <2> QED
    BY <1>5, <2>1, <2>2 DEF UIs!Listen
<1>6. CASE UIs!LaunchProcess(s)
  <2>1. CASE UIs!Step(s, "launch", "register") /\ proc' = [proc EXCEPT ![s] = "up"]
    BY <1>1, <1>6, <2>1, GoroutineStep DEF UIs!LaunchProcess
  <2>2. CASE UIs!GiveUp(s, "launch") /\ UNCHANGED proc
    BY <1>6, <2>2, GiveUpKeeps DEF UIs!LaunchProcess
  <2>3. CASE UIs!Step(s, "launch", "leave") /\ UNCHANGED proc
    BY <1>1, <1>6, <2>3, GoroutineStep DEF UIs!LaunchProcess
  <2> QED
    BY <1>6, <2>1, <2>2, <2>3 DEF UIs!LaunchProcess
<1>7. CASE UIs!Register(s)
  <2>1. /\ procs' \subseteq Sessions /\ procs' \ {s} = procs \ {s}
        /\ pc' = [pc EXCEPT ![s] = "wait"] /\ proc' = proc /\ aliveSessions' = aliveSessions
        /\ pc[s] # "none" /\ UNCHANGED <<phase, stoppingManager, missed, user, events, failed>>
        /\ s \notin failed
    BY <1>1, <1>7 DEF UIs!Register
  <2> QED
    BY <1>1, <2>1, GoroutineStep
<1>8. CASE UIs!Wait(s)
  BY <1>1, <1>8, GoroutineStep DEF UIs!Wait
<1>9. CASE UIs!Unregister(s)
  <2>1. /\ procs' \subseteq Sessions /\ procs' \ {s} = procs \ {s} /\ s \notin procs'
        /\ proc' = [proc EXCEPT ![s] = "none"] /\ aliveSessions' = aliveSessions
        /\ pc[s] # "none" /\ UNCHANGED <<phase, stoppingManager, missed, user, events, failed>>
        /\ s \notin failed
    BY <1>1, <1>9 DEF UIs!Unregister
  <2>2. \E a \in {"leave", "stopCheck"} : pc' = [pc EXCEPT ![s] = a]
    BY <1>9 DEF UIs!Unregister
  <2> QED
    BY <1>1, <2>1, <2>2, GoroutineStep
<1>10. CASE UIs!Leave(s)
  <2>1. /\ aliveSessions' = aliveSessions \ {s} /\ pc' = [pc EXCEPT ![s] = "none"]
        /\ proc' = proc /\ procs' = procs /\ pc[s] = "leave"
        /\ UNCHANGED <<phase, stoppingManager, missed, user, events, failed>>
    BY <1>1, <1>10 DEF UIs!Leave
  <2>2. /\ s \notin aliveSessions' /\ aliveSessions' \subseteq Sessions
        /\ aliveSessions' \ {s} = aliveSessions \ {s}
        /\ s \notin procs' /\ procs' \subseteq Sessions /\ procs' \ {s} = procs \ {s}
        /\ proc' = [proc EXCEPT ![s] = "none"]
    BY <1>1, <2>1
  <2> QED
    BY <1>1, <2>1, <2>2, GoroutineStep
<1> QED
  BY <1>2, <1>3, <1>4, <1>5, <1>6, <1>7, <1>8, <1>9, <1>10 DEF UIs!StartProcess

LEMMA ProcessEndsKeeps ==
  ASSUME SessionsInv, NEW s \in Sessions, NEW how \in {"exited", "loggedOff"},
         UIs!ProcessEnds(s, how)
  PROVE  SessionsInv'
<1>1. /\ pc = [pc EXCEPT ![s] = pc[s]] /\ pc[s] \in UIs!Places
      /\ aliveSessions \subseteq Sessions /\ procs \subseteq Sessions
      /\ s \in procs => pc[s] \in {"wait", "unregister"}
      /\ proc[s] # "none" => pc[s] \in {"register", "wait", "unregister"}
      /\ failed \subseteq Sessions /\ (s \in failed => pc[s] \in {"leave", "none"})
  BY DEF SessionsInv, UIs!TypeOK, GoroutinesThere
<1> QED
  BY <1>1, GoroutineStep DEF UIs!ProcessEnds, UIs!mainVars, UIs!sessionVars, UIs!lockedVars

\* A session logs on or off, and the service hears of it if it accepts that.
LEMMA TellKeeps ==
  ASSUME SessionsInv, NEW s \in Sessions, NEW kind \in {"logon", "logoff"},
         UIs!Tell(kind, s),
         user[s] = IF kind = "logon" THEN "none" ELSE "on",
         user' = [user EXCEPT ![s] = IF kind = "logon" THEN "on" ELSE "off"],
         UNCHANGED <<phase, stoppingManager, missed, failed, aliveSessions, procs, pc, proc>>
  PROVE  SessionsInv'
<1> DEFINE e == [kind |-> kind, session |-> s]
<1>1. /\ user \in [Sessions -> {"none", "on", "off"}] /\ events \in Seq(Events)
      /\ EventsInOrder /\ OldGoroutines
  BY DEF SessionsInv, UIs!TypeOK, Events
<1>2. /\ user' \in [Sessions -> {"none", "on", "off"}]
      /\ user'[s] = IF kind = "logon" THEN "on" ELSE "off"
      /\ \A t \in Sessions \ {s} : user'[t] = user[t]
  BY <1>1
<1>3. \A i \in DOMAIN events : events[i] \in Events
  BY <1>1, LenProperties, ElementOfSeq
<1>4. e \in Events /\ (events' = events \/ events' = Append(events, e))
  BY DEF UIs!Tell, Events
<1>5. /\ events' \in Seq(Events)
      /\ \A i \in DOMAIN events' :
           \/ i \in DOMAIN events /\ events'[i] = events[i]
           \/ /\ i \notin DOMAIN events /\ events'[i] = e
              /\ \A j \in DOMAIN events' : i < j => FALSE
  <2>1. CASE events' = events
    BY <1>1, <2>1
  <2>2. CASE events' = Append(events, e)
    BY <1>1, <1>4, <2>2, AppendProperties, LenProperties
  <2> QED
    BY <1>4, <2>1, <2>2
<1>6. UIs!TypeOK'
  BY <1>2, <1>5 DEF SessionsInv, UIs!TypeOK, Events
<1>7. EventsInOrder'
  <2>1. \A i \in DOMAIN events : events[i].session = s => kind = "logoff" /\ events[i].kind = "logon"
    BY <1>1, <1>3 DEF EventsInOrder, Events
  <2>2. ASSUME NEW i \in DOMAIN events'
        PROVE  /\ user'[events'[i].session] # "none"
               /\ events'[i].kind = "logoff" => user'[events'[i].session] = "off"
    <3>1. CASE i \in DOMAIN events /\ events'[i] = events[i]
      BY <1>1, <1>2, <1>3, <2>1, <3>1 DEF EventsInOrder, Events
    <3>2. CASE events'[i] = e
      BY <1>2, <3>2
    <3> QED
      BY <1>5, <3>1, <3>2
  <2>3. ASSUME NEW i \in DOMAIN events', NEW j \in DOMAIN events',
               i < j, events'[i].session = events'[j].session
        PROVE  events'[i].kind = "logon" /\ events'[j].kind = "logoff"
    <3>1. i \in DOMAIN events /\ events'[i] = events[i]
      BY <1>5, <2>3
    <3>2. CASE j \in DOMAIN events /\ events'[j] = events[j]
      BY <1>1, <2>3, <3>1, <3>2 DEF EventsInOrder
    <3>3. CASE events'[j] = e
      BY <2>1, <2>3, <3>1, <3>3
    <3> QED
      BY <1>5, <3>2, <3>3
  <2> QED
    BY <2>2, <2>3 DEF EventsInOrder
<1>8. OldGoroutines'
  <2>1. ASSUME NEW t \in Sessions, NoLogonToCome(t)
        PROVE  NoLogonToCome(t)'
    <3>1. user[t] = "off" /\ t # s
      BY <2>1 DEF NoLogonToCome
    <3>2. \A i \in DOMAIN events' : events'[i].session = t => events'[i].kind = "logoff"
      BY <1>5, <2>1, <3>1 DEF NoLogonToCome
    <3> QED
      BY <1>2, <3>1, <3>2 DEF NoLogonToCome
  <2> QED
    BY <1>1, <2>1 DEF OldGoroutines
<1>9. GoroutinesThere' /\ NoneYet'
  BY DEF SessionsInv, GoroutinesThere, NoneYet
<1> QED
  BY <1>6, <1>7, <1>8, <1>9 DEF SessionsInv

\* The sessions of S are served from now on.  None of them has a goroutine, unless
\* it is marked as served already.
LEMMA BeginServes ==
  ASSUME SessionsInv, NEW S \in SUBSET Sessions, UIs!Begin(S),
         \A s \in S \ aliveSessions : pc[s] = "none",
         procs' = procs, proc' = proc
  PROVE  /\ pc' \in [Sessions -> UIs!Places] /\ aliveSessions' \subseteq Sessions
         /\ failed' \subseteq Sessions /\ \A s \in failed' : pc'[s] \in {"leave", "none"}
         /\ GoroutinesThere'
         /\ \A s \in Sessions \ aliveSessions' : pc'[s] = pc[s]
<1>1. /\ pc \in [Sessions -> UIs!Places] /\ aliveSessions \subseteq Sessions
      /\ procs \subseteq Sessions /\ "token" \in UIs!Places
  BY DEF SessionsInv, UIs!TypeOK, UIs!Places
<1>2. /\ aliveSessions' = aliveSessions \cup S
      /\ pc' = [s \in Sessions |-> IF s \in (S \ aliveSessions) \ procs THEN "token" ELSE pc[s]]
      /\ failed' = failed \ ((S \ aliveSessions) \ procs)
  BY DEF UIs!Begin
<1>3. \A s \in Sessions : IF s \in S \ aliveSessions THEN pc'[s] = "token" ELSE pc'[s] = pc[s]
  BY <1>1, <1>2 DEF SessionsInv, GoroutinesThere
<1>4. GoroutinesThere'
  BY <1>1, <1>2, <1>3 DEF SessionsInv, GoroutinesThere
<1>5. failed' \subseteq Sessions /\ \A s \in failed' : pc'[s] \in {"leave", "none"}
  BY <1>1, <1>2 DEF SessionsInv, UIs!TypeOK
<1> QED
  BY <1>1, <1>2, <1>3, <1>4, <1>5

LEMMA EnumerateKeeps == ASSUME SessionsInv, UIs!Enumerate PROVE SessionsInv'
<1>1. PICK S \in SUBSET Sessions : UIs!Begin(S)
  BY DEF UIs!Enumerate
<1>2. /\ phase' = "accept" /\ procs' = procs /\ proc' = proc
      /\ UNCHANGED <<stoppingManager, missed, user, events>>
  BY DEF UIs!Enumerate, UIs!sessionVars
<1>3. \A s \in Sessions : pc[s] = "none"
  BY DEF SessionsInv, NoneYet, UIs!Enumerate
<1>4. /\ pc' \in [Sessions -> UIs!Places] /\ aliveSessions' \subseteq Sessions
      /\ failed' \subseteq Sessions /\ \A s \in failed' : pc'[s] \in {"leave", "none"}
      /\ GoroutinesThere'
      /\ \A s \in Sessions \ aliveSessions' : pc'[s] = pc[s]
  BY <1>1, <1>2, <1>3, BeginServes
<1>5. UIs!TypeOK'
  BY <1>2, <1>4 DEF SessionsInv, UIs!TypeOK
<1>6. OldGoroutines' /\ EventsInOrder' /\ NoneYet'
  BY <1>2, <1>3, <1>4 DEF SessionsInv, OldGoroutines, EventsInOrder, NoneYet
<1> QED
  BY <1>4, <1>5, <1>6 DEF SessionsInv

LEMMA TailInOrder ==
  ASSUME SessionsInv, events # <<>>, events' = Tail(events), user' = user
  PROVE  /\ events' \in Seq(Events) /\ EventsInOrder' /\ Head(events) \in Events
         /\ \A s \in Sessions : NoLogonToCome(s) => NoLogonToCome(s)'
         /\ \A i \in DOMAIN events' : events'[i].session = Head(events).session =>
              Head(events).kind = "logon" /\ events'[i].kind = "logoff"
         /\ user[Head(events).session] # "none"
         /\ Head(events).kind = "logoff" => user[Head(events).session] = "off"
<1>1. events \in Seq(Events) /\ EventsInOrder
  BY DEF SessionsInv, UIs!TypeOK, Events
<1>2. /\ Tail(events) \in Seq(Events) /\ Head(events) \in Events /\ Head(events) = events[1]
      /\ Len(Tail(events)) = Len(events) - 1
      /\ \A i \in 1 .. Len(Tail(events)) : Tail(events)[i] = events[i + 1]
  BY <1>1, HeadTailProperties
<1>3. /\ Len(events) \in Nat \ {0} /\ DOMAIN events = 1 .. Len(events)
      /\ DOMAIN events' = 1 .. Len(Tail(events))
  BY <1>1, <1>2, EmptySeq, LenProperties
<1>4. /\ 1 \in DOMAIN events
      /\ \A i \in DOMAIN events' : i + 1 \in DOMAIN events /\ 1 < i + 1 /\ events'[i] = events[i + 1]
      /\ \A i, j \in DOMAIN events' : i < j => i + 1 < j + 1
  BY <1>2, <1>3
<1>5. EventsInOrder'
  BY <1>1, <1>4 DEF EventsInOrder
<1>6. \A s \in Sessions : NoLogonToCome(s) => NoLogonToCome(s)'
  BY <1>4 DEF NoLogonToCome
<1> QED
  BY <1>1, <1>2, <1>4, <1>5, <1>6 DEF EventsInOrder

LEMMA KillEnds ==
  ASSUME SessionsInv, NEW S, UIs!Kill(S)
  PROVE  /\ proc' \in [Sessions -> {"none", "up", "exited", "loggedOff"}]
         /\ \A s \in Sessions : proc'[s] # "none" => proc[s] # "none"
BY DEF UIs!Kill, SessionsInv, UIs!TypeOK

\* A logon is the only news of its session: whoever served it before has left.
LEMMA LogonFindsNobody ==
  ASSUME SessionsInv, events # <<>>, Head(events).kind = "logon"
  PROVE  /\ Head(events).session \in Sessions
         /\ Head(events).session \notin aliveSessions => pc[Head(events).session] = "none"
<1>1. events \in Seq(Events)
  BY DEF SessionsInv, UIs!TypeOK, Events
<1>2. Len(events) \in Nat \ {0} /\ DOMAIN events = 1 .. Len(events)
  BY <1>1, EmptySeq, LenProperties
<1>3. /\ Head(events) = events[1] /\ 1 \in DOMAIN events
      /\ Head(events) \in Events
  BY <1>1, <1>2, HeadTailProperties
<1>4. ~NoLogonToCome(Head(events).session)
  BY <1>3 DEF NoLogonToCome
<1> QED
  BY <1>3, <1>4 DEF SessionsInv, OldGoroutines, Events

LEMMA HandleEventKeeps == ASSUME SessionsInv, UIs!HandleEvent PROVE SessionsInv'
<1>1. /\ events # <<>> /\ events' = Tail(events) /\ user' = user /\ procs' = procs
      /\ phase = "loop" /\ UNCHANGED <<phase, stoppingManager, missed>>
  BY DEF UIs!HandleEvent, UIs!mainVars
<1>2. PICK e \in Events : e = Head(events)
  BY <1>1, TailInOrder
<1>3. PICK s \in Sessions : s = e.session
  BY DEF Events
<1>4. IF e.kind = "logoff" THEN UIs!HandleLogoff(s) ELSE UIs!HandleLogon(s)
  BY <1>2, <1>3 DEF UIs!HandleEvent
<1>5. /\ events' \in Seq(Events) /\ EventsInOrder'
      /\ \A t \in Sessions : NoLogonToCome(t) => NoLogonToCome(t)'
      /\ \A i \in DOMAIN events' : events'[i].session = s =>
           e.kind = "logon" /\ events'[i].kind = "logoff"
      /\ e.kind = "logoff" => user[s] = "off"
  BY <1>1, <1>2, <1>3, TailInOrder
<1>6. CASE e.kind = "logoff"
  <2>1. aliveSessions' = aliveSessions \ {s} /\ UIs!Kill({s}) /\ pc' = pc /\ failed' = failed
    BY <1>4, <1>6 DEF UIs!HandleLogoff
  <2>2. /\ proc' \in [Sessions -> {"none", "up", "exited", "loggedOff"}]
        /\ \A t \in Sessions : proc'[t] # "none" => proc[t] # "none"
    BY <2>1, KillEnds
  <2>3. UIs!TypeOK'
    BY <1>1, <1>5, <2>1, <2>2 DEF SessionsInv, UIs!TypeOK, Events
  <2>4. GoroutinesThere' /\ NoneYet'
    BY <1>1, <2>1, <2>2 DEF SessionsInv, GoroutinesThere, NoneYet
  <2>5. NoLogonToCome(s)'
    BY <1>1, <1>5, <1>6 DEF NoLogonToCome
  <2>6. OldGoroutines'
    BY <1>5, <2>1, <2>5 DEF SessionsInv, OldGoroutines
  <2> QED
    BY <1>5, <2>3, <2>4, <2>6 DEF SessionsInv
<1>7. CASE e.kind = "logon"
  <2>1. UIs!Begin({s}) /\ proc' = proc
    BY <1>4, <1>7 DEF UIs!HandleLogon
  <2>2. \A t \in {s} \ aliveSessions : pc[t] = "none"
    BY <1>1, <1>2, <1>3, <1>7, LogonFindsNobody
  <2>3. /\ pc' \in [Sessions -> UIs!Places] /\ aliveSessions' \subseteq Sessions
        /\ failed' \subseteq Sessions /\ \A t \in failed' : pc'[t] \in {"leave", "none"}
        /\ GoroutinesThere'
        /\ \A t \in Sessions \ aliveSessions' : pc'[t] = pc[t]
    BY <1>1, <2>1, <2>2, BeginServes
  <2>4. UIs!TypeOK'
    BY <1>1, <1>5, <2>1, <2>3 DEF SessionsInv, UIs!TypeOK, Events
  <2>5. aliveSessions \subseteq aliveSessions'
    BY <2>1 DEF UIs!Begin
  <2>6. OldGoroutines' /\ NoneYet'
    BY <1>1, <1>5, <2>3, <2>5 DEF SessionsInv, OldGoroutines, NoneYet
  <2> QED
    BY <1>5, <2>3, <2>4, <2>6 DEF SessionsInv
<1> QED
  BY <1>6, <1>7 DEF Events

LEMMA SessionsNext == ASSUME SessionsInv, UIs!Next PROVE SessionsInv'
<1>1. ASSUME NEW s \in Sessions, UIs!LogsOn(s) PROVE SessionsInv'
  BY <1>1, TellKeeps DEF UIs!LogsOn, UIs!mainVars, UIs!lockedVars, UIs!uiVars
<1>2. ASSUME NEW s \in Sessions, UIs!LogsOff(s) PROVE SessionsInv'
  BY <1>2, TellKeeps DEF UIs!LogsOff, UIs!mainVars, UIs!lockedVars, UIs!uiVars
<1>3. ASSUME NEW s \in Sessions, UIs!WindowsEnds(s) \/ UIs!UIExits(s) PROVE SessionsInv'
  BY <1>3, ProcessEndsKeeps DEF UIs!WindowsEnds, UIs!UIExits
<1>4. CASE UIs!Accept \/ UIs!Stop \/ UIs!WaitForProcs
  <2>1. /\ phase' \in {"loop", "kill", "done"} /\ stoppingManager' \in BOOLEAN
        /\ UNCHANGED <<missed, failed, user, events, aliveSessions, procs, pc, proc>>
    BY <1>4 DEF UIs!Accept, UIs!Stop, UIs!WaitForProcs, UIs!sessionVars, UIs!lockedVars,
       UIs!uiVars, SessionsInv, UIs!TypeOK
  <2> QED
    BY <2>1 DEF SessionsInv, UIs!TypeOK, GoroutinesThere, EventsInOrder, OldGoroutines,
       NoLogonToCome, NoneYet
<1>5. CASE UIs!KillProcs
  <2>1. /\ phase' = "wait" /\ missed' \subseteq Sessions
        /\ UNCHANGED <<stoppingManager, failed, user, events, aliveSessions, procs, pc>>
    BY <1>5 DEF UIs!KillProcs, UIs!sessionVars, UIs!lockedVars
  <2>2. /\ proc' \in [Sessions -> {"none", "up", "exited", "loggedOff"}]
        /\ \A s \in Sessions : proc'[s] # "none" => proc[s] # "none"
    BY <1>5, KillEnds DEF UIs!KillProcs
  <2> QED
    BY <2>1, <2>2 DEF SessionsInv, UIs!TypeOK, GoroutinesThere, EventsInOrder, OldGoroutines,
       NoLogonToCome, NoneYet
<1> QED
  BY <1>1, <1>2, <1>3, <1>4, <1>5, StartProcessKeeps, EnumerateKeeps, HandleEventKeeps
     DEF UIs!Next, UIs!Execute

LEMMA SessionsKept == SessionsInv /\ [Next]_vars => SessionsInv'
<1> SUFFICES ASSUME SessionsInv, [Next]_vars PROVE SessionsInv'
  OBVIOUS
<1>1. CASE UIs!Next
  BY <1>1, SessionsNext
<1>2. CASE UNCHANGED sessionsVars
  BY <1>2, SessionsSame
<1> QED
  BY <1>1, <1>2 DEF Next, InRing, InUpdater, InSessions, InPipes, vars

\* Whatever the sessions, their logons and logoffs, the ends of their processes
\* and the stop of the service: a session in aliveSessions has its goroutine of
\* startProcess, which alone takes it out, so that a logon that is ignored because
\* of the entry is ignored for a reason (managerService.Execute, startProcess).
THEOREM ServedAreAlive == Spec => []AliveIsServed
<1>1. Init => SessionsInv
  BY SessionsInit DEF Init
<1>2. SessionsInv => AliveIsServed
  BY DEF SessionsInv, GoroutinesThere, AliveIsServed, UIs!AliveIsServed
<1> QED
  BY <1>1, <1>2, SessionsKept, PTL DEF Spec

\* A step that sends a goroutine to its start finds none of that session.
TokenFromNone == \A s \in Sessions : pc'[s] = "token" => pc[s] \in {"none", "token"}

LEMMA StartsAreFresh == ASSUME SessionsInv, UIs!Next PROVE TokenFromNone
<1>1. pc \in [Sessions -> UIs!Places]
  BY DEF SessionsInv, UIs!TypeOK
<1>2. ASSUME NEW s \in Sessions, UIs!StartProcess(s) PROVE TokenFromNone
  <2>1. \E a \in UIs!Places \ {"token"} : pc' = [pc EXCEPT ![s] = a]
    BY <1>2 DEF UIs!StartProcess, UIs!QueryToken, UIs!CheckStopping, UIs!CheckAlive, UIs!Listen,
       UIs!LaunchProcess, UIs!Register, UIs!Wait, UIs!Unregister, UIs!Leave, UIs!Step,
       UIs!GiveUp, UIs!Places
  <2> QED
    BY <1>1, <2>1 DEF TokenFromNone
<1>3. CASE UIs!Enumerate
  BY <1>3 DEF UIs!Enumerate, SessionsInv, NoneYet, TokenFromNone
<1>4. CASE UIs!HandleEvent
  <2>1. CASE Head(events).kind = "logoff"
    BY <1>4, <2>1 DEF UIs!HandleEvent, UIs!HandleLogoff, TokenFromNone
  <2>2. CASE Head(events).kind # "logoff"
    <3>1. events # <<>> /\ UIs!Begin({Head(events).session})
      BY <1>4, <2>2 DEF UIs!HandleEvent, UIs!HandleLogon
    <3>2. events \in Seq(Events)
      BY DEF SessionsInv, UIs!TypeOK, Events
    <3>3. Head(events) \in Events
      BY <3>1, <3>2, HeadTailProperties
    <3>4. Head(events).kind = "logon"
      BY <2>2, <3>3 DEF Events
    <3> QED
      BY <3>1, <3>4, LogonFindsNobody DEF UIs!Begin, TokenFromNone
  <2> QED
    BY <2>1, <2>2
<1>5. CASE pc' = pc
  BY <1>5 DEF TokenFromNone
<1> QED
  BY <1>2, <1>3, <1>4, <1>5 DEF UIs!Next, UIs!Execute, UIs!LogsOn, UIs!LogsOff, UIs!WindowsEnds,
     UIs!UIExits, UIs!ProcessEnds, UIs!Accept, UIs!KillProcs, UIs!WaitForProcs, UIs!Stop, UIs!uiVars

\* startProcess is started for a session only while no goroutine runs it for that
\* session: no two of them launch a UI process in one session, whatever the order
\* in which sessions log on, log off and are enumerated (managerService.Execute).
THEOREM OneGoroutineEach == Spec => [][TokenFromNone]_vars
<1>1. Init => SessionsInv
  BY SessionsInit DEF Init
<1>2. SessionsInv /\ [Next]_vars => [TokenFromNone]_vars
  <2> SUFFICES ASSUME SessionsInv, Next PROVE TokenFromNone
    OBVIOUS
  <2>1. CASE UIs!Next
    BY <2>1, StartsAreFresh
  <2>2. CASE UNCHANGED sessionsVars
    BY <2>2 DEF sessionsVars, TokenFromNone
  <2> QED
    BY <2>1, <2>2 DEF Next, InRing, InUpdater, InSessions, InPipes
<1> QED
  BY <1>1, <1>2, SessionsKept, PTL DEF Spec

-----------------------------------------------------------------------------
(* Updater.                                                                *)

\* The least number of a set: what is claimed of a recursive function is proved
\* with it, the least counterexample being none.
LEMMA LeastOf == ASSUME NEW T \in SUBSET Nat, T # {} PROVE \E n \in T : \A m \in T : n <= m
<1>1. IsWellFoundedOn(OpToRel(<, Nat), Nat)
  BY NatLessThanWellFounded
<1>2. PICK n \in T : \A m \in T : ~(<<m, n>> \in OpToRel(<, Nat))
  BY <1>1, WFMin
<1>3. \A m \in T : ~(m < n)
  BY <1>2 DEF OpToRel
<1> QED
  BY <1>3

\* What the loop does from its i-th round on, as one equation.
IsLoop(v, l, f) ==
  f = [i \in 1..l + 1 |->
        IF i > l THEN "not newer"
        ELSE IF Updating!Invalid(Updating!Part(v, i)) THEN "error"
        ELSE IF Updating!Part(v, i) = Updating!Part(Ours, i) THEN f[i + 1]
        ELSE IF Updating!Part(v, i) > Updating!Part(Ours, i) THEN "newer" ELSE "not newer"]

\* The loop ends where it finds a part that is none, or that differs.
LEMMA LoopThere == ASSUME NEW v, NEW l \in Nat PROVE \E f : IsLoop(v, l, f)
<1> DEFINE Stops(i) == Updating!Invalid(Updating!Part(v, i)) \/ Updating!Part(v, i) # Updating!Part(Ours, i)
           From(i) == {k \in i..l : Stops(k)}
           First(i) == CHOOSE k \in From(i) : \A m \in From(i) : k <= m
           Says(k) == IF Updating!Invalid(Updating!Part(v, k)) THEN "error"
                      ELSE IF Updating!Part(v, k) > Updating!Part(Ours, k) THEN "newer" ELSE "not newer"
           f == [i \in 1..l + 1 |-> IF From(i) = {} THEN "not newer" ELSE Says(First(i))]
<1>1. ASSUME NEW i \in 1..l + 1, i > l PROVE f[i] = "not newer"
  <2>1. From(i) = {}
    BY <1>1
  <2> QED
    BY <2>1
<1>2. ASSUME NEW i \in 1..l, Stops(i) PROVE f[i] = Says(i)
  <2>1. i \in From(i) /\ \A m \in From(i) : i <= m
    BY <1>2
  <2>2. \A k \in From(i) : (\A m \in From(i) : k <= m) => k = i
    BY <2>1
  <2> HIDE DEF Says, Stops, From
  <2>3. First(i) = i
    BY <2>1, <2>2
  <2>4. i \in 1..l + 1
    OBVIOUS
  <2> QED
    BY <2>1, <2>3, <2>4
<1>3. ASSUME NEW i \in 1..l, ~Stops(i) PROVE f[i] = f[i + 1]
  <2> HIDE DEF Says, Stops
  <2>1. From(i) = From(i + 1)
    BY <1>3
  <2>2. i \in 1..l + 1 /\ i + 1 \in 1..l + 1
    OBVIOUS
  <2> HIDE DEF From
  <2> QED
    BY <2>1, <2>2
<1>4. ASSUME NEW i \in 1..l + 1
      PROVE f[i] = IF i > l THEN "not newer"
                   ELSE IF Updating!Invalid(Updating!Part(v, i)) THEN "error"
                   ELSE IF Updating!Part(v, i) = Updating!Part(Ours, i) THEN f[i + 1]
                   ELSE IF Updating!Part(v, i) > Updating!Part(Ours, i) THEN "newer" ELSE "not newer"
  <2>1. CASE i > l
    BY <1>1, <2>1
  <2>2. CASE ~(i > l)
    <3>1. i \in 1..l
      BY <2>2
    <3> HIDE DEF f
    <3>2. CASE Stops(i)
      BY <1>2, <2>2, <3>1, <3>2
    <3>3. CASE ~Stops(i)
      BY <1>3, <2>2, <3>1, <3>3
    <3> QED
      BY <3>2, <3>3
  <2> QED
    BY <2>1, <2>2
<1>5. DOMAIN f = 1..l + 1 /\ f = [i \in DOMAIN f |-> f[i]]
  OBVIOUS
<1> HIDE DEF f
<1>6. IsLoop(v, l, f)
  BY <1>4, <1>5 DEF IsLoop
<1> QED
  BY <1>6

\* What the loop finds newer is greater in the first part that differs.
LEMMA NewerIsNewer ==
  ASSUME NEW v \in Seq(Nat), Ours \in Seq(Nat), Updating!Newness(v) = "newer"
  PROVE  Updating!IsNewer(v)
<1> DEFINE l == Updating!Longer(v, Ours)
<1>1. l \in Nat
  BY LenProperties DEF Updating!Longer
<1>2. PICK f : IsLoop(v, l, f) /\ f[1] = "newer"
  <2> DEFINE f == CHOOSE f : IsLoop(v, l, f)
  <2>1. IsLoop(v, l, f)
    BY <1>1, LoopThere
  <2>2. f[1] = "newer"
    BY DEF Updating!Newness, IsLoop
  <2> QED
    BY <2>1, <2>2
<1> HIDE DEF l
<1> DEFINE T == {n \in Nat : /\ l + 1 - n \in 1..l + 1 /\ f[l + 1 - n] = "newer"
                             /\ \A j \in 1..(l + 1 - n) - 1 : Updating!Part(v, j) = Updating!Part(Ours, j)}
<1>3. l \in T
  BY <1>1, <1>2
<1>4. PICK n \in T : \A m \in T : n <= m
  BY <1>3, LeastOf
<1>5. PICK i \in 1..l + 1 : i = l + 1 - n
  BY <1>4
<1>6. /\ f[i] = "newer" /\ n \in Nat
      /\ \A j \in 1..i - 1 : Updating!Part(v, j) = Updating!Part(Ours, j)
  BY <1>4, <1>5
<1>7. f[i] = IF i > l THEN "not newer"
             ELSE IF Updating!Invalid(Updating!Part(v, i)) THEN "error"
             ELSE IF Updating!Part(v, i) = Updating!Part(Ours, i) THEN f[i + 1]
             ELSE IF Updating!Part(v, i) > Updating!Part(Ours, i) THEN "newer" ELSE "not newer"
  BY <1>1, <1>2, <1>5 DEF IsLoop
<1>8. i \in 1..l
  <2>1. ~(i > l)
    BY <1>6, <1>7
  <2> QED
    BY <1>1, <2>1
<1>9. CASE Updating!Part(v, i) = Updating!Part(Ours, i)
  <2>1. f[i + 1] = "newer"
    BY <1>6, <1>7, <1>8, <1>9
  <2>2. n - 1 \in Nat /\ l + 1 - (n - 1) = i + 1 /\ i + 1 \in 1..l + 1
    BY <1>1, <1>5, <1>6, <1>8
  <2>3. \A j \in 1..(i + 1) - 1 : Updating!Part(v, j) = Updating!Part(Ours, j)
    BY <1>6, <1>8, <1>9
  <2>4. n - 1 \in T
    BY <2>1, <2>2, <2>3
  <2>5. n <= n - 1
    BY <1>4, <2>4
  <2> QED
    BY <1>6, <2>5
<1>10. CASE Updating!Part(v, i) # Updating!Part(Ours, i)
  <2>1. Updating!Part(v, i) > Updating!Part(Ours, i)
    BY <1>6, <1>7, <1>8, <1>10
  <2> QED
    BY <1>6, <1>8, <2>1 DEF Updating!IsNewer, l
<1> QED
  BY <1>9, <1>10

Runs == [at : Updating!Going \cup {"unasked", "over"}, version : Seq(Nat),
         listed : BOOLEAN, authentic : BOOLEAN]

Messages == {"activity", "error", "complete"}

\* What has been found out of the version that a run is about to install.
Checked(r) ==
  /\ r.at \in {"create", "download", "verify", "install"} => Updating!Newness(r.version) = "newer"
  /\ r.at \in {"verify", "install"} => r.listed
  /\ r.at = "install" => r.authentic

\* One run goes on at most, and only while the flag is set; its file goes with it.
OneGoing ==
  /\ \A u \in Updates : run[u].at \in Updating!Going => inProgress
  /\ \A u, w \in Updates : run[u].at \in Updating!Going /\ run[w].at \in Updating!Going => u = w
  /\ \A u \in files : run[u].at \in Updating!Going

UpdatesInv ==
  /\ list \in Lists
  /\ state \in {"unknown", "found", "disabled"}
  /\ inProgress \in BOOLEAN
  /\ run \in [Updates -> Runs]
  /\ progress \in [Updates -> Seq(Messages)]
  /\ files \subseteq Updates
  /\ \A u \in Updates : Len(progress[u]) <= Cap /\ Checked(run[u])
  /\ OneGoing

LEMMA UpdaterConstants ==
  /\ Ours \in Seq(Nat) /\ \A L \in Lists : L \subseteq Seq(Nat)
  /\ Cap \in Nat \ {0, 1}
BY ConstantsAssumption DEF Updating!UpdaterAssumption

LEMMA UpdatesInit == Updating!Init => UpdatesInv
<1> SUFFICES ASSUME Updating!Init PROVE UpdatesInv
  OBVIOUS
<1>1. <<>> \in Seq(Messages) /\ <<>> \in Seq(Nat) /\ Len(<<>>) <= Cap
  BY EmptySeq, UpdaterConstants
<1>2. \A u \in Updates : run[u].at = "unasked"
  BY DEF Updating!Init, Updating!Run
<1>3. run \in [Updates -> Runs]
  BY <1>1 DEF Updating!Init, Updating!Run, Updating!NoVersion, Runs
<1>4. OneGoing
  BY <1>2 DEF OneGoing, Updating!Init, Updating!Going
<1> QED
  BY <1>1, <1>2, <1>3, <1>4 DEF Updating!Init, UpdatesInv, Checked

LEMMA UpdatesSame == UpdatesInv /\ UNCHANGED updaterVars => UpdatesInv'
BY DEF updaterVars, UpdatesInv, OneGoing, Checked

\* A step of the run u, which begins where none goes on, goes on, or ends.
LEMMA RunStep ==
  ASSUME UpdatesInv, NEW u \in Updates, NEW r \in Runs, Checked(r),
         NEW q \in Seq(Messages), Len(q) <= Cap,
         run' = [run EXCEPT ![u] = r], progress' = [progress EXCEPT ![u] = q],
         files' \subseteq Updates, files' \ {u} = files \ {u},
         u \in files' => r.at \in Updating!Going,
         inProgress' \in BOOLEAN,
         \/ r.at \in Updating!Going /\ inProgress' /\ (run[u].at \in Updating!Going \/ ~inProgress)
         \/ r.at \notin Updating!Going /\ (inProgress' = inProgress \/ run[u].at \in Updating!Going),
         list' = list, state' = state
  PROVE  UpdatesInv'
<1>1. /\ run \in [Updates -> Runs] /\ progress \in [Updates -> Seq(Messages)]
      /\ \A w \in Updates : Len(progress[w]) <= Cap /\ Checked(run[w])
      /\ OneGoing
  BY DEF UpdatesInv
<1>2. /\ run'[u] = r /\ progress'[u] = q
      /\ \A w \in Updates \ {u} : run'[w] = run[w] /\ progress'[w] = progress[w]
  BY <1>1
<1>3. run' \in [Updates -> Runs] /\ progress' \in [Updates -> Seq(Messages)]
  BY <1>1
<1>4. \A w \in Updates : Len(progress'[w]) <= Cap /\ Checked(run'[w])
  BY <1>1, <1>2
<1>5. \A w \in Updates : run'[w].at \in Updating!Going => inProgress'
  BY <1>1, <1>2 DEF OneGoing
<1>6. \A v, w \in Updates : run'[v].at \in Updating!Going /\ run'[w].at \in Updating!Going => v = w
  BY <1>1, <1>2 DEF OneGoing
<1>7. \A w \in files' : run'[w].at \in Updating!Going
  BY <1>1, <1>2 DEF OneGoing
<1>8. OneGoing'
  BY <1>5, <1>6, <1>7 DEF OneGoing
<1>9. \A w \in Updates : Checked(run[w])' <=> Checked(run'[w])
  BY DEF Checked
<1> QED
  BY <1>3, <1>4, <1>8, <1>9 DEF UpdatesInv

LEMMA SendFits ==
  ASSUME UpdatesInv, NEW u \in Updates, NEW what \in Messages, Updating!Send(u, what)
  PROVE  \E q \in Seq(Messages) : Len(q) <= Cap /\ progress' = [progress EXCEPT ![u] = q]
<1>1. /\ progress[u] \in Seq(Messages) /\ Len(progress[u]) \in Nat /\ Len(progress[u]) < Cap
      /\ progress \in [Updates -> Seq(Messages)]
  BY LenProperties DEF UpdatesInv, Updating!Send
<1>2. PICK q : q = Append(progress[u], what)
  OBVIOUS
<1>3. q \in Seq(Messages) /\ Len(q) = Len(progress[u]) + 1
  BY <1>1, <1>2, AppendProperties
<1>4. progress' = [progress EXCEPT ![u] = q]
  BY <1>1, <1>2 DEF Updating!Send
<1>5. Len(q) <= Cap
  BY <1>1, <1>3, UpdaterConstants
<1> QED
  BY <1>3, <1>4, <1>5

LEMMA RunKeeps ==
  ASSUME UpdatesInv, NEW u \in Updates, Updating!DoIt(u)
  PROVE  UpdatesInv'
<1>1. list' = list /\ state' = state
  BY DEF Updating!DoIt, Updating!manager
<1>2. /\ run \in [Updates -> Runs] /\ progress \in [Updates -> Seq(Messages)]
      /\ run[u] \in Runs /\ Checked(run[u]) /\ Len(progress[u]) <= Cap
      /\ progress[u] \in Seq(Messages)
      /\ files \subseteq Updates /\ inProgress \in BOOLEAN
      /\ run[u].at \in Updating!Going => inProgress
  BY DEF UpdatesInv, OneGoing
<1>3. CASE Updating!Close(u)
  <2> DEFINE r == [run[u] EXCEPT !.at = "over"]
  <2>1. r \in Runs /\ r.at = "over" /\ Checked(r)
    BY <1>2 DEF Runs, Checked
  <2>2. run' = [run EXCEPT ![u] = r]
    BY <1>2, <1>3 DEF Updating!Close
  <2>3. progress' = [progress EXCEPT ![u] = progress[u]]
    BY <1>2, <1>3 DEF Updating!Close
  <2>4. files' = files \ {u} /\ inProgress' = FALSE /\ run[u].at = "closing"
    BY <1>3 DEF Updating!Close
  <2> HIDE DEF r
  <2>5. "closing" \in Updating!Going /\ "over" \notin Updating!Going
    BY DEF Updating!Going
  <2> QED
    BY <1>1, <1>2, <2>1, <2>2, <2>3, <2>4, <2>5, RunStep
\* The run goes on with r, and tells what.
<1>4. ASSUME NEW r \in Runs, r.at \in Updating!Going, Checked(r), NEW what \in Messages,
             run' = [run EXCEPT ![u] = r], Updating!Send(u, what),
             files' \subseteq Updates, files' \ {u} = files \ {u},
             run[u].at \in Updating!Going, inProgress' = inProgress
      PROVE  UpdatesInv'
  <2>1. PICK q \in Seq(Messages) : Len(q) <= Cap /\ progress' = [progress EXCEPT ![u] = q]
    BY <1>4, SendFits
  <2> QED
    BY <1>1, <1>2, <1>4, <2>1, RunStep
<1>5. ASSUME Updating!Fails(u), run[u].at \in Updating!Going, inProgress' = inProgress
      PROVE  UpdatesInv'
  <2> DEFINE r == [run[u] EXCEPT !.at = "closing"]
  <2>1. r \in Runs /\ r.at \in Updating!Going /\ Checked(r)
    BY <1>2 DEF Runs, Checked, Updating!Going
  <2>2. run' = [run EXCEPT ![u] = r] /\ Updating!Send(u, "error") /\ files' = files
    BY <1>2, <1>5 DEF Updating!Fails
  <2>3. "error" \in Messages /\ files \subseteq Updates
    BY <1>2 DEF Messages
  <2> HIDE DEF r
  <2> QED
    BY <1>4, <1>5, <2>1, <2>2, <2>3
<1>6. CASE Updating!Check(u) /\ inProgress' = inProgress
  <2>1. CASE Updating!Fails(u)
    BY <1>5, <1>6, <2>1 DEF Updating!Check, Updating!Going
  <2>2. CASE ~Updating!Fails(u)
    <3>1. PICK f \in Updating!CheckForUpdate :
            f.found /\ Updating!Goes(u, Updating!Run("create", f.version, FALSE, FALSE)) /\ UNCHANGED files
      BY <1>6, <2>2 DEF Updating!Check
    <3>2. f.version \in list /\ Updating!Newness(f.version) = "newer"
      BY <3>1 DEF Updating!CheckForUpdate, Updating!Candidates, Updating!NotFound, Updating!Found
    <3>3. f.version \in Seq(Nat)
      BY <3>2, UpdaterConstants DEF UpdatesInv
    <3> DEFINE r == Updating!Run("create", f.version, FALSE, FALSE)
    <3>4. r \in Runs /\ r.at \in Updating!Going /\ Checked(r)
      BY <3>2, <3>3 DEF Runs, Checked, Updating!Going, Updating!Run
    <3>5. run' = [run EXCEPT ![u] = r] /\ Updating!Send(u, "activity")
      BY <3>1 DEF Updating!Goes
    <3>6. run[u].at \in Updating!Going
      BY <1>6 DEF Updating!Check, Updating!Going
    <3> HIDE DEF r
    <3> QED
      BY <1>2, <1>4, <1>6, <3>1, <3>4, <3>5, <3>6 DEF Messages
  <2> QED
    BY <2>1, <2>2
<1>7. CASE Updating!CreateFile(u) /\ inProgress' = inProgress
  <2> DEFINE r == [run[u] EXCEPT !.at = "download"]
  <2>1. r \in Runs /\ r.at \in Updating!Going /\ Checked(r) /\ run[u].at \in Updating!Going
    BY <1>2, <1>7 DEF Runs, Checked, Updating!Going, Updating!CreateFile
  <2>2. \/ Updating!Fails(u)
        \/ run' = [run EXCEPT ![u] = r] /\ Updating!Send(u, "activity") /\ files' = files \cup {u}
    BY <1>7 DEF Updating!CreateFile, Updating!Goes
  <2> HIDE DEF r
  <2> QED
    BY <1>2, <1>4, <1>5, <1>7, <2>1, <2>2 DEF Messages
<1>8. CASE Updating!Download(u) /\ inProgress' = inProgress
  <2> DEFINE r == [run[u] EXCEPT !.at = "verify", !.listed = TRUE]
  <2>1. r \in Runs /\ r.at \in Updating!Going /\ Checked(r) /\ run[u].at \in Updating!Going
    BY <1>2, <1>8 DEF Runs, Checked, Updating!Going, Updating!Download
  <2>2. \/ Updating!Fails(u)
        \/ run' = [run EXCEPT ![u] = r] /\ Updating!Send(u, "activity") /\ files' = files
    BY <1>8 DEF Updating!Download, Updating!Goes
  <2> HIDE DEF r
  <2> QED
    BY <1>2, <1>4, <1>5, <1>8, <2>1, <2>2 DEF Messages
<1>9. CASE Updating!Verify(u) /\ inProgress' = inProgress
  <2> DEFINE r == [run[u] EXCEPT !.at = "install", !.authentic = TRUE]
  <2>1. r \in Runs /\ r.at \in Updating!Going /\ Checked(r) /\ run[u].at \in Updating!Going
    BY <1>2, <1>9 DEF Runs, Checked, Updating!Going, Updating!Verify
  <2>2. \/ Updating!Fails(u)
        \/ run' = [run EXCEPT ![u] = r] /\ Updating!Send(u, "activity") /\ files' = files
    BY <1>9 DEF Updating!Verify, Updating!Goes
  <2> HIDE DEF r
  <2> QED
    BY <1>2, <1>4, <1>5, <1>9, <2>1, <2>2 DEF Messages
<1>10. CASE Updating!Install(u) /\ inProgress' = inProgress
  <2> DEFINE r == [run[u] EXCEPT !.at = "closing"]
  <2>1. r \in Runs /\ r.at \in Updating!Going /\ Checked(r) /\ run[u].at \in Updating!Going
    BY <1>2, <1>10 DEF Runs, Checked, Updating!Going, Updating!Install
  <2>2. \/ Updating!Fails(u)
        \/ run' = [run EXCEPT ![u] = r] /\ Updating!Send(u, "complete") /\ files' = files
    BY <1>2, <1>10 DEF Updating!Install
  <2> HIDE DEF r
  <2> QED
    BY <1>2, <1>4, <1>5, <1>10, <2>1, <2>2 DEF Messages
<1> QED
  BY <1>3, <1>6, <1>7, <1>8, <1>9, <1>10 DEF Updating!DoIt

LEMMA UpdateKeeps ==
  ASSUME UpdatesInv, NEW u \in Updates, Updating!Update(u)
  PROVE  UpdatesInv'
<1>1. /\ list' = list /\ state' = state /\ files' = files
      /\ run[u].at = "unasked" /\ Updating!Begin(u)
  BY DEF Updating!Update, Updating!manager
<1>2. /\ run \in [Updates -> Runs] /\ run[u] \in Runs /\ files \subseteq Updates
      /\ progress \in [Updates -> Seq(Messages)]
      /\ u \notin files
  BY <1>1 DEF UpdatesInv, OneGoing, Updating!Going
<1>3. /\ <<"activity">> \in Seq(Messages) /\ Len(<<"activity">>) <= Cap
      /\ <<"activity", "error">> \in Seq(Messages) /\ Len(<<"activity", "error">>) <= Cap
  <2>1. \A x, y \in Messages : <<x>> \in Seq(Messages) /\ Len(<<x>>) = 1 /\ <<x, y>> \in Seq(Messages) /\ Len(<<x, y>>) = 2
    OBVIOUS
  <2>2. 1 <= Cap /\ 2 <= Cap
    BY UpdaterConstants
  <2> QED
    BY <2>1, <2>2 DEF Messages
<1>4. \A at \in {"over", "check"} :
        /\ [run[u] EXCEPT !.at = at] \in Runs /\ [run[u] EXCEPT !.at = at].at = at
        /\ Checked([run[u] EXCEPT !.at = at])
        /\ at \in Updating!Going <=> at = "check"
  BY <1>2 DEF Runs, Checked, Updating!Going
<1>5. CASE inProgress
  <2>1. PICK r \in Runs : r = [run[u] EXCEPT !.at = "over"]
    BY <1>4
  <2>2. r.at \notin Updating!Going /\ Checked(r)
    BY <1>4, <2>1
  <2>3. run' = [run EXCEPT ![u] = r] /\ progress' = [progress EXCEPT ![u] = <<"activity", "error">>]
    BY <1>1, <1>2, <1>5, <2>1 DEF Updating!Begin
  <2>4. inProgress' = inProgress /\ inProgress \in BOOLEAN
    BY <1>1, <1>5 DEF Updating!Begin, UpdatesInv
  <2> QED
    BY <1>1, <1>2, <1>3, <2>2, <2>3, <2>4, RunStep
<1>6. CASE ~inProgress
  <2>1. PICK r \in Runs : r = [run[u] EXCEPT !.at = "check"]
    BY <1>4
  <2>2. r.at \in Updating!Going /\ Checked(r)
    BY <1>4, <2>1
  <2>3. run' = [run EXCEPT ![u] = r] /\ progress' = [progress EXCEPT ![u] = <<"activity">>]
    BY <1>1, <1>2, <1>6, <2>1 DEF Updating!Begin
  <2>4. inProgress' = TRUE
    BY <1>1, <1>6 DEF Updating!Begin
  <2> QED
    BY <1>1, <1>2, <1>3, <1>6, <2>2, <2>3, <2>4, RunStep
<1> QED
  BY <1>5, <1>6

LEMMA ForwardKeeps ==
  ASSUME UpdatesInv, NEW u \in Updates, Updating!Forward(u)
  PROVE  UpdatesInv'
<1>1. /\ UNCHANGED <<list, state, inProgress, run, files>>
      /\ progress[u] # <<>> /\ progress' = [progress EXCEPT ![u] = Tail(progress[u])]
  BY DEF Updating!Forward, Updating!manager
<1>2. progress \in [Updates -> Seq(Messages)] /\ Len(progress[u]) <= Cap
  BY DEF UpdatesInv
<1>3. /\ Tail(progress[u]) \in Seq(Messages) /\ Len(Tail(progress[u])) = Len(progress[u]) - 1
      /\ Len(progress[u]) \in Nat
  BY <1>1, <1>2, HeadTailProperties, LenProperties
<1>4. Len(Tail(progress[u])) <= Cap
  BY <1>2, <1>3, UpdaterConstants
<1>5. progress' \in [Updates -> Seq(Messages)]
  BY <1>1, <1>2, <1>3
<1>6. \A w \in Updates : Len(progress'[w]) <= Cap
  BY <1>1, <1>2, <1>4 DEF UpdatesInv
<1> QED
  BY <1>1, <1>5, <1>6 DEF UpdatesInv, OneGoing, Checked

LEMMA UpdatesNext == ASSUME UpdatesInv, Updating!Next PROVE UpdatesInv'
<1>1. CASE Updating!CheckForUpdates
  BY <1>1 DEF Updating!CheckForUpdates, Updating!updates, UpdatesInv, OneGoing, Checked
<1>2. CASE Updating!Release
  BY <1>2 DEF Updating!Release, Updating!updates, UpdatesInv, OneGoing, Checked
<1>3. ASSUME NEW c \in Admins, Updating!UIStep(c) PROVE UpdatesInv'
  <2>1. UNCHANGED <<list, state, inProgress, run, progress, files>>
    BY <1>3 DEF Updating!UIStep, Updating!Register, Updating!Ask, Updating!Answered, Updating!Receive,
       Updating!manager, Updating!updates
  <2> QED
    BY <2>1 DEF UpdatesInv, OneGoing, Checked
<1> QED
  BY <1>1, <1>2, <1>3, RunKeeps, ForwardKeeps, UpdateKeeps
     DEF Updating!Next, Updating!Click, Updating!Prompted

LEMMA UpdatesKept == UpdatesInv /\ [Next]_vars => UpdatesInv'
<1> SUFFICES ASSUME UpdatesInv, [Next]_vars PROVE UpdatesInv'
  OBVIOUS
<1>1. CASE Updating!Next
  BY <1>1, UpdatesNext
<1>2. CASE UNCHANGED updaterVars
  BY <1>2, UpdatesSame
<1> QED
  BY <1>1, <1>2 DEF Next, InRing, InUpdater, InSessions, InPipes, vars

\* An update installs a version only after versionNewerThanUs has found it newer,
\* and that loop finds newer what is greater in the first part that differs, for
\* versions of any lengths; the hash is the one of the signed list, and the
\* signature is authentic (DownloadVerifyAndExecute).
THEOREM NewerIsInstalled == Spec => []InstallsNewer
<1>1. Init => UpdatesInv
  BY UpdatesInit DEF Init
<1>2. UpdatesInv => InstallsNewer
  <2> SUFFICES ASSUME UpdatesInv, NEW u \in Updates, run[u].at = "install"
               PROVE  Updating!IsNewer(run[u].version) /\ run[u].listed /\ run[u].authentic
    BY DEF InstallsNewer, Updating!InstallsNewer
  <2>1. run[u].version \in Seq(Nat) /\ Checked(run[u])
    BY DEF UpdatesInv, Runs
  <2> QED
    BY <2>1, NewerIsNewer, UpdaterConstants DEF Checked
<1> QED
  BY <1>1, <1>2, UpdatesKept, PTL DEF Spec

LEMMA UpdatesTyped == UpdatesInv => Updating!TypeOK
<1> SUFFICES ASSUME UpdatesInv PROVE Updating!TypeOK
  OBVIOUS
<1> DEFINE G == {u \in Updates : run[u].at \in Updating!Going}
<1>1. Cardinality(G) <= 1
  <2> HIDE DEF G
  <2>1. CASE G = {}
    BY <2>1, FS_EmptySet
  <2>2. CASE G # {}
    <3>1. PICK u \in Updates : G = {u}
      BY <2>2 DEF UpdatesInv, OneGoing, G
    <3> QED
      BY <3>1, FS_Singleton
  <2> QED
    BY <2>1, <2>2
<1>2. Updating!Cardinality(G) = Cardinality(G)
  BY DEF Cardinality, Updating!Cardinality
<1> QED
  BY <1>1, <1>2 DEF UpdatesInv, OneGoing, Runs, Updating!TypeOK

-----------------------------------------------------------------------------
(* RingLog.                                                                *)

LineUpTo(n) == [stamp : 0..n, text : 0..n]
WriteUpTo(n) == [n : 1..n, at : {"added", "wiped", "filled"}]
Copies == [reader : {"none", "page", "save"}, next : Nat, lines : Seq(LineUpTo(MaxLines))]

\* No two writers have one index.
RingInv ==
  /\ nextIndex \in 0..MaxLines
  /\ lines \in [0..M - 1 -> LineUpTo(nextIndex)]
  /\ writes \subseteq WriteUpTo(nextIndex) /\ IsFiniteSet(writes)
  /\ \A v, w \in writes : v.n = w.n => v = w
  /\ copy \in Copies
  /\ cursor \in 0..M
  /\ saves \in 0..MaxSaves

LEMMA RingConstants ==
  /\ M \in Nat \ {0} /\ MaxLines \in Nat /\ M < MaxLines
  /\ MaxSaves \in Nat
BY ConstantsAssumption DEF Ring!RingLogAssumption

LEMMA RingInit == Ring!Init => RingInv
<1> SUFFICES ASSUME Ring!Init PROVE RingInv
  OBVIOUS
<1>1. nextIndex \in 0..M + 1
  BY DEF Ring!Init
<1>2. ASSUME NEW i \in 0..M - 1
      PROVE  \E n \in nextIndex - M + 1..nextIndex : (n - 1) % M = i
  <2>1. i % M = i /\ (i - M) % M = i /\ M % M = 0
    BY RingConstants
  <2>2. CASE i + 1 <= nextIndex /\ nextIndex - M + 1 <= i + 1
    <3>1. i + 1 \in nextIndex - M + 1..nextIndex /\ (i + 1) - 1 = i
      BY <1>1, <2>2, RingConstants
    <3> QED
      BY <2>1, <3>1
  <2>3. CASE i + 1 > nextIndex
    <3>1. i + 1 - M \in nextIndex - M + 1..nextIndex /\ (i + 1 - M) - 1 = i - M
      BY <1>1, <2>3, RingConstants
    <3> QED
      BY <2>1, <3>1
  <2>4. CASE ~(nextIndex - M + 1 <= i + 1)
    <3>1. M + 1 \in nextIndex - M + 1..nextIndex /\ (M + 1) - 1 = M /\ i = 0
      BY <1>1, <2>4, RingConstants
    <3> QED
      BY <2>1, <3>1
  <2> QED
    BY <1>1, <2>2, <2>3, <2>4, RingConstants
<1>3. lines \in [0..M - 1 -> LineUpTo(nextIndex)]
  <2> DEFINE N(i) == CHOOSE n \in nextIndex - M + 1..nextIndex : (n - 1) % M = i
             L(i) == IF N(i) > 0 THEN Ring!Line(N(i), N(i)) ELSE Ring!Line(0, 0)
  <2>1. \A i \in 0..M - 1 : N(i) \in nextIndex - M + 1..nextIndex
    BY <1>2
  <2> HIDE DEF N
  <2>2. \A i \in 0..M - 1 : L(i) \in LineUpTo(nextIndex)
    BY <1>1, <2>1, RingConstants DEF Ring!Line, LineUpTo
  <2>3. lines = [i \in 0..M - 1 |-> L(i)]
    BY DEF Ring!Init, N
  <2> HIDE DEF L
  <2> QED
    BY <2>2, <2>3
<1>4. <<>> \in Seq(LineUpTo(MaxLines))
  BY EmptySeq
<1>5. copy \in Copies
  BY <1>4 DEF Ring!Init, Ring!Nothing, Copies
<1>6. cursor = M /\ saves = 0 /\ writes = {} /\ IsFiniteSet(writes)
  BY FS_EmptySet DEF Ring!Init, Ring!All
<1>7. nextIndex \in 0..MaxLines /\ cursor \in 0..M /\ saves \in 0..MaxSaves
  BY <1>1, <1>6, RingConstants
<1> QED
  BY <1>3, <1>5, <1>6, <1>7 DEF RingInv

LEMMA RingSame == RingInv /\ UNCHANGED ringVars => RingInv'
BY DEF ringVars, RingInv

LEMMA SlotThere == ASSUME RingInv, NEW w \in writes PROVE Ring!Slot(w) \in 0..M - 1
<1>1. w.n - 1 \in Int
  BY DEF RingInv, WriteUpTo
<1> QED
  BY <1>1, RingConstants DEF Ring!Slot

LEMMA RingBegin == ASSUME RingInv, Ring!Begin PROVE RingInv'
<1>1. /\ nextIndex' = nextIndex + 1 /\ nextIndex \in 0..MaxLines /\ nextIndex < MaxLines
      /\ writes' = writes \cup {Ring!Write(nextIndex', "added")}
      /\ UNCHANGED <<lines, copy, cursor, saves>>
  BY DEF Ring!Begin, Ring!AddIndex, RingInv
<1>2. nextIndex' \in 0..MaxLines /\ nextIndex' \in 1..nextIndex'
  BY <1>1, RingConstants
<1>3. /\ LineUpTo(nextIndex) \subseteq LineUpTo(nextIndex')
      /\ WriteUpTo(nextIndex) \subseteq WriteUpTo(nextIndex')
  BY <1>1 DEF LineUpTo, WriteUpTo
<1>4. lines' \in [0..M - 1 -> LineUpTo(nextIndex')]
  BY <1>1, <1>3 DEF RingInv
<1>5. /\ Ring!Write(nextIndex', "added") \in WriteUpTo(nextIndex')
      /\ Ring!Write(nextIndex', "added").n = nextIndex'
      /\ \A w \in writes : w.n # nextIndex'
  BY <1>1, <1>2 DEF RingInv, Ring!Write, WriteUpTo
<1>6. writes' \subseteq WriteUpTo(nextIndex') /\ IsFiniteSet(writes')
  BY <1>1, <1>3, <1>5, FS_AddElement DEF RingInv
<1>7. \A v, w \in writes' : v.n = w.n => v = w
  BY <1>1, <1>5 DEF RingInv
<1>8. LineUpTo(MaxLines)' = LineUpTo(MaxLines) /\ Copies' = Copies
  BY DEF LineUpTo, Copies
<1>9. lines' \in [0..M - 1 -> LineUpTo(nextIndex)'] /\ writes' \subseteq WriteUpTo(nextIndex)'
  BY <1>4, <1>6 DEF LineUpTo, WriteUpTo
<1> QED
  BY <1>1, <1>2, <1>6, <1>7, <1>8, <1>9 DEF RingInv

LEMMA AdvanceKeeps ==
  ASSUME RingInv, NEW w \in writes, NEW at \in {"wiped", "filled"}, Ring!Advance(w, at)
  PROVE  /\ writes' \subseteq WriteUpTo(nextIndex) /\ IsFiniteSet(writes')
         /\ \A u, v \in writes' : u.n = v.n => u = v
<1>1. /\ w.n \in 1..nextIndex /\ writes \subseteq WriteUpTo(nextIndex) /\ IsFiniteSet(writes)
      /\ writes' = (writes \ {w}) \cup {Ring!Write(w.n, at)}
      /\ \A u, v \in writes : u.n = v.n => u = v
  BY DEF RingInv, Ring!Advance, WriteUpTo
<1>2. Ring!Write(w.n, at) \in WriteUpTo(nextIndex) /\ Ring!Write(w.n, at).n = w.n
  BY <1>1 DEF Ring!Write, WriteUpTo
<1>3. IsFiniteSet(writes \ {w})
  BY <1>1, FS_RemoveElement
<1>4. IsFiniteSet(writes')
  BY <1>1, <1>3, FS_AddElement
<1> QED
  BY <1>1, <1>2, <1>4

LEMMA RingWriteStep == ASSUME RingInv, Ring!WriteStep PROVE RingInv'
<1>1. UNCHANGED <<nextIndex, copy, cursor, saves>>
  BY DEF Ring!WriteStep, Ring!page, Ring!file
<1>2. PICK w \in writes : Ring!Wipe(w) \/ Ring!Fill(w) \/ Ring!Stamp(w)
  BY DEF Ring!WriteStep
<1>3. /\ nextIndex \in 0..MaxLines
      /\ lines \in [0..M - 1 -> LineUpTo(nextIndex)] /\ Ring!Slot(w) \in 0..M - 1
      /\ w.n \in 0..nextIndex /\ \A v \in writes : v.n \in 0..nextIndex
  BY <1>2, SlotThere DEF RingInv, WriteUpTo
<1>4. \A l \in LineUpTo(nextIndex), n \in 0..nextIndex :
        [l EXCEPT !.text = n] \in LineUpTo(nextIndex) /\ [l EXCEPT !.stamp = n] \in LineUpTo(nextIndex)
  BY DEF LineUpTo
<1>5. \E l \in LineUpTo(nextIndex) : lines' = [lines EXCEPT ![Ring!Slot(w)] = l]
  <2>1. CASE Ring!Wipe(w)
    <3>1. Ring!Line(0, 0) \in LineUpTo(nextIndex)
      BY <1>3 DEF Ring!Line, LineUpTo
    <3> QED
      BY <2>1, <3>1 DEF Ring!Wipe
  <2>2. CASE Ring!Fill(w)
    <3>1. PICK v \in writes : lines' = [lines EXCEPT ![Ring!Slot(w)].text = v.n]
      BY <2>2 DEF Ring!Fill
    <3>2. PICK l : l = [lines[Ring!Slot(w)] EXCEPT !.text = v.n]
      OBVIOUS
    <3>3. l \in LineUpTo(nextIndex)
      BY <1>3, <1>4, <3>2
    <3>4. lines' = [lines EXCEPT ![Ring!Slot(w)] = l]
      BY <3>1, <3>2
    <3> QED
      BY <3>3, <3>4
  <2>3. CASE Ring!Stamp(w)
    <3>1. lines' = [lines EXCEPT ![Ring!Slot(w)].stamp = w.n]
      BY <2>3 DEF Ring!Stamp
    <3>2. PICK l : l = [lines[Ring!Slot(w)] EXCEPT !.stamp = w.n]
      OBVIOUS
    <3>3. l \in LineUpTo(nextIndex)
      BY <1>3, <1>4, <3>2
    <3>4. lines' = [lines EXCEPT ![Ring!Slot(w)] = l]
      BY <3>1, <3>2
    <3> QED
      BY <3>3, <3>4
  <2> QED
    BY <1>2, <2>1, <2>2, <2>3
<1>6. lines' \in [0..M - 1 -> LineUpTo(nextIndex)]
  BY <1>3, <1>5
<1>7. /\ writes' \subseteq WriteUpTo(nextIndex) /\ IsFiniteSet(writes')
      /\ \A u, v \in writes' : u.n = v.n => u = v
  <2>1. CASE Ring!Wipe(w) \/ Ring!Fill(w)
    BY <1>2, <2>1, AdvanceKeeps DEF Ring!Wipe, Ring!Fill
  <2>2. CASE Ring!Stamp(w)
    BY <2>2, FS_RemoveElement DEF Ring!Stamp, RingInv
  <2> QED
    BY <1>2, <2>1, <2>2
<1>8. /\ LineUpTo(nextIndex)' = LineUpTo(nextIndex) /\ WriteUpTo(nextIndex)' = WriteUpTo(nextIndex)
  BY <1>1 DEF LineUpTo, WriteUpTo
<1>9. copy \in Copies /\ copy' \in Copies'
  BY <1>1 DEF RingInv, Copies, LineUpTo
<1> QED
  BY <1>1, <1>6, <1>7, <1>8, <1>9 DEF RingInv

\* The loop of FollowFromCursor, as one equation.
IsFollow(g, start, n) ==
  g = [k \in 0..n |-> IF k = 0 THEN start ELSE Ring!FollowLine(g[k - 1])]

LEMMA FollowThere == ASSUME NEW start, NEW n \in Nat PROVE \E g : IsFollow(g, start, n)
<1> DEFINE T == {k \in Nat : ~\E g : IsFollow(g, start, k)}
<1>1. ASSUME T # {} PROVE FALSE
  <2>1. PICK k \in T : \A m \in T : k <= m
    BY <1>1, LeastOf
  <2>2. CASE k = 0
    <3> DEFINE g == [j \in 0..0 |-> start]
    <3>1. IsFollow(g, start, 0)
      BY DEF IsFollow
    <3> QED
      BY <2>1, <2>2, <3>1
  <2>3. CASE k # 0
    <3>1. k - 1 \in Nat /\ k - 1 \notin T
      BY <2>1, <2>3
    <3>2. PICK g : IsFollow(g, start, k - 1)
      BY <3>1
    <3> DEFINE h == [j \in 0..k |-> IF j = k THEN Ring!FollowLine(g[k - 1]) ELSE g[j]]
    <3>3. \A j \in 0..k - 1 : h[j] = g[j] /\ g[j] = IF j = 0 THEN start ELSE Ring!FollowLine(g[j - 1])
      BY <3>2 DEF IsFollow
    <3>4. ASSUME NEW j \in 0..k
          PROVE  h[j] = IF j = 0 THEN start ELSE Ring!FollowLine(h[j - 1])
      <4>1. CASE j = k
        BY <2>1, <2>3, <3>3, <4>1
      <4>2. CASE j # k
        BY <2>1, <3>3, <4>2
      <4> QED
        BY <4>1, <4>2
    <3>5. h = [j \in 0..k |-> h[j]]
      OBVIOUS
    <3> HIDE DEF h
    <3>6. IsFollow(h, start, k)
      BY <3>4, <3>5 DEF IsFollow
    <3> QED
      BY <2>1, <3>6
  <2> QED
    BY <2>2, <2>3
<1> QED
  BY <1>1

\* How far the loop is, and its cursor.
Following(f) ==
  \E ls, going : \E i \in Nat, c \in 0..M : f = [i |-> i, lines |-> ls, cursor |-> c, going |-> going]

LEMMA FollowLineKeeps == ASSUME NEW f, Following(f) PROVE Following(Ring!FollowLine(f))
<1>1. PICK ls, going : \E i \in Nat, c \in 0..M : f = [i |-> i, lines |-> ls, cursor |-> c, going |-> going]
  BY DEF Following
<1>2. PICK i \in Nat, c \in 0..M : f = [i |-> i, lines |-> ls, cursor |-> c, going |-> going]
  BY <1>1
<1>3. (i + 1) % M \in 0..M /\ i + 1 \in Nat
  BY RingConstants
<1>4. \/ Ring!FollowLine(f) = [f EXCEPT !.going = FALSE]
      \/ Ring!FollowLine(f) = [f EXCEPT !.i = @ + 1]
      \/ \E t : Ring!FollowLine(f) = [f EXCEPT !.lines = @ \o t, !.i = @ + 1, !.cursor = (f.i + 1) % M]
  BY DEF Ring!FollowLine
<1>5. CASE Ring!FollowLine(f) = [f EXCEPT !.going = FALSE]
  <2>1. Ring!FollowLine(f) = [i |-> i, lines |-> ls, cursor |-> c, going |-> FALSE]
    BY <1>2, <1>5
  <2> QED
    BY <2>1 DEF Following
<1>6. CASE Ring!FollowLine(f) = [f EXCEPT !.i = @ + 1]
  <2>1. Ring!FollowLine(f) = [i |-> i + 1, lines |-> ls, cursor |-> c, going |-> going]
    BY <1>2, <1>6
  <2> QED
    BY <1>3, <2>1 DEF Following
<1>7. ASSUME NEW t, Ring!FollowLine(f) = [f EXCEPT !.lines = @ \o t, !.i = @ + 1, !.cursor = (f.i + 1) % M]
      PROVE  Following(Ring!FollowLine(f))
  <2>1. Ring!FollowLine(f) = [i |-> i + 1, lines |-> ls \o t, cursor |-> (i + 1) % M, going |-> going]
    BY <1>2, <1>7
  <2> QED
    BY <1>3, <2>1 DEF Following
<1> QED
  BY <1>4, <1>5, <1>6, <1>7

LEMMA RingFollow == ASSUME RingInv, Ring!Follow PROVE RingInv'
<1> DEFINE start == [i |-> IF cursor = Ring!All THEN copy.next ELSE cursor,
                     lines |-> <<>>, cursor |-> cursor, going |-> TRUE]
           after == CHOOSE g : IsFollow(g, start, M)
<1>1. /\ cursor' = after[M].cursor /\ copy' = Ring!Nothing
      /\ UNCHANGED <<nextIndex, lines, writes, saves>>
  BY DEF Ring!Follow, IsFollow, Ring!ring, Ring!file
<1>2. Following(start)
  <2>1. (IF cursor = Ring!All THEN copy.next ELSE cursor) \in Nat /\ cursor \in 0..M
    BY DEF RingInv, Copies
  <2>2. \A i \in Nat, c \in 0..M : Following([i |-> i, lines |-> <<>>, cursor |-> c, going |-> TRUE])
    BY DEF Following
  <2> QED
    BY <2>1, <2>2
<1> HIDE DEF start
<1>3. IsFollow(after, start, M)
  BY FollowThere, RingConstants
<1>4. PICK g : g = after
  OBVIOUS
<1> HIDE DEF after
<1>5. g = [k \in 0..M |-> IF k = 0 THEN start ELSE Ring!FollowLine(g[k - 1])]
  BY <1>3, <1>4 DEF IsFollow
<1> DEFINE T == {k \in 0..M : ~Following(g[k])}
<1>6. ASSUME T # {} PROVE FALSE
  <2>1. PICK k \in T : \A m \in T : k <= m
    <3>1. T \in SUBSET Nat
      BY RingConstants
    <3> HIDE DEF T
    <3> QED
      BY <1>6, <3>1, LeastOf
  <2>2. k # 0
    BY <1>2, <1>5, <2>1, RingConstants
  <2>3. g[k] = Ring!FollowLine(g[k - 1]) /\ k - 1 \in 0..M
    BY <1>5, <2>1, <2>2, RingConstants
  <2>4. k - 1 \notin T
    <3>1. ~(k <= k - 1)
      BY <2>1
    <3> QED
      BY <2>1, <3>1
  <2> QED
    BY <2>1, <2>3, <2>4, FollowLineKeeps
<1>7. Following(g[M])
  BY <1>6, RingConstants
<1>8. cursor' \in 0..M
  BY <1>1, <1>4, <1>7 DEF Following
<1>9. copy' \in Copies'
  BY <1>1, EmptySeq DEF Ring!Nothing, Copies, LineUpTo
<1> QED
  BY <1>1, <1>8, <1>9 DEF RingInv, LineUpTo, WriteUpTo

LEMMA RingNext == ASSUME RingInv, Ring!Next PROVE RingInv'
<1> USE DEF Ring!ring, Ring!page, Ring!file
<1>1. CASE Ring!BeginFollow \/ Ring!BeginSave
  <2>1. \E r \in {"page", "save"} : copy' = [reader |-> r, next |-> nextIndex, lines |-> <<>>]
    BY <1>1 DEF Ring!BeginFollow, Ring!BeginSave, Ring!BeginCopy
  <2>2. nextIndex \in Nat /\ <<>> \in Seq(LineUpTo(MaxLines))
    BY EmptySeq, RingConstants DEF RingInv
  <2>3. copy' \in Copies
    BY <2>1, <2>2 DEF Copies
  <2>4. /\ UNCHANGED <<nextIndex, lines, writes, cursor>>
        /\ saves' = saves \/ (saves < MaxSaves /\ saves' = saves + 1)
    BY <1>1 DEF Ring!BeginFollow, Ring!BeginSave
  <2>5. saves' \in 0..MaxSaves
    BY <2>4, RingConstants DEF RingInv
  <2> QED
    BY <2>3, <2>4, <2>5 DEF RingInv, LineUpTo, WriteUpTo, Copies
<1>2. CASE Ring!CopyLine
  <2>1. /\ copy' = [copy EXCEPT !.lines = Append(copy.lines, lines[Len(copy.lines)])]
        /\ Len(copy.lines) < M
        /\ UNCHANGED <<nextIndex, lines, writes, cursor, saves>>
    BY <1>2 DEF Ring!CopyLine
  <2>2. copy \in Copies /\ copy.lines \in Seq(LineUpTo(MaxLines)) /\ Len(copy.lines) \in Nat
    BY LenProperties DEF RingInv, Copies
  <2>3. Len(copy.lines) \in 0..M - 1
    BY <2>1, <2>2, RingConstants
  <2>4. lines[Len(copy.lines)] \in LineUpTo(nextIndex)
    BY <2>3 DEF RingInv
  <2>5. lines[Len(copy.lines)] \in LineUpTo(MaxLines)
    BY <2>4, RingConstants DEF RingInv, LineUpTo
  <2>6. Append(copy.lines, lines[Len(copy.lines)]) \in Seq(LineUpTo(MaxLines))
    BY <2>2, <2>5, AppendProperties
  <2>7. copy' \in Copies
    BY <2>1, <2>2, <2>6 DEF Copies
  <2> QED
    BY <2>1, <2>7 DEF RingInv, LineUpTo, WriteUpTo, Copies
<1>3. CASE Ring!Save
  <2>1. copy' = Ring!Nothing /\ UNCHANGED <<nextIndex, lines, writes, cursor, saves>>
    BY <1>3 DEF Ring!Save
  <2>2. copy' \in Copies
    BY <2>1, EmptySeq DEF Ring!Nothing, Copies
  <2> QED
    BY <2>1, <2>2 DEF RingInv, LineUpTo, WriteUpTo, Copies
<1> QED
  BY <1>1, <1>2, <1>3, RingBegin, RingWriteStep, RingFollow DEF Ring!Next, Ring!Read

LEMMA RingTyped == RingInv => Ring!TypeOK
<1> SUFFICES ASSUME RingInv PROVE Ring!TypeOK
  OBVIOUS
<1> DEFINE T == {w.n : w \in writes}
           f == [w \in writes |-> w.n]
<1>1. f \in Bijection(writes, T)
  <2>1. f \in Injection(writes, T)
    BY DEF RingInv, Injection, IsInjective
  <2>2. f \in Surjection(writes, T)
    BY DEF Surjection
  <2> QED
    BY <2>1, <2>2 DEF Bijection
<1>2. Cardinality(T) = Cardinality(writes)
  BY <1>1, FS_Bijection DEF RingInv, ExistsBijection
<1>3. Ring!Cardinality(T) = Cardinality(T) /\ Ring!Cardinality(writes) = Cardinality(writes)
  BY DEF Cardinality, Ring!Cardinality
<1>4. Ring!Cardinality(T) = Ring!Cardinality(writes)
  BY <1>2, <1>3
<1>5. \A i \in 0..M - 1 : lines[i].stamp \in 0..nextIndex /\ lines[i].text \in 0..nextIndex
  BY DEF RingInv, LineUpTo
<1>6. \A w \in writes : w.n \in 1..nextIndex
  BY DEF RingInv, WriteUpTo
<1> QED
  BY <1>4, <1>5, <1>6 DEF RingInv, Ring!TypeOK

LEMMA RingKept == RingInv /\ [Next]_vars => RingInv'
<1> SUFFICES ASSUME RingInv, [Next]_vars PROVE RingInv'
  OBVIOUS
<1>1. CASE Ring!Next
  BY <1>1, RingNext
<1>2. CASE UNCHANGED ringVars
  BY <1>2, RingSame
<1> QED
  BY <1>1, <1>2 DEF Next, InRing, InUpdater, InSessions, InPipes, vars

-----------------------------------------------------------------------------
(* The order of the log.                                                   *)

\* The place of a line, and what its place holds when it is written.
Place(n) == (n - 1) % M
LineOf(n) == IF n > 0 THEN Ring!Line(n, n) ELSE Ring!Line(0, 0)

LEMMA PlaceThere == ASSUME NEW n \in Int PROVE Place(n) \in 0..M - 1
BY RingConstants DEF Place

\* A number as turns of the ring and a place.
LEMMA Turns ==
  ASSUME NEW m \in Nat \ {0}, NEW a \in Int
  PROVE  a \div m \in Int /\ a % m \in 0..m - 1 /\ a = m * (a \div m) + (a % m)
<1>1. a \div m \in Int
  OBVIOUS
<1>2. a % m \in 0..m - 1
  OBVIOUS
<1>3. a = m * (a \div m) + (a % m)
  OBVIOUS
<1> QED
  BY <1>1, <1>2, <1>3

LEMMA Remainder ==
  ASSUME NEW m \in Nat \ {0}, NEW q \in Int, NEW r \in 0..m - 1
  PROVE  (m * q + r) % m = r
OBVIOUS

LEMMA OneTurn ==
  ASSUME NEW a \in Int
  PROVE  /\ Place(a + M) = Place(a)
         /\ (a + M) % M = a % M
<1> DEFINE q == a \div M
           r == a % M
<1>1. q \in Int /\ r \in 0..M - 1 /\ a = M * q + r
  BY Turns, RingConstants
<1>2. a + M = M * (q + 1) + r /\ q + 1 \in Int
  BY <1>1, RingConstants
<1>3. (a + M) % M = r
  BY <1>1, <1>2, Remainder, RingConstants
<1> DEFINE p == (a - 1) \div M
           s == (a - 1) % M
<1>4. a - 1 \in Int /\ p \in Int /\ s \in 0..M - 1 /\ a - 1 = M * p + s
  BY Turns, RingConstants
<1>5. (a + M) - 1 = M * (p + 1) + s /\ p + 1 \in Int
  BY <1>4, RingConstants
<1>6. ((a + M) - 1) % M = s
  BY <1>4, <1>5, Remainder, RingConstants
<1> QED
  BY <1>3, <1>6 DEF Place

\* A remainder and what it is of go on alike.
LEMMA GoOn == ASSUME NEW a \in Int, NEW j \in Int PROVE ((a % M) + j) % M = (a + j) % M
<1> DEFINE q == a \div M
           r == a % M
           p == (r + j) \div M
           s == (r + j) % M
<1>1. q \in Int /\ r \in 0..M - 1 /\ a = M * q + r
  BY Turns, RingConstants
<1>2. r + j \in Int
  BY <1>1
<1>3. p \in Int /\ s \in 0..M - 1 /\ r + j = M * p + s
  BY <1>2, Turns, RingConstants
<1> HIDE DEF q, r, p, s
<1>4. a + j = M * q + (M * p + s)
  BY <1>1, <1>3, RingConstants
<1>5. a + j = M * (q + p) + s /\ q + p \in Int
  BY <1>1, <1>3, <1>4, RingConstants
<1>6. (a + j) % M = s
  BY <1>3, <1>5, Remainder, RingConstants
<1> QED
  BY <1>6 DEF r, s

\* Fewer than M numbers apart, two are not in one place.
LEMMA OnePlace ==
  ASSUME NEW a \in Int, NEW b \in Int, a % M = b % M, a - b < M, b - a < M
  PROVE  a = b
<1> DEFINE q == a \div M
           p == b \div M
           r == a % M
<1>1. q \in Int /\ p \in Int /\ r \in 0..M - 1 /\ a = M * q + r /\ b = M * p + r
  BY Turns, RingConstants
<1> HIDE DEF q, p, r
<1>2. a - b = M * (q - p) /\ b - a = M * (p - q)
  BY <1>1, RingConstants
<1>3. ASSUME q - p >= 1 PROVE FALSE
  <2>1. M * (q - p) >= M * 1
    BY <1>1, <1>3, RingConstants
  <2> QED
    BY <1>2, <2>1, RingConstants
<1>4. ASSUME p - q >= 1 PROVE FALSE
  <2>1. M * (p - q) >= M * 1
    BY <1>1, <1>4, RingConstants
  <2> QED
    BY <1>2, <2>1, RingConstants
<1>5. q = p
  BY <1>1, <1>3, <1>4
<1> QED
  BY <1>1, <1>5

-----------------------------------------------------------------------------
\* Unless two writers met in one place: the lines of the last M writes are in
\* their places, but for those that are still being written.
LinesWhole ==
  /\ \A w \in writes : w.n > nextIndex - M
  /\ \A w \in writes :
       lines[Place(w.n)] = IF w.at = "added" THEN LineOf(w.n - M) ELSE Ring!Line(0, IF w.at = "wiped" THEN 0 ELSE w.n)
  /\ \A n \in nextIndex - M + 1..nextIndex :
       (\A w \in writes : w.n # n) => lines[Place(n)] = LineOf(n)

\* Lines one after the other: those after lo, up to hi.
Run(lo, hi) == [i \in 1..hi - lo |-> lo + i]
IsRunOfLines(s) == \E lo \in Nat, hi \in Nat : lo <= hi /\ s = Run(lo, hi)

\* The copy is of a ring that nobody writes.
Quiet ==
  /\ writes = {} /\ copy.next = nextIndex
  /\ \A k \in 1..Len(copy.lines) : copy.lines[k] = lines[k - 1]

\* The lines after the last one that is shown, as they are copied: as they were
\* written, or being written.
CopyHas(hi) ==
  \A n \in hi + 1..copy.next : Place(n) < Len(copy.lines) =>
    copy.lines[Place(n) + 1].stamp = 0 \/ copy.lines[Place(n) + 1] = Ring!Line(n, n)

PageEmpty == cursor = M /\ shown = <<>> /\ (copy.reader = "page" => Quiet)

PageUpTo(lo, hi) ==
  /\ lo < hi /\ hi <= nextIndex /\ nextIndex < hi + M
  /\ shown = Run(lo, hi) /\ cursor = hi % M
  /\ copy.reader = "page" => hi <= copy.next /\ CopyHas(hi)

PageInv == PageEmpty \/ \E lo \in Nat, hi \in Nat : PageUpTo(lo, hi)

FileInv == IsRunOfLines(saved) /\ (copy.reader = "save" => Quiet)

OrderInv ==
  /\ copy.next <= nextIndex
  /\ ~clashed => LinesWhole
  /\ ~clashed /\ ~saveLoses => FileInv
  /\ ~clashed /\ ~pageLoses => PageInv

LEMMA RunFacts ==
  ASSUME NEW lo \in Nat, NEW hi \in Nat, lo <= hi
  PROVE  /\ Run(lo, hi) \in Seq(Nat) /\ Len(Run(lo, hi)) = hi - lo
         /\ Run(lo, lo) = <<>>
         /\ lo < hi => Ring!Last(Run(lo, hi)) = hi /\ Run(lo, hi) # <<>>
         /\ Ring!InOrder(Run(lo, hi))
         /\ \A to \in Nat : hi <= to => Run(lo, hi) \o Run(hi, to) = Run(lo, to)
         /\ Run(lo, hi) \o <<hi + 1>> = Run(lo, hi + 1)
<1>1. hi - lo \in Nat /\ \A i \in 1..hi - lo : lo + i \in Nat
  OBVIOUS
<1>2. Run(lo, hi) \in Seq(Nat) /\ Len(Run(lo, hi)) = hi - lo
  BY <1>1 DEF Run
<1>3. Run(lo, lo) = <<>>
  BY DEF Run
<1>4. lo < hi => Ring!Last(Run(lo, hi)) = hi /\ Run(lo, hi) # <<>>
  <2>1. lo < hi => Run(lo, hi)[hi - lo] = hi
    BY <1>1 DEF Run
  <2> QED
    BY <1>2, <2>1 DEF Ring!Last
<1>5. Ring!InOrder(Run(lo, hi))
  <2>1. \A i \in 1..hi - lo : Run(lo, hi)[i] = lo + i /\ Run(lo, hi)[1] = lo + 1
    BY <1>1 DEF Run
  <2> QED
    BY <1>1, <1>2, <2>1 DEF Ring!InOrder
<1>6. ASSUME NEW to \in Nat, hi <= to PROVE Run(lo, hi) \o Run(hi, to) = Run(lo, to)
  <2>1. Run(hi, to) \in Seq(Nat) /\ Len(Run(hi, to)) = to - hi
    <3>1. to - hi \in Nat /\ \A i \in 1..to - hi : hi + i \in Nat
      BY <1>6
    <3> QED
      BY <3>1 DEF Run
  <2>2. Run(lo, to) \in Seq(Nat) /\ Len(Run(lo, to)) = to - lo
    <3>1. to - lo \in Nat /\ \A i \in 1..to - lo : lo + i \in Nat
      BY <1>6
    <3> QED
      BY <3>1 DEF Run
  <2>3. Run(lo, hi) \o Run(hi, to) \in Seq(Nat) /\ Len(Run(lo, hi) \o Run(hi, to)) = to - lo
    <3>1. (hi - lo) + (to - hi) = to - lo
      BY <1>6
    <3>2. Len(Run(lo, hi) \o Run(hi, to)) = Len(Run(lo, hi)) + Len(Run(hi, to))
      BY <1>2, <2>1, ConcatProperties
    <3> QED
      BY <1>2, <2>1, <3>1, <3>2, ConcatProperties
  <2>4. ASSUME NEW i \in 1..to - lo PROVE (Run(lo, hi) \o Run(hi, to))[i] = Run(lo, to)[i]
    <3>1. Run(lo, to)[i] = lo + i
      BY <1>6 DEF Run
    <3>2. CASE i <= hi - lo
      <4>1. (Run(lo, hi) \o Run(hi, to))[i] = Run(lo, hi)[i]
        BY <1>2, <2>1, <2>4, <3>2, ConcatProperties
      <4> QED
        BY <1>1, <3>1, <3>2, <4>1 DEF Run
    <3>3. CASE i > hi - lo
      <4>1. (Run(lo, hi) \o Run(hi, to))[i] = Run(hi, to)[i - (hi - lo)]
        BY <1>2, <1>6, <2>1, <2>4, <3>3, ConcatProperties
      <4>2. Run(hi, to)[i - (hi - lo)] = hi + (i - (hi - lo))
        BY <1>6, <3>3 DEF Run
      <4> QED
        BY <3>1, <4>1, <4>2
    <3>4. i <= hi - lo \/ i > hi - lo
      BY <2>4
    <3> QED
      BY <3>2, <3>3, <3>4
  <2> QED
    BY <2>2, <2>3, <2>4, SeqEqual
<1>7. <<hi + 1>> = Run(hi, hi + 1)
  <2>1. Run(hi, hi + 1) = [i \in 1..1 |-> hi + i]
    BY DEF Run
  <2> QED
    BY <2>1
<1>8. Run(lo, hi) \o <<hi + 1>> = Run(lo, hi + 1)
  <2>1. hi + 1 \in Nat /\ hi <= hi + 1
    OBVIOUS
  <2> QED
    BY <1>6, <1>7, <2>1
<1> QED
  BY <1>2, <1>3, <1>4, <1>5, <1>6, <1>8

LEMMA RunOn ==
  ASSUME NEW lo \in Nat, NEW hi \in Nat, NEW to \in Nat, lo <= hi, hi <= to
  PROVE  Run(lo, hi) \o Run(hi, to) = Run(lo, to)
<1>1. \A n \in Nat : hi <= n => Run(lo, hi) \o Run(hi, n) = Run(lo, n)
  BY RunFacts
<1> QED
  BY <1>1

LEMMA EmptyRun == <<>> = Run(0, 0) /\ \A lo \in Nat : Run(lo, lo) = <<>>
<1>1. ASSUME NEW lo \in Nat PROVE Run(lo, lo) = <<>>
  <2>1. lo <= lo
    OBVIOUS
  <2> QED
    BY <2>1, RunFacts
<1>2. 0 \in Nat
  OBVIOUS
<1>3. Run(0, 0) = <<>>
  BY <1>1, <1>2
<1> QED
  BY <1>1, <1>3

LEMMA LinesInit == Ring!Init => LinesWhole
<1> SUFFICES ASSUME Ring!Init PROVE LinesWhole
  OBVIOUS
<1> DEFINE Window == nextIndex - M + 1..nextIndex
           N(i) == CHOOSE n \in Window : (n - 1) % M = i
<1>1. nextIndex \in Nat /\ writes = {}
  <2>1. nextIndex \in 0..M + 1 /\ writes = {}
    BY DEF Ring!Init
  <2> QED
    BY <2>1, RingConstants
<1>2. lines = [i \in 0..M - 1 |-> IF N(i) > 0 THEN Ring!Line(N(i), N(i)) ELSE Ring!Line(0, 0)]
  BY DEF Ring!Init
<1>3. ASSUME NEW n \in Window PROVE lines[Place(n)] = LineOf(n)
  <2>1. n \in Int /\ Place(n) \in 0..M - 1 /\ (n - 1) % M = Place(n)
    BY <1>1, PlaceThere, RingConstants DEF Place
  <2>2. N(Place(n)) \in Window /\ (N(Place(n)) - 1) % M = Place(n)
    BY <1>3, <2>1
  <2> HIDE DEF N
  <2>3. PICK p \in Window : p = N(Place(n))
    BY <2>2
  <2>4. p \in Int /\ (p - 1) - (n - 1) < M /\ (n - 1) - (p - 1) < M
    BY <1>1, <1>3, RingConstants
  <2>5. p - 1 = n - 1
    BY <2>1, <2>2, <2>3, <2>4, OnePlace
  <2>6. p = n
    BY <2>1, <2>4, <2>5
  <2>7. N(Place(n)) = n
    BY <2>3, <2>6
  <2>8. lines[Place(n)] = IF N(Place(n)) > 0 THEN Ring!Line(N(Place(n)), N(Place(n))) ELSE Ring!Line(0, 0)
    BY <1>2, <2>1
  <2> QED
    BY <2>7, <2>8 DEF LineOf
<1> QED
  BY <1>1, <1>3 DEF LinesWhole

\* Of two numbers that are fewer than M apart, each has its own place.
LEMMA SamePlace ==
  ASSUME NEW a \in Int, NEW b \in Int, Place(a) = Place(b), a - b < M, b - a < M
  PROVE  a = b
<1>1. a - 1 \in Int /\ b - 1 \in Int /\ (a - 1) - (b - 1) < M /\ (b - 1) - (a - 1) < M
  BY RingConstants
<1>2. a - 1 = b - 1
  BY <1>1, OnePlace DEF Place
<1> QED
  BY <1>2

LEMMA WritesAre ==
  ASSUME RingInv
  PROVE  nextIndex \in Nat /\ \A w \in writes : w.n \in 1..nextIndex /\ w.n \in Int /\ w.at \in {"added", "wiped", "filled"}
<1>1. \A w \in writes : w \in WriteUpTo(nextIndex)
  BY DEF RingInv
<1> QED
  BY <1>1 DEF RingInv, WriteUpTo

LEMMA LinesBegin == ASSUME RingInv, LinesWhole, Ring!Begin, ~clashed' PROVE LinesWhole'
<1>1. /\ nextIndex \in Nat /\ nextIndex' = nextIndex + 1
      /\ writes' = writes \cup {Ring!Write(nextIndex + 1, "added")}
      /\ \A w \in writes : Ring!Slot(w) # nextIndex % M
      /\ lines' = lines
  BY WritesAre DEF Ring!Begin, Ring!AddIndex
<1>2. \A w \in writes : w.n \in Int /\ w.n <= nextIndex /\ Place(w.n) # Place(nextIndex + 1)
  <2>1. (nextIndex + 1) - 1 = nextIndex
    BY <1>1
  <2> QED
    BY <1>1, <2>1, WritesAre DEF Ring!Slot, Place
<1> DEFINE old == nextIndex + 1 - M
<1>3. old \in Int /\ Place(nextIndex + 1) = Place(old) /\ old \in nextIndex - M + 1..nextIndex
  <2>1. old \in Int /\ old + M = nextIndex + 1
    BY <1>1, RingConstants
  <2>2. Place(old + M) = Place(old)
    BY <2>1, OneTurn
  <2>3. old \in nextIndex - M + 1..nextIndex
    BY <1>1, RingConstants
  <2> QED
    BY <2>1, <2>2, <2>3
<1>4. \A w \in writes : w.n # old
  BY <1>2, <1>3
<1>5. lines[Place(nextIndex + 1)] = LineOf(old)
  BY <1>3, <1>4 DEF LinesWhole
<1>6. \A w \in writes' : w \in writes \/ (w.n = nextIndex + 1 /\ w.at = "added")
  BY <1>1 DEF Ring!Write
<1>7. \A w \in writes' : w.n > nextIndex + 1 - M
  <2>1. \A w \in writes : w.n > nextIndex - M
    BY DEF LinesWhole
  <2>2. \A w \in writes : w.n > nextIndex + 1 - M
    BY <1>1, <1>2, <1>4, <2>1, RingConstants
  <2> QED
    BY <1>1, <1>6, <2>2, RingConstants
<1>8. \A w \in writes' :
        lines[Place(w.n)] = IF w.at = "added" THEN LineOf(w.n - M) ELSE Ring!Line(0, IF w.at = "wiped" THEN 0 ELSE w.n)
  <2>1. nextIndex + 1 - M = old
    OBVIOUS
  <2> HIDE DEF old
  <2>2. ASSUME NEW w, w.n = nextIndex + 1, w.at = "added" PROVE lines[Place(w.n)] = LineOf(w.n - M)
    BY <1>1, <1>5, <2>1, <2>2, RingConstants
  <2> QED
    BY <1>6, <2>2 DEF LinesWhole
<1>9. ASSUME NEW n \in nextIndex + 1 - M + 1..nextIndex + 1, \A w \in writes' : w.n # n
      PROVE  lines[Place(n)] = LineOf(n)
  <2>1. Ring!Write(nextIndex + 1, "added").n = nextIndex + 1
    BY DEF Ring!Write
  <2>2. n # nextIndex + 1
    BY <1>1, <1>9, <2>1
  <2>3. n \in nextIndex - M + 1..nextIndex
    BY <1>1, <1>9, <2>2, RingConstants
  <2> QED
    BY <1>1, <1>9, <2>3 DEF LinesWhole
<1>10. \A n \in (nextIndex - M + 1..nextIndex)' : (\A w \in writes' : w.n # n) => lines'[Place(n)] = LineOf(n)
  <2>1. (nextIndex - M + 1..nextIndex)' = nextIndex + 1 - M + 1..nextIndex + 1
    BY <1>1, RingConstants
  <2> QED
    BY <1>1, <1>9, <2>1
<1>11. \A w \in writes' : w.n > (nextIndex - M)'
  BY <1>1, <1>7, RingConstants
<1> QED
  BY <1>1, <1>8, <1>10, <1>11 DEF LinesWhole

LEMMA LinesWriteStep == ASSUME RingInv, LinesWhole, Ring!WriteStep PROVE LinesWhole'
<1>1. nextIndex' = nextIndex /\ nextIndex \in Nat
  BY WritesAre DEF Ring!WriteStep
<1>2. PICK w \in writes : Ring!Wipe(w) \/ Ring!Fill(w) \/ Ring!Stamp(w)
  BY DEF Ring!WriteStep
<1>3. \A u \in writes : u.n \in Int /\ u.n \in nextIndex - M + 1..nextIndex
  BY <1>1, WritesAre, RingConstants DEF LinesWhole
<1> DEFINE p == Place(w.n)
<1>4. p \in 0..M - 1 /\ Ring!Slot(w) = p
  BY <1>2, <1>3, PlaceThere DEF Place, Ring!Slot
<1>5. ASSUME NEW n \in nextIndex - M + 1..nextIndex, Place(n) = p PROVE n = w.n
  <2>1. n \in Int /\ w.n \in Int /\ n - w.n < M /\ w.n - n < M
    BY <1>1, <1>2, <1>3, <1>5, RingConstants
  <2> QED
    BY <1>5, <2>1, SamePlace
<1>6. \A u \in writes : u.n = w.n => u = w
  BY <1>2 DEF RingInv
<1>7. lines \in [0..M - 1 -> LineUpTo(nextIndex)]
  BY DEF RingInv
<1>8. lines[p] = IF w.at = "added" THEN LineOf(w.n - M) ELSE Ring!Line(0, IF w.at = "wiped" THEN 0 ELSE w.n)
  BY <1>2 DEF LinesWhole
<1> HIDE DEF p
<1>9. \A i \in 0..M - 1 : i # p => lines'[i] = lines[i]
  BY <1>2, <1>4, <1>7 DEF Ring!Wipe, Ring!Fill, Ring!Stamp
<1>10. \/ \E at \in {"wiped", "filled"} :
            /\ writes' = (writes \ {w}) \cup {Ring!Write(w.n, at)}
            /\ lines'[p] = Ring!Line(0, IF at = "wiped" THEN 0 ELSE w.n)
       \/ writes' = writes \ {w} /\ lines'[p] = LineOf(w.n)
  <2>1. CASE Ring!Wipe(w)
    BY <1>4, <1>7, <2>1 DEF Ring!Wipe, Ring!Advance
  <2>2. CASE Ring!Fill(w)
    <3>1. lines[p] = Ring!Line(0, 0) /\ writes' = (writes \ {w}) \cup {Ring!Write(w.n, "filled")}
      BY <1>8, <2>2 DEF Ring!Fill, Ring!Advance
    <3>2. PICK v \in writes : Ring!Slot(v) = Ring!Slot(w) /\ lines' = [lines EXCEPT ![Ring!Slot(w)].text = v.n]
      BY <2>2 DEF Ring!Fill
    <3>3. Place(v.n) = p
      BY <1>4, <3>2 DEF Place, Ring!Slot
    <3>4. v.n = w.n
      BY <1>3, <1>5, <3>2, <3>3
    <3>5. lines'[p] = [lines[p] EXCEPT !.text = w.n]
      BY <1>4, <1>7, <3>2, <3>4
    <3>6. lines'[p] = Ring!Line(0, w.n)
      BY <3>1, <3>5 DEF Ring!Line
    <3> QED
      BY <3>1, <3>6
  <2>3. CASE Ring!Stamp(w)
    <3>1. lines[p] = Ring!Line(0, w.n) /\ writes' = writes \ {w}
      BY <1>8, <2>3 DEF Ring!Stamp
    <3>2. lines'[p] = [lines[p] EXCEPT !.stamp = w.n]
      BY <1>4, <1>7, <2>3 DEF Ring!Stamp
    <3>3. lines'[p] = Ring!Line(w.n, w.n)
      BY <3>1, <3>2 DEF Ring!Line
    <3>4. w.n > 0
      BY <1>2, WritesAre
    <3> QED
      BY <3>1, <3>3, <3>4 DEF LineOf
  <2> QED
    BY <1>2, <2>1, <2>2, <2>3
<1>11. ASSUME NEW u \in writes \ {w} PROVE lines'[Place(u.n)] = lines[Place(u.n)]
  <2>1. Place(u.n) # p
    BY <1>3, <1>5, <1>6
  <2> QED
    BY <1>3, <1>9, <2>1, PlaceThere
<1>12. ASSUME NEW n \in nextIndex - M + 1..nextIndex, n # w.n PROVE lines'[Place(n)] = lines[Place(n)]
  <2>1. n \in Int /\ Place(n) # p
    BY <1>1, <1>5, <1>12, RingConstants
  <2> QED
    BY <1>9, <2>1, PlaceThere
<1>13. \A u \in writes' : u \in writes \ {w} \/ \E at \in {"wiped", "filled"} :
          u.n = w.n /\ u.at = at /\ lines'[p] = Ring!Line(0, IF at = "wiped" THEN 0 ELSE w.n)
  BY <1>10 DEF Ring!Write
<1>14. \A u \in writes' : u.n > nextIndex - M
  BY <1>2, <1>13 DEF LinesWhole
<1>15. \A u \in writes' :
         lines'[Place(u.n)] = IF u.at = "added" THEN LineOf(u.n - M) ELSE Ring!Line(0, IF u.at = "wiped" THEN 0 ELSE u.n)
  BY <1>11, <1>13 DEF LinesWhole, p
<1>16. ASSUME NEW n \in nextIndex - M + 1..nextIndex, \A u \in writes' : u.n # n
       PROVE  lines'[Place(n)] = LineOf(n)
  <2>1. CASE n = w.n
    <3>1. writes' = writes \ {w} /\ lines'[p] = LineOf(w.n)
      <4>1. ASSUME NEW at, writes' = (writes \ {w}) \cup {Ring!Write(w.n, at)} PROVE FALSE
        <5>1. Ring!Write(w.n, at) \in writes' /\ Ring!Write(w.n, at).n = w.n
          BY <4>1 DEF Ring!Write
        <5> QED
          BY <1>16, <2>1, <5>1
      <4> QED
        BY <1>10, <4>1
    <3> QED
      BY <2>1, <3>1 DEF p
  <2>2. CASE n # w.n
    <3>1. \A u \in writes : u.n # n
      BY <1>10, <1>16, <2>2
    <3> QED
      BY <1>12, <2>2, <3>1 DEF LinesWhole
  <2> QED
    BY <2>1, <2>2
<1> QED
  BY <1>1, <1>14, <1>15, <1>16 DEF LinesWhole

LEMMA CopyIs ==
  ASSUME RingInv
  PROVE  /\ copy.reader \in {"none", "page", "save"} /\ copy.next \in Nat
         /\ copy.lines \in Seq(LineUpTo(MaxLines)) /\ Len(copy.lines) \in Nat
<1>1. copy \in Copies
  BY DEF RingInv
<1> QED
  BY <1>1, LenProperties DEF Copies

LEMMA OrderInit == Ring!Init => OrderInv
<1> SUFFICES ASSUME Ring!Init PROVE OrderInv
  OBVIOUS
<1>1. /\ nextIndex \in 0..M + 1 /\ cursor = M /\ shown = <<>> /\ saved = <<>>
      /\ copy.reader = "none" /\ copy.next = 0
  BY DEF Ring!Init, Ring!All, Ring!Nothing
<1>2. copy.next <= nextIndex
  BY <1>1
<1>3. IsRunOfLines(saved)
  <2>1. saved = Run(0, 0)
    BY <1>1, EmptyRun
  <2> QED
    BY <2>1 DEF IsRunOfLines
<1> QED
  BY <1>1, <1>2, <1>3, LinesInit DEF OrderInv, FileInv, PageInv, PageEmpty

LEMMA OrderBegin == ASSUME RingInv, OrderInv, Ring!Begin PROVE OrderInv'
<1>1. /\ nextIndex \in Nat /\ nextIndex' = nextIndex + 1 /\ copy.next \in Nat
      /\ UNCHANGED <<copy, cursor, shown, saved>>
  BY WritesAre, CopyIs DEF Ring!Begin, Ring!AddIndex
<1>2. ~clashed' => ~clashed
  BY Zenon DEF Ring!Begin
<1>3. ~saveLoses' => ~saveLoses /\ copy.reader # "save"
  BY Zenon DEF Ring!Begin
<1>4. ~pageLoses' => /\ ~pageLoses /\ ~(copy.reader = "page" /\ cursor = M)
                     /\ cursor # M => ~(nextIndex' >= Ring!LastShown + M)
  BY Zenon DEF Ring!Begin, Ring!ReadsAll, Ring!All
<1>5. copy'.next <= nextIndex'
  BY <1>1 DEF OrderInv
<1>6. ~clashed' => LinesWhole'
  BY <1>2, LinesBegin DEF OrderInv
<1>7. ~clashed' /\ ~saveLoses' => FileInv'
  BY <1>1, <1>2, <1>3 DEF OrderInv, FileInv, IsRunOfLines
<1>8. ASSUME ~clashed', ~pageLoses' PROVE PageInv'
  <2>1. PageInv
    BY <1>2, <1>4, <1>8 DEF OrderInv
  <2>2. CASE PageEmpty
    BY <1>1, <1>4, <1>8, <2>2 DEF PageEmpty, PageInv
  <2>3. ASSUME NEW lo \in Nat, NEW hi \in Nat, PageUpTo(lo, hi) PROVE PageInv'
    <3>1. lo < hi /\ hi <= nextIndex /\ shown = Run(lo, hi) /\ cursor = hi % M
      BY <2>3 DEF PageUpTo
    <3>2. cursor # M
      BY <3>1, RingConstants
    <3>3. Ring!LastShown = hi
      <4>1. lo <= hi
        BY <3>1
      <4>2. Ring!Last(shown) = hi /\ shown # <<>>
        BY <3>1, <4>1, RunFacts
      <4> QED
        BY <4>2 DEF Ring!LastShown
    <3>4. hi <= nextIndex' /\ nextIndex' < hi + M
      <4>1. ~(nextIndex' >= hi + M)
        BY <1>4, <1>8, <3>2, <3>3
      <4> QED
        BY <1>1, <3>1, <4>1, RingConstants
    <3>5. copy.reader = "page" => hi <= copy.next /\ CopyHas(hi)
      BY <2>3 DEF PageUpTo
    <3>6. PageUpTo(lo, hi)'
      BY <1>1, <3>1, <3>4, <3>5 DEF PageUpTo, CopyHas
    <3> QED
      BY <3>6 DEF PageInv
  <2> QED
    BY <2>1, <2>2, <2>3 DEF PageInv
<1> QED
  BY <1>5, <1>6, <1>7, <1>8 DEF OrderInv

LEMMA OrderWriteStep == ASSUME RingInv, OrderInv, Ring!WriteStep PROVE OrderInv'
<1>1. /\ UNCHANGED <<nextIndex, clashed, copy, cursor, shown, pageLoses, saved, saveLoses>>
      /\ writes # {}
  BY DEF Ring!WriteStep, Ring!page, Ring!file
<1>2. ~Quiet
  BY <1>1 DEF Quiet
<1>3. ~clashed' => LinesWhole'
  BY <1>1, LinesWriteStep DEF OrderInv
<1>4. ~clashed' /\ ~saveLoses' => FileInv'
  BY <1>1, <1>2 DEF OrderInv, FileInv, IsRunOfLines
<1>5. ASSUME ~clashed', ~pageLoses' PROVE PageInv'
  <2>1. PageInv
    BY <1>1, <1>5 DEF OrderInv
  <2>2. CASE PageEmpty
    BY <1>1, <1>2, <2>2 DEF PageEmpty, PageInv
  <2>3. ASSUME NEW lo \in Nat, NEW hi \in Nat, PageUpTo(lo, hi) PROVE PageInv'
    <3>1. PageUpTo(lo, hi)'
      BY <1>1, <2>3 DEF PageUpTo, CopyHas
    <3> QED
      BY <3>1 DEF PageInv
  <2> QED
    BY <2>1, <2>2, <2>3 DEF PageInv
<1> QED
  BY <1>1, <1>3, <1>4, <1>5 DEF OrderInv

LEMMA LinesStay == ASSUME LinesWhole, UNCHANGED <<nextIndex, lines, writes>> PROVE LinesWhole'
BY DEF LinesWhole

LEMMA OrderBeginCopy ==
  ASSUME RingInv, OrderInv, Ring!BeginFollow \/ Ring!BeginSave
  PROVE  OrderInv'
<1>1. /\ UNCHANGED <<nextIndex, lines, writes, clashed, cursor, shown>>
      /\ copy'.next = nextIndex /\ copy'.lines = <<>> /\ nextIndex \in Nat
  BY WritesAre DEF Ring!BeginFollow, Ring!BeginSave, Ring!BeginCopy, Ring!ring, Ring!page
<1>2. copy'.next <= nextIndex'
  BY <1>1
<1>3. ~clashed' => LinesWhole'
  BY <1>1, LinesStay DEF OrderInv
<1>4. writes = {} => Quiet'
  BY <1>1 DEF Quiet
<1>5. ASSUME ~clashed', ~saveLoses' PROVE FileInv'
  <2>1. CASE Ring!BeginFollow
    <3>1. UNCHANGED <<saved, saveLoses>> /\ copy'.reader = "page"
      BY <2>1 DEF Ring!BeginFollow, Ring!BeginCopy, Ring!file
    <3> QED
      BY <1>1, <1>5, <3>1 DEF OrderInv, FileInv, IsRunOfLines
  <2>2. CASE Ring!BeginSave
    <3>1. saved' = <<>> /\ writes = {}
      BY <1>5, <2>2 DEF Ring!BeginSave
    <3>2. saved' = Run(0, 0)
      BY <3>1, EmptyRun
    <3>3. IsRunOfLines(saved)'
      BY <3>2 DEF IsRunOfLines
    <3> QED
      BY <1>4, <3>1, <3>3 DEF FileInv
  <2> QED
    BY <2>1, <2>2
<1>6. ASSUME ~clashed', ~pageLoses' PROVE PageInv'
  <2>1. ~pageLoses /\ (copy'.reader = "page" /\ cursor = M => writes = {})
    <3>1. CASE Ring!BeginFollow
      BY <1>6, <3>1, Zenon DEF Ring!BeginFollow, Ring!All
    <3>2. CASE Ring!BeginSave
      <4>1. copy'.reader = "save" /\ pageLoses' = pageLoses
        BY <3>2 DEF Ring!BeginSave, Ring!BeginCopy, Ring!page
      <4> QED
        BY <1>6, <4>1
    <3> QED
      BY <3>1, <3>2
  <2>2. PageInv
    BY <1>1, <1>6, <2>1 DEF OrderInv
  <2>3. CASE PageEmpty
    BY <1>1, <1>4, <2>1, <2>3 DEF PageEmpty, PageInv
  <2>4. ASSUME NEW lo \in Nat, NEW hi \in Nat, PageUpTo(lo, hi) PROVE PageInv'
    <3>1. hi <= copy'.next
      BY <1>1, <2>4 DEF PageUpTo
    <3>2. ASSUME NEW n \in hi + 1..nextIndex PROVE ~(Place(n) < 0)
      BY <1>1, PlaceThere, RingConstants
    <3>3. CopyHas(hi)'
      BY <1>1, <3>2 DEF CopyHas
    <3>4. PageUpTo(lo, hi)'
      BY <1>1, <2>4, <3>1, <3>3 DEF PageUpTo
    <3> QED
      BY <3>4 DEF PageInv
  <2> QED
    BY <2>2, <2>3, <2>4 DEF PageInv
<1> QED
  BY <1>2, <1>3, <1>5, <1>6 DEF OrderInv

LEMMA OrderCopyLine == ASSUME RingInv, OrderInv, Ring!CopyLine PROVE OrderInv'
<1> DEFINE i == Len(copy.lines)
           l == lines[i]
           old == \E w \in writes : Ring!Slot(w) = i /\ w.at = "added" /\ lines[i].stamp # 0
<1>1. /\ UNCHANGED <<nextIndex, lines, writes, clashed, cursor, shown, saved, saveLoses>>
      /\ i < M /\ copy' = [copy EXCEPT !.lines = Append(copy.lines, l)]
      /\ pageLoses' = (pageLoses \/ (copy.reader = "page" /\ old))
  BY DEF Ring!CopyLine, Ring!ring, Ring!file
<1>2. copy \in Copies /\ copy.next \in Nat /\ copy.lines \in Seq(LineUpTo(MaxLines)) /\ i \in 0..M - 1
  BY <1>1, CopyIs, RingConstants DEF RingInv
<1>3. copy'.reader = copy.reader /\ copy'.next = copy.next /\ copy'.lines = Append(copy.lines, l)
  BY <1>1, <1>2 DEF Copies
<1>4. /\ Len(copy'.lines) = i + 1
      /\ \A k \in 1..i : copy'.lines[k] = copy.lines[k]
      /\ copy'.lines[i + 1] = l
  <2>1. l \in LineUpTo(MaxLines)
    BY <1>2, RingConstants DEF RingInv, LineUpTo
  <2> HIDE DEF l
  <2> QED
    BY <1>2, <1>3, <2>1, AppendProperties
<1>5. copy'.next <= nextIndex'
  BY <1>1, <1>3 DEF OrderInv
<1>6. ~clashed' => LinesWhole'
  BY <1>1, LinesStay DEF OrderInv
<1>7. Quiet => Quiet'
  <2> SUFFICES ASSUME Quiet PROVE Quiet'
    OBVIOUS
  <2>1. \A k \in 1..i + 1 : copy'.lines[k] = lines[k - 1]
    <3>1. \A k \in 1..i : copy'.lines[k] = lines[k - 1]
      BY <1>4 DEF Quiet
    <3>2. copy'.lines[i + 1] = lines[(i + 1) - 1]
      BY <1>2, <1>4
    <3> QED
      BY <1>2, <3>1, <3>2
  <2> QED
    BY <1>1, <1>3, <1>4, <2>1 DEF Quiet
<1>8. ~clashed' /\ ~saveLoses' => FileInv'
  BY <1>1, <1>3, <1>7 DEF OrderInv, FileInv, IsRunOfLines
<1>9. ASSUME ~clashed', ~pageLoses' PROVE PageInv'
  <2>1. ~pageLoses /\ ~clashed /\ (copy.reader = "page" => ~old)
    BY <1>1, <1>9, Zenon
  <2>2. PageInv /\ LinesWhole
    BY <2>1 DEF OrderInv
  <2>3. CASE PageEmpty
    BY <1>1, <1>3, <1>7, <2>3 DEF PageEmpty, PageInv
  <2>4. ASSUME NEW lo \in Nat, NEW hi \in Nat, PageUpTo(lo, hi) PROVE PageInv'
    <3>1. ASSUME copy.reader = "page" PROVE CopyHas(hi)'
      <4>1. /\ hi <= copy.next /\ CopyHas(hi) /\ nextIndex < hi + M /\ copy.next <= nextIndex
            /\ nextIndex \in Nat /\ ~old
        BY <2>1, <2>4, <3>1, WritesAre DEF PageUpTo, OrderInv
      <4>2. ASSUME NEW n \in hi + 1..copy.next, Place(n) < i + 1
            PROVE  copy'.lines[Place(n) + 1].stamp = 0 \/ copy'.lines[Place(n) + 1] = Ring!Line(n, n)
        <5>1. n \in Int /\ n > 0 /\ n \in nextIndex - M + 1..nextIndex /\ Place(n) \in 0..M - 1
          <6>1. n \in Int /\ n > 0 /\ n \in nextIndex - M + 1..nextIndex
            BY <1>2, <4>1, <4>2, RingConstants
          <6> QED
            BY <6>1, PlaceThere
        <5>2. CASE Place(n) < i
          <6>1. copy.lines[Place(n) + 1].stamp = 0 \/ copy.lines[Place(n) + 1] = Ring!Line(n, n)
            BY <4>1, <4>2, <5>2 DEF CopyHas
          <6>2. Place(n) + 1 \in 1..i
            BY <1>2, <5>1, <5>2
          <6> QED
            BY <1>4, <6>1, <6>2
        <5>3. CASE Place(n) = i
          <6>1. copy'.lines[Place(n) + 1] = lines[Place(n)]
            BY <1>4, <5>3
          <6>2. CASE \A w \in writes : w.n # n
            <7>1. lines[Place(n)] = LineOf(n)
              BY <2>2, <5>1, <6>2 DEF LinesWhole
            <7> QED
              BY <5>1, <6>1, <7>1 DEF LineOf
          <6>3. ASSUME NEW w \in writes, w.n = n PROVE lines[Place(n)].stamp = 0
            <7>1. lines[Place(n)] = IF w.at = "added" THEN LineOf(w.n - M) ELSE Ring!Line(0, IF w.at = "wiped" THEN 0 ELSE w.n)
              BY <2>2, <6>3 DEF LinesWhole
            <7>2. CASE w.at = "added"
              <8>1. Ring!Slot(w) = i
                BY <5>3, <6>3 DEF Ring!Slot, Place
              <8> QED
                BY <4>1, <5>3, <7>2, <8>1
            <7>3. CASE w.at # "added"
              BY <7>1, <7>3 DEF Ring!Line
            <7> QED
              BY <7>2, <7>3
          <6> QED
            BY <6>1, <6>2, <6>3
        <5>4. Place(n) < i \/ Place(n) = i
          BY <1>2, <4>2, <5>1
        <5> QED
          BY <5>2, <5>3, <5>4
      <4> QED
        BY <1>3, <1>4, <4>2 DEF CopyHas
    <3>2. PageUpTo(lo, hi)'
      BY <1>1, <1>3, <2>4, <3>1 DEF PageUpTo
    <3> QED
      BY <3>2 DEF PageInv
  <2> QED
    BY <2>2, <2>3, <2>4 DEF PageInv
<1> QED
  BY <1>5, <1>6, <1>8, <1>9 DEF OrderInv

\* The last line that k rounds of a loop over a whole copy have come to.
Top(k) == IF copy.next + k > M THEN copy.next + k - M ELSE 0

\* A round of such a loop comes to the next line, or passes over a place that has none.
LEMMA TopStep ==
  ASSUME RingInv, LinesWhole, Quiet, Len(copy.lines) = M, NEW k \in 1..M
  PROVE  /\ Top(0) \in Nat /\ Top(k - 1) \in Nat /\ Top(k) \in Nat /\ Top(0) <= Top(k - 1)
         /\ \/ /\ Ring!At(copy.next + k - 1).stamp = 0
               /\ Top(k) = Top(k - 1)
            \/ /\ Ring!At(copy.next + k - 1).stamp # 0 /\ copy.next + k > M
               /\ Run(Top(0), Top(k - 1)) \o Ring!Text(Ring!At(copy.next + k - 1)) = Run(Top(0), Top(k))
<1> DEFINE n == copy.next + k - M
           l == Ring!At(copy.next + k - 1)
<1>1. copy.next = nextIndex /\ writes = {} /\ nextIndex \in Nat /\ copy.next \in Nat
  BY WritesAre DEF Quiet
<1>2. n \in Int /\ n \in nextIndex - M + 1..nextIndex
  BY <1>1, RingConstants
<1>3. (copy.next + k - 1) % M = Place(n) /\ Place(n) \in 0..M - 1
  <2>1. n - 1 \in Int /\ (n - 1) + M = copy.next + k - 1
    BY <1>1, <1>2, RingConstants
  <2> QED
    BY <1>2, <2>1, OneTurn, PlaceThere DEF Place
<1>4. lines[Place(n)] = LineOf(n)
  BY <1>1, <1>2 DEF LinesWhole
<1>5. copy.lines[Place(n) + 1] = lines[Place(n)]
  <2>1. Place(n) + 1 \in 1..M /\ (Place(n) + 1) - 1 = Place(n)
    BY <1>3, RingConstants
  <2> QED
    BY <2>1 DEF Quiet
<1>6. l = LineOf(n)
  BY <1>3, <1>4, <1>5 DEF Ring!At
<1>7. Top(0) \in Nat /\ Top(k - 1) \in Nat /\ Top(k) \in Nat /\ Top(0) <= Top(k - 1)
  BY <1>1, RingConstants DEF Top
<1>8. CASE n > 0
  <2>1. l = Ring!Line(n, n)
    BY <1>6, <1>8 DEF LineOf
  <2>2. l.stamp # 0 /\ Ring!Text(l) = <<n>>
    BY <1>8, <2>1 DEF Ring!Line, Ring!Text
  <2>3. Top(k) = Top(k - 1) + 1 /\ Top(k) = n /\ copy.next + k > M
    BY <1>1, <1>8, RingConstants DEF Top
  <2>4. Run(Top(0), Top(k - 1)) \o <<Top(k - 1) + 1>> = Run(Top(0), Top(k - 1) + 1)
    BY <1>7, RunFacts
  <2> HIDE DEF l, n
  <2> QED
    BY <1>7, <2>2, <2>3, <2>4 DEF l
<1>9. CASE ~(n > 0)
  <2>1. l.stamp = 0
    BY <1>6, <1>9 DEF LineOf, Ring!Line
  <2>2. Top(k) = Top(k - 1)
    BY <1>1, <1>9, RingConstants DEF Top
  <2> QED
    BY <1>7, <2>1, <2>2
<1> QED
  BY <1>8, <1>9

\* The loop of WriteTo, as one equation.
IsWritten(g) ==
  g = [k \in 0..M |->
        IF k = 0 THEN <<>>
        ELSE LET l == Ring!At(Ring!Oldest + k - 1)
             IN  IF l.stamp = 0 THEN g[k - 1] ELSE g[k - 1] \o Ring!Text(l)]

\* A whole copy of a ring that nobody writes has the last lines, in order.
LEMMA WrittenInOrder ==
  ASSUME RingInv, LinesWhole, Quiet, Len(copy.lines) = M
  PROVE  (CHOOSE g : IsWritten(g))[M] = Run(Top(0), Top(M))
<1> DEFINE Body(g, k) == IF k = 0 THEN <<>>
                         ELSE LET l == Ring!At(copy.next + k - 1)
                              IN  IF l.stamp = 0 THEN g[k - 1] ELSE g[k - 1] \o Ring!Text(l)
           whole == [k \in 0..M |-> Run(Top(0), Top(k))]
<1>1. Run(Top(0), Top(0)) = <<>>
  <2>1. Top(0) \in Nat
    BY CopyIs, RingConstants DEF Top
  <2> QED
    BY <2>1, EmptyRun
<1>2. ASSUME NEW g, NEW k \in 1..M, g[k - 1] = Run(Top(0), Top(k - 1))
      PROVE  Body(g, k) = Run(Top(0), Top(k))
  <2>1. k # 0
    OBVIOUS
  <2>2. Body(g, k) = IF Ring!At(copy.next + k - 1).stamp = 0 THEN Run(Top(0), Top(k - 1))
                     ELSE Run(Top(0), Top(k - 1)) \o Ring!Text(Ring!At(copy.next + k - 1))
    BY <1>2, <2>1
  <2> HIDE DEF Body
  <2> QED
    BY <2>2, TopStep
<1>3. \A g : IsWritten(g) <=> g = [k \in 0..M |-> Body(g, k)]
  BY DEF IsWritten, Ring!Oldest
<1>4. \E g : IsWritten(g)
  <2>1. ASSUME NEW k \in 0..M PROVE whole[k] = Body(whole, k)
    <3>1. CASE k = 0
      BY <1>1, <3>1, RingConstants
    <3>2. CASE k # 0
      <4>1. k \in 1..M /\ k - 1 \in 0..M
        BY <3>2, RingConstants
      <4>2. whole[k - 1] = Run(Top(0), Top(k - 1)) /\ whole[k] = Run(Top(0), Top(k))
        BY <4>1
      <4> HIDE DEF whole, Body
      <4> QED
        BY <1>2, <4>1, <4>2
    <3> QED
      BY <3>1, <3>2
  <2>2. whole = [k \in 0..M |-> whole[k]]
    OBVIOUS
  <2> HIDE DEF whole, Body
  <2>3. whole = [k \in 0..M |-> Body(whole, k)]
    BY <2>1, <2>2
  <2> QED
    BY <1>3, <2>3
<1>5. PICK g : g = CHOOSE h : IsWritten(h)
  OBVIOUS
<1>6. g = [k \in 0..M |-> Body(g, k)]
  <2> HIDE DEF Body
  <2> QED
    BY <1>3, <1>4, <1>5
<1> DEFINE T == {k \in 0..M : g[k] # Run(Top(0), Top(k))}
<1>7. ASSUME T # {} PROVE FALSE
  <2>1. PICK k \in T : \A m \in T : k <= m
    <3>1. T \in SUBSET Nat
      BY RingConstants
    <3> HIDE DEF T
    <3> QED
      BY <1>7, <3>1, LeastOf
  <2>2. k \in 0..M /\ g[k] = Body(g, k) /\ g[k] # Run(Top(0), Top(k))
    <3> HIDE DEF Body
    <3> QED
      BY <1>6, <2>1
  <2>3. k # 0
    BY <1>1, <2>2
  <2>4. k \in 1..M /\ k - 1 \in 0..M /\ ~(k <= k - 1)
    BY <2>2, <2>3, RingConstants
  <2>5. g[k - 1] = Run(Top(0), Top(k - 1))
    BY <2>1, <2>4
  <2> HIDE DEF Body, T
  <2> QED
    BY <1>2, <2>2, <2>4, <2>5
<1>8. g[M] = Run(Top(0), Top(M))
  BY <1>7, RingConstants
<1> QED
  BY <1>5, <1>8

LEMMA OrderSave == ASSUME RingInv, OrderInv, Ring!Save PROVE OrderInv'
<1>1. /\ copy.reader = "save" /\ Len(copy.lines) = M
      /\ saved' = (CHOOSE g : IsWritten(g))[M] /\ copy' = Ring!Nothing
      /\ UNCHANGED <<nextIndex, lines, writes, clashed, cursor, shown, pageLoses, saveLoses>>
  BY DEF Ring!Save, Ring!Copied, IsWritten, Ring!ring, Ring!page
<1>2. copy'.reader = "none" /\ copy'.next = 0 /\ nextIndex \in Nat
  BY <1>1, WritesAre DEF Ring!Nothing
<1>3. copy'.next <= nextIndex'
  BY <1>1, <1>2
<1>4. ~clashed' => LinesWhole'
  BY <1>1, LinesStay DEF OrderInv
<1>5. ASSUME ~clashed', ~saveLoses' PROVE FileInv'
  <2>1. LinesWhole /\ Quiet
    BY <1>1, <1>5 DEF OrderInv, FileInv
  <2>2. saved' = Run(Top(0), Top(M))
    BY <1>1, <2>1, WrittenInOrder
  <2>3. Top(0) \in Nat /\ Top(M) \in Nat /\ Top(0) <= Top(M)
    BY CopyIs, RingConstants DEF Top
  <2>4. IsRunOfLines(saved)'
    <3>1. \E lo \in Nat, hi \in Nat : lo <= hi /\ saved' = [j \in 1..hi - lo |-> lo + j]
      BY <2>2, <2>3 DEF Run
    <3> QED
      BY <3>1 DEF IsRunOfLines, Run
  <2> QED
    BY <1>2, <2>4 DEF FileInv
<1>6. ASSUME ~clashed', ~pageLoses' PROVE PageInv'
  <2>1. PageInv
    BY <1>1, <1>6 DEF OrderInv
  <2>2. CASE PageEmpty
    BY <1>1, <1>2, <2>2 DEF PageEmpty, PageInv
  <2>3. ASSUME NEW lo \in Nat, NEW hi \in Nat, PageUpTo(lo, hi) PROVE PageInv'
    <3>1. PageUpTo(lo, hi)'
      BY <1>1, <1>2, <2>3 DEF PageUpTo
    <3> QED
      BY <3>1 DEF PageInv
  <2> QED
    BY <2>1, <2>2, <2>3 DEF PageInv
<1> QED
  BY <1>3, <1>4, <1>5, <1>6 DEF OrderInv

-----------------------------------------------------------------------------
(* The loop of FollowFromCursor.                                           *)

Follower(i, ls, c, going) == [i |-> i, lines |-> ls, cursor |-> c, going |-> going]

\* A page that reads all there is: after k rounds it has the lines up to Top(k).
AllUpTo(k) ==
  Follower(copy.next + k, Run(Top(0), Top(k)), IF k = 0 \/ Top(k) = 0 THEN M ELSE (copy.next + k) % M, TRUE)

LEMMA AllFollowed ==
  ASSUME RingInv, LinesWhole, Quiet, Len(copy.lines) = M, cursor = M, NEW k \in 1..M
  PROVE  Ring!FollowLine(AllUpTo(k - 1)) = AllUpTo(k)
<1>1. PICK f : f = AllUpTo(k - 1)
  OBVIOUS
<1>2. copy.next \in Nat /\ copy.next + (k - 1) = copy.next + k - 1 /\ (copy.next + (k - 1)) + 1 = copy.next + k
  BY CopyIs
<1>3. /\ f.going = TRUE /\ f.i = copy.next + k - 1 /\ f.lines = Run(Top(0), Top(k - 1))
      /\ k # 0
  BY <1>1, <1>2 DEF AllUpTo, Follower
<1>4. cursor = Ring!All
  BY DEF Ring!All
<1>5. CASE Ring!At(copy.next + k - 1).stamp = 0
  <2>1. Top(k) = Top(k - 1)
    BY <1>5, TopStep
  <2>2. Top(k - 1) = 0
    <3>1. ~(copy.next + k > M)
      BY <1>2, <2>1, RingConstants DEF Top
    <3> QED
      BY <2>1, <3>1 DEF Top
  <2>3. Ring!FollowLine(f) = [f EXCEPT !.i = copy.next + k]
    BY <1>2, <1>3, <1>4, <1>5 DEF Ring!FollowLine
  <2>4. PICK i, ls, c, going, n :
          i = copy.next + (k - 1) /\ ls = Run(Top(0), Top(k - 1)) /\ c = M /\ going = TRUE /\ n = copy.next + k
    OBVIOUS
  <2>5. f = Follower(i, ls, c, going) /\ Ring!FollowLine(f) = [f EXCEPT !.i = n]
    BY <1>1, <2>2, <2>3, <2>4 DEF AllUpTo
  <2>6. Ring!FollowLine(f) = Follower(n, ls, c, going)
    BY <2>5 DEF Follower
  <2>7. AllUpTo(k) = Follower(copy.next + k, Run(Top(0), Top(k)), M, TRUE)
    BY <2>1, <2>2 DEF AllUpTo
  <2> QED
    BY <1>1, <2>1, <2>4, <2>7, <2>6
<1>6. CASE Ring!At(copy.next + k - 1).stamp # 0
  <2>1. /\ Run(Top(0), Top(k - 1)) \o Ring!Text(Ring!At(copy.next + k - 1)) = Run(Top(0), Top(k))
        /\ copy.next + k > M
    BY <1>6, TopStep
  <2>2. Top(k) # 0
    BY <1>2, <2>1, RingConstants DEF Top
  <2>3. PICK i, ls, c, going :
          /\ i = copy.next + (k - 1) /\ ls = Run(Top(0), Top(k - 1)) /\ going = TRUE
          /\ c = IF k - 1 = 0 \/ Top(k - 1) = 0 THEN M ELSE (copy.next + (k - 1)) % M
    OBVIOUS
  <2>4. PICK n, t, d :
          /\ n = copy.next + k /\ d = (copy.next + k) % M
          /\ t = Run(Top(0), Top(k - 1)) \o Ring!Text(Ring!At(copy.next + k - 1))
    OBVIOUS
  <2>5. f = Follower(i, ls, c, going)
    BY <1>1, <2>3 DEF AllUpTo
  <2>6. Ring!FollowLine(f) = [f EXCEPT !.lines = t, !.i = n, !.cursor = d]
    BY <1>2, <1>3, <1>4, <1>6, <2>4 DEF Ring!FollowLine
  <2>7. Ring!FollowLine(f) = Follower(n, t, d, going)
    BY <2>5, <2>6 DEF Follower
  <2>8. AllUpTo(k) = Follower(copy.next + k, Run(Top(0), Top(k)), (copy.next + k) % M, TRUE)
    BY <1>3, <2>2 DEF AllUpTo
  <2> QED
    BY <1>1, <2>1, <2>3, <2>4, <2>7, <2>8
<1> QED
  BY <1>5, <1>6

\* A page that goes on from its last line, hi: it has the next lines up to some one.
GoesOn(f, hi) ==
  \E j \in Nat : \E going :
    hi + j <= copy.next /\ f = Follower(cursor + j, Run(hi, hi + j), (hi + j) % M, going)

LEMMA NextFollowed ==
  ASSUME RingInv, NEW hi \in Nat, cursor = hi % M, CopyHas(hi), Len(copy.lines) = M,
         NEW f, GoesOn(f, hi)
  PROVE  GoesOn(Ring!FollowLine(f), hi)
<1>1. PICK j \in Nat : \E going :
        hi + j <= copy.next /\ f = Follower(cursor + j, Run(hi, hi + j), (hi + j) % M, going)
  BY DEF GoesOn
<1>2. PICK going : hi + j <= copy.next /\ f = Follower(cursor + j, Run(hi, hi + j), (hi + j) % M, going)
  BY <1>1
<1>3. copy.next \in Nat /\ cursor \in Nat /\ cursor \in 0..M - 1 /\ hi + j \in Nat
  BY CopyIs, RingConstants
<1>4. (cursor + j) % M = (hi + j) % M /\ (cursor + j + 1) % M = (hi + (j + 1)) % M
  <2>1. cursor + (j + 1) = cursor + j + 1 /\ j + 1 \in Int /\ hi \in Int /\ j \in Int
    BY <1>3
  <2>2. ((hi % M) + j) % M = (hi + j) % M /\ ((hi % M) + (j + 1)) % M = (hi + (j + 1)) % M
    BY <2>1, GoOn
  <2> QED
    BY <2>1, <2>2
<1>5. /\ f.i = cursor + j /\ f.lines = Run(hi, hi + j) /\ f.cursor = (hi + j) % M /\ f.going = going
  BY <1>2 DEF Follower
<1>6. CASE Ring!FollowLine(f) = [f EXCEPT !.going = FALSE]
  <2>1. Ring!FollowLine(f) = Follower(cursor + j, Run(hi, hi + j), (hi + j) % M, FALSE)
    BY <1>2, <1>6 DEF Follower
  <2> QED
    BY <1>2, <2>1 DEF GoesOn
<1>7. CASE Ring!FollowLine(f) # [f EXCEPT !.going = FALSE]
  <2>1. cursor # Ring!All
    BY <1>3, RingConstants DEF Ring!All
  <2>2. /\ f.i % M # copy.next % M /\ Ring!At(f.i).stamp # 0
        /\ Ring!FollowLine(f) = [f EXCEPT !.lines = @ \o Ring!Text(Ring!At(f.i)), !.i = @ + 1, !.cursor = (f.i + 1) % M]
    BY <1>7, <2>1 DEF Ring!FollowLine
  <2>3. hi + (j + 1) \in hi + 1..copy.next /\ hi + (j + 1) - 1 = hi + j
    <3>1. hi + j # copy.next
      BY <1>4, <1>5, <2>2
    <3> QED
      BY <1>2, <1>3, <3>1
  <2>4. Place(hi + (j + 1)) = f.i % M /\ Place(hi + (j + 1)) < Len(copy.lines)
    <3>1. Place(hi + (j + 1)) = f.i % M
      BY <1>4, <1>5, <2>3 DEF Place
    <3>2. hi + (j + 1) \in Int
      OBVIOUS
    <3> QED
      BY <3>1, <3>2, PlaceThere, RingConstants
  <2>5. Ring!At(f.i) = Ring!Line(hi + (j + 1), hi + (j + 1))
    BY <2>2, <2>3, <2>4 DEF CopyHas, Ring!At
  <2>6. Ring!Text(Ring!At(f.i)) = <<hi + (j + 1)>>
    BY <2>5 DEF Ring!Text, Ring!Line
  <2>7. Run(hi, hi + j) \o <<hi + (j + 1)>> = Run(hi, hi + (j + 1))
    <3>1. hi <= hi + j /\ (hi + j) + 1 = hi + (j + 1)
      OBVIOUS
    <3>2. Run(hi, hi + j) \o <<(hi + j) + 1>> = Run(hi, (hi + j) + 1)
      BY <1>3, <3>1, RunFacts
    <3> QED
      BY <3>1, <3>2
  <2>8. Ring!FollowLine(f) = Follower(cursor + (j + 1), Run(hi, hi + (j + 1)), (hi + (j + 1)) % M, going)
    <3>1. (cursor + j) + 1 = cursor + (j + 1)
      BY <1>3
    <3>2. (f.i + 1) % M = (hi + (j + 1)) % M /\ f.i + 1 = cursor + (j + 1)
      BY <1>4, <1>5, <3>1
    <3>3. f.lines \o Ring!Text(Ring!At(f.i)) = Run(hi, hi + (j + 1))
      BY <1>5, <2>6, <2>7
    <3>4. PICK ls, c, i : ls = f.lines \o Ring!Text(Ring!At(f.i)) /\ c = (f.i + 1) % M /\ i = f.i + 1
      OBVIOUS
    <3>5. Ring!FollowLine(f) = [f EXCEPT !.lines = ls, !.i = i, !.cursor = c]
      BY <2>2, <3>4
    <3>6. Ring!FollowLine(f) = Follower(i, ls, c, going)
      BY <1>2, <3>5 DEF Follower
    <3> QED
      BY <3>2, <3>3, <3>4, <3>6
  <2>9. hi + (j + 1) <= copy.next /\ j + 1 \in Nat
    BY <2>3
  <2> QED
    BY <2>8, <2>9 DEF GoesOn
<1> QED
  BY <1>6, <1>7

LEMMA OrderFollow == ASSUME RingInv, OrderInv, Ring!Follow PROVE OrderInv'
<1> DEFINE start == [i |-> IF cursor = Ring!All THEN copy.next ELSE cursor,
                     lines |-> <<>>, cursor |-> cursor, going |-> TRUE]
           after == CHOOSE g : IsFollow(g, start, M)
<1>1. /\ copy.reader = "page" /\ Len(copy.lines) = M
      /\ shown' = shown \o after[M].lines /\ cursor' = after[M].cursor /\ copy' = Ring!Nothing
      /\ UNCHANGED <<nextIndex, lines, writes, clashed, pageLoses, saved, saveLoses>>
  BY DEF Ring!Follow, Ring!Copied, IsFollow, Ring!ring, Ring!file
<1>2. copy'.reader = "none" /\ copy'.next = 0 /\ nextIndex \in Nat /\ copy.next \in Nat
  BY <1>1, WritesAre, CopyIs DEF Ring!Nothing
<1>3. PICK g : g = after
  OBVIOUS
<1>4. g[0] = start /\ \A k \in 1..M : k - 1 \in 0..M /\ g[k] = Ring!FollowLine(g[k - 1])
  <2> HIDE DEF start
  <2>1. IsFollow(after, start, M)
    BY FollowThere, RingConstants
  <2> HIDE DEF after
  <2>2. g = [k \in 0..M |-> IF k = 0 THEN start ELSE Ring!FollowLine(g[k - 1])]
    BY <1>3, <2>1 DEF IsFollow
  <2>3. 0 \in 0..M /\ \A k \in 1..M : k \in 0..M /\ k # 0 /\ k - 1 \in 0..M
    BY RingConstants
  <2> QED
    BY <2>2, <2>3
<1> HIDE DEF after
<1>5. copy'.next <= nextIndex'
  BY <1>1, <1>2
<1>6. ~clashed' => LinesWhole'
  BY <1>1, LinesStay DEF OrderInv
<1>7. ~clashed' /\ ~saveLoses' => FileInv'
  BY <1>1, <1>2 DEF OrderInv, FileInv, IsRunOfLines
<1>8. ASSUME ~clashed', ~pageLoses' PROVE PageInv'
  <2>1. PageInv /\ LinesWhole
    BY <1>1, <1>8 DEF OrderInv
  <2>2. CASE PageEmpty
    <3>1. cursor = M /\ shown = <<>> /\ Quiet
      BY <1>1, <2>2 DEF PageEmpty
    <3> DEFINE T == {k \in 0..M : g[k] # AllUpTo(k)}
    <3>2. Top(0) \in Nat /\ Top(M) \in Nat /\ Top(0) <= Top(M) /\ Top(M) = nextIndex
      BY <1>2, <3>1, RingConstants DEF Top, Quiet
    <3>3. g[0] = AllUpTo(0)
      <4>1. start = Follower(copy.next, <<>>, M, TRUE)
        BY <3>1 DEF Ring!All, Follower
      <4>2. Run(Top(0), Top(0)) = <<>> /\ copy.next + 0 = copy.next
        BY <1>2, <3>2, EmptyRun
      <4> HIDE DEF start
      <4> QED
        BY <1>4, <4>1, <4>2 DEF AllUpTo
    <3>4. ASSUME T # {} PROVE FALSE
      <4>1. PICK k \in T : \A m \in T : k <= m
        <5>1. T \in SUBSET Nat
          BY RingConstants
        <5> HIDE DEF T
        <5> QED
          BY <3>4, <5>1, LeastOf
      <4>2. k \in 0..M /\ g[k] # AllUpTo(k)
        BY <4>1
      <4>3. k # 0
        BY <3>3, <4>2
      <4>4. k \in 1..M /\ k - 1 \in 0..M /\ ~(k <= k - 1)
        BY <4>2, <4>3, RingConstants
      <4>5. g[k - 1] = AllUpTo(k - 1)
        BY <4>1, <4>4
      <4>6. g[k] = Ring!FollowLine(g[k - 1])
        BY <1>4, <4>4
      <4> HIDE DEF T, start
      <4> QED
        BY <1>1, <2>1, <3>1, <4>2, <4>4, <4>5, <4>6, AllFollowed
    <3>5. g[M] = AllUpTo(M)
      BY <3>4, RingConstants
    <3> HIDE DEF T, start
    <3>6. /\ shown' = <<>> \o Run(Top(0), nextIndex)
          /\ cursor' = IF nextIndex = 0 THEN M ELSE (nextIndex + M) % M
      BY <1>1, <1>3, <3>1, <3>2, <3>5, RingConstants DEF AllUpTo, Follower, Quiet
    <3>7. shown' = Run(Top(0), nextIndex) /\ (nextIndex + M) % M = nextIndex % M
      <4>1. Run(Top(0), nextIndex) \in Seq(Nat)
        BY <1>2, <3>2, RunFacts
      <4> QED
        BY <1>2, <3>6, <4>1, ConcatEmptySeq, OneTurn
    <3>8. CASE nextIndex = 0
      <4>1. Top(0) = 0
        BY <3>2, <3>8
      <4>2. shown' = <<>> /\ cursor' = M
        BY <3>6, <3>7, <3>8, <4>1, EmptyRun
      <4> QED
        BY <1>2, <4>2 DEF PageEmpty, PageInv
    <3>9. CASE nextIndex # 0
      <4>1. PICK lo \in Nat, hi \in Nat : lo = Top(0) /\ hi = nextIndex
        BY <1>2, <3>2
      <4>2. lo < hi /\ nextIndex < hi + M
        BY <1>2, <3>1, <3>9, <4>1, RingConstants DEF Top, Quiet
      <4>3. shown' = Run(lo, hi) /\ cursor' = hi % M
        BY <3>6, <3>7, <3>9, <4>1
      <4>4. PageUpTo(lo, hi)'
        BY <1>1, <1>2, <4>1, <4>2, <4>3 DEF PageUpTo, Run
      <4> QED
        BY <4>4 DEF PageInv
    <3> QED
      BY <3>8, <3>9
  <2>3. ASSUME NEW lo \in Nat, NEW hi \in Nat, PageUpTo(lo, hi) PROVE PageInv'
    <3>1. /\ lo < hi /\ hi <= nextIndex /\ nextIndex < hi + M /\ shown = Run(lo, hi) /\ cursor = hi % M
          /\ hi <= copy.next /\ CopyHas(hi) /\ copy.next <= nextIndex
      BY <1>1, <2>3 DEF PageUpTo, OrderInv
    <3> DEFINE T == {k \in 0..M : ~GoesOn(g[k], hi)}
    <3>2. GoesOn(g[0], hi)
      <4>1. start = Follower(cursor + 0, Run(hi, hi + 0), (hi + 0) % M, TRUE)
        <5>1. cursor + 0 = cursor /\ hi + 0 = hi /\ cursor # Ring!All /\ Run(hi, hi) = <<>>
          BY <3>1, EmptyRun, RingConstants DEF Ring!All
        <5> QED
          BY <3>1, <5>1 DEF Follower
      <4>2. hi + 0 <= copy.next /\ 0 \in Nat
        BY <3>1
      <4> HIDE DEF start
      <4> QED
        BY <1>4, <4>1, <4>2 DEF GoesOn
    <3>3. ASSUME T # {} PROVE FALSE
      <4>1. PICK k \in T : \A m \in T : k <= m
        <5>1. T \in SUBSET Nat
          BY RingConstants
        <5> HIDE DEF T
        <5> QED
          BY <3>3, <5>1, LeastOf
      <4>2. k \in 0..M /\ ~GoesOn(g[k], hi)
        BY <4>1
      <4>3. k # 0
        BY <3>2, <4>2
      <4>4. k \in 1..M /\ k - 1 \in 0..M /\ ~(k <= k - 1)
        BY <4>2, <4>3, RingConstants
      <4>5. GoesOn(g[k - 1], hi)
        BY <4>1, <4>4
      <4>6. g[k] = Ring!FollowLine(g[k - 1])
        BY <1>4, <4>4
      <4> HIDE DEF T, start
      <4> QED
        BY <1>1, <3>1, <4>2, <4>5, <4>6, NextFollowed
    <3>4. GoesOn(g[M], hi)
      BY <3>3, RingConstants
    <3>5. PICK j \in Nat : \E going :
            hi + j <= copy.next /\ g[M] = Follower(cursor + j, Run(hi, hi + j), (hi + j) % M, going)
      BY <3>4 DEF GoesOn
    <3> HIDE DEF T, start
    <3>6. PICK to \in Nat : to = hi + j
      OBVIOUS
    <3>7. to <= copy.next /\ shown' = Run(lo, hi) \o Run(hi, to) /\ cursor' = to % M
      BY <1>1, <1>3, <3>1, <3>5, <3>6 DEF Follower
    <3>8. lo <= hi /\ hi <= to /\ lo < to
      BY <3>1, <3>6
    <3>9. shown' = Run(lo, to)
      <4>1. Run(lo, hi) \o Run(hi, to) = Run(lo, to)
        BY <3>8, RunOn
      <4> QED
        BY <3>7, <4>1
    <3>10. to <= nextIndex
      BY <1>2, <3>1, <3>7
    <3>11. nextIndex < to + M
      BY <1>2, <3>1, <3>8, RingConstants
    <3>12. PageUpTo(lo, to)'
      BY <1>1, <1>2, <3>7, <3>8, <3>9, <3>10, <3>11 DEF PageUpTo, Run
    <3> QED
      BY <3>12 DEF PageInv
  <2> QED
    BY <2>1, <2>2, <2>3 DEF PageInv
<1> QED
  BY <1>5, <1>6, <1>7, <1>8 DEF OrderInv

LEMMA OrderNext == ASSUME RingInv, OrderInv, Ring!Next PROVE OrderInv'
BY OrderBegin, OrderWriteStep, OrderBeginCopy, OrderCopyLine, OrderFollow, OrderSave
   DEF Ring!Next, Ring!Read

LEMMA OrderSame == OrderInv /\ UNCHANGED ringVars => OrderInv'
<1> SUFFICES ASSUME OrderInv, UNCHANGED ringVars PROVE OrderInv'
  OBVIOUS
<1>1. UNCHANGED <<nextIndex, lines, writes, clashed, copy, cursor, shown, saved, pageLoses, saveLoses>>
  BY DEF ringVars
<1>2. PageInv => PageInv'
  <2>1. PageEmpty => PageEmpty'
    BY <1>1 DEF PageEmpty, Quiet
  <2>2. ASSUME NEW lo \in Nat, NEW hi \in Nat, PageUpTo(lo, hi) PROVE PageUpTo(lo, hi)'
    BY <1>1, <2>2 DEF PageUpTo, CopyHas
  <2> QED
    BY <2>1, <2>2 DEF PageInv
<1>3. FileInv => FileInv'
  BY <1>1 DEF FileInv, IsRunOfLines, Quiet
<1>4. LinesWhole => LinesWhole'
  BY <1>1, LinesStay
<1> QED
  BY <1>1, <1>2, <1>3, <1>4 DEF OrderInv

LEMMA OrderKept == RingInv /\ OrderInv /\ [Next]_vars => OrderInv'
<1> SUFFICES ASSUME RingInv, OrderInv, [Next]_vars PROVE OrderInv'
  OBVIOUS
<1>1. CASE Ring!Next
  BY <1>1, OrderNext
<1>2. CASE UNCHANGED ringVars
  BY <1>2, OrderSame
<1> QED
  BY <1>1, <1>2 DEF Next, InRing, InUpdater, InSessions, InPipes, vars

LEMMA OrderIsKept == OrderInv => Ring!PageInOrder /\ Ring!SavedInOrder
<1> SUFFICES ASSUME OrderInv PROVE Ring!PageInOrder /\ Ring!SavedInOrder
  OBVIOUS
<1>1. ASSUME ~clashed, ~pageLoses PROVE Ring!InOrder(shown)
  <2>1. PageInv
    BY <1>1 DEF OrderInv
  <2>2. CASE PageEmpty
    BY <2>2 DEF PageEmpty, Ring!InOrder
  <2>3. ASSUME NEW lo \in Nat, NEW hi \in Nat, PageUpTo(lo, hi) PROVE Ring!InOrder(shown)
    <3>1. lo <= hi /\ shown = Run(lo, hi)
      BY <2>3 DEF PageUpTo
    <3> QED
      BY <3>1, RunFacts
  <2> QED
    BY <2>1, <2>2, <2>3 DEF PageInv
<1>2. ASSUME ~clashed, ~saveLoses PROVE Ring!InOrder(saved)
  <2>1. PICK lo \in Nat, hi \in Nat : lo <= hi /\ saved = Run(lo, hi)
    BY <1>2 DEF OrderInv, FileInv, IsRunOfLines
  <2> QED
    BY <2>1, RunFacts
<1> QED
  BY <1>1, <1>2 DEF Ring!PageInOrder, Ring!SavedInOrder

\* The page shows the lines of the log, and a file has them, each once and in
\* order, for rings of any size and any number of writers that are at work at a
\* time, as long as none of the races occurs that RingLog names
\* (FollowFromCursor, WriteTo).
THEOREM LinesAreInOrder == Spec => []LogInOrder
<1>1. Init => RingInv /\ OrderInv
  BY RingInit, OrderInit DEF Init
<1>2. (RingInv /\ OrderInv) /\ [Next]_vars => (RingInv /\ OrderInv)'
  BY RingKept, OrderKept
<1>3. RingInv /\ OrderInv => LogInOrder
  BY OrderIsKept DEF LogInOrder
<1> QED
  BY <1>1, <1>2, <1>3, PTL DEF Spec

-----------------------------------------------------------------------------
(* TunnelPipes.                                                            *)

\* The fields of a call are those the steps go by.
Calls == [at : {"idle", "begin", "reading", "lock", "locking", "locked", "write", "read"},
          wants : {"connect", "close", "reopen"}, again : BOOLEAN, pipe : Pipes \cup {None}]
CallsTyped == call \in [Callers -> Calls]

\* PipesKept is inductive with the types: a connection has an owner exactly as
\* long as a call uses it, and is closed and forgotten only when it has none.
PipesInv == Piping!TypeOK /\ CallsTyped /\ Piping!PipesKept

USE DEF Piping!TypeOK, CallsTyped

LEMMA NoneIsNone == None \notin Callers \cup Pipes
BY ConstantsAssumption DEF Piping!TunnelPipesAssumption

LEMMA PipesInit == Piping!Init => PipesInv
BY NoneIsNone DEF Piping!Init, PipesInv, Calls, Piping!PipesKept, Piping!NoCall

\* A call that gets a connection nobody has leaves the connections of others alone.
LEMMA UsesKeeps ==
  ASSUME PipesInv,
         NEW c \in Callers, NEW p \in Pipes, Piping!Uses(c, p),
         call[c].at \notin {"write", "read"},
         up' = up, cached' = p,
         \/ UNCHANGED <<conn, cached>>
         \/ cached = None /\ conn' = [conn EXCEPT ![p] = "open"]
  PROVE  PipesInv'
<1>1. \A d \in Callers \ {c} : call'[d] = call[d]
  BY DEF Piping!Uses, PipesInv
<1>2. call'[c].at = "write" /\ call'[c].pipe = p
  BY DEF Piping!Uses, PipesInv
<1>3. CallsTyped'
  <2> DEFINE r == [call[c] EXCEPT !.at = "write", !.pipe = p]
  <2>1. call' = [call EXCEPT ![c] = r]
    BY DEF Piping!Uses, PipesInv
  <2>2. r \in Calls
    BY DEF PipesInv, Calls
  <2> HIDE DEF r
  <2> QED BY <2>1, <2>2 DEF PipesInv
<1>4. Piping!TypeOK'
  <2>1. owner' \in [Pipes -> Callers \cup {None}]
    BY DEF Piping!Uses, PipesInv
  <2>2. conn' \in [Pipes -> {"none", "open", "broken"}]
    BY DEF PipesInv
  <2>3. \A d \in Callers : call'[d].pipe \in Pipes \cup {None}
    BY <1>3 DEF Calls
  <2> QED BY <2>1, <2>2, <2>3 DEF PipesInv
<1>5. ASSUME NEW q \in Pipes, conn'[q] # "none" PROVE q = cached'
  BY NoneIsNone, <1>5 DEF PipesInv, Piping!PipesKept
<1>6. ASSUME NEW d \in Callers, call'[d].at \in {"write", "read"}
      PROVE  cached' # None /\ call'[d].pipe = cached' /\ owner'[cached'] = d
  <2>1. CASE d = c
    BY NoneIsNone, <1>2, <2>1 DEF Piping!Uses, PipesInv
  <2>2. CASE d # c
    \* Another call that uses one has the cached one, which had no owner.
    <3>1. call[d].at \in {"write", "read"}
      BY <1>1, <1>6, <2>2
    <3>2. cached = p /\ call[d].pipe = cached /\ owner[cached] = d
      BY <3>1 DEF PipesInv, Piping!PipesKept
    <3> QED BY NoneIsNone, <3>2 DEF Piping!Uses, PipesInv
  <2> QED BY <2>1, <2>2
<1> QED BY <1>3, <1>4, <1>5, <1>6 DEF PipesInv, Piping!PipesKept

\* A call that goes on leaves the others alone, also when it gives up the connection
\* it has used: then nobody else uses one.
LEMMA MoveKeeps ==
  ASSUME PipesInv,
         NEW c \in Callers, NEW r \in Calls, call' = [call EXCEPT ![c] = r],
         up' = up, UNCHANGED <<conn, cached>>,
         \/ owner' = owner
         \/ call[c].at \in {"write", "read"} /\ owner' = [owner EXCEPT ![call[c].pipe] = None],
         r.at \in {"write", "read"} =>
           call[c].at \in {"write", "read"} /\ r.pipe = call[c].pipe /\ owner' = owner
  PROVE  PipesInv'
<1>1. CallsTyped'
  BY DEF PipesInv
<1>2. Piping!TypeOK'
  <2>1. owner' \in [Pipes -> Callers \cup {None}]
    BY DEF PipesInv
  <2>2. \A d \in Callers : call'[d].pipe \in Pipes \cup {None}
    BY <1>1 DEF Calls
  <2> QED BY <2>1, <2>2 DEF PipesInv
<1>3. ASSUME NEW d \in Callers, call'[d].at \in {"write", "read"}
      PROVE  cached' # None /\ call'[d].pipe = cached' /\ owner'[cached'] = d
  <2>1. call[d].at \in {"write", "read"} /\ call'[d].pipe = call[d].pipe
    BY <1>3 DEF PipesInv
  <2>2. cached # None /\ call[d].pipe = cached /\ owner[cached] = d
    BY <2>1 DEF PipesInv, Piping!PipesKept
  <2>3. owner'[cached] = d
    <3>1. CASE owner' = owner
      BY <2>2, <3>1
    <3>2. CASE call[c].at \in {"write", "read"} /\ owner' # owner
      <4>1. owner[cached] = c
        BY <3>2 DEF PipesInv, Piping!PipesKept
      <4>2. d = c
        BY <2>2, <4>1
      <4> QED BY <1>3, <3>2, <4>2 DEF PipesInv
    <3> QED BY <3>1, <3>2
  <2> QED BY <2>1, <2>2, <2>3
<1> QED BY <1>1, <1>2, <1>3 DEF PipesInv, Piping!PipesKept

LEMMA ServiceKeeps == ASSUME PipesInv, Piping!Service PROVE PipesInv'
<1>1. conn' \in [Pipes -> {"none", "open", "broken"}] /\ up' \in BOOLEAN
  BY DEF Piping!Service, PipesInv
<1>2. \A p \in Pipes : conn'[p] # "none" => conn[p] # "none"
  BY DEF Piping!Service, PipesInv
<1> QED BY <1>1, <1>2 DEF Piping!Service, PipesInv, Piping!PipesKept

LEMMA DisconnectKeeps ==
  ASSUME PipesInv, NEW c \in Callers, Piping!Disconnect(c), up' = up PROVE PipesInv'
<1>1. PICK r \in Calls : call' = [call EXCEPT ![c] = r] /\ r.at \notin {"write", "read"}
  <2>1. CASE call[c].wants = "reopen"
    <3> DEFINE r == [call[c] EXCEPT !.at = "begin"]
    <3>1. r \in Calls /\ r.at = "begin" /\ call' = [call EXCEPT ![c] = r]
      BY <2>1 DEF Piping!Disconnect, Piping!Goes, PipesInv, Calls
    <3> QED BY <3>1
  <2>2. CASE call[c].wants # "reopen"
    <3>1. Piping!NoCall \in Calls /\ Piping!NoCall.at = "idle" /\ call' = [call EXCEPT ![c] = Piping!NoCall]
      BY <2>2 DEF Piping!Disconnect, Piping!Returns, Piping!NoCall, Calls
    <3> QED BY <3>1
  <2> QED BY <2>1, <2>2
<1>2. \A d \in Callers : call[d].at \notin {"write", "read"}
  BY NoneIsNone DEF Piping!Disconnect, PipesInv, Piping!PipesKept
<1>3. \A d \in Callers : call'[d].at \notin {"write", "read"}
  BY <1>1, <1>2 DEF PipesInv
<1>4. CallsTyped'
  BY <1>1 DEF PipesInv
<1>5. Piping!TypeOK'
  <2>1. conn' \in [Pipes -> {"none", "open", "broken"}] /\ cached' = None /\ owner' = owner
    BY DEF Piping!Disconnect, PipesInv
  <2>2. \A d \in Callers : call'[d].pipe \in Pipes \cup {None}
    BY <1>4 DEF Calls
  <2> QED BY <2>1, <2>2 DEF PipesInv
<1>6. \A p \in Pipes : conn'[p] = "none"
  BY DEF Piping!Disconnect, PipesInv, Piping!PipesKept
<1> QED BY <1>3, <1>4, <1>5, <1>6 DEF PipesInv, Piping!PipesKept

\* Each step of a call is one of those, or gets it a connection.
LEMMA StepKeeps ==
  ASSUME PipesInv, NEW c \in Callers, Piping!Step(c) PROVE PipesInv'
<1>1. \A at \in {"reading", "locking", "locked", "read"} :
        Piping!Goes(c, at) =>
          \E r \in Calls : r.at = at /\ r.pipe = call[c].pipe /\ call' = [call EXCEPT ![c] = r]
  <2> SUFFICES ASSUME NEW at \in {"reading", "locking", "locked", "read"}, Piping!Goes(c, at)
               PROVE  \E r \in Calls : /\ r.at = at /\ r.pipe = call[c].pipe
                                       /\ call' = [call EXCEPT ![c] = r]
    OBVIOUS
  <2> DEFINE r == [call[c] EXCEPT !.at = at]
  <2>1. r \in Calls /\ r.at = at /\ r.pipe = call[c].pipe /\ call' = [call EXCEPT ![c] = r]
    BY DEF Piping!Goes, PipesInv, Calls
  <2> QED BY <2>1
<1>2. \A for \in {"connect", "close", "reopen"} :
        Piping!WaitsToLock(c, for) =>
          \E r \in Calls : r.at = "lock" /\ call' = [call EXCEPT ![c] = r]
  <2> SUFFICES ASSUME NEW for \in {"connect", "close", "reopen"}, Piping!WaitsToLock(c, for)
               PROVE  \E r \in Calls : r.at = "lock" /\ call' = [call EXCEPT ![c] = r]
    OBVIOUS
  <2> DEFINE r == [call[c] EXCEPT !.at = "lock", !.wants = for, !.pipe = None]
  <2>1. r \in Calls /\ r.at = "lock" /\ call' = [call EXCEPT ![c] = r]
    BY DEF Piping!WaitsToLock, PipesInv, Calls
  <2> QED BY <2>1
<1>3. Piping!NoCall \in Calls /\ Piping!NoCall.at = "idle"
  BY DEF Piping!NoCall, Calls
<1>4. CASE Piping!RLock(c)
  <2>1. PICK r \in Calls : r.at = "reading" /\ call' = [call EXCEPT ![c] = r]
    BY <1>1, <1>4 DEF Piping!RLock
  <2> QED BY <1>4, <2>1, MoveKeeps DEF Piping!RLock, Piping!Step
<1>5. CASE Piping!Look(c)
  <2>1. CASE cached # None /\ Piping!Uses(c, cached)
    BY <1>5, <2>1, UsesKeeps DEF Piping!Look, Piping!Step, PipesInv
  <2>2. CASE Piping!WaitsToLock(c, "connect") /\ UNCHANGED owner
    BY <1>2, <1>5, <2>2, MoveKeeps DEF Piping!Look, Piping!Step
  <2> QED BY <1>5, <2>1, <2>2 DEF Piping!Look
<1>6. CASE Piping!Lock(c)
  <2>1. PICK r \in Calls : r.at \in {"locking", "locked"} /\ call' = [call EXCEPT ![c] = r]
    BY <1>1, <1>6 DEF Piping!Lock
  <2> QED BY <1>6, <2>1, MoveKeeps DEF Piping!Lock, Piping!Step
<1>7. CASE Piping!Connect(c)
  <2>1. CASE cached # None /\ Piping!Uses(c, cached) /\ UNCHANGED <<conn, cached>>
    BY <1>7, <2>1, UsesKeeps DEF Piping!Connect, Piping!Locked, Piping!Step, PipesInv
  <2>2. CASE cached = None /\ Piping!Dial(c)
    <3>1. PICK p \in Pipes : conn' = [conn EXCEPT ![p] = "open"] /\ cached' = p /\ Piping!Uses(c, p)
      BY <2>2 DEF Piping!Dial
    <3> QED BY <1>7, <2>2, <3>1, UsesKeeps DEF Piping!Connect, Piping!Locked, Piping!Step
  <2>3. CASE Piping!Returns(c) /\ UNCHANGED <<conn, cached, owner>>
    BY <1>3, <1>7, <2>3, MoveKeeps DEF Piping!Returns, Piping!Step
  <2> QED BY <1>7, <2>1, <2>2, <2>3 DEF Piping!Connect
<1>8. CASE Piping!Disconnect(c)
  BY <1>8, DisconnectKeeps DEF Piping!Step
<1>9. CASE Piping!Write(c)
  <2>1. CASE Piping!Goes(c, "read") /\ UNCHANGED <<conn, owner>>
    <3>1. PICK r \in Calls : r.at = "read" /\ r.pipe = call[c].pipe /\ call' = [call EXCEPT ![c] = r]
      BY <1>1, <2>1
    <3> QED BY <1>9, <2>1, <3>1, MoveKeeps DEF Piping!Write, Piping!Step
  <2>2. CASE Piping!Fails(c, "close") /\ UNCHANGED conn
    BY <1>2, <1>9, <2>2, MoveKeeps DEF Piping!Write, Piping!Fails, Piping!Release, Piping!Step
  <2>3. CASE /\ Piping!Release(c) /\ UNCHANGED conn
             /\ call' = [call EXCEPT ![c] = [Piping!NoCall EXCEPT !.at = "lock", !.wants = "reopen", !.again = FALSE]]
    <3> DEFINE r == [Piping!NoCall EXCEPT !.at = "lock", !.wants = "reopen", !.again = FALSE]
    <3>1. r \in Calls /\ r.at = "lock"
      BY DEF Piping!NoCall, Calls
    <3> HIDE DEF r
    <3>2. call' = [call EXCEPT ![c] = r]
      BY <2>3 DEF r
    <3> QED BY <1>9, <2>3, <3>1, <3>2, MoveKeeps DEF Piping!Write, Piping!Release, Piping!Step
  <2> QED BY <1>9, <2>1, <2>2, <2>3 DEF Piping!Write
<1>10. CASE Piping!Read(c)
  BY <1>3, <1>10, MoveKeeps DEF Piping!Read, Piping!Release, Piping!Returns, Piping!Step
<1> QED BY <1>4, <1>5, <1>6, <1>7, <1>8, <1>9, <1>10 DEF Piping!Step

LEMMA PipesNext == ASSUME PipesInv, [Piping!Next]_pipesVars PROVE PipesInv'
<1>1. CASE Piping!Service
  BY <1>1, ServiceKeeps
<1>2. ASSUME NEW c \in Callers, Piping!RuntimeConfig(c) PROVE PipesInv'
  <2> DEFINE r == [call[c] EXCEPT !.at = "begin"]
  <2>1. r \in Calls /\ r.at = "begin" /\ call' = [call EXCEPT ![c] = r]
    BY <1>2 DEF Piping!RuntimeConfig, Piping!Goes, PipesInv, Calls
  <2> HIDE DEF r
  <2> QED BY <1>2, <2>1, MoveKeeps DEF Piping!RuntimeConfig
<1>3. ASSUME NEW c \in Callers, Piping!Step(c) PROVE PipesInv'
  BY <1>3, StepKeeps
<1>4. CASE UNCHANGED pipesVars
  BY <1>4 DEF pipesVars, PipesInv, Piping!PipesKept
<1> QED BY <1>1, <1>2, <1>3, <1>4 DEF Piping!Next

LEMMA PipesStay == PipesInv /\ [Next]_vars => PipesInv'
BY PipesNext DEF Next, InRing, InUpdater, InSessions, InPipes, vars

\* No connection is lost from the map before it is closed, and none is closed or
\* used by another while a call uses it, for all callers and whatever the tunnel
\* does (connectTunnelServicePipe, disconnectTunnelServicePipe, RuntimeConfig).
THEOREM PipesAreKept == Spec => []Piping!PipesKept
<1>1. Init => PipesInv
  BY PipesInit DEF Init
<1>2. PipesInv /\ [Next]_vars => PipesInv'
  BY PipesStay
<1>3. PipesInv => Piping!PipesKept
  BY DEF PipesInv
<1> QED
  BY <1>1, <1>2, <1>3, PTL DEF Spec

\* The types of the parts, with what they say of their state: no two writers of
\* the log have one index (WriteWithTimestamp); one update goes on at most, its
\* file is there no longer than it, and its channel is not overfilled
\* (DownloadVerifyAndExecute); for any numbers of lines, writers, updates,
\* sessions, callers and connections.
THEOREM PartsTyped == Spec => []TypeOK
<1> DEFINE Inv == RingInv /\ UpdatesInv /\ SessionsInv /\ PipesInv
<1>1. Init => Inv
  BY RingInit, UpdatesInit, SessionsInit, PipesInit DEF Init
<1>2. Inv /\ [Next]_vars => Inv'
  BY RingKept, UpdatesKept, SessionsKept, PipesStay
<1>3. Inv => TypeOK
  BY RingTyped, UpdatesTyped DEF TypeOK, SessionsInv, PipesInv
<1> QED
  BY <1>1, <1>2, <1>3, PTL DEF Spec
=============================================================================
