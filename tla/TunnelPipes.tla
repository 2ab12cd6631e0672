----------------------------- MODULE TunnelPipes -----------------------------
(***************************************************************************)
(* The manager's connections to the tunnel services (manager/ipc_uapi.go), *)
(* over which RuntimeConfig asks a tunnel for its state.  A connection is  *)
(* kept for the next call, in a map with a lock of its own; the calls of   *)
(* all clients share it, one at a time.  A tunnel that ends breaks it, and *)
(* the call that finds out closes it and, once, opens another.             *)
(*                                                                         *)
(* One tunnel: the others have their own entries in the map.               *)
(***************************************************************************)
CONSTANTS Callers, Pipes, None

TunnelPipesAssumption == None \notin Callers \cup Pipes

VARIABLES
  up,     \* the tunnel service listens
  conn,   \* each connection: open, broken by the tunnel's end, or none
  cached, \* the tunnel's entry in connectedTunnelServicePipes, or None
  owner,  \* who holds the lock of each connection
  call    \* where each call is, what it wants the map's lock for, whether it
          \* may still open another connection, and the one it uses

vars == <<up, conn, cached, owner, call>>
NoCall == [at |-> "idle", wants |-> "connect", again |-> TRUE, pipe |-> None]

Init ==
  /\ up \in BOOLEAN
  /\ conn = [p \in Pipes |-> "none"] /\ cached = None
  /\ owner = [p \in Pipes |-> None]
  /\ call = [c \in Callers |-> NoCall]

-----------------------------------------------------------------------------
(* The map's lock: readers are at "reading", the one writer is at "locked",*)
(* and one that waits lets no reader in any more.                          *)

MayRead == \A d \in Callers : call[d].at \notin {"locking", "locked"}
MayLock(c) == \A d \in Callers \ {c} : call[d].at \notin {"reading", "locked"}

Goes(c, at) == call' = [call EXCEPT ![c].at = at]
WaitsToLock(c, for) == call' = [call EXCEPT ![c].at = "lock", ![c].wants = for, ![c].pipe = None]
Returns(c) == call' = [call EXCEPT ![c] = NoCall]

\* The call has the connection p, and the map's lock no more.
Uses(c, p) ==
  /\ owner[p] = None /\ owner' = [owner EXCEPT ![p] = c]
  /\ call' = [call EXCEPT ![c].at = "write", ![c].pipe = p]

-----------------------------------------------------------------------------
(* connectTunnelServicePipe.                                               *)

RLock(c) ==
  /\ call[c].at = "begin" /\ MayRead
  /\ Goes(c, "reading")
  /\ UNCHANGED <<conn, cached, owner>>

\* The lock of a connection is waited for with the map's lock held.
Look(c) ==
  /\ call[c].at = "reading"
  /\ \/ cached # None /\ Uses(c, cached)
     \/ cached = None /\ WaitsToLock(c, "connect") /\ UNCHANGED owner
  /\ UNCHANGED <<conn, cached>>

Lock(c) ==
  /\ \/ call[c].at = "lock" /\ Goes(c, "locking")
     \/ call[c].at = "locking" /\ MayLock(c) /\ Goes(c, "locked")
  /\ UNCHANGED <<conn, cached, owner>>

Locked(c, for) == call[c].at = "locked" /\ call[c].wants \in for

Dial(c) ==
  /\ up
  /\ \E p \in Pipes :
       /\ conn[p] = "none" /\ conn' = [conn EXCEPT ![p] = "open"]
       /\ cached' = p /\ Uses(c, p)

\* Mutant of Connect: the map is not looked at again with the lock.
ConnectUnseen(c) == Locked(c, {"connect"}) /\ Dial(c)

\* The connection another call has made meanwhile, or a new one, or an error.
Connect(c) ==
  /\ Locked(c, {"connect"})
  /\ \/ cached # None /\ Uses(c, cached) /\ UNCHANGED <<conn, cached>>
     \/ cached = None /\ Dial(c)
     \/ cached = None /\ Returns(c) /\ UNCHANGED <<conn, cached, owner>>

\* Mutant of Disconnect: the lock of the connection is not taken.
DisconnectAnyway(c) ==
  /\ Locked(c, {"close", "reopen"})
  /\ conn' = [p \in Pipes |-> IF p = cached THEN "none" ELSE conn[p]]
  /\ cached' = None
  /\ IF call[c].wants = "reopen" THEN Goes(c, "begin") ELSE Returns(c)
  /\ UNCHANGED owner

\* disconnectTunnelServicePipe: what the map has by now, no matter which.
Disconnect(c) ==
  /\ Locked(c, {"close", "reopen"})
  /\ cached # None => owner[cached] = None
  /\ conn' = [p \in Pipes |-> IF p = cached THEN "none" ELSE conn[p]]
  /\ cached' = None
  /\ IF call[c].wants = "reopen" THEN Goes(c, "begin") ELSE Returns(c)
  /\ UNCHANGED owner

-----------------------------------------------------------------------------
(* RuntimeConfig.                                                          *)

RuntimeConfig(c) ==
  /\ call[c].at = "idle"
  /\ Goes(c, "begin")
  /\ UNCHANGED <<up, conn, cached, owner>>

Release(c) == owner' = [owner EXCEPT ![call[c].pipe] = None]

\* Mutant of Fails: the connection is still locked when it is to be closed.
FailsLocked(c, for) == WaitsToLock(c, for) /\ UNCHANGED owner
Fails(c, for) == WaitsToLock(c, for) /\ Release(c)

\* The first time that the pipe turns out to be closed, another is opened.
Write(c) ==
  /\ call[c].at = "write"
  /\ \/ conn[call[c].pipe] = "open" /\ Goes(c, "read") /\ UNCHANGED <<conn, owner>>
     \/ Fails(c, "close") /\ UNCHANGED conn
     \/ /\ conn[call[c].pipe] = "broken" /\ call[c].again
        /\ Release(c) /\ UNCHANGED conn
        /\ call' = [call EXCEPT ![c] = [NoCall EXCEPT !.at = "lock", !.wants = "reopen", !.again = FALSE]]
  /\ UNCHANGED cached

\* An answer, an error or the end of two seconds: the connection stays.
Read(c) ==
  /\ call[c].at = "read"
  /\ Release(c) /\ Returns(c)
  /\ UNCHANGED <<conn, cached>>

-----------------------------------------------------------------------------
\* The tunnel service starts, or ends and with it its side of the connections.
Service ==
  /\ up' = ~up
  /\ conn' = [p \in Pipes |-> IF up /\ conn[p] = "open" THEN "broken" ELSE conn[p]]
  /\ UNCHANGED <<cached, owner, call>>

Step(c) ==
  /\ RLock(c) \/ Look(c) \/ Lock(c) \/ Connect(c) \/ Disconnect(c) \/ Write(c) \/ Read(c)
  /\ UNCHANGED up

Next == Service \/ \E c \in Callers : RuntimeConfig(c) \/ Step(c)

Spec == Init /\ [][Next]_vars

\* Who waits for a lock gets it: a mutex of Go is handed to the first who waits
\* once one has waited for a millisecond.
Fairness == \A c \in Callers : SF_vars(Step(c))

FairSpec == Spec /\ Fairness

-----------------------------------------------------------------------------
(* Properties.                                                             *)

\* The type of the state.
TypeOK ==
  /\ up \in BOOLEAN /\ conn \in [Pipes -> {"none", "open", "broken"}]
  /\ cached \in Pipes \cup {None} /\ owner \in [Pipes -> Callers \cup {None}]
  /\ \A c \in Callers : call[c].pipe \in Pipes \cup {None}

\* No connection is lost from the map before it is closed, and none is closed, or
\* used by another call, while a call writes to it or reads from it
\* (connectTunnelServicePipe, disconnectTunnelServicePipe).
PipesKept ==
  /\ \A p \in Pipes : conn[p] # "none" => p = cached
  /\ \A c \in Callers :
       call[c].at \in {"write", "read"} =>
         cached # None /\ call[c].pipe = cached /\ owner[cached] = c

\* The call of c returns, whatever calls and ends of the tunnel there are: nobody
\* who holds a connection waits for the map's lock, which others hold while they
\* wait for the connection (RuntimeConfig).
CallReturns(c) == []<>(call[c].at = "idle")
=============================================================================
