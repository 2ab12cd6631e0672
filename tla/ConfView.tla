------------------------------ MODULE ConfView ------------------------------
(***************************************************************************)
(* The view of one tunnel (ui/confview.go): its status line, and the group *)
(* with its configuration.  Three kinds of goroutines ask the manager for  *)
(* the state and the configuration of a tunnel and post what they got to   *)
(* the UI thread: the one that reads the events pipe, the ticker, and one  *)
(* for each SetTunnel.  The manager's notifications are written by a       *)
(* goroutine each (ManagerIpc): they may come in any order, and a write    *)
(* that waits for a second is given up.                                    *)
(*                                                                         *)
(* A tunnel's configuration is that of its service when it has started,    *)
(* and the stored one otherwise; a tunnel is its name.                     *)
(***************************************************************************)
EXTENDS Naturals, Sequences

CONSTANTS
  Tunnels,
  MaxInputs,  \* bound on the state changes of tunnels, the user's clicks and
              \* the notifications that are given up, together
  MaxPosts,   \* bound on the functions that wait when the ticker posts one
  None

ConfViewAssumption ==
  None \notin Tunnels /\ {MaxInputs, MaxPosts} \subseteq Nat

States == {"stopped", "started"}

VARIABLES
  state,    \* the state of each tunnel, as the manager's State returns it
  had,      \* history: the states each tunnel has had
  writers,  \* the notifications that notifyAll's goroutines are to write
  events,   \* the events pipe
  listener, \* the notification the events goroutine is at, or None
  ticker,   \* what the ticker's goroutine has read so far
  setters,  \* the same for the goroutines of SetTunnel
  posts,    \* the functions that Synchronize has queued
  tunnel,   \* cv.tunnel
  visible,  \* whether the window is
  status,   \* the status line: a tunnel and its state
  config,   \* the group: a tunnel and which configuration of it
  inputs    \* how many inputs there were

manager == <<state, had, writers>>
view == <<tunnel, visible, status, config>>
vars == <<manager, view, events, listener, ticker, setters, posts, inputs>>

Shows(t, v) == [thing |-> t, value |-> v]
Blank == Shows(None, None)

\* What a goroutine knows of the tunnel it asks about.
Asking(t, s, at) == [tunnel |-> t, state |-> s, at |-> at]
Idle == Asking(None, None, "idle")

Init ==
  /\ state \in [Tunnels -> States]
  /\ had = [t \in Tunnels |-> {state[t]}]
  /\ writers = {} /\ events = <<>> /\ listener = None
  /\ ticker = Idle /\ setters = {} /\ posts = <<>>
  /\ tunnel = None /\ visible = TRUE
  /\ status = Blank /\ config = Blank
  /\ inputs = 0

-----------------------------------------------------------------------------
(* The manager.                                                            *)

Input == inputs < MaxInputs /\ inputs' = inputs + 1

\* The tracker notifies the clients of the new state.
Change(t) ==
  /\ Input
  /\ \E s \in States \ {state[t]} :
       /\ state' = [state EXCEPT ![t] = s]
       /\ had' = [had EXCEPT ![t] = @ \cup {s}]
       /\ writers' = writers \cup {[tunnel |-> t, state |-> s]}
  /\ UNCHANGED <<view, events, listener, ticker, setters, posts>>

\* A notification is written, or given up after a second.
WriteEvent(w) ==
  /\ w \in writers
  /\ writers' = writers \ {w}
  /\ \/ events' = Append(events, w) /\ UNCHANGED inputs
     \/ Input /\ UNCHANGED events
  /\ UNCHANGED <<state, had, view, listener, ticker, setters, posts>>

-----------------------------------------------------------------------------
(* The goroutines that ask the manager.                                    *)

\* RuntimeConfig when the state that was read is started, and StoredConfig
\* when that fails or was not asked for.
ConfigOf(s) == IF s = "started" THEN "runtime" ELSE "stored"
FetchConfig(t, s) == IF s = "started" THEN ConfigOf(state[t]) ELSE "stored"

UpdateStatus(e) == [does |-> "status", tunnel |-> e.tunnel, state |-> e.state]
SetTunnelTo(t, s) == [does |-> "set", tunnel |-> t, state |-> s, config |-> FetchConfig(t, s)]

\* onTunnelChanged posts the state; then, for the tunnel of the view, the rest.
ReceiveEvent ==
  /\ listener = None /\ events # <<>>
  /\ events' = Tail(events)
  /\ posts' = Append(posts, UpdateStatus(Head(events)))
  /\ listener' = IF tunnel = Head(events).tunnel THEN Head(events) ELSE None
  /\ UNCHANGED <<manager, view, ticker, setters, inputs>>

FinishEvent ==
  /\ listener # None
  /\ posts' = Append(posts, SetTunnelTo(listener.tunnel, listener.state))
  /\ listener' = None
  /\ UNCHANGED <<manager, view, events, ticker, setters, inputs>>

Tick ==
  /\ ticker = Idle /\ visible /\ tunnel # None
  /\ ticker' = Asking(tunnel, state[tunnel], "config")
  /\ UNCHANGED <<manager, view, events, listener, setters, posts, inputs>>

TickerConfig ==
  /\ ticker.at = "config" /\ Len(posts) < MaxPosts
  /\ posts' = Append(posts, SetTunnelTo(ticker.tunnel, ticker.state))
  /\ ticker' = Idle
  /\ UNCHANGED <<manager, view, events, listener, setters, inputs>>

SetterState(g) ==
  /\ g \in setters /\ g.at = "state"
  /\ setters' = (setters \ {g}) \cup {Asking(g.tunnel, state[g.tunnel], "config")}
  /\ UNCHANGED <<manager, view, events, listener, ticker, posts, inputs>>

SetterConfig(g) ==
  /\ g \in setters /\ g.at = "config"
  /\ posts' = Append(posts, SetTunnelTo(g.tunnel, g.state))
  /\ setters' = setters \ {g}
  /\ UNCHANGED <<manager, view, events, listener, ticker, inputs>>

-----------------------------------------------------------------------------
(* The UI thread.                                                          *)

\* SetTunnel, of what is selected in the list: nothing is shown at once.
SetTunnel(t) ==
  /\ tunnel' = t
  /\ IF t = None
     THEN status' = Blank /\ config' = Blank /\ UNCHANGED setters
     ELSE /\ setters' = setters \cup {Asking(t, None, "state")}
          /\ UNCHANGED <<status, config>>

Select(t) ==
  /\ Input
  /\ t # tunnel
  /\ SetTunnel(t)
  /\ UNCHANGED <<manager, visible, events, listener, ticker, posts>>

Hide ==
  /\ Input
  /\ visible /\ visible' = FALSE
  /\ UNCHANGED <<manager, tunnel, status, config, events, listener, ticker, setters, posts>>

\* VisibleChanged sets the tunnel of the view again.
Unhide ==
  /\ ~visible /\ visible' = TRUE
  /\ SetTunnel(tunnel)
  /\ UNCHANGED <<manager, events, listener, ticker, posts, inputs>>

\* The guards of onTunnelChanged and of setTunnel, on the UI thread.
ForStatus(p) == p.tunnel = tunnel

\* Mutant of ForView: what was read of the tunnel that was selected before is shown.
ForViewAny(p) == p.tunnel \in Tunnels

ForView(p) == tunnel \in {None, p.tunnel}

RunPost ==
  /\ posts # <<>>
  /\ LET p == Head(posts)
     IN  /\ status' = IF (IF p.does = "set" THEN ForView(p) ELSE ForStatus(p))
                      THEN Shows(p.tunnel, p.state) ELSE status
         /\ config' = IF p.does = "set" /\ ForView(p) THEN Shows(p.tunnel, p.config) ELSE config
  /\ posts' = Tail(posts)
  /\ UNCHANGED <<manager, tunnel, visible, events, listener, ticker, setters, inputs>>

-----------------------------------------------------------------------------
Goroutines ==
  \/ \E w \in writers : WriteEvent(w)
  \/ ReceiveEvent \/ FinishEvent
  \/ \E g \in setters : SetterState(g) \/ SetterConfig(g)

Next ==
  \/ \E t \in Tunnels : Change(t)
  \/ Goroutines
  \/ Tick \/ TickerConfig
  \/ \E t \in Tunnels \cup {None} : Select(t)
  \/ Hide \/ Unhide
  \/ RunPost

Spec == Init /\ [][Next]_vars

\* The ticker goes on for ever, and what is posted is run.
Fairness == WF_vars(Goroutines) /\ WF_vars(Tick) /\ WF_vars(TickerConfig) /\ WF_vars(RunPost)

FairSpec == Spec /\ Fairness

-----------------------------------------------------------------------------
(* Properties.                                                             *)

\* The type of the state (ConfView and what is on its way to it).
TypeOK ==
  /\ state \in [Tunnels -> States] 
  /\ had \in [Tunnels -> SUBSET States]
  /\ \A w \in writers : w.tunnel \in Tunnels /\ w.state \in States
  /\ \A g \in setters \cup {ticker} : g.at # "idle" => g.tunnel \in Tunnels
  /\ tunnel \in Tunnels \cup {None} /\ visible \in BOOLEAN
  /\ status.thing \in Tunnels \cup {None} /\ config.thing \in Tunnels \cup {None}

\* The tunnel the view is to show: a hidden view shows what it likes.
Chosen == IF visible THEN tunnel ELSE None

StatusLine == INSTANCE Mirror WITH
  Things <- Tunnels, Values <- States, value <- state, chosen <- Chosen, shown <- status

Configs == INSTANCE Mirror WITH
  Things <- Tunnels, Values <- {"stored", "runtime"},
  value <- [t \in Tunnels |-> ConfigOf(state[t])],
  had <- [t \in Tunnels |-> {ConfigOf(s) : s \in had[t]}],
  chosen <- Chosen, shown <- config

\* The status line mirrors the state of the tunnel that is selected, whatever
\* notifications come late, out of order or never: it turns to no other tunnel
\* and shows no state the tunnel has not had, and while the window is visible
\* the ticker brings it to the state the tunnel has (ui/confview.go).
StatusMirrors == StatusLine!Spec

\* So does the group with the configuration: the runtime configuration, with
\* its transfer counters, as long as the tunnel has started.
ConfigMirrors == Configs!Spec
=============================================================================
