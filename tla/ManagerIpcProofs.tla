--------------------------- MODULE ManagerIpcProofs ---------------------------
(***************************************************************************)
(* Proofs about ManagerIpc: for any clients, threads and plans, each call  *)
(* reads the values of its own answer, and the manager serves a client as  *)
(* long as its process runs.                                               *)
(*                                                                         *)
(* Nothing in a pipe says where a call ends.  The invariant is therefore   *)
(* that the values in it can be parsed into calls that begin where the     *)
(* manager is, and end where the client is.                                *)
(***************************************************************************)
EXTENDS ManagerIpc, TLAPS, SequenceTheorems

Args(m) == ClientCalls[m].args
Results(m) == ClientCalls[m].results

Ids == (UNION {Threads[c] : c \in Clients}) \X Nat
Values == [type : Methods \cup STRING, id : Ids]

-----------------------------------------------------------------------------
(* The pipe from the client to the manager.                                *)

\* A place in a call: its method, and the number of values after the method's.
Parses(s) == [DOMAIN s -> [method : Methods, n : Nat]]
Complete(a) == a.n = Len(Args(a.method))

\* The values of s are those of the places p: each call is written to its end
\* before the next, and the next waits for the answer of one that has some.
ParsedBy(s, p) ==
  /\ \A j \in DOMAIN s :
       /\ p[j].n <= Len(Args(p[j].method))
       /\ s[j].type = IF p[j].n = 0 THEN p[j].method ELSE Args(p[j].method)[p[j].n]
  /\ \A j \in DOMAIN s : j + 1 \in DOMAIN s =>
       IF Complete(p[j])
         THEN p[j + 1].n = 0 /\ Results(p[j].method) = <<>>
         ELSE /\ p[j + 1] = [method |-> p[j].method, n |-> p[j].n + 1]
              /\ s[j + 1].id = s[j].id

\* The manager reads on where s begins.
Begins(c, s, p) ==
  s # <<>> =>
    IF serve[c].at = "args"
      THEN /\ p[1] = [method |-> serve[c].method, n |-> serve[c].n + 1]
           /\ s[1].id = serve[c].id
      ELSE p[1].n = 0

Idle(c) == \A h \in Threads[c] : call[c][h] = None

\* The call that has come to place a of the call id, and waits for its answer.
At(k, a, id) ==
  k # None /\ k.method = a.method /\ k.sent = a.n /\ k.id = id /\ k.got = 0

\* The client writes on where s ends, and waits for what is left to answer.
Ends(c, s, p) ==
  s # <<>> =>
    LET a == p[Len(s)]
    IN  \/ \E h \in Threads[c] : At(call[c][h], a, s[Len(s)].id)
        \/ Idle(c) /\ Complete(a) /\ Results(a.method) = <<>>

Parsed(c, p) ==
  ParsedBy(request[c], p) /\ Begins(c, request[c], p) /\ Ends(c, request[c], p)

-----------------------------------------------------------------------------
(* The pipe from the manager to the client.                                *)

AtWork(c) == serve[c].at \in {"run", "forget", "uninstall"}

\* The manager answers nobody, and owes no answer.
AnswersNobody(c) ==
  /\ serve[c].at # "results"
  /\ AtWork(c) => Results(serve[c].method) = <<>>

IsServed(c, k) == serve[c].method = k.method /\ serve[c].id = k.id

\* The manager has written n values for call k, and these are left to read.
Answered(c, k, n) ==
  /\ k.got <= n /\ Len(reply[c]) = n - k.got
  /\ \A i \in 1 .. Len(reply[c]) : reply[c][i] = Value(Results(k.method)[k.got + i], k.id)

\* Call k has been read as far as it was written, and waits.
Waits(c, k) ==
  \/ /\ serve[c].at = "args" /\ IsServed(c, k) /\ serve[c].n = k.sent
     /\ k.got = 0 /\ reply[c] = <<>>
  \/ AtWork(c) /\ IsServed(c, k) /\ Sent(k) /\ k.got = 0 /\ reply[c] = <<>>
  \/ serve[c].at = "results" /\ IsServed(c, k) /\ Sent(k) /\ Answered(c, k, serve[c].n)
  \/ serve[c].at = "method" /\ Sent(k) /\ Answered(c, k, Len(Results(k.method)))

\* A client that runs and its ServeConn are where the other expects them to be.
Sync(c) ==
  /\ serve[c].at \notin {"leave", "gone"}
  /\ \E p \in Parses(request[c]) : Parsed(c, p)
  /\ request[c] # <<>> => reply[c] = <<>> /\ AnswersNobody(c)
  /\ request[c] = <<>> =>
       \/ Idle(c) /\ reply[c] = <<>> /\ serve[c].at # "args" /\ AnswersNobody(c)
       \/ \E h \in Threads[c] : call[c][h] # None /\ Waits(c, call[c][h])

\* rpcMutex, and a call has something left to do.
CallsRight(c) ==
  /\ \A h, i \in Threads[c] : call[c][h] # None /\ call[c][i] # None => h = i
  /\ \A h \in Threads[c] :
       LET k == call[c][h]
       IN  k # None => /\ k.sent <= Len(Args(k.method))
                       /\ k.got <= Len(Results(k.method))
                       /\ Sent(k) => Awaits(k)

Serves ==
  [at : {"start", "method", "args", "run", "results", "forget", "uninstall", "leave", "gone"},
   method : Methods \cup {None}, id : Ids \cup {None}, n : Nat]

\* ServeConn has an argument left to read, or a result to write.
ServeRight(c) ==
  /\ serve[c].at \in {"args", "results"} \/ AtWork(c) =>
       serve[c].method \in Methods /\ serve[c].id \in Ids
  /\ serve[c].at = "args" => serve[c].n < Len(Args(serve[c].method))
  /\ serve[c].at = "results" => serve[c].n < Len(Results(serve[c].method))

\* A client whose process has ended calls nobody.
ClientRight(c) ==
  CallsRight(c) /\ ServeRight(c) /\ IF c \in live THEN Sync(c) ELSE Idle(c)

\* The variables are functions of the clients.
Shape ==
  /\ call = [c \in Clients |-> call[c]] /\ plan = [c \in Clients |-> plan[c]]
  /\ request \in [Clients -> Seq(Values)] /\ reply \in [Clients -> Seq(Values)]
  /\ serve \in [Clients -> Serves]

\* The pipe of events goes with the service.
EventsOfServices == \A c \in events : serve[c].at # "start" => c \in services

IInv == TypeOK /\ Shape /\ EventsOfServices /\ \A c \in Clients : ClientRight(c)

-----------------------------------------------------------------------------
(* Parsing a pipe.                                                         *)

LEMMA MethodWires ==
  ASSUME NEW m \in Methods
  PROVE  /\ Args(m) \in Seq(STRING) /\ Len(Args(m)) \in 0..2
         /\ Results(m) \in Seq(STRING) /\ Len(Results(m)) \in 0..2
         /\ m \in DOMAIN ServerCases
         /\ ServerCases[m].args = Args(m) /\ ServerCases[m].results = Results(m)
BY SameMethods DEF Args, Results, Methods

\* A value that follows the last one is parsed with the others.
LEMMA AppendParse ==
  ASSUME NEW s \in Seq(Values), NEW p \in Parses(s), ParsedBy(s, p),
         NEW a \in [method : Methods, n : Nat], NEW v \in Values,
         a.n <= Len(Args(a.method)),
         v.type = IF a.n = 0 THEN a.method ELSE Args(a.method)[a.n],
         s # <<>> =>
           IF Complete(p[Len(s)])
             THEN a.n = 0 /\ Results(p[Len(s)].method) = <<>>
             ELSE /\ a = [method |-> p[Len(s)].method, n |-> p[Len(s)].n + 1]
                  /\ v.id = s[Len(s)].id
  PROVE  \E q \in Parses(Append(s, v)) :
           /\ ParsedBy(Append(s, v), q)
           /\ q[Len(s) + 1] = a
           /\ s # <<>> => q[1] = p[1]
<1> DEFINE t == Append(s, v)
           q == [j \in 1 .. Len(s) + 1 |-> IF j = Len(s) + 1 THEN a ELSE p[j]]
<1>1. /\ t \in Seq(Values) /\ Len(t) = Len(s) + 1 /\ DOMAIN t = 1 .. Len(s) + 1
      /\ t[Len(s) + 1] = v /\ \A j \in 1 .. Len(s) : t[j] = s[j]
  BY AppendProperties, LenProperties
<1>2. Len(s) \in Nat /\ DOMAIN s = 1 .. Len(s) /\ (s # <<>> => Len(s) > 0)
  BY LenProperties, EmptySeq
<1>3. \A j \in 1 .. Len(s) : q[j] = p[j] /\ p[j] \in [method : Methods, n : Nat]
  BY <1>2 DEF Parses
<1>4. q[Len(s) + 1] = a
  BY <1>2
<1>5. q \in Parses(t)
  BY <1>1, <1>2, <1>3 DEF Parses
<1> HIDE DEF q, t
<1>6. \A j \in DOMAIN t :
        /\ q[j].n <= Len(Args(q[j].method))
        /\ t[j].type = IF q[j].n = 0 THEN q[j].method ELSE Args(q[j].method)[q[j].n]
  BY <1>1, <1>2, <1>3, <1>4 DEF ParsedBy
<1>7. ASSUME NEW j \in DOMAIN t, j + 1 \in DOMAIN t
      PROVE  IF Complete(q[j])
               THEN q[j + 1].n = 0 /\ Results(q[j].method) = <<>>
               ELSE /\ q[j + 1] = [method |-> q[j].method, n |-> q[j].n + 1]
                    /\ t[j + 1].id = t[j].id
  <2>1. j \in 1 .. Len(s) /\ q[j] = p[j] /\ t[j] = s[j]
    BY <1>1, <1>2, <1>3, <1>7
  <2>2. CASE j + 1 \in DOMAIN s
    <3>1. q[j + 1] = p[j + 1] /\ t[j + 1] = s[j + 1]
      BY <1>1, <1>2, <1>3, <2>2
    <3> QED
      BY <2>1, <2>2, <3>1, <1>2 DEF ParsedBy
  <2>3. CASE j + 1 \notin DOMAIN s
    <3>1. j = Len(s) /\ s # <<>>
      BY <1>2, <2>1, <2>3, EmptySeq
    <3> QED
      BY <1>1, <1>4, <2>1, <3>1
  <2> QED
    BY <2>2, <2>3
<1>8. s # <<>> => q[1] = p[1]
  BY <1>2, <1>3
<1> QED
  BY <1>4, <1>5, <1>6, <1>7, <1>8 DEF ParsedBy, t

\* What follows a value that is read is parsed as before.
LEMMA TailParse ==
  ASSUME NEW s \in Seq(Values), s # <<>>, NEW p \in Parses(s), ParsedBy(s, p)
  PROVE  /\ Tail(s) \in Seq(Values)
         /\ Tail(s) # <<>> => 2 \in DOMAIN s /\ Tail(s)[1] = s[2] /\ Tail(s)[Len(Tail(s))] = s[Len(s)]
         /\ Tail(s) = <<>> => Len(s) = 1
         /\ \E q \in Parses(Tail(s)) :
              /\ ParsedBy(Tail(s), q)
              /\ Tail(s) # <<>> => q[1] = p[2] /\ q[Len(Tail(s))] = p[Len(s)]
<1> DEFINE t == Tail(s)
           q == [j \in 1 .. Len(s) - 1 |-> p[j + 1]]
<1>1. /\ t \in Seq(Values) /\ Len(t) = Len(s) - 1
      /\ \A j \in 1 .. Len(t) : t[j] = s[j + 1]
  BY HeadTailProperties
<1>2. /\ Len(s) \in Nat \ {0} /\ DOMAIN s = 1 .. Len(s)
      /\ DOMAIN t = 1 .. Len(t) /\ (t # <<>> => Len(t) \in Nat \ {0})
  BY <1>1, LenProperties, EmptySeq
<1>3. \A j \in 1 .. Len(t) : q[j] = p[j + 1] /\ p[j + 1] \in [method : Methods, n : Nat]
  BY <1>1, <1>2 DEF Parses
<1>4. q \in Parses(t)
  BY <1>1, <1>2, <1>3 DEF Parses
<1> HIDE DEF q, t
<1>5. ParsedBy(t, q)
  <2>1. ASSUME NEW j \in DOMAIN t
        PROVE  /\ j + 1 \in DOMAIN s /\ q[j] = p[j + 1] /\ t[j] = s[j + 1]
               /\ j + 1 \in DOMAIN t =>
                    /\ (j + 1) + 1 \in DOMAIN s
                    /\ q[j + 1] = p[(j + 1) + 1] /\ t[j + 1] = s[(j + 1) + 1]
    BY <1>1, <1>2, <1>3
  <2>2. \A j \in DOMAIN t :
          /\ q[j].n <= Len(Args(q[j].method))
          /\ t[j].type = IF q[j].n = 0 THEN q[j].method ELSE Args(q[j].method)[q[j].n]
    BY <2>1 DEF ParsedBy
  <2>3. ASSUME NEW j \in DOMAIN t, j + 1 \in DOMAIN t
        PROVE  IF Complete(q[j])
                 THEN q[j + 1].n = 0 /\ Results(q[j].method) = <<>>
                 ELSE /\ q[j + 1] = [method |-> q[j].method, n |-> q[j].n + 1]
                      /\ t[j + 1].id = t[j].id
    <3>1. IF Complete(p[j + 1])
            THEN p[(j + 1) + 1].n = 0 /\ Results(p[j + 1].method) = <<>>
            ELSE /\ p[(j + 1) + 1] = [method |-> p[j + 1].method, n |-> p[j + 1].n + 1]
                 /\ s[(j + 1) + 1].id = s[j + 1].id
      BY <2>1, <2>3 DEF ParsedBy
    <3>2. /\ q[j] = p[j + 1] /\ t[j] = s[j + 1]
          /\ q[j + 1] = p[(j + 1) + 1] /\ t[j + 1] = s[(j + 1) + 1]
      BY <2>1, <2>3
    <3> QED
      BY <3>1, <3>2
  <2> QED
    BY <2>2, <2>3 DEF ParsedBy
<1>6. t # <<>> => /\ 2 \in DOMAIN s /\ t[1] = s[2] /\ t[Len(t)] = s[Len(s)]
                  /\ q[1] = p[2] /\ q[Len(t)] = p[Len(s)]
  BY <1>1, <1>2, <1>3
<1>7. t = <<>> => Len(s) = 1
  BY <1>1, <1>2, EmptySeq
<1> QED
  BY <1>1, <1>4, <1>5, <1>6, <1>7 DEF t

-----------------------------------------------------------------------------
(* A step of one client, or of its ServeConn, leaves the others where they *)
(* are.                                                                    *)

LEMMA ClientKept ==
  ASSUME NEW d \in Clients, ClientRight(d), call'[d] = call[d], request'[d] = request[d],
         reply'[d] = reply[d], serve'[d] = serve[d], d \in live' <=> d \in live
  PROVE  ClientRight(d)'
<1>1. CallsRight(d)' /\ ServeRight(d)' /\ (Idle(d) => Idle(d)')
  BY DEF ClientRight, CallsRight, ServeRight, AtWork, Idle
<1>2. ASSUME Sync(d) PROVE Sync(d)'
  <2>1. PICK p \in Parses(request[d]) : Parsed(d, p)
    BY <1>2 DEF Sync
  <2>2. p \in Parses(request[d])' /\ Parsed(d, p)'
    BY <2>1 DEF Parses, Parsed, ParsedBy, Begins, Ends, Idle
  <2>3. /\ AnswersNobody(d) => AnswersNobody(d)'
        /\ \A k : Waits(d, k) => /\ serve'[d].at = serve[d].at
                                 /\ Waits(d, k)'
    BY DEF AnswersNobody, AtWork, Waits, IsServed, Answered
  <2> QED
    BY <1>2, <2>2, <2>3 DEF Sync, Idle
<1> QED
  BY <1>1, <1>2 DEF ClientRight

LEMMA ClientFrame ==
  ASSUME IInv, NEW c \in Clients,
         call' = [d \in Clients |-> call'[d]], plan' = [d \in Clients |-> plan'[d]],
         request' \in [Clients -> Seq(Values)], reply' \in [Clients -> Seq(Values)],
         \A d \in Clients \ {c} : /\ call'[d] = call[d] /\ plan'[d] = plan[d]
                                  /\ request'[d] = request[d] /\ reply'[d] = reply[d],
         call'[c] \in [Threads[c] -> Calls \cup {None}],
         plan'[c] \in [Threads[c] -> Seq(Methods)],
         UNCHANGED <<live, serve, services, events, noteVars, quitVars>>,
         ClientRight(c)'
  PROVE  IInv'
<1>1. TypeOK'
  BY DEF IInv, TypeOK, noteVars, quitVars
<1>2. Shape' /\ EventsOfServices'
  BY DEF IInv, Shape, EventsOfServices
<1>3. ASSUME NEW d \in Clients PROVE ClientRight(d)'
  <2>1. CASE d # c
    BY <2>1, ClientKept DEF IInv
  <2> QED
    BY <2>1
<1> QED
  BY <1>1, <1>2, <1>3 DEF IInv

LEMMA ServeFrame ==
  ASSUME IInv, NEW c \in Clients, serve' \in [Clients -> Serves],
         request' \in [Clients -> Seq(Values)], reply' \in [Clients -> Seq(Values)],
         \A d \in Clients \ {c} : /\ serve'[d] = serve[d] /\ request'[d] = request[d]
                                  /\ reply'[d] = reply[d]
                                  /\ d \in services' <=> d \in services
                                  /\ d \in events' <=> d \in events,
         services' \subseteq Clients, events' \subseteq Clients,
         c \in services' => serve'[c].at \notin {"start", "gone"},
         c \in events' /\ serve'[c].at # "start" => c \in services',
         UNCHANGED <<call, plan, live, noteVars, manager>>,
         haveQuit' \in BOOLEAN, quitSent' \in BOOLEAN, quitLost' \in BOOLEAN,
         ClientRight(c)'
  PROVE  IInv'
<1>1. \A d \in Clients : serve'[d] \in Serves
  OBVIOUS
<1>2. services' \subseteq {d \in Clients : serve'[d].at \notin {"start", "gone"}}
  BY DEF IInv, TypeOK
<1>3. TypeOK'
  BY <1>1, <1>2 DEF IInv, TypeOK, noteVars, Serves
<1>4. Shape' /\ EventsOfServices'
  BY DEF IInv, Shape, EventsOfServices
<1>5. ASSUME NEW d \in Clients PROVE ClientRight(d)'
  <2>1. CASE d # c
    BY <2>1, ClientKept DEF IInv
  <2> QED
    BY <2>1
<1> QED
  BY <1>3, <1>4, <1>5 DEF IInv

-----------------------------------------------------------------------------
(* The client.                                                             *)

\* Where a call comes to, and what the other threads do.
LEMMA GoesTo ==
  ASSUME IInv, NEW c \in Clients, NEW h \in Threads[c], NEW k \in Calls, Goes(c, h, k)
  PROVE  /\ call' = [d \in Clients |-> call'[d]]
         /\ \A d \in Clients \ {c} : call'[d] = call[d]
         /\ call'[c] \in [Threads[c] -> Calls \cup {None}]
         /\ call'[c][h] = IF Sent(k) /\ ~Awaits(k) THEN None ELSE k
         /\ \A i \in Threads[c] \ {h} : call'[c][i] = call[c][i]
         /\ k # None
<1> DEFINE r == IF Sent(k) /\ ~Awaits(k) THEN None ELSE k
<1>1. call' = [call EXCEPT ![c][h] = r]
  BY DEF Goes
<1>2. r \in Calls \cup {None}
  OBVIOUS
<1> HIDE DEF r
<1>3. call[c] \in [Threads[c] -> Calls \cup {None}] /\ call = [d \in Clients |-> call[d]]
  BY DEF IInv, TypeOK, Shape
<1>4. call'[c] = [call[c] EXCEPT ![h] = r]
  BY <1>1, <1>3
<1>5. call' = [d \in Clients |-> call'[d]] /\ \A d \in Clients \ {c} : call'[d] = call[d]
  BY <1>1, <1>3
<1>6. k # None
  BY IpcAssumption
<1> QED
  BY <1>2, <1>3, <1>4, <1>5, <1>6 DEF r

\* What is left of the calls when the call of h goes to k and the other threads
\* have none.
LEMMA GoesRight ==
  ASSUME NEW c \in Clients, NEW h \in Threads[c], NEW k \in Calls,
         call'[c][h] = IF Sent(k) /\ ~Awaits(k) THEN None ELSE k,
         \A i \in Threads[c] \ {h} : call'[c][i] = None,
         k.sent <= Len(Args(k.method)), k.got <= Len(Results(k.method))
  PROVE  CallsRight(c)'
BY DEF CallsRight

\* A value the client writes, for a call that comes to k.
LEMMA WritesOn ==
  ASSUME IInv, NEW c \in Clients, NEW h \in Threads[c], NEW k \in Calls,
         NEW v \in Values, c \in live, k # None,
         request' = [request EXCEPT ![c] = Append(@, v)],
         call'[c][h] = IF Sent(k) /\ ~Awaits(k) THEN None ELSE k,
         \A i \in Threads[c] \ {h} : call[c][i] = None /\ call'[c][i] = None,
         reply' = reply, serve' = serve,
         k.got = 0, k.sent <= Len(Args(k.method)), v.id = k.id,
         v.type = IF k.sent = 0 THEN k.method ELSE Args(k.method)[k.sent],
         IF k.sent = 0 THEN call[c][h] = None
           ELSE At(call[c][h], [method |-> k.method, n |-> k.sent - 1], k.id)
  PROVE  Sync(c)'
<1> DEFINE s == request[c]
           t == Append(s, v)
           a == [method |-> k.method, n |-> k.sent]
<1>1. s \in Seq(Values) /\ request'[c] = t
  BY DEF IInv, Shape
<1>2. Sync(c)
  BY DEF IInv, ClientRight
<1>3. PICK p \in Parses(s) : Parsed(c, p)
  BY <1>2 DEF Sync
<1>4. /\ k.method \in Methods /\ k.sent \in 0..2 /\ Len(Args(k.method)) \in 0..2
      /\ Results(k.method) \in Seq(STRING) /\ Len(Results(k.method)) \in 0..2
  BY MethodWires DEF Calls
<1>5. a \in [method : Methods, n : Nat] /\ a.n = k.sent /\ a.method = k.method
  BY <1>4
<1>6. /\ t # <<>> /\ Len(t) = Len(s) + 1 /\ t[Len(t)] = v
      /\ s # <<>> => t[1] = s[1] /\ p[Len(s)] \in [method : Methods, n : Nat]
      /\ s = <<>> => t[1] = v /\ Len(s) + 1 = 1
  <2>1. Len(s) \in Nat /\ (s # <<>> => Len(s) > 0) /\ DOMAIN s = 1 .. Len(s)
    BY <1>1, EmptySeq, LenProperties
  <2> QED
    BY <1>1, <1>3, <2>1, AppendProperties DEF Parses
<1> HIDE DEF s, t, a
<1>7. /\ s # <<>> =>
           IF Complete(p[Len(s)])
             THEN a.n = 0 /\ Results(p[Len(s)].method) = <<>>
             ELSE /\ a = [method |-> p[Len(s)].method, n |-> p[Len(s)].n + 1]
                  /\ v.id = s[Len(s)].id
      /\ s = <<>> =>
           IF serve[c].at = "args"
             THEN a = [method |-> serve[c].method, n |-> serve[c].n + 1] /\ v.id = serve[c].id
             ELSE a.n = 0
      /\ reply[c] = <<>> /\ AnswersNobody(c)
  <2>1. CASE k.sent = 0
    <3>1. Idle(c)
      BY <2>1 DEF Idle
    <3>2. s # <<>> => Complete(p[Len(s)]) /\ Results(p[Len(s)].method) = <<>>
      BY <1>3, <3>1 DEF Parsed, Ends, Idle, At, s
    <3>3. reply[c] = <<>> /\ AnswersNobody(c) /\ (s = <<>> => serve[c].at # "args")
      BY <1>2, <3>1 DEF Sync, Idle, s
    <3> QED
      BY <1>5, <2>1, <3>2, <3>3
  <2>2. CASE k.sent # 0
    <3> DEFINE k0 == call[c][h]
    <3>1. /\ k0 # None /\ k0.method = k.method /\ k0.sent = k.sent - 1
          /\ k0.id = k.id /\ k0.got = 0
      BY <2>2 DEF At
    <3>2. ~Sent(k0) /\ ~Idle(c)
      BY <1>4, <2>2, <3>1 DEF Sent, Idle, Args
    <3>3. ASSUME s # <<>>
          PROVE  /\ At(k0, p[Len(s)], s[Len(s)].id)
                 /\ reply[c] = <<>> /\ AnswersNobody(c)
      <4>1. PICK i \in Threads[c] : At(call[c][i], p[Len(s)], s[Len(s)].id)
        BY <1>3, <3>2, <3>3 DEF Parsed, Ends, s
      <4>2. i = h
        BY <4>1 DEF At
      <4> QED
        BY <1>2, <3>3, <4>1, <4>2 DEF Sync, s
    <3>4. ASSUME s # <<>>
          PROVE  /\ ~Complete(p[Len(s)])
                 /\ a = [method |-> p[Len(s)].method, n |-> p[Len(s)].n + 1]
                 /\ v.id = s[Len(s)].id
      BY <1>4, <1>6, <2>2, <3>1, <3>3, <3>4 DEF At, Complete, a
    <3>5. ASSUME s = <<>>
          PROVE  /\ serve[c].at = "args" /\ IsServed(c, k0) /\ serve[c].n = k0.sent
                 /\ reply[c] = <<>>
      <4>1. PICK i \in Threads[c] : call[c][i] # None /\ Waits(c, call[c][i])
        BY <1>2, <3>2, <3>5 DEF Sync, s
      <4>2. i = h
        BY <4>1
      <4> QED
        BY <3>2, <4>1, <4>2 DEF Waits
    <3>6. s = <<>> => /\ a = [method |-> serve[c].method, n |-> serve[c].n + 1]
                      /\ v.id = serve[c].id
      BY <1>4, <2>2, <3>1, <3>5 DEF IsServed, a
    <3> QED
      BY <3>3, <3>4, <3>5, <3>6 DEF AnswersNobody, AtWork
  <2> QED
    BY <2>1, <2>2
<1>8. ParsedBy(s, p) /\ Begins(c, s, p)
  BY <1>3 DEF Parsed, s
<1>9. PICK q \in Parses(t) :
        /\ ParsedBy(t, q)
        /\ q[Len(s) + 1] = a
        /\ s # <<>> => q[1] = p[1]
  <2>1. v.type = IF a.n = 0 THEN a.method ELSE Args(a.method)[a.n]
    BY <1>5
  <2>2. a.n <= Len(Args(a.method))
    BY <1>5
  <2>3. \E q \in Parses(Append(s, v)) :
          /\ ParsedBy(Append(s, v), q)
          /\ q[Len(s) + 1] = a
          /\ s # <<>> => q[1] = p[1]
    BY <1>1, <1>5, <1>7, <1>8, <2>1, <2>2, AppendParse
  <2> QED
    BY <2>3 DEF t
<1>10. (IF serve[c].at = "args"
          THEN /\ q[1] = [method |-> serve[c].method, n |-> serve[c].n + 1]
               /\ t[1].id = serve[c].id
          ELSE q[1].n = 0)
  BY <1>6, <1>7, <1>8, <1>9 DEF Begins
<1>11. \/ \E i \in Threads[c] : At(call'[c][i], q[Len(t)], t[Len(t)].id)
       \/ Idle(c)' /\ Complete(q[Len(t)]) /\ Results(q[Len(t)].method) = <<>>
  <2>1. CASE Sent(k) /\ ~Awaits(k)
    <3>1. Idle(c)'
      BY <2>1 DEF Idle
    <3>2. Complete(a) /\ Results(a.method) = <<>>
      BY <1>4, <1>5, <2>1, EmptySeq DEF Sent, Awaits, Complete, Args, Results
    <3> QED
      BY <1>6, <1>9, <3>1, <3>2
  <2>2. CASE ~(Sent(k) /\ ~Awaits(k))
    <3>1. At(call'[c][h], a, v.id)
      BY <1>5, <2>2 DEF At
    <3> QED
      BY <1>6, <1>9, <3>1
  <2> QED
    BY <2>1, <2>2
<1>12. Parsed(c, q)'
  BY <1>1, <1>9, <1>10, <1>11 DEF Parsed, Begins, Ends
<1>13. /\ serve'[c].at \notin {"leave", "gone"}
       /\ reply'[c] = <<>> /\ AnswersNobody(c)'
  BY <1>2, <1>7 DEF Sync, AnswersNobody, AtWork
<1> QED
  BY <1>1, <1>6, <1>9, <1>12, <1>13 DEF Sync

LEMMA BeginKeeps ==
  ASSUME IInv, NEW c \in Clients, NEW h \in Threads[c], Begin(c, h)
  PROVE  IInv'
<1> DEFINE m == Head(plan[c][h])
           k == [method |-> m, id |-> Id(c, h), sent |-> 0, got |-> 0]
           v == Value(m, Id(c, h))
<1>1. plan[c] \in [Threads[c] -> Seq(Methods)] /\ plan[c][h] # <<>>
  BY DEF IInv, TypeOK, Begin
<1>2. m \in Methods /\ Tail(plan[c][h]) \in Seq(Methods)
  BY <1>1, HeadTailProperties
<1>3. Id(c, h) \in Ids
  <2>1. Len(plan[c][h]) \in Nat
    BY <1>1, LenProperties
  <2> QED
    BY <2>1 DEF Id, Ids
<1>4. k \in Calls /\ v \in Values
  BY <1>2, <1>3 DEF Calls, Ids, Values, Value
<1>5. /\ k.method = m /\ k.id = Id(c, h) /\ k.sent = 0 /\ k.got = 0
      /\ v.type = m /\ v.id = Id(c, h)
  BY DEF Value
<1>6. /\ Goes(c, h, k) /\ c \in live /\ \A i \in Threads[c] : call[c][i] = None
      /\ request' = [request EXCEPT ![c] = Append(@, v)]
      /\ plan' = [plan EXCEPT ![c][h] = Tail(plan[c][h])]
      /\ UNCHANGED <<reply, live, serve, services, events, noteVars, quitVars>>
  BY DEF Begin, MutexFree
<1> HIDE DEF k, v
<1>7. /\ call' = [d \in Clients |-> call'[d]]
      /\ \A d \in Clients \ {c} : call'[d] = call[d]
      /\ call'[c] \in [Threads[c] -> Calls \cup {None}]
      /\ call'[c][h] = IF Sent(k) /\ ~Awaits(k) THEN None ELSE k
      /\ \A i \in Threads[c] \ {h} : call'[c][i] = call[c][i]
      /\ k # None
  BY <1>4, <1>6, GoesTo
<1>8. /\ plan' = [d \in Clients |-> plan'[d]]
      /\ \A d \in Clients \ {c} : plan'[d] = plan[d]
      /\ plan'[c] \in [Threads[c] -> Seq(Methods)]
  <2>1. plan = [d \in Clients |-> plan[d]]
    BY DEF IInv, Shape
  <2>2. plan'[c] = [plan[c] EXCEPT ![h] = Tail(plan[c][h])]
    BY <1>6, <2>1
  <2> QED
    BY <1>1, <1>2, <1>6, <2>1, <2>2
<1>9. /\ request' \in [Clients -> Seq(Values)]
      /\ \A d \in Clients \ {c} : request'[d] = request[d]
  <2>1. request \in [Clients -> Seq(Values)]
    BY DEF IInv, Shape
  <2>2. Append(request[c], v) \in Seq(Values)
    BY <1>4, <2>1, AppendProperties
  <2> QED
    BY <1>6, <2>1, <2>2
<1>10. Len(Args(k.method)) \in Nat /\ Len(Results(k.method)) \in Nat
  BY <1>2, <1>5, MethodWires
<1>11. Sync(c)'
  <2>1. /\ \A i \in Threads[c] \ {h} : call[c][i] = None /\ call'[c][i] = None
        /\ reply' = reply /\ serve' = serve /\ c \in live
        /\ k.got = 0 /\ k.sent = 0 /\ k.sent <= Len(Args(k.method)) /\ v.id = k.id
        /\ v.type = k.method /\ call[c][h] = None
    BY <1>5, <1>6, <1>7, <1>10
  <2> QED
    BY <1>4, <1>6, <1>7, <2>1, WritesOn
<1>12. CallsRight(c)'
  BY <1>4, <1>5, <1>6, <1>7, <1>10, GoesRight
<1>13. ClientRight(c)'
  BY <1>6, <1>11, <1>12 DEF IInv, ClientRight, ServeRight, AtWork
<1>14. reply' \in [Clients -> Seq(Values)] /\ \A d \in Clients \ {c} : reply'[d] = reply[d]
  BY <1>6 DEF IInv, Shape
<1> QED
  BY <1>6, <1>7, <1>8, <1>9, <1>13, <1>14, ClientFrame

LEMMA EncodeKeeps ==
  ASSUME IInv, NEW c \in Clients, NEW h \in Threads[c], Encode(c, h)
  PROVE  IInv'
<1> DEFINE k0 == call[c][h]
           k == [k0 EXCEPT !.sent = @ + 1]
           v == Value(Args(k0.method)[k0.sent + 1], k0.id)
<1>1. /\ k0 \in Calls /\ k0 # None /\ ~Sent(k0) /\ CallsRight(c)
      /\ Goes(c, h, k) /\ c \in live
      /\ request' = [request EXCEPT ![c] = Append(@, v)]
      /\ UNCHANGED <<plan, reply, live, serve, services, events, noteVars, quitVars>>
  BY DEF Encode, IInv, TypeOK, ClientRight, Args
<1>2. /\ k0.method \in Methods /\ k0.id \in Ids /\ k0.sent \in 0..2 /\ k0.got \in 0..2
      /\ Args(k0.method) \in Seq(STRING) /\ Len(Args(k0.method)) \in 0..2
      /\ Len(Results(k0.method)) \in 0..2
  BY <1>1, MethodWires DEF Calls, Ids
<1>3. k0.sent < Len(Args(k0.method)) /\ k0.got <= Len(Results(k0.method))
  BY <1>1, <1>2 DEF Sent, CallsRight, Args
<1>4. k0.got = 0
  <2>1. Sync(c)
    BY <1>1 DEF IInv, ClientRight
  <2>2. PICK p \in Parses(request[c]) : Parsed(c, p)
    BY <2>1 DEF Sync
  <2>3. \A i \in Threads[c] : call[c][i] # None => i = h
    BY <1>1 DEF CallsRight
  <2>4. CASE request[c] = <<>>
    BY <1>1, <2>1, <2>3, <2>4 DEF Sync, Idle, Waits
  <2>5. CASE request[c] # <<>>
    BY <1>1, <2>2, <2>3, <2>5 DEF Parsed, Ends, Idle, At
  <2> QED
    BY <2>4, <2>5
<1>5. k \in Calls /\ v \in Values
  <2>1. Args(k0.method)[k0.sent + 1] \in STRING
    BY <1>2, <1>3, ElementOfSeq
  <2>2. k0.sent + 1 \in 0..2
    <3>1. \A n, l \in 0..2 : n < l => n + 1 \in 0..2
      OBVIOUS
    <3> QED
      BY <1>2, <1>3, <3>1
  <2> QED
    BY <1>1, <1>2, <2>1, <2>2 DEF Calls, Values, Value
<1>6. /\ k.method = k0.method /\ k.id = k0.id /\ k.sent = k0.sent + 1 /\ k.got = k0.got
      /\ v.type = Args(k0.method)[k0.sent + 1] /\ v.id = k0.id
  BY <1>1 DEF Calls, Value
<1>7. At(k0, [method |-> k.method, n |-> k.sent - 1], k.id)
  BY <1>1, <1>2, <1>4, <1>6 DEF At
<1> HIDE DEF k, v, k0
<1>8. /\ call' = [d \in Clients |-> call'[d]]
      /\ \A d \in Clients \ {c} : call'[d] = call[d]
      /\ call'[c] \in [Threads[c] -> Calls \cup {None}]
      /\ call'[c][h] = IF Sent(k) /\ ~Awaits(k) THEN None ELSE k
      /\ \A i \in Threads[c] \ {h} : call'[c][i] = call[c][i]
      /\ k # None
  BY <1>1, <1>5, GoesTo
<1>9. \A i \in Threads[c] \ {h} : call[c][i] = None
  BY <1>1 DEF CallsRight, k0
<1>10. /\ request' \in [Clients -> Seq(Values)]
       /\ \A d \in Clients \ {c} : request'[d] = request[d]
  <2>1. request \in [Clients -> Seq(Values)]
    BY DEF IInv, Shape
  <2>2. Append(request[c], v) \in Seq(Values)
    BY <1>5, <2>1, AppendProperties
  <2> QED
    BY <1>1, <2>1, <2>2
<1>11. k.sent <= Len(Args(k.method)) /\ k.got <= Len(Results(k.method))
       /\ k.got = 0 /\ k.sent # 0 /\ v.id = k.id /\ v.type = Args(k.method)[k.sent]
  BY <1>2, <1>3, <1>4, <1>6
<1>12. Sync(c)'
  <2>1. /\ \A i \in Threads[c] \ {h} : call[c][i] = None /\ call'[c][i] = None
        /\ reply' = reply /\ serve' = serve /\ c \in live
        /\ At(call[c][h], [method |-> k.method, n |-> k.sent - 1], k.id)
    BY <1>1, <1>7, <1>8, <1>9 DEF k0
  <2> QED
    BY <1>1, <1>5, <1>8, <1>11, <2>1, WritesOn
<1>13. CallsRight(c)'
  BY <1>5, <1>8, <1>9, <1>11, GoesRight
<1>14. ClientRight(c)'
  BY <1>1, <1>12, <1>13 DEF IInv, ClientRight, ServeRight, AtWork
<1>15. /\ reply' \in [Clients -> Seq(Values)] /\ plan' = [d \in Clients |-> plan'[d]]
       /\ plan'[c] \in [Threads[c] -> Seq(Methods)]
       /\ \A d \in Clients \ {c} : reply'[d] = reply[d] /\ plan'[d] = plan[d]
  BY <1>1 DEF IInv, Shape, TypeOK
<1> QED
  BY <1>1, <1>8, <1>10, <1>14, <1>15, ClientFrame

\* Nothing is left to parse.
LEMMA EmptyParse ==
  ASSUME NEW c \in Clients, request'[c] = <<>>
  PROVE  (\E p \in Parses(request[c]) : Parsed(c, p))'
<1> DEFINE p == [j \in DOMAIN request'[c] |-> [method |-> CHOOSE m \in Methods : TRUE, n |-> 0]]
<1>1. DOMAIN request'[c] = {}
  <2>1. <<>> \in Seq(Values) /\ Len(<<>>) = 0
    BY EmptySeq
  <2>2. DOMAIN request'[c] = 1 .. 0
    BY <2>1, LenProperties
  <2> QED
    BY <2>2
<1>2. p \in [DOMAIN request'[c] -> [method : Methods, n : Nat]]
  BY <1>1
<1>3. \A j \in DOMAIN request'[c] : FALSE
  BY <1>1
<1> HIDE DEF p
<1>4. ParsedBy(request'[c], p)
  BY <1>3 DEF ParsedBy
<1>5. (Begins(c, request'[c], p) /\ Ends(c, request'[c], p))
  BY DEF Begins, Ends
<1> QED
  BY <1>2, <1>4, <1>5 DEF Parses, Parsed, Begins, Ends

LEMMA DecodeKeeps ==
  ASSUME IInv, NEW c \in Clients, NEW h \in Threads[c], Decode(c, h)
  PROVE  IInv'
<1> DEFINE k0 == call[c][h]
           k == [k0 EXCEPT !.got = @ + 1]
           s == reply[c]
<1>1. /\ k0 \in Calls /\ k0 # None /\ Sent(k0) /\ Awaits(k0) /\ s # <<>> /\ c \in live
      /\ CallsRight(c) /\ ServeRight(c) /\ Sync(c)
      /\ IF Head(s).type = Expected(k0) THEN Goes(c, h, k)
         ELSE call' = [call EXCEPT ![c][h] = None]
      /\ reply' = [reply EXCEPT ![c] = Tail(s)]
      /\ UNCHANGED <<plan, request, live, serve, services, events, noteVars, quitVars>>
  BY DEF Decode, IInv, TypeOK, ClientRight
<1>2. /\ k0.method \in Methods /\ k0.id \in Ids /\ k0.sent \in 0..2 /\ k0.got \in 0..2
      /\ Len(Args(k0.method)) \in 0..2
      /\ Results(k0.method) \in Seq(STRING) /\ Len(Results(k0.method)) \in 0..2
  BY <1>1, MethodWires DEF Calls, Ids
<1>3. /\ s \in Seq(Values) /\ Tail(s) \in Seq(Values) /\ Head(s) = s[1]
      /\ Len(s) \in Nat \ {0} /\ Len(Tail(s)) = Len(s) - 1
      /\ \A i \in 1 .. Len(Tail(s)) : Tail(s)[i] = s[i + 1]
  BY <1>1, HeadTailProperties, EmptySeq, LenProperties DEF IInv, Shape
<1>4. \A i \in Threads[c] : call[c][i] # None => i = h
  BY <1>1 DEF CallsRight
<1>5. request[c] = <<>> /\ Waits(c, k0)
  BY <1>1, <1>4 DEF Sync, Idle
<1>6. k0.got < Len(Results(k0.method))
  BY <1>1 DEF Awaits, Results
<1>7. PICK n \in 0..2 :
        /\ Answered(c, k0, n) /\ n <= Len(Results(k0.method))
        /\ \/ /\ serve[c].at = "results" /\ IsServed(c, k0) /\ n = serve[c].n
              /\ n < Len(Results(k0.method))
           \/ serve[c].at = "method" /\ n = Len(Results(k0.method))
  <2>1. CASE serve[c].at = "results" /\ IsServed(c, k0) /\ Answered(c, k0, serve[c].n)
    <3>1. serve[c].n \in Nat /\ serve[c].n < Len(Results(k0.method))
      BY <1>1, <2>1 DEF ServeRight, IsServed, IInv, Shape, Serves
    <3>2. \A i \in Nat, l \in 0..2 : i < l => i \in 0..2 /\ i <= l
      OBVIOUS
    <3> QED
      BY <1>2, <2>1, <3>1, <3>2
  <2>2. CASE serve[c].at = "method" /\ Answered(c, k0, Len(Results(k0.method)))
    <3>1. \A l \in 0..2 : l <= l
      OBVIOUS
    <3> QED
      BY <1>2, <2>2, <3>1
  <2> QED
    BY <1>1, <1>5, <2>1, <2>2 DEF Waits
<1>8. /\ k0.got + 1 <= n /\ Len(s) = n - k0.got
      /\ \A i \in 1 .. Len(s) : s[i] = Value(Results(k0.method)[k0.got + i], k0.id)
  BY <1>2, <1>3, <1>7 DEF Answered
<1>9. Goes(c, h, k)
  <2>1. 1 \in 1 .. Len(s)
    BY <1>3
  <2>2. s[1] = Value(Results(k0.method)[k0.got + 1], k0.id)
    BY <1>8, <2>1
  <2>3. Head(s).type = Expected(k0)
    BY <1>3, <2>2 DEF Value, Expected, Results
  <2> QED
    BY <1>1, <2>3
<1>10. /\ k \in Calls /\ k.method = k0.method /\ k.id = k0.id
       /\ k.sent = k0.sent /\ k.got = k0.got + 1
  <2>1. \A i, l \in 0..2 : i < l => i + 1 \in 0..2
    OBVIOUS
  <2>2. k0.got + 1 \in 0..2
    BY <1>2, <1>6, <2>1
  <2> QED
    BY <1>1, <2>2 DEF Calls
<1> HIDE DEF k0, k, s
<1>11. /\ call' = [d \in Clients |-> call'[d]]
       /\ \A d \in Clients \ {c} : call'[d] = call[d]
       /\ call'[c] \in [Threads[c] -> Calls \cup {None}]
       /\ call'[c][h] = IF Sent(k) /\ ~Awaits(k) THEN None ELSE k
       /\ \A i \in Threads[c] \ {h} : call'[c][i] = call[c][i]
       /\ k # None
  BY <1>9, <1>10, GoesTo
<1>12. k.sent <= Len(Args(k.method)) /\ k.got <= Len(Results(k.method)) /\ Sent(k)
  <2>1. Sent(k)
    BY <1>1, <1>10 DEF Sent
  <2>2. k.got <= Len(Results(k.method))
    BY <1>2, <1>6, <1>10
  <2> QED
    BY <1>2, <1>10, <2>1, <2>2 DEF Sent, Args
<1>13. CallsRight(c)'
  BY <1>4, <1>10, <1>11, <1>12, GoesRight
<1>14. reply'[c] = Tail(s) /\ \A d \in Clients \ {c} : reply'[d] = reply[d]
  BY <1>1 DEF IInv, Shape
<1>15. /\ k.got <= n /\ Len(Tail(s)) = n - k.got
       /\ \A i \in 1 .. Len(Tail(s)) : Tail(s)[i] = Value(Results(k.method)[k.got + i], k.id)
  <2>1. k.got <= n /\ Len(Tail(s)) = n - k.got
    BY <1>2, <1>3, <1>8, <1>10
  <2>2. ASSUME NEW i \in 1 .. Len(Tail(s))
        PROVE  Tail(s)[i] = Value(Results(k.method)[k.got + i], k.id)
    <3>1. i \in Nat /\ i + 1 \in 1 .. Len(s) /\ k0.got + (i + 1) = k.got + i
      BY <1>2, <1>3, <1>10
    <3>2. Tail(s)[i] = Value(Results(k0.method)[k0.got + (i + 1)], k0.id)
      BY <1>3, <1>8, <3>1
    <3> QED
      BY <1>10, <3>1, <3>2
  <2> QED
    BY <2>1, <2>2
<1>16. \/ Idle(c)' /\ Tail(s) = <<>> /\ serve[c].at = "method"
       \/ \E i \in Threads[c] : call'[c][i] # None /\ Waits(c, call[c][i])'
  <2>1. CASE ~Awaits(k)
    <3>1. Idle(c)'
      BY <1>4, <1>11, <1>12, <2>1 DEF Idle
    <3>2. k.got = Len(Results(k.method))
      BY <1>2, <1>10, <1>12, <2>1 DEF Awaits, Results
    <3>3. n = k.got /\ serve[c].at = "method"
      <4>1. \A i, l \in 0..2 : i <= l /\ l <= i => i = l
        OBVIOUS
      <4> QED
        BY <1>2, <1>7, <1>10, <1>15, <3>2, <4>1
    <3>4. Len(Tail(s)) = 0
      <4>1. n - n = 0
        OBVIOUS
      <4> QED
        BY <1>15, <3>3, <4>1
    <3> QED
      BY <1>3, <3>1, <3>3, <3>4, EmptySeq
  <2>2. CASE Awaits(k)
    <3>1. call'[c][h] = k
      BY <1>11, <2>2
    <3>2. /\ serve'[c] = serve[c]
          /\ Len(reply'[c]) = n - k.got /\ k.got <= n
          /\ \A i \in 1 .. Len(reply'[c]) :
               reply'[c][i] = Value(Results(k.method)[k.got + i], k.id)
      BY <1>1, <1>14, <1>15
    <3>3. Waits(c, call[c][h])'
      BY <1>7, <1>10, <1>12, <3>1, <3>2 DEF Waits, Answered, IsServed
    <3> QED
      BY <1>11, <3>1, <3>3
  <2> QED
    BY <2>1, <2>2
<1>17. Sync(c)'
  <2>1. request'[c] = <<>> /\ serve'[c] = serve[c]
    BY <1>1, <1>5
  <2>2. (\E p \in Parses(request[c]) : Parsed(c, p))'
    BY <2>1, EmptyParse
  <2> QED
    BY <1>1, <1>14, <1>16, <2>1, <2>2 DEF Sync, AnswersNobody, AtWork
<1>18. ClientRight(c)'
  BY <1>1, <1>13, <1>17 DEF IInv, ClientRight, ServeRight, AtWork
<1>19. /\ reply' \in [Clients -> Seq(Values)] /\ request' \in [Clients -> Seq(Values)]
       /\ plan' = [d \in Clients |-> plan'[d]] /\ plan'[c] \in [Threads[c] -> Seq(Methods)]
       /\ \A d \in Clients \ {c} : request'[d] = request[d] /\ plan'[d] = plan[d]
  <2>1. reply \in [Clients -> Seq(Values)]
    BY DEF IInv, Shape
  <2>2. reply' \in [Clients -> Seq(Values)]
    BY <1>1, <1>3, <2>1
  <2> QED
    BY <1>1, <2>2 DEF IInv, Shape, TypeOK
<1> QED
  BY <1>1, <1>11, <1>14, <1>18, <1>19, ClientFrame

LEMMA ExitKeeps ==
  ASSUME IInv, NEW c \in Clients, Exit(c)
  PROVE  IInv'
<1>1. /\ call' = [d \in Clients |-> call'[d]] /\ plan' = [d \in Clients |-> plan'[d]]
      /\ call'[c] = [h \in Threads[c] |-> None] /\ plan'[c] = [h \in Threads[c] |-> <<>>]
      /\ \A d \in Clients \ {c} : call'[d] = call[d] /\ plan'[d] = plan[d]
  BY DEF IInv, Shape, Exit
<1>2. /\ reply' \in [Clients -> Seq(Values)] /\ written' \in [Clients -> SUBSET (0..MaxNotes)]
      /\ \A d \in Clients \ {c} : reply'[d] = reply[d]
  <2>1. <<>> \in Seq(Values)
    BY EmptySeq
  <2>2. reply \in [Clients -> Seq(Values)] /\ written \in [Clients -> SUBSET (0..MaxNotes)]
    BY DEF IInv, Shape, TypeOK
  <2> QED
    BY <2>1, <2>2 DEF Exit
<1>3. /\ live' = live \ {c}
      /\ UNCHANGED <<request, serve, services, events, writers, notes, quitVars>>
  BY DEF Exit
<1>4. TypeOK'
  <2>1. <<>> \in Seq(Methods)
    BY EmptySeq
  <2>2. \A d \in Clients : /\ call'[d] \in [Threads[d] -> Calls \cup {None}]
                           /\ plan'[d] \in [Threads[d] -> Seq(Methods)]
    <3>1. ASSUME NEW d \in Clients, d # c
          PROVE  /\ call'[d] \in [Threads[d] -> Calls \cup {None}]
                 /\ plan'[d] \in [Threads[d] -> Seq(Methods)]
      BY <1>1, <3>1 DEF IInv, TypeOK
    <3>2. /\ call'[c] \in [Threads[c] -> Calls \cup {None}]
          /\ plan'[c] \in [Threads[c] -> Seq(Methods)]
      BY <1>1, <2>1
    <3> QED
      BY <3>1, <3>2
  <2> QED
    BY <1>2, <1>3, <2>2 DEF IInv, TypeOK, quitVars
<1>5. Shape' /\ EventsOfServices'
  BY <1>1, <1>2, <1>3 DEF IInv, Shape, EventsOfServices
<1>6. ClientRight(c)'
  BY <1>1, <1>3 DEF IInv, ClientRight, CallsRight, ServeRight, AtWork, Idle
<1>7. ASSUME NEW d \in Clients \ {c} PROVE ClientRight(d)'
  BY <1>1, <1>2, <1>3, ClientKept DEF IInv
<1> QED
  BY <1>4, <1>5, <1>6, <1>7 DEF IInv

-----------------------------------------------------------------------------
(* ServeConn.                                                              *)

\* The arguments of k that are read, or the method that runs.
LEMMA ReadRight ==
  ASSUME IInv, NEW c \in Clients, NEW k \in Serves, Read(c, k), k.at = "args",
         k.method \in Methods, k.id \in Ids, k.n <= Len(Args(k.method))
  PROVE  /\ serve' \in [Clients -> Serves] /\ \A d \in Clients \ {c} : serve'[d] = serve[d]
         /\ serve'[c] = IF k.n = Len(Args(k.method)) THEN [k EXCEPT !.at = "run"] ELSE k
         /\ ServeRight(c)'
<1> DEFINE r == IF k.n = Len(Args(k.method)) THEN [k EXCEPT !.at = "run"] ELSE k
<1>1. serve' = [serve EXCEPT ![c] = r] /\ Len(Args(k.method)) \in Nat
  <2>1. ServerCases[k.method].args = Args(k.method) /\ Len(Args(k.method)) \in 0..2
    BY MethodWires
  <2> QED
    BY <2>1 DEF Read
<1>2. r \in Serves /\ r.method = k.method /\ r.id = k.id /\ r.n = k.n
  BY DEF Serves
<1>3. /\ r.at \in {"args", "run"}
      /\ r.at = "args" => r.n < Len(Args(r.method))
  BY <1>1 DEF Serves
<1> HIDE DEF r
<1>4. /\ serve' \in [Clients -> Serves] /\ \A d \in Clients \ {c} : serve'[d] = serve[d]
      /\ serve'[c] = r
  BY <1>1, <1>2 DEF IInv, Shape
<1>5. ServeRight(c)'
  BY <1>2, <1>3, <1>4 DEF ServeRight, AtWork
<1> QED
  BY <1>4, <1>5 DEF r

\* The results of k that are written, or the next call.
LEMMA WriteRight ==
  ASSUME IInv, NEW c \in Clients, NEW k \in Serves, Write(c, k), k.at = "results",
         k.method \in Methods, k.id \in Ids, k.n <= Len(Results(k.method))
  PROVE  /\ serve' \in [Clients -> Serves] /\ \A d \in Clients \ {c} : serve'[d] = serve[d]
         /\ serve'[c] = IF k.n = Len(Results(k.method)) THEN Reading ELSE k
         /\ ServeRight(c)'
<1> DEFINE r == IF k.n = Len(Results(k.method)) THEN Reading ELSE k
<1>1. serve' = [serve EXCEPT ![c] = r] /\ Len(Results(k.method)) \in Nat
  <2>1. ServerCases[k.method].results = Results(k.method) /\ Len(Results(k.method)) \in 0..2
    BY MethodWires
  <2> QED
    BY <2>1 DEF Write
<1>2. r \in Serves
  BY DEF Serves, Reading
<1>3. r.at = "method" \/ (r = k /\ k.n < Len(Results(k.method)))
  <2>1. \A i, l \in Nat : i <= l => i = l \/ i < l
    OBVIOUS
  <2>2. k.n = Len(Results(k.method)) \/ k.n < Len(Results(k.method))
    BY <1>1, <2>1 DEF Serves
  <2> QED
    BY <2>2 DEF Reading
<1> HIDE DEF r
<1>4. /\ serve' \in [Clients -> Serves] /\ \A d \in Clients \ {c} : serve'[d] = serve[d]
      /\ serve'[c] = r
  BY <1>1, <1>2 DEF IInv, Shape
<1>5. ServeRight(c)'
  BY <1>3, <1>4 DEF ServeRight, AtWork
<1> QED
  BY <1>4, <1>5 DEF r

\* A value that is read, the last one of k, of a client that runs.
LEMMA ReadsOn ==
  ASSUME IInv, NEW c \in Clients, c \in live, NEW k \in Serves, k.at = "args",
         k.method \in Methods, request[c] # <<>>,
         NEW p \in Parses(request[c]), Parsed(c, p),
         p[1] = [method |-> k.method, n |-> k.n], request[c][1].id = k.id,
         serve'[c] = IF k.n = Len(Args(k.method)) THEN [k EXCEPT !.at = "run"] ELSE k,
         request'[c] = Tail(request[c]), call' = call, reply' = reply
  PROVE  Sync(c)'
<1> DEFINE s == request[c]
           t == Tail(s)
<1>1. s \in Seq(Values) /\ Len(Args(k.method)) \in Nat
  BY MethodWires DEF IInv, Shape
<1>2. Sync(c)
  BY DEF IInv, ClientRight
<1>3. ParsedBy(s, p) /\ Ends(c, s, p)
  BY DEF Parsed
<1>4. PICK q \in Parses(t) :
        /\ ParsedBy(t, q)
        /\ t # <<>> => q[1] = p[2] /\ q[Len(t)] = p[Len(s)]
  BY <1>1, <1>3, TailParse
<1>5. /\ t # <<>> => 2 \in DOMAIN s /\ t[1] = s[2] /\ t[Len(t)] = s[Len(s)]
      /\ t = <<>> => Len(s) = 1
  BY <1>1, <1>3, TailParse
<1>6. /\ k.n = Len(Args(k.method)) => /\ serve'[c].at = "run" /\ serve'[c].method = k.method
                                      /\ serve'[c].id = k.id /\ Complete(p[1])
      /\ k.n # Len(Args(k.method)) => serve'[c] = k /\ ~Complete(p[1])
  BY DEF Serves, Complete
<1>7. 1 \in DOMAIN s /\ 1 + 1 = 2
  BY <1>1, EmptySeq, LenProperties
<1> HIDE DEF s, t
<1>8. t # <<>> =>
        IF k.n = Len(Args(k.method))
          THEN p[2].n = 0 /\ Results(k.method) = <<>>
          ELSE p[2] = [method |-> k.method, n |-> k.n + 1] /\ t[1].id = k.id
  <2>1. 2 \in DOMAIN s =>
          IF Complete(p[1])
            THEN p[2].n = 0 /\ Results(p[1].method) = <<>>
            ELSE p[2] = [method |-> p[1].method, n |-> p[1].n + 1] /\ s[2].id = s[1].id
    BY <1>3, <1>7 DEF ParsedBy
  <2> QED
    BY <1>5, <1>6, <2>1 DEF s
<1>9. (t # <<>> =>
         IF serve'[c].at = "args"
           THEN /\ q[1] = [method |-> serve'[c].method, n |-> serve'[c].n + 1]
                /\ t[1].id = serve'[c].id
           ELSE q[1].n = 0)
  BY <1>4, <1>6, <1>8
<1>10. (t # <<>> =>
          \/ \E h \in Threads[c] : At(call[c][h], q[Len(t)], t[Len(t)].id)
          \/ Idle(c) /\ Complete(q[Len(t)]) /\ Results(q[Len(t)].method) = <<>>)
  BY <1>3, <1>4, <1>5, <1>7 DEF Ends, s
<1>11. request'[c] = t /\ Idle(c)' = Idle(c) /\ request[c] = s
  BY DEF s, t, Idle
<1>12. Parsed(c, q)'
  BY <1>4, <1>9, <1>10, <1>11 DEF Parsed, Begins, Ends
<1>13. /\ serve'[c].at \in {"args", "run"} /\ reply'[c] = <<>>
       /\ t # <<>> => AnswersNobody(c)'
  BY <1>2, <1>6, <1>8 DEF Sync, AnswersNobody, AtWork
<1>14. t = <<>> =>
         \/ Idle(c) /\ serve'[c].at # "args" /\ AnswersNobody(c)'
         \/ \E h \in Threads[c] : call[c][h] # None /\ Waits(c, call[c][h])'
  <2>1. SUFFICES ASSUME t = <<>>
                 PROVE  \/ Idle(c) /\ serve'[c].at # "args" /\ AnswersNobody(c)'
                        \/ \E h \in Threads[c] : call[c][h] # None /\ Waits(c, call[c][h])'
    OBVIOUS
  <2>2. CASE Idle(c) /\ Complete(p[1]) /\ Results(p[1].method) = <<>>
    BY <1>6, <2>2 DEF AnswersNobody, AtWork
  <2>3. CASE \E h \in Threads[c] : At(call[c][h], p[1], s[1].id)
    <3>1. PICK h \in Threads[c] : At(call[c][h], p[1], s[1].id)
      BY <2>3
    <3>2. /\ call[c][h] # None /\ call[c][h].method = k.method /\ call[c][h].sent = k.n
          /\ call[c][h].id = k.id /\ call[c][h].got = 0
      BY <3>1 DEF At, s
    <3>3. Waits(c, call[c][h])'
      <4>1. CASE k.n = Len(Args(k.method))
        BY <1>6, <1>13, <3>2, <4>1 DEF Waits, AtWork, IsServed, Sent, Args
      <4>2. CASE k.n # Len(Args(k.method))
        BY <1>6, <1>13, <3>2, <4>2 DEF Waits, IsServed
      <4> QED
        BY <4>1, <4>2
    <3> QED
      BY <3>2, <3>3
  <2>4. s # <<>> /\ Len(s) = 1
    BY <1>5, <2>1 DEF s
  <2>5. \/ \E h \in Threads[c] : At(call[c][h], p[1], s[1].id)
        \/ Idle(c) /\ Complete(p[1]) /\ Results(p[1].method) = <<>>
    BY <1>3, <2>4 DEF Ends
  <2> QED
    BY <2>2, <2>3, <2>5
<1> QED
  BY <1>4, <1>11, <1>12, <1>13, <1>14 DEF Sync

\* ServeConn gives up only a client whose process has ended.
LEMMA GiveUpRight ==
  ASSUME IInv, NEW c \in Clients, c \notin live, serve[c].at # "start", GiveUp(c),
         call' = call, live' = live
  PROVE  /\ serve' \in [Clients -> Serves] /\ \A d \in Clients \ {c} : serve'[d] = serve[d]
         /\ serve'[c].at = "leave" /\ ClientRight(c)'
<1>1. serve \in [Clients -> Serves] /\ Idle(c) /\ CallsRight(c)
  BY DEF IInv, Shape, ClientRight
<1>2. [serve[c] EXCEPT !.at = "leave"] \in Serves
  BY <1>1 DEF Serves
<1>3. serve' = [serve EXCEPT ![c] = [serve[c] EXCEPT !.at = "leave"]]
  BY DEF GiveUp
<1>4. serve' \in [Clients -> Serves] /\ \A d \in Clients \ {c} : serve'[d] = serve[d]
  BY <1>1, <1>2, <1>3
<1>5. serve'[c].at = "leave"
  BY <1>1, <1>3 DEF Serves
<1>6. ServeRight(c)' /\ CallsRight(c)' /\ Idle(c)'
  BY <1>1, <1>5 DEF ServeRight, AtWork, CallsRight, Idle
<1> QED
  BY <1>4, <1>5, <1>6 DEF ClientRight

\* A step that reads: the frame of ReadMethod and ReadArgument.
LEMMA ReadFrame ==
  ASSUME IInv, NEW c \in Clients, serve' \in [Clients -> Serves], serve[c].at # "start",
         \A d \in Clients \ {c} : serve'[d] = serve[d],
         serve'[c].at \in {"args", "run", "leave"},
         \/ request' = request
         \/ request[c] # <<>> /\ request' = [request EXCEPT ![c] = Tail(@)],
         UNCHANGED <<call, plan, reply, live, services, events, noteVars, quitVars>>,
         ClientRight(c)'
  PROVE  IInv'
<1>1. /\ request \in [Clients -> Seq(Values)] /\ reply \in [Clients -> Seq(Values)]
      /\ services \subseteq Clients /\ events \subseteq Clients
      /\ haveQuit \in BOOLEAN /\ quitSent \in BOOLEAN /\ quitLost \in BOOLEAN
      /\ c \in events => c \in services
  BY DEF IInv, Shape, TypeOK, EventsOfServices
<1>2. request[c] # <<>> => Tail(request[c]) \in Seq(Values)
  BY <1>1, HeadTailProperties
<1>3. /\ request' \in [Clients -> Seq(Values)]
      /\ \A d \in Clients \ {c} : request'[d] = request[d]
  BY <1>1, <1>2
<1>4. UNCHANGED <<call, plan, live, noteVars, manager>>
  BY DEF quitVars
<1>5. /\ reply' = reply /\ services' = services /\ events' = events
      /\ haveQuit' = haveQuit /\ quitSent' = quitSent /\ quitLost' = quitLost
  BY DEF quitVars
<1> QED
  BY <1>1, <1>3, <1>4, <1>5, ServeFrame

LEMMA ReadMethodKeeps ==
  ASSUME IInv, NEW c \in Clients, ReadMethod(c)
  PROVE  IInv'
<1> DEFINE v == Head(request[c])
           k == [at |-> "args", method |-> v.type, id |-> v.id, n |-> 0]
<1>1. /\ serve[c].at = "method" /\ call' = call /\ reply' = reply /\ live' = live
      /\ UNCHANGED <<call, plan, reply, live, services, events, noteVars, quitVars>>
      /\ \/ /\ request[c] # <<>>
            /\ IF v.type \in DOMAIN ServerCases THEN Read(c, k) ELSE GiveUp(c)
            /\ request' = [request EXCEPT ![c] = Tail(@)]
         \/ Broken(c) /\ GiveUp(c) /\ request' = request
  BY DEF ReadMethod
<1>2. request \in [Clients -> Seq(Values)] /\ CallsRight(c) /\ (c \notin live => Idle(c))
  BY DEF IInv, Shape, ClientRight
<1>3. CASE request[c] # <<>> /\ v.type \in DOMAIN ServerCases
  <2>1. v.type \in Methods
    BY <1>3, SameMethods DEF Methods
  <2>2. v \in Values /\ v = request[c][1]
    BY <1>2, <1>3, HeadTailProperties
  <2>3. k \in Serves /\ k.n <= Len(Args(k.method)) /\ k.id \in Ids
    <3>1. Len(Args(v.type)) \in 0..2
      BY <2>1, MethodWires
    <3>2. 0 <= Len(Args(v.type))
      BY <3>1
    <3> QED
      BY <2>1, <2>2, <3>2 DEF Serves, Values
  <2>4. Read(c, k) /\ request' = [request EXCEPT ![c] = Tail(@)]
    BY <1>1, <1>3 DEF Broken
  <2>5. /\ serve' \in [Clients -> Serves] /\ \A d \in Clients \ {c} : serve'[d] = serve[d]
        /\ serve'[c] = IF k.n = Len(Args(k.method)) THEN [k EXCEPT !.at = "run"] ELSE k
        /\ ServeRight(c)'
    BY <2>1, <2>3, <2>4, ReadRight
  <2>6. serve'[c].at \in {"args", "run"}
    BY <2>5
  <2>7. ASSUME c \in live PROVE Sync(c)'
    <3>1. PICK p \in Parses(request[c]) : Parsed(c, p)
      BY <2>7 DEF IInv, ClientRight, Sync
    <3>2. 1 \in DOMAIN request[c] /\ p[1] \in [method : Methods, n : Nat]
      BY <1>2, <1>3, EmptySeq, LenProperties DEF Parses
    <3>3. p[1].n = 0 /\ v.type = p[1].method
      BY <1>1, <1>3, <2>2, <3>1, <3>2 DEF Parsed, Begins, ParsedBy
    <3>4. p[1] = [method |-> k.method, n |-> k.n]
      BY <3>2, <3>3
    <3>5. request'[c] = Tail(request[c]) /\ request[c][1].id = k.id
      BY <1>2, <2>2, <2>4
    <3> HIDE DEF k, v
    <3> QED
      BY <1>1, <1>3, <2>1, <2>3, <2>5, <2>7, <3>1, <3>4, <3>5, ReadsOn DEF k
  <2>8. CallsRight(c)' /\ (c \notin live => Idle(c)')
    BY <1>1, <1>2 DEF CallsRight, Idle
  <2>9. ClientRight(c)'
    BY <1>1, <2>5, <2>7, <2>8 DEF ClientRight
  <2> HIDE DEF k, v
  <2> QED
    BY <1>1, <1>3, <2>4, <2>5, <2>6, <2>9, ReadFrame
<1>4. CASE request[c] # <<>> /\ v.type \notin DOMAIN ServerCases
  <2>1. c \notin live
    <3>1. SUFFICES ASSUME c \in live PROVE FALSE
      OBVIOUS
    <3>2. PICK p \in Parses(request[c]) : Parsed(c, p)
      BY <3>1 DEF IInv, ClientRight, Sync
    <3>3. 1 \in DOMAIN request[c] /\ p[1] \in [method : Methods, n : Nat] /\ v = request[c][1]
      BY <1>2, <1>4, EmptySeq, LenProperties, HeadTailProperties DEF Parses
    <3>4. v.type = p[1].method
      BY <1>1, <1>4, <3>2, <3>3 DEF Parsed, Begins, ParsedBy
    <3> QED
      BY <1>4, <3>3, <3>4, SameMethods DEF Methods
  <2>2. GiveUp(c) /\ request' = [request EXCEPT ![c] = Tail(@)]
    BY <1>1, <1>4 DEF Broken
  <2>3. /\ serve' \in [Clients -> Serves] /\ \A d \in Clients \ {c} : serve'[d] = serve[d]
        /\ serve'[c].at = "leave" /\ ClientRight(c)'
    BY <1>1, <2>1, <2>2, GiveUpRight
  <2> QED
    BY <1>1, <1>4, <2>2, <2>3, ReadFrame
<1>5. CASE Broken(c) /\ GiveUp(c) /\ request' = request
  <2>1. /\ serve' \in [Clients -> Serves] /\ \A d \in Clients \ {c} : serve'[d] = serve[d]
        /\ serve'[c].at = "leave" /\ ClientRight(c)'
    BY <1>1, <1>5, GiveUpRight DEF Broken
  <2> QED
    BY <1>1, <1>5, <2>1, ReadFrame
<1> QED
  BY <1>1, <1>3, <1>4, <1>5

LEMMA ReadArgumentKeeps ==
  ASSUME IInv, NEW c \in Clients, ReadArgument(c)
  PROVE  IInv'
<1> DEFINE v == Head(request[c])
           k0 == serve[c]
           k == [k0 EXCEPT !.n = @ + 1]
<1>1. /\ k0.at = "args" /\ call' = call /\ reply' = reply /\ live' = live
      /\ UNCHANGED <<call, plan, reply, live, services, events, noteVars, quitVars>>
      /\ \/ /\ request[c] # <<>>
            /\ IF v.type = ServerCases[k0.method].args[k0.n + 1] THEN Read(c, k) ELSE GiveUp(c)
            /\ request' = [request EXCEPT ![c] = Tail(@)]
         \/ Broken(c) /\ GiveUp(c) /\ request' = request
  BY DEF ReadArgument
<1>2. /\ request \in [Clients -> Seq(Values)] /\ CallsRight(c) /\ (c \notin live => Idle(c))
      /\ k0 \in Serves /\ k0.method \in Methods /\ k0.id \in Ids
      /\ k0.n < Len(Args(k0.method)) /\ k0.n \in Nat
  BY <1>1 DEF IInv, Shape, ClientRight, ServeRight, Serves
<1>3. /\ ServerCases[k0.method].args = Args(k0.method) /\ Len(Args(k0.method)) \in 0..2
      /\ k0.n + 1 <= Len(Args(k0.method))
  <2>1. ServerCases[k0.method].args = Args(k0.method) /\ Len(Args(k0.method)) \in 0..2
    BY <1>2, MethodWires
  <2>2. \A i \in Nat, l \in 0..2 : i < l => i + 1 <= l
    OBVIOUS
  <2> QED
    BY <1>2, <2>1, <2>2
<1>4. /\ k \in Serves /\ k.at = "args" /\ k.method = k0.method /\ k.id = k0.id
      /\ k.n = k0.n + 1
  BY <1>1, <1>2 DEF Serves
<1> HIDE DEF k
<1>5. CASE request[c] # <<>> /\ v.type = Args(k0.method)[k0.n + 1]
  <2>1. Read(c, k) /\ request' = [request EXCEPT ![c] = Tail(@)]
    BY <1>1, <1>3, <1>5 DEF Broken
  <2>2. /\ serve' \in [Clients -> Serves] /\ \A d \in Clients \ {c} : serve'[d] = serve[d]
        /\ serve'[c] = IF k.n = Len(Args(k.method)) THEN [k EXCEPT !.at = "run"] ELSE k
        /\ ServeRight(c)'
    BY <1>2, <1>3, <1>4, <2>1, ReadRight
  <2>3. serve'[c].at \in {"args", "run"}
    BY <1>4, <2>2 DEF Serves
  <2>4. ASSUME c \in live PROVE Sync(c)'
    <3>1. PICK p \in Parses(request[c]) : Parsed(c, p)
      BY <2>4 DEF IInv, ClientRight, Sync
    <3>2. p[1] = [method |-> k.method, n |-> k.n] /\ request[c][1].id = k.id
      BY <1>1, <1>4, <1>5, <3>1 DEF Parsed, Begins
    <3>3. request'[c] = Tail(request[c])
      BY <1>2, <2>1
    <3> QED
      BY <1>1, <1>2, <1>4, <1>5, <2>2, <2>4, <3>1, <3>2, <3>3, ReadsOn
  <2>5. CallsRight(c)' /\ (c \notin live => Idle(c)')
    BY <1>1, <1>2 DEF CallsRight, Idle
  <2>6. ClientRight(c)'
    BY <1>1, <2>2, <2>4, <2>5 DEF ClientRight
  <2> QED
    BY <1>1, <1>5, <2>1, <2>2, <2>3, <2>6, ReadFrame
<1>6. CASE request[c] # <<>> /\ v.type # Args(k0.method)[k0.n + 1]
  <2>1. c \notin live
    <3>1. SUFFICES ASSUME c \in live PROVE FALSE
      OBVIOUS
    <3>2. PICK p \in Parses(request[c]) : Parsed(c, p)
      BY <3>1 DEF IInv, ClientRight, Sync
    <3>3. 1 \in DOMAIN request[c] /\ v = request[c][1]
      BY <1>2, <1>6, EmptySeq, LenProperties, HeadTailProperties
    <3>4. p[1] = [method |-> k0.method, n |-> k0.n + 1]
      BY <1>1, <1>6, <3>2 DEF Parsed, Begins
    <3>5. v.type = Args(k0.method)[k0.n + 1]
      BY <1>2, <3>2, <3>3, <3>4 DEF Parsed, ParsedBy
    <3> QED
      BY <1>6, <3>5
  <2>2. GiveUp(c) /\ request' = [request EXCEPT ![c] = Tail(@)]
    BY <1>1, <1>3, <1>6 DEF Broken
  <2>3. /\ serve' \in [Clients -> Serves] /\ \A d \in Clients \ {c} : serve'[d] = serve[d]
        /\ serve'[c].at = "leave" /\ ClientRight(c)'
    BY <1>1, <2>1, <2>2, GiveUpRight
  <2> QED
    BY <1>1, <1>6, <2>2, <2>3, ReadFrame
<1>7. CASE Broken(c) /\ GiveUp(c) /\ request' = request
  <2>1. /\ serve' \in [Clients -> Serves] /\ \A d \in Clients \ {c} : serve'[d] = serve[d]
        /\ serve'[c].at = "leave" /\ ClientRight(c)'
    BY <1>1, <1>7, GiveUpRight DEF Broken
  <2> QED
    BY <1>1, <1>7, <2>1, ReadFrame
<1> QED
  BY <1>1, <1>5, <1>6, <1>7

\* What a step of ServeConn that reads nothing leaves of the pipes: they can be
\* parsed as before.
LEMMA SameParse ==
  ASSUME NEW c \in Clients, Sync(c), serve[c].at # "args", serve'[c].at # "args",
         request'[c] = request[c], call' = call
  PROVE  (\E p \in Parses(request[c]) : Parsed(c, p))'
<1>1. PICK p \in Parses(request[c]) : Parsed(c, p)
  BY DEF Sync
<1>2. p \in Parses(request[c])' /\ ParsedBy(request[c], p)'
  BY <1>1 DEF Parses, Parsed, ParsedBy
<1>3. Begins(c, request[c], p)'
  BY <1>1 DEF Parsed, Begins
<1>4. Ends(c, request[c], p)'
  BY <1>1 DEF Parsed, Ends, Idle
<1> QED
  BY <1>2, <1>3, <1>4 DEF Parsed

\* A method has returned: its answer begins, or there is none.
LEMMA AnswerRight ==
  ASSUME IInv, NEW c \in Clients, AtWork(c), Answer(c), UNCHANGED <<call, request, reply, live>>
  PROVE  /\ serve' \in [Clients -> Serves] /\ \A d \in Clients \ {c} : serve'[d] = serve[d]
         /\ serve'[c].at \in {"method", "results"}
         /\ ClientRight(c)'
<1> DEFINE k0 == serve[c]
           k == [k0 EXCEPT !.at = "results", !.n = 0]
<1>1. k0 \in Serves /\ k0.method \in Methods /\ k0.id \in Ids
  BY DEF IInv, Shape, ClientRight, ServeRight
<1>2. /\ k \in Serves /\ k.at = "results" /\ k.method = k0.method /\ k.id = k0.id /\ k.n = 0
      /\ Write(c, k)
  BY <1>1 DEF Serves, Answer
<1>3. /\ Results(k.method) \in Seq(STRING) /\ Len(Results(k.method)) \in 0..2
      /\ 0 <= Len(Results(k.method))
  <2>1. Results(k.method) \in Seq(STRING) /\ Len(Results(k.method)) \in 0..2
    BY <1>1, <1>2, MethodWires
  <2> QED
    BY <2>1
<1> HIDE DEF k
<1>4. /\ serve' \in [Clients -> Serves] /\ \A d \in Clients \ {c} : serve'[d] = serve[d]
      /\ serve'[c] = IF 0 = Len(Results(k.method)) THEN Reading ELSE k
      /\ ServeRight(c)'
  BY <1>1, <1>2, <1>3, WriteRight
<1>5. \/ Results(k.method) = <<>> /\ serve'[c].at = "method"
      \/ serve'[c] = k
  BY <1>3, <1>4, EmptySeq DEF Reading
<1>6. CallsRight(c)' /\ (c \notin live => Idle(c)')
  BY DEF IInv, ClientRight, CallsRight, Idle
<1>7. ASSUME c \in live PROVE Sync(c)'
  <2>1. Sync(c) /\ CallsRight(c)
    BY <1>7 DEF IInv, ClientRight
  <2>2. (\E p \in Parses(request[c]) : Parsed(c, p))'
    BY <1>2, <1>5, <2>1, SameParse DEF AtWork
  <2>3. ASSUME AnswersNobody(c) PROVE serve'[c].at = "method"
    <3>1. Results(k.method) = <<>>
      BY <1>2, <2>3 DEF AnswersNobody
    <3> QED
      BY <1>4, <3>1, EmptySeq DEF Reading
  <2>4. ASSUME NEW h \in Threads[c], call[c][h] # None, Waits(c, call[c][h])
        PROVE  Waits(c, call[c][h])'
    <3>1. /\ IsServed(c, call[c][h]) /\ Sent(call[c][h]) /\ call[c][h].got = 0
          /\ reply[c] = <<>> /\ Len(reply[c]) = 0
      BY <2>4, EmptySeq DEF Waits, AtWork
    <3>2. serve'[c] = k
      BY <1>2, <1>3, <1>5, <2>1, <2>4, <3>1, EmptySeq DEF CallsRight, Awaits, IsServed, Results
    <3>3. Answered(c, call[c][h], 0)'
      BY <3>1 DEF Answered
    <3> QED
      BY <1>2, <3>1, <3>2, <3>3 DEF Waits, IsServed, Sent
  <2> QED
    BY <1>2, <1>5, <2>1, <2>2, <2>3, <2>4 DEF Sync, AnswersNobody, AtWork, Idle
<1>8. ClientRight(c)'
  BY <1>4, <1>6, <1>7 DEF ClientRight
<1> QED
  BY <1>2, <1>4, <1>5, <1>8

\* A step that reads and writes nothing: the frame of the other steps.
LEMMA WorkFrame ==
  ASSUME IInv, NEW c \in Clients, serve' \in [Clients -> Serves],
         \A d \in Clients \ {c} : serve'[d] = serve[d],
         serve[c].at # "start", serve'[c].at \notin {"start", "gone"},
         UNCHANGED <<clientVars, services, events, noteVars, manager>>,
         haveQuit' \in BOOLEAN, quitSent' \in BOOLEAN, quitLost' \in BOOLEAN,
         ClientRight(c)'
  PROVE  IInv'
<1>1. /\ request' = request /\ reply' = reply /\ services' = services /\ events' = events
      /\ UNCHANGED <<call, plan, live, noteVars, manager>>
  BY DEF clientVars
<1>2. /\ request' \in [Clients -> Seq(Values)] /\ reply' \in [Clients -> Seq(Values)]
      /\ services' \subseteq Clients /\ events' \subseteq Clients
      /\ c \in events => c \in services
  BY <1>1 DEF IInv, Shape, TypeOK, EventsOfServices
<1> QED
  BY <1>1, <1>2, ServeFrame

LEMMA RunMethodKeeps ==
  ASSUME IInv, NEW c \in Clients, RunMethod(c)
  PROVE  IInv'
<1>1. AtWork(c) /\ Answer(c) /\ UNCHANGED <<clientVars, services, events, noteVars, quitVars>>
  BY DEF RunMethod, AtWork
<1>2. UNCHANGED <<call, request, reply, live>> /\ manager' = manager
      /\ haveQuit' \in BOOLEAN /\ quitSent' \in BOOLEAN /\ quitLost' \in BOOLEAN
  BY <1>1 DEF clientVars, quitVars, IInv, TypeOK
<1>3. /\ serve' \in [Clients -> Serves] /\ \A d \in Clients \ {c} : serve'[d] = serve[d]
      /\ serve'[c].at \in {"method", "results"} /\ ClientRight(c)'
  BY <1>1, <1>2, AnswerRight
<1> QED
  BY <1>1, <1>2, <1>3, WorkFrame DEF AtWork

LEMMA QuitRefusedKeeps ==
  ASSUME IInv, NEW c \in Clients, QuitRefused(c)
  PROVE  IInv'
<1>1. AtWork(c) /\ Answer(c) /\ UNCHANGED <<clientVars, services, events, noteVars, quitVars>>
  BY DEF QuitRefused, Quitting, AtWork
<1>2. UNCHANGED <<call, request, reply, live>> /\ manager' = manager
      /\ haveQuit' \in BOOLEAN /\ quitSent' \in BOOLEAN /\ quitLost' \in BOOLEAN
  BY <1>1 DEF clientVars, quitVars, IInv, TypeOK
<1>3. /\ serve' \in [Clients -> Serves] /\ \A d \in Clients \ {c} : serve'[d] = serve[d]
      /\ serve'[c].at \in {"method", "results"} /\ ClientRight(c)'
  BY <1>1, <1>2, AnswerRight
<1> QED
  BY <1>1, <1>2, <1>3, WorkFrame DEF AtWork

LEMMA QuitSendsKeeps ==
  ASSUME IInv, NEW c \in Clients, QuitSends(c)
  PROVE  IInv'
<1>1. AtWork(c) /\ Answer(c) /\ UNCHANGED <<clientVars, services, events, noteVars, manager>>
  BY DEF QuitSends, AtWork
<1>2. UNCHANGED <<call, request, reply, live>>
      /\ haveQuit' \in BOOLEAN /\ quitSent' \in BOOLEAN /\ quitLost' \in BOOLEAN
  BY <1>1 DEF QuitSends, clientVars, IInv, TypeOK
<1>3. /\ serve' \in [Clients -> Serves] /\ \A d \in Clients \ {c} : serve'[d] = serve[d]
      /\ serve'[c].at \in {"method", "results"} /\ ClientRight(c)'
  BY <1>1, <1>2, AnswerRight
<1> QED
  BY <1>1, <1>2, <1>3, WorkFrame DEF AtWork

\* Quit goes on: its client still waits.
LEMMA StaysAtWork ==
  ASSUME IInv, NEW c \in Clients, AtWork(c), NEW a \in {"forget", "uninstall"},
         serve' = [serve EXCEPT ![c].at = a], UNCHANGED <<call, request, reply, live>>
  PROVE  /\ serve' \in [Clients -> Serves] /\ \A d \in Clients \ {c} : serve'[d] = serve[d]
         /\ serve'[c].at = a /\ ClientRight(c)'
<1> DEFINE k == [serve[c] EXCEPT !.at = a]
<1>1. serve \in [Clients -> Serves] /\ serve' = [serve EXCEPT ![c] = k]
  BY DEF IInv, Shape
<1>2. /\ k \in Serves /\ k.at = a /\ k.method = serve[c].method /\ k.id = serve[c].id
  BY <1>1 DEF Serves
<1> HIDE DEF k
<1>3. /\ serve' \in [Clients -> Serves] /\ \A d \in Clients \ {c} : serve'[d] = serve[d]
      /\ serve'[c] = k
  BY <1>1, <1>2
<1>4. ServeRight(c)' /\ CallsRight(c)' /\ (c \notin live => Idle(c)') /\ AtWork(c)'
  BY <1>2, <1>3 DEF IInv, ClientRight, ServeRight, AtWork, CallsRight, Idle
<1>5. ASSUME c \in live PROVE Sync(c)'
  <2>1. Sync(c)
    BY <1>5 DEF IInv, ClientRight
  <2>2. (\E p \in Parses(request[c]) : Parsed(c, p))'
    BY <1>2, <1>3, <2>1, SameParse DEF AtWork
  <2>3. AnswersNobody(c) => AnswersNobody(c)'
    BY <1>2, <1>3 DEF AnswersNobody, AtWork
  <2>4. \A h \in Threads[c] : Waits(c, call[c][h]) => Waits(c, call[c][h])'
    BY <1>2, <1>3 DEF Waits, AtWork, IsServed, Sent
  <2> QED
    BY <1>2, <1>3, <2>1, <2>2, <2>3, <2>4 DEF Sync, Idle
<1> QED
  BY <1>2, <1>3, <1>4, <1>5 DEF ClientRight

LEMMA QuitClaimedKeeps ==
  ASSUME IInv, NEW c \in Clients, QuitClaimed(c)
  PROVE  IInv'
<1>1. /\ AtWork(c) /\ serve' = [serve EXCEPT ![c].at = "forget"]
      /\ UNCHANGED <<clientVars, services, events, noteVars, manager>>
      /\ UNCHANGED <<call, request, reply, live>>
      /\ haveQuit' \in BOOLEAN /\ quitSent' \in BOOLEAN /\ quitLost' \in BOOLEAN
  BY DEF QuitClaimed, Quitting, AtWork, clientVars, IInv, TypeOK
<1>2. /\ serve' \in [Clients -> Serves] /\ \A d \in Clients \ {c} : serve'[d] = serve[d]
      /\ serve'[c].at = "forget" /\ ClientRight(c)'
  BY <1>1, StaysAtWork
<1> QED
  BY <1>1, <1>2, WorkFrame DEF AtWork

LEMMA QuitForgetsKeeps ==
  ASSUME IInv, NEW c \in Clients, QuitForgets(c)
  PROVE  IInv'
<1>1. /\ AtWork(c) /\ serve' = [serve EXCEPT ![c].at = "uninstall"]
      /\ services' = services \ {c} /\ events' = events \ {c}
      /\ UNCHANGED <<call, request, reply, live>> /\ request' = request /\ reply' = reply
      /\ UNCHANGED <<call, plan, live, noteVars, manager>>
      /\ haveQuit' \in BOOLEAN /\ quitSent' \in BOOLEAN /\ quitLost' \in BOOLEAN
  BY DEF QuitForgets, AtWork, clientVars, quitVars, IInv, TypeOK
<1>2. /\ serve' \in [Clients -> Serves] /\ \A d \in Clients \ {c} : serve'[d] = serve[d]
      /\ ClientRight(c)'
  BY <1>1, StaysAtWork
<1>3. /\ request' \in [Clients -> Seq(Values)] /\ reply' \in [Clients -> Seq(Values)]
      /\ services' \subseteq Clients /\ events' \subseteq Clients
      /\ c \notin services' /\ c \notin events'
      /\ \A d \in Clients \ {c} : /\ d \in services' <=> d \in services
                                  /\ d \in events' <=> d \in events
                                  /\ request'[d] = request[d] /\ reply'[d] = reply[d]
  BY <1>1 DEF IInv, Shape, TypeOK
<1> QED
  BY <1>1, <1>2, <1>3, ServeFrame

LEMMA ListenKeeps ==
  ASSUME IInv, NEW c \in Clients, Listen(c)
  PROVE  IInv'
<1>1. /\ serve[c].at = "start" /\ services' = services \cup {c}
      /\ serve' = [serve EXCEPT ![c] = Reading] /\ events' = events
      /\ request' = request /\ reply' = reply /\ call' = call
      /\ UNCHANGED <<call, plan, live, noteVars, manager>>
      /\ haveQuit' \in BOOLEAN /\ quitSent' \in BOOLEAN /\ quitLost' \in BOOLEAN
  BY DEF Listen, clientVars, quitVars, IInv, TypeOK
<1>2. Reading \in Serves /\ Reading.at = "method"
  BY DEF Reading, Serves
<1>3. /\ serve' \in [Clients -> Serves] /\ \A d \in Clients \ {c} : serve'[d] = serve[d]
      /\ serve'[c].at = "method"
  BY <1>1, <1>2 DEF IInv, Shape
<1>4. /\ request' \in [Clients -> Seq(Values)] /\ reply' \in [Clients -> Seq(Values)]
      /\ services' \subseteq Clients /\ events' \subseteq Clients /\ c \in services'
      /\ \A d \in Clients \ {c} : /\ d \in services' <=> d \in services
                                  /\ d \in events' <=> d \in events
                                  /\ request'[d] = request[d] /\ reply'[d] = reply[d]
  BY <1>1 DEF IInv, Shape, TypeOK
<1>5. CallsRight(c)' /\ ServeRight(c)' /\ (c \notin live => Idle(c)')
  BY <1>1, <1>3 DEF IInv, ClientRight, CallsRight, ServeRight, AtWork, Idle
<1>6. ASSUME c \in live PROVE Sync(c)'
  <2>1. Sync(c)
    BY <1>6 DEF IInv, ClientRight
  <2>2. (\E p \in Parses(request[c]) : Parsed(c, p))'
    BY <1>1, <1>3, <2>1, SameParse
  <2>3. AnswersNobody(c)'
    BY <1>3 DEF AnswersNobody, AtWork
  <2>4. \A k : ~Waits(c, k)
    BY <1>1 DEF Waits, AtWork
  <2> QED
    BY <1>1, <1>3, <2>1, <2>2, <2>3, <2>4 DEF Sync, Idle
<1>7. ClientRight(c)'
  BY <1>1, <1>5, <1>6 DEF ClientRight
<1> QED
  BY <1>1, <1>3, <1>4, <1>7, ServeFrame

LEMMA LeaveKeeps ==
  ASSUME IInv, NEW c \in Clients, Leave(c)
  PROVE  IInv'
<1> DEFINE k == [serve[c] EXCEPT !.at = "gone"]
<1>1. /\ serve[c].at = "leave" /\ services' = services \ {c} /\ events' = events \ {c}
      /\ serve' = [serve EXCEPT ![c] = k]
      /\ request' = request /\ reply' = reply /\ call' = call
      /\ UNCHANGED <<call, plan, live, noteVars, manager>>
      /\ haveQuit' \in BOOLEAN /\ quitSent' \in BOOLEAN /\ quitLost' \in BOOLEAN
  BY DEF Leave, clientVars, quitVars, IInv, TypeOK
<1>2. k \in Serves /\ k.at = "gone"
  BY DEF IInv, Shape, Serves
<1> HIDE DEF k
<1>3. /\ serve' \in [Clients -> Serves] /\ \A d \in Clients \ {c} : serve'[d] = serve[d]
      /\ serve'[c].at = "gone"
  BY <1>1, <1>2 DEF IInv, Shape
<1>4. /\ request' \in [Clients -> Seq(Values)] /\ reply' \in [Clients -> Seq(Values)]
      /\ services' \subseteq Clients /\ events' \subseteq Clients
      /\ c \notin services' /\ c \notin events'
      /\ \A d \in Clients \ {c} : /\ d \in services' <=> d \in services
                                  /\ d \in events' <=> d \in events
                                  /\ request'[d] = request[d] /\ reply'[d] = reply[d]
  BY <1>1 DEF IInv, Shape, TypeOK
<1>5. c \notin live /\ Idle(c) /\ CallsRight(c)
  BY <1>1 DEF IInv, ClientRight, Sync
<1>6. ClientRight(c)'
  BY <1>1, <1>3, <1>5 DEF ClientRight, CallsRight, ServeRight, AtWork, Idle
<1> QED
  BY <1>1, <1>3, <1>4, <1>6, ServeFrame

LEMMA WriteResultKeeps ==
  ASSUME IInv, NEW c \in Clients, WriteResult(c)
  PROVE  IInv'
<1> DEFINE k0 == serve[c]
           k == [k0 EXCEPT !.n = @ + 1]
           v == Value(Results(k0.method)[k0.n + 1], k0.id)
<1>1. /\ k0.at = "results" /\ call' = call /\ request' = request /\ live' = live
      /\ UNCHANGED <<call, plan, live, noteVars, manager>>
      /\ services' = services /\ events' = events
      /\ haveQuit' \in BOOLEAN /\ quitSent' \in BOOLEAN /\ quitLost' \in BOOLEAN
      /\ services' \subseteq Clients /\ events' \subseteq Clients /\ (c \in events => c \in services)
  BY DEF WriteResult, quitVars, IInv, TypeOK, EventsOfServices
<1>2. /\ k0 \in Serves /\ k0.method \in Methods /\ k0.id \in Ids /\ k0.n \in Nat
      /\ k0.n < Len(Results(k0.method))
      /\ request \in [Clients -> Seq(Values)] /\ reply \in [Clients -> Seq(Values)]
  BY <1>1 DEF IInv, Shape, ClientRight, ServeRight, Serves
<1>3. /\ ServerCases[k0.method].results = Results(k0.method)
      /\ Results(k0.method) \in Seq(STRING) /\ Len(Results(k0.method)) \in 0..2
  BY <1>2, MethodWires
<1>4. /\ k \in Serves /\ k.at = "results" /\ k.method = k0.method /\ k.id = k0.id
      /\ k.n = k0.n + 1 /\ k.n \in Nat
  <2>1. k0.n + 1 \in Nat
    BY <1>2
  <2> QED
    BY <1>1, <1>2, <2>1 DEF Serves
<1>5. \/ c \in live /\ reply' = [reply EXCEPT ![c] = Append(@, v)] /\ Write(c, k)
      \/ c \notin live /\ GiveUp(c) /\ reply' = reply
  BY <1>3 DEF WriteResult
<1>6. /\ k0.n + 1 <= Len(Results(k0.method))
      /\ Results(k0.method)[k0.n + 1] \in STRING
  <2>1. \A i \in Nat, l \in 0..2 : i < l => i + 1 <= l /\ i + 1 \in 1 .. l
    OBVIOUS
  <2>2. k0.n + 1 <= Len(Results(k0.method)) /\ k0.n + 1 \in 1 .. Len(Results(k0.method))
    BY <1>2, <1>3, <2>1
  <2> QED
    BY <1>3, <2>2, ElementOfSeq
<1> HIDE DEF k
<1>7. CASE c \in live /\ reply' = [reply EXCEPT ![c] = Append(@, v)] /\ Write(c, k)
  <2>1. v \in Values /\ v = Value(Results(k.method)[k0.n + 1], k.id)
    BY <1>2, <1>4, <1>6 DEF Values, Value
  <2> HIDE DEF v
  <2>2. /\ serve' \in [Clients -> Serves] /\ \A d \in Clients \ {c} : serve'[d] = serve[d]
        /\ serve'[c] = IF k.n = Len(Results(k.method)) THEN Reading ELSE k
        /\ ServeRight(c)'
    BY <1>2, <1>4, <1>6, <1>7, WriteRight
  <2>3. serve'[c].at \in {"method", "results"}
    BY <1>4, <2>2 DEF Reading
  <2>4. Append(reply[c], v) \in Seq(Values) /\ Len(Append(reply[c], v)) = Len(reply[c]) + 1
        /\ Append(reply[c], v)[Len(reply[c]) + 1] = v
        /\ \A i \in 1 .. Len(reply[c]) : Append(reply[c], v)[i] = reply[c][i]
        /\ Len(reply[c]) \in Nat
    BY <1>2, <2>1, AppendProperties, LenProperties
  <2>5. reply' \in [Clients -> Seq(Values)] /\ reply'[c] = Append(reply[c], v)
        /\ \A d \in Clients \ {c} : reply'[d] = reply[d]
    BY <1>2, <1>7, <2>4
  <2>6. Sync(c) /\ CallsRight(c)
    BY <1>7 DEF IInv, ClientRight
  <2>7. request[c] = <<>>
    BY <1>1, <2>6 DEF Sync, AnswersNobody
  <2>8. PICK h \in Threads[c] : call[c][h] # None /\ Waits(c, call[c][h])
    BY <1>1, <2>6, <2>7 DEF Sync, AnswersNobody
  <2> SUFFICES ASSUME NEW j \in Calls, j = call[c][h], NEW n \in Nat, n = k.n
               PROVE  IInv'
    <3>1. call[c][h] \in Calls
      BY <2>8 DEF IInv, TypeOK
    <3> QED
      BY <1>4, <3>1
  <2>9. /\ IsServed(c, j) /\ Sent(j) /\ j.got \in Nat
        /\ j.got <= k0.n /\ Len(reply[c]) = k0.n - j.got
        /\ \A i \in 1 .. Len(reply[c]) : reply[c][i] = Value(Results(j.method)[j.got + i], j.id)
    BY <1>1, <2>8 DEF Waits, AtWork, Answered, Calls
  <2>10. j.method = k.method /\ j.id = k.id
    BY <1>4, <2>9 DEF IsServed
  <2>11. Answered(c, j, n)'
    <3>1. j.got <= n /\ Len(reply'[c]) = n - j.got
      <4>1. Len(reply'[c]) = Len(reply[c]) + 1
        BY <2>4, <2>5
      <4>2. n = k0.n + 1 /\ k0.n \in Nat
        BY <1>2, <1>4
      <4> QED
        BY <2>9, <4>1, <4>2
    <3>2. ASSUME NEW i \in 1 .. Len(reply'[c])
          PROVE  reply'[c][i] = Value(Results(j.method)[j.got + i], j.id)
      <4>1. i \in 1 .. Len(reply[c]) \/ i = Len(reply[c]) + 1
        BY <2>4, <2>5
      <4>2. CASE i \in 1 .. Len(reply[c])
        BY <2>4, <2>5, <2>9, <4>2
      <4>3. CASE i = Len(reply[c]) + 1
        <5>1. j.got + i = k0.n + 1
          BY <1>2, <2>4, <2>9, <4>3
        <5> QED
          BY <2>1, <2>4, <2>5, <2>10, <4>3, <5>1
      <4> QED
        BY <4>1, <4>2, <4>3
    <3> QED
      BY <3>1, <3>2 DEF Answered
  <2>12. Waits(c, j)'
    <3>1. CASE k.n = Len(Results(k.method))
      <4>1. serve'[c].at = "method" /\ n = Len(Results(j.method))
        BY <2>2, <2>10, <3>1 DEF Reading
      <4> QED
        BY <2>9, <2>11, <4>1 DEF Waits, Sent
    <3>2. CASE k.n # Len(Results(k.method))
      <4>1. /\ serve'[c].at = "results" /\ serve'[c].n = n
            /\ serve'[c].method = j.method /\ serve'[c].id = j.id
        BY <1>4, <2>2, <2>10, <3>2
      <4> QED
        BY <2>9, <2>11, <4>1 DEF Waits, IsServed, Sent
    <3> QED
      BY <3>1, <3>2
  <2>13. Sync(c)'
    <3>1. request'[c] = <<>>
      BY <1>1, <2>7
    <3>2. (\E p \in Parses(request[c]) : Parsed(c, p))'
      BY <3>1, EmptyParse
    <3>3. \E i \in Threads[c] : call'[c][i] # None /\ Waits(c, call[c][i])'
      BY <1>1, <2>8, <2>12
    <3> QED
      BY <2>3, <3>1, <3>2, <3>3 DEF Sync
  <2>14. ClientRight(c)'
    BY <1>1, <1>7, <2>2, <2>6, <2>13 DEF ClientRight, CallsRight
  <2>15. \A d \in Clients \ {c} : /\ request'[d] = request[d]
                                  /\ d \in services' <=> d \in services
                                  /\ d \in events' <=> d \in events
    BY <1>1
  <2>16. request' \in [Clients -> Seq(Values)]
         /\ (c \in services' => serve'[c].at \notin {"start", "gone"})
         /\ (c \in events' /\ serve'[c].at # "start" => c \in services')
    BY <1>1, <1>2, <2>3 DEF EventsOfServices, IInv
  <2> QED
    BY <1>1, <2>2, <2>5, <2>14, <2>15, <2>16, ServeFrame
<1>8. CASE c \notin live /\ GiveUp(c) /\ reply' = reply
  <2>1. /\ serve' \in [Clients -> Serves] /\ \A d \in Clients \ {c} : serve'[d] = serve[d]
        /\ serve'[c].at = "leave" /\ ClientRight(c)'
    BY <1>1, <1>8, GiveUpRight
  <2>2. UNCHANGED <<clientVars, services, events, noteVars, manager>>
    BY <1>1, <1>8 DEF clientVars
  <2> QED
    BY <1>1, <2>1, <2>2, WorkFrame
<1> QED
  BY <1>5, <1>7, <1>8

-----------------------------------------------------------------------------
(* Notifications, and the end of the manager.                              *)

LEMMA NoteFrame ==
  ASSUME IInv, UNCHANGED <<clientVars, serve, services, events>>, TypeOK'
  PROVE  IInv'
<1>1. /\ call' = call /\ plan' = plan /\ request' = request /\ reply' = reply /\ live' = live
      /\ serve' = serve /\ services' = services /\ events' = events
  BY DEF clientVars
<1>2. Shape' /\ EventsOfServices'
  BY <1>1 DEF IInv, Shape, EventsOfServices
<1>3. \A d \in Clients : ClientRight(d)'
  BY <1>1, ClientKept DEF IInv
<1> QED
  BY <1>2, <1>3 DEF IInv

LEMMA NotifyKeeps ==
  ASSUME IInv, Notify
  PROVE  IInv'
<1>1. MaxNotes \in Nat /\ Elevated \subseteq Clients
  BY IpcAssumption
<1>2. notes' \in 0..MaxNotes
  BY <1>1 DEF Notify, IInv, TypeOK
<1>3. \A w \in writers' : w.to \in Clients /\ w.note \in 0..MaxNotes
  BY <1>1, <1>2 DEF Notify, NotifyAll, IInv, TypeOK
<1>4. TypeOK'
  BY <1>2, <1>3 DEF Notify, clientVars, quitVars, IInv, TypeOK
<1> QED
  BY <1>4, NoteFrame DEF Notify

LEMMA WriteEventKeeps ==
  ASSUME IInv, NEW w \in writers, WriteEvent(w)
  PROVE  IInv'
<1>1. w.to \in Clients /\ w.note \in 0..MaxNotes
      /\ written \in [Clients -> SUBSET (0..MaxNotes)]
  BY DEF IInv, TypeOK
<1>2. written' \in [Clients -> SUBSET (0..MaxNotes)]
  <2>1. written[w.to] \cup {w.note} \in SUBSET (0..MaxNotes)
    BY <1>1
  <2> QED
    BY <1>1, <2>1 DEF WriteEvent
<1>3. TypeOK'
  BY <1>2 DEF WriteEvent, clientVars, quitVars, IInv, TypeOK
<1> QED
  BY <1>3, NoteFrame DEF WriteEvent

LEMMA BeginStopKeeps ==
  ASSUME IInv, BeginStop, quitSent' \in BOOLEAN
  PROVE  IInv'
<1>1. 0 \in 0..MaxNotes
  BY IpcAssumption
<1>2. \A w \in writers' : w.to \in Clients /\ w.note \in 0..MaxNotes
  BY <1>1 DEF BeginStop, NotifyAll, Stopping, IInv, TypeOK
<1>3. TypeOK'
  BY <1>2 DEF BeginStop, clientVars, IInv, TypeOK
<1> QED
  BY <1>3, NoteFrame DEF BeginStop

LEMMA KillKeeps ==
  ASSUME IInv, Kill
  PROVE  IInv'
<1>1. /\ call' = [c \in Clients |-> [h \in Threads[c] |-> None]] /\ live' = {}
      /\ \A c \in Clients : call'[c] = [h \in Threads[c] |-> None]
      /\ UNCHANGED <<plan, request, reply, serve, services, events, noteVars>>
      /\ UNCHANGED <<haveQuit, quitSent, quitLost>> /\ manager' = "stopped"
  BY DEF Kill
<1>2. TypeOK'
  BY <1>1 DEF IInv, TypeOK, noteVars
<1>3. Shape' /\ EventsOfServices'
  BY <1>1 DEF IInv, Shape, EventsOfServices
<1>4. ASSUME NEW c \in Clients PROVE ClientRight(c)'
  BY <1>1 DEF IInv, ClientRight, CallsRight, ServeRight, AtWork, Idle
<1> QED
  BY <1>2, <1>3, <1>4 DEF IInv

-----------------------------------------------------------------------------
(* The invariant.                                                          *)

LEMMA InvInit == Init => IInv
<1> SUFFICES ASSUME Init PROVE IInv
  OBVIOUS
<1>1. /\ <<>> \in Seq(Values) /\ Len(<<>>) = 0 /\ DOMAIN <<>> = {}
  BY EmptySeq
<1>2. [Reading EXCEPT !.at = "start"] \in Serves /\ [Reading EXCEPT !.at = "start"].at = "start"
  BY DEF Reading, Serves
<1>3. /\ plan = [c \in Clients |-> plan[c]]
      /\ \A c \in Clients : plan[c] \in [Threads[c] -> Seq(Methods)]
      /\ MaxNotes \in Nat
  BY IpcAssumption DEF Init
<1>4. /\ \A c \in Clients : /\ call[c] = [h \in Threads[c] |-> None]
                            /\ serve[c].at = "start" /\ serve[c] \in Serves
                            /\ request[c] = <<>> /\ reply[c] = <<>> /\ c \in live
      /\ serve \in [Clients -> Serves]
  BY <1>2 DEF Init
<1>5. TypeOK
  <2>1. notes \in 0..MaxNotes /\ written \in [Clients -> SUBSET (0..MaxNotes)]
    BY <1>3 DEF Init
  <2>2. \A c \in Clients : call[c] \in [Threads[c] -> Calls \cup {None}]
    BY <1>4
  <2> QED
    BY <1>3, <1>4, <2>1, <2>2 DEF Init, TypeOK
<1>6. Shape /\ EventsOfServices
  BY <1>1, <1>3, <1>4 DEF Init, Shape, EventsOfServices
<1>7. ASSUME NEW c \in Clients PROVE ClientRight(c)
  <2>1. CallsRight(c) /\ ServeRight(c) /\ Idle(c) /\ AnswersNobody(c)
    BY <1>4 DEF CallsRight, ServeRight, AtWork, Idle, AnswersNobody
  <2>2. \E p \in Parses(request[c]) : Parsed(c, p)
    <3> DEFINE p == [j \in {} |-> [method |-> None, n |-> 0]]
    <3>1. p \in Parses(<<>>) /\ \A j \in DOMAIN <<>> : FALSE
      BY <1>1 DEF Parses
    <3> HIDE DEF p
    <3>2. Parsed(c, p)
      BY <1>4, <3>1 DEF Parsed, ParsedBy, Begins, Ends
    <3> QED
      BY <1>4, <3>1, <3>2
  <2> QED
    BY <1>4, <2>1, <2>2 DEF ClientRight, Sync
<1> QED
  BY <1>5, <1>6, <1>7 DEF IInv

LEMMA InvNext == IInv /\ [Next]_vars => IInv'
<1> SUFFICES ASSUME IInv, [Next]_vars PROVE IInv'
  OBVIOUS
<1>1. ASSUME NEW c \in Clients, NEW h \in Threads[c], Begin(c, h) \/ ClientStep(c, h)
      PROVE  IInv'
  BY <1>1, BeginKeeps, EncodeKeeps, DecodeKeeps DEF ClientStep
<1>2. ASSUME NEW c \in Clients, Exit(c) \/ ServeStep(c)
      PROVE  IInv'
  BY <1>2, ExitKeeps, ListenKeeps, LeaveKeeps, ReadMethodKeeps, ReadArgumentKeeps, RunMethodKeeps,
     WriteResultKeeps, QuitRefusedKeeps, QuitClaimedKeeps, QuitForgetsKeeps, QuitSendsKeeps
     DEF ServeStep
<1>3. CASE TakeQuit \/ ServiceStop
  BY <1>3, BeginStopKeeps DEF TakeQuit, ServiceStop, IInv, TypeOK
<1>4. CASE UNCHANGED vars
  <2>1. /\ UNCHANGED <<clientVars, serve, services, events>>
        /\ UNCHANGED <<writers, notes, written, haveQuit, quitSent, quitLost, manager>>
    BY <1>4 DEF vars, noteVars, quitVars
  <2>2. TypeOK'
    BY <2>1 DEF clientVars, IInv, TypeOK
  <2> QED
    BY <2>1, <2>2, NoteFrame
<1> QED
  BY <1>1, <1>2, <1>3, <1>4, NotifyKeeps, WriteEventKeeps, KillKeeps DEF Next

LEMMA Invariant == Spec => []IInv
BY InvInit, InvNext, PTL DEF Spec

-----------------------------------------------------------------------------
(* The theorems.                                                           *)

\* The variables of ipc_client.go and ipc_server.go have their types; a client
\* in managerServices is one whose ServeConn has begun and has not returned.
THEOREM TypeCorrect == Spec => []TypeOK
<1>1. IInv => TypeOK
  BY DEF IInv
<1> QED
  BY <1>1, Invariant, PTL

\* Whatever the methods, the threads and the plans, and however the steps of
\* rpc functions and ServeConn interleave, a thread that decodes finds the value
\* that was written for its call, of the type it decodes into: a method without
\* an answer, one that fails and a client that dies leave no value behind.
THEOREM RepliesAreOwn == Spec => []OwnReplies
<1>1. IInv => OwnReplies
  <2> SUFFICES ASSUME IInv, NEW c \in Clients, NEW h \in Threads[c],
                      call[c][h] # None, reply[c] # <<>>
               PROVE  /\ reply[c][1].id = call[c][h].id /\ Sent(call[c][h])
                      /\ Awaits(call[c][h]) /\ reply[c][1].type = Expected(call[c][h])
    BY DEF OwnReplies
  <2> DEFINE k == call[c][h]
  <2>1. CallsRight(c) /\ Sync(c)
    BY DEF IInv, ClientRight, Idle
  <2>2. request[c] = <<>> /\ ~Idle(c)
    BY <2>1 DEF Sync, Idle
  <2>3. Waits(c, k)
    BY <2>1, <2>2 DEF Sync, CallsRight
  <2>4. Sent(k) /\ \E n : Answered(c, k, n)
    BY <2>3 DEF Waits
  <2>5. 1 \in 1 .. Len(reply[c])
    <3>1. reply[c] \in Seq(Values)
      BY DEF IInv, Shape
    <3>2. Len(reply[c]) \in Nat /\ Len(reply[c]) # 0
      BY <3>1, EmptySeq, LenProperties
    <3> QED
      BY <3>2
  <2>6. reply[c][1] = Value(Results(k.method)[k.got + 1], k.id)
    BY <2>4, <2>5 DEF Answered
  <2>7. reply[c][1].id = k.id /\ reply[c][1].type = Expected(k)
    BY <2>6 DEF Value, Expected, Results
  <2> QED
    BY <2>1, <2>4, <2>7 DEF CallsRight
<1> QED
  BY <1>1, Invariant, PTL

\* ServeConn reads what the rpc functions write, value by value, so that none of
\* its returns is taken for a client that still runs.
THEOREM LiveAreServed == Spec => []LiveIsServed
<1>1. IInv => LiveIsServed
  BY DEF IInv, ClientRight, Sync, LiveIsServed, TypeOK
<1> QED
  BY <1>1, Invariant, PTL

\* Once ManagerService.Quit has taken its client out of managerServices, or
\* ServeConn has returned, no notification is written to that client, even by a
\* goroutine that notifyAll had started before: its events pipe went too.
THEOREM ForgottenHearNothing == Spec => QuitterHearsNothing
<1> DEFINE Quiet == \A c \in Clients \ services :
                      serve[c].at # "start" => written'[c] \subseteq written[c]
<1>1. IInv /\ [Next]_vars => [Quiet]_vars
  <2> SUFFICES ASSUME IInv, Next, NEW c \in Clients \ services, serve[c].at # "start"
               PROVE  written'[c] \subseteq written[c]
    OBVIOUS
  <2>1. c \notin events /\ written \in [Clients -> SUBSET (0..MaxNotes)]
    BY DEF IInv, EventsOfServices, TypeOK
  <2>2. ASSUME NEW w \in writers, WriteEvent(w)
        PROVE  written'[c] \subseteq written[c]
    BY <2>1, <2>2 DEF WriteEvent
  <2>3. ASSUME NEW d \in Clients, Exit(d)
        PROVE  written'[c] \subseteq written[c]
    BY <2>1, <2>3 DEF Exit
  <2>4. ASSUME UNCHANGED written
        PROVE  written'[c] \subseteq written[c]
    BY <2>4
  <2>5. ASSUME NEW d \in Clients, ServeStep(d)
        PROVE  written' = written
    BY <2>5 DEF ServeStep, Listen, Leave, ReadMethod, ReadArgument, RunMethod, WriteResult,
         QuitRefused, QuitClaimed, QuitForgets, QuitSends, noteVars
  <2>6. ASSUME NEW d \in Clients, NEW h \in Threads[d], Begin(d, h) \/ ClientStep(d, h)
        PROVE  written' = written
    BY <2>6 DEF ClientStep, Begin, Encode, Decode, noteVars
  <2>7. ASSUME Notify \/ TakeQuit \/ ServiceStop \/ Kill
        PROVE  written' = written
    BY <2>7 DEF Notify, TakeQuit, ServiceStop, BeginStop, Kill, noteVars
  <2> QED
    BY <2>2, <2>3, <2>4, <2>5, <2>6, <2>7 DEF Next
<1> QED
  BY <1>1, Invariant, PTL DEF Spec, QuitterHearsNothing
=============================================================================
