---------------------------- MODULE RealtimeProofs ----------------------------
(***************************************************************************)
(* Proofs about Realtime: what a shutdown cuts off, whom the presence hash *)
(* names, what a replay brings, how often an event is logged and what the  *)
(* feed misses.                                                            *)
(*                                                                         *)
(* None of these is inductive.  ServerInv: a process counts the requests   *)
(* it holds.  Wired: rooms are the sockets there are, commands are about   *)
(* somebody.  PresenceInv: a HSET to come has its socket, or its HDEL      *)
(* behind it.  ReplayInv: an event is stored, will be, or is rightly not,  *)
(* and the ZRANGEBYSCORE to come finds it.  LogInv: inserts are done once. *)
(* FeedInv: what the client has not seen is past its cursor.               *)
(***************************************************************************)
EXTENDS Realtime, OrderLemmas

(* The requests a process has not forgotten. *)
Held(s) == {r \in Requests : request[r].step # "none" /\ request[r].at = s}

(* Each process counts the requests it holds. *)
Counted == \A s \in Servers : inFlight[s] = Cardinality(Held(s))

(* Nothing is served by a process that closes but what came late, unless the drain *)
(* timed out.                                                                       *)
Quiet ==
  \A s \in Servers : status[s] = "closing" /\ s \notin overdue => RequestsAt(s) \subseteq late[s]

ServerInv == ServerTypeOK /\ Counted /\ Quiet /\ RequestsDrained

-----------------------------------------------------------------------------
LEMMA HeldFinite == \A s : IsFiniteSet(Held(s)) /\ Cardinality(Held(s)) \in 0..Cardinality(Requests)
<1> TAKE s
<1>1. Held(s) \subseteq Requests
  BY DEF Held
<1> QED
  BY <1>1, ServerAssumption, FS_Subset, FS_CardinalityType

LEMMA NoRequestTyped == NoRequest \in Request /\ NoRequest.step = "none" /\ NoRequest.at \in Servers
BY ServerAssumption DEF NoRequest, Request

LEMMA ServerInitInv == ServerInit => ServerInv
<1> SUFFICES ASSUME ServerInit PROVE ServerInv
  OBVIOUS
<1> USE DEF ServerInit
<1>1. \A s \in Servers : Held(s) = {} /\ RequestsAt(s) = {}
  BY NoRequestTyped DEF Held, RequestsAt
<1>2. Cardinality(Requests) \in Nat /\ Cardinality({}) = 0
  BY ServerAssumption, FS_CardinalityType, FS_EmptySet
<1>3. ServerTypeOK
  BY <1>2, NoRequestTyped DEF ServerTypeOK
<1>4. Counted /\ Quiet /\ RequestsDrained
  BY <1>1, <1>2 DEF Counted, Quiet, RequestsDrained
<1> QED
  BY <1>3, <1>4 DEF ServerInv

-----------------------------------------------------------------------------
(* The counts are natural numbers no greater than the number of requests. *)

LEMMA CountedTyped ==
  ASSUME Counted', inFlight' = [t \in Servers |-> inFlight'[t]]
  PROVE  inFlight' \in [Servers -> 0..Cardinality(Requests)]
<1>1. \A t : IsFiniteSet(Held(t)') /\ Cardinality(Held(t)') \in 0..Cardinality(Requests)
  <2> TAKE t
  <2>1. Held(t)' \subseteq Requests
    BY DEF Held
  <2> QED
    BY <2>1, ServerAssumption, FS_Subset, FS_CardinalityType
<1> QED
  BY <1>1 DEF Counted

LEMMA ArriveKeeps == ASSUME ServerInv, NEW r \in Requests, NEW s \in Servers, Arrive(r, s)
                     PROVE ServerInv'
<1> USE DEF Arrive
<1> DEFINE new == [step |-> "running", at |-> s, aborted |-> FALSE]
<1>1. new \in Request
  BY DEF Request
<1>2. request \in [Requests -> Request] /\ request' = [request EXCEPT ![r] = new]
  BY DEF ServerInv, ServerTypeOK
<1>3. r \notin Held(s) /\ Held(s)' = Held(s) \cup {r}
  BY <1>2 DEF Held
<1>4. \A t \in Servers : t # s => Held(t)' = Held(t)
  BY <1>2 DEF Held
<1>5. Cardinality(Held(s)') = Cardinality(Held(s)) + 1
  BY <1>3, HeldFinite, FS_AddElement
<1>6. Counted'
  BY <1>4, <1>5 DEF ServerInv, ServerTypeOK, Counted
<1>9. /\ late' \in [Servers -> SUBSET Requests]
      /\ \A t \in Servers : late[t] \subseteq late'[t]
      /\ status[s] = "closing" => r \in late'[s]
  BY DEF ServerInv, ServerTypeOK
<1>7. ServerTypeOK'
  <2>1. inFlight' \in [Servers -> 0..Cardinality(Requests)]
    BY <1>6, CountedTyped DEF ServerInv, ServerTypeOK
  <2> QED
    BY <1>1, <1>2, <1>9, <2>1 DEF ServerInv, ServerTypeOK
<1>8. Quiet'
  <2> SUFFICES ASSUME NEW t \in Servers, status[t] = "closing", t \notin overdue
               PROVE RequestsAt(t)' \subseteq late'[t]
    BY DEF Quiet
  <2>1. RequestsAt(t) \subseteq late[t] /\ late[t] \subseteq late'[t]
    BY <1>9 DEF ServerInv, Quiet
  <2>2. RequestsAt(t)' \subseteq RequestsAt(t) \cup (IF t = s THEN {r} ELSE {})
    BY <1>2 DEF RequestsAt
  <2>3. t = s => r \in late'[t]
    BY <1>9
  <2> QED
    BY <2>1, <2>2, <2>3
<1>10. RequestsDrained'
  BY <1>9 DEF ServerInv, RequestsDrained
<1> QED
  BY <1>6, <1>7, <1>8, <1>10 DEF ServerInv

(* A request that changes and goes on being held, or served. *)
LEMMA HeldOnKeeps ==
  ASSUME ServerInv, NEW r \in Requests, NEW new \in Request,
         request' = [request EXCEPT ![r] = new], request[r].step # "none",
         new.step # "none", new.at = request[r].at,
         new.step \in {"running", "answering"} => request[r].step \in {"running", "answering"},
         kept' \in [Servers -> SUBSET Requests],
         UNCHANGED <<status, inFlight, overdue, late, cut>>
  PROVE  ServerInv'
<1>1. request \in [Requests -> Request]
  BY DEF ServerInv, ServerTypeOK
<1>2. \A t \in Servers : Held(t)' = Held(t)
  BY <1>1 DEF Held
<1>3. \A t \in Servers : RequestsAt(t)' \subseteq RequestsAt(t)
  BY <1>1 DEF RequestsAt
<1>4. Counted' /\ Quiet'
  BY <1>2, <1>3 DEF ServerInv, Counted, Quiet
<1> QED
  BY <1>1, <1>4 DEF ServerInv, ServerTypeOK, RequestsDrained

LEMMA CompleteKeeps == ASSUME ServerInv, NEW r \in Requests, Complete(r) PROVE ServerInv'
<1> DEFINE new == [step |-> "answering", at |-> request[r].at, aborted |-> request[r].aborted]
<1>1. request[r] \in Request /\ request[r] = [step |-> request[r].step, at |-> request[r].at,
                                              aborted |-> request[r].aborted]
  BY DEF ServerInv, ServerTypeOK, Request
<1>2. new \in Request /\ new = [request[r] EXCEPT !.step = "answering"]
  BY <1>1 DEF Request
<1>3. request' = [request EXCEPT ![r] = new]
  BY <1>2 DEF Complete, ServerInv, ServerTypeOK
<1> QED
  BY <1>1, <1>2, <1>3, HeldOnKeeps DEF Complete, ServerInv, ServerTypeOK

LEMMA AbortKeeps == ASSUME ServerInv, NEW r \in Requests, Abort(r) PROVE ServerInv'
<1> DEFINE new == [request[r] EXCEPT !.aborted = TRUE]
<1>1. request \in [Requests -> Request] /\ request[r] \in Request
  BY DEF ServerInv, ServerTypeOK
<1>2. new \in Request /\ new.step = request[r].step /\ new.at = request[r].at
  BY <1>1 DEF Request
<1>3. request' = [request EXCEPT ![r] = new]
  BY <1>1 DEF Abort
<1>4. kept' \in [Servers -> SUBSET Requests]
  BY DEF Abort, ServerInv, ServerTypeOK
<1> QED
  BY <1>2, <1>3, <1>4, HeldOnKeeps DEF Abort

LEMMA KeepAliveKeeps ==
  ASSUME ServerInv, NEW r \in Requests, NEW s \in Servers, KeepAliveEnds(r, s)
  PROVE  ServerInv'
<1>1. kept' \in [Servers -> SUBSET Requests]
  BY DEF KeepAliveEnds, ServerInv, ServerTypeOK
<1> QED
  BY <1>1 DEF KeepAliveEnds, ServerInv, ServerTypeOK, Counted, Held, Quiet, RequestsAt,
              RequestsDrained

LEMMA AnswerKeeps == ASSUME ServerInv, NEW r \in Requests, Answer(r) PROVE ServerInv'
<1> USE DEF Answer
<1>1. request \in [Requests -> Request] /\ request[r] \in Request
      /\ request[r] = [step |-> request[r].step, at |-> request[r].at,
                       aborted |-> request[r].aborted]
  BY DEF ServerInv, ServerTypeOK, Request
<1>2. CASE request[r].aborted
  <2> DEFINE new == [step |-> "lost", at |-> request[r].at, aborted |-> request[r].aborted]
  <2>1. new \in Request /\ request' = [request EXCEPT ![r] = new]
    BY <1>1, <1>2 DEF Request
  <2> QED
    BY <1>2, <2>1, HeldOnKeeps DEF ServerInv, ServerTypeOK
<1>3. CASE ~request[r].aborted
  <2> PICK s \in Servers : s = request[r].at
    BY <1>1 DEF Request
  <2>1. request' = [request EXCEPT ![r] = NoRequest]
    BY <1>1, <1>3
  <2>2. r \in Held(s) /\ Held(s)' = Held(s) \ {r}
    BY <1>1, <2>1, NoRequestTyped DEF Held
  <2>3. \A t \in Servers : t # s => Held(t)' = Held(t)
    BY <1>1, <2>1, NoRequestTyped DEF Held
  <2>4. Cardinality(Held(s)') = Cardinality(Held(s)) - 1
    <3>1. IsFiniteSet(Held(s))
      BY HeldFinite
    <3>2. Cardinality(Held(s) \ {r}) = Cardinality(Held(s)) - 1
      BY <2>2, <3>1, FS_RemoveElement
    <3> QED
      BY <2>2, <3>2
  <2>5. Counted'
    BY <1>3, <2>1, <2>3, <2>4 DEF ServerInv, ServerTypeOK, Counted
  <2>6. inFlight' \in [Servers -> 0..Cardinality(Requests)]
    BY <1>3, <2>5, CountedTyped DEF ServerInv, ServerTypeOK
  <2>7. \A t \in Servers : RequestsAt(t)' \subseteq RequestsAt(t)
    BY <1>1, <2>1, NoRequestTyped DEF RequestsAt
  <2> QED
    BY <1>1, <2>1, <2>5, <2>6, <2>7, NoRequestTyped
    DEF ServerInv, ServerTypeOK, Quiet, RequestsDrained
<1> QED
  BY <1>2, <1>3

(* What only concerns the process. *)
LEMMA ProcessKeeps ==
  ASSUME ServerInv, NEW s \in Servers,
         Signal(s) \/ Drained(s) \/ DrainTimeout(s) \/ Restart(s)
  PROVE  ServerInv'
<1>1. UNCHANGED <<request, inFlight>>
  BY DEF Signal, Drained, DrainTimeout, Restart
<1>2. Counted' /\ \A t \in Servers : RequestsAt(t)' = RequestsAt(t)
  BY <1>1 DEF ServerInv, Counted, Held, RequestsAt
<1>3. Drained(s) => RequestsAt(s) = {}
  <2> SUFFICES ASSUME Drained(s) PROVE RequestsAt(s) = {}
    OBVIOUS
  <2>1. Cardinality(Held(s)) = 0
    BY DEF Drained, ServerInv, Counted
  <2>2. Held(s) = {}
    BY <2>1, HeldFinite, FS_EmptySet
  <2> QED
    BY <2>2 DEF Held, RequestsAt
<1>4. kept' \in [Servers -> SUBSET Requests]
  BY DEF ServerInv, ServerTypeOK, Signal, Drained, DrainTimeout, Restart, RequestsAt
<1>6. late' \in [Servers -> SUBSET Requests] /\ cut' \in [Servers -> SUBSET Requests]
  BY DEF ServerInv, ServerTypeOK, Signal, Drained, DrainTimeout, Restart
<1>7. overdue' \subseteq Servers /\ status' \in [Servers -> {"up", "draining", "closing", "down"}]
  BY DEF ServerInv, ServerTypeOK, Signal, Drained, DrainTimeout, Restart, Become
<1>8. ServerTypeOK'
  BY <1>1, <1>4, <1>6, <1>7 DEF ServerInv, ServerTypeOK
<1>9. RequestsDrained'
  BY DEF ServerInv, ServerTypeOK, RequestsDrained, Signal, Drained, DrainTimeout, Restart
<1>5. Quiet'
  BY <1>2, <1>3 DEF ServerInv, ServerTypeOK, Quiet, Signal, Drained, DrainTimeout, Restart, Become
<1> QED
  BY <1>2, <1>5, <1>8, <1>9 DEF ServerInv

LEMMA EndKeeps == ASSUME ServerInv, NEW s \in Servers, Exit(s) \/ Crash(s) PROVE ServerInv'
<1>1. EndProcess(s) /\ UNCHANGED <<overdue, late>>
  BY DEF Exit, Crash
<1>2. request \in [Requests -> Request] /\ status \in [Servers -> {"up", "draining", "closing", "down"}]
  BY DEF ServerInv, ServerTypeOK
<1>3. /\ Held(s)' = {} /\ \A t \in Servers : t # s => Held(t)' = Held(t)
  BY <1>1, <1>2, NoRequestTyped DEF EndProcess, Held
<1>4. \A t \in Servers : RequestsAt(t)' \subseteq RequestsAt(t)
  BY <1>1, <1>2, NoRequestTyped DEF EndProcess, RequestsAt
<1>5. Counted'
  BY <1>1, <1>3, FS_EmptySet DEF ServerInv, ServerTypeOK, Counted, EndProcess
<1>6. inFlight' \in [Servers -> 0..Cardinality(Requests)]
  BY <1>1, <1>5, CountedTyped DEF ServerInv, ServerTypeOK, EndProcess
<1>7. request' \in [Requests -> Request] /\ status' \in [Servers -> {"up", "draining", "closing", "down"}]
  BY <1>1, <1>2, NoRequestTyped DEF EndProcess, Become
<1>8. Quiet'
  BY <1>1, <1>2, <1>4 DEF ServerInv, Quiet, EndProcess, Become
<1>9. cut' \in [Servers -> SUBSET Requests]
  BY DEF ServerInv, ServerTypeOK, RequestsAt, Exit, Crash
<1>10. RequestsDrained'
  BY <1>1 DEF ServerInv, ServerTypeOK, Quiet, RequestsDrained, Exit, Crash
<1>11. kept' \in [Servers -> SUBSET Requests]
  BY <1>1 DEF ServerInv, ServerTypeOK, EndProcess
<1> QED
  BY <1>1, <1>5, <1>6, <1>7, <1>8, <1>9, <1>10, <1>11 DEF ServerInv, ServerTypeOK

LEMMA ServerUnchanged == ASSUME ServerInv, UNCHANGED serverVars PROVE ServerInv'
BY DEF ServerInv, ServerTypeOK, Counted, Held, Quiet, RequestsAt, RequestsDrained, serverVars

-----------------------------------------------------------------------------
(* The commands of a process, as sequences. *)

LEMMA Appended ==
  ASSUME NEW T, NEW q \in Seq(T), NEW r \in Seq(T)
  PROVE  /\ q \o r \in Seq(T)
         /\ \A k \in DOMAIN q : k \in DOMAIN (q \o r) /\ (q \o r)[k] = q[k]
         /\ \A j \in DOMAIN r : Len(q) + j \in DOMAIN (q \o r) /\ (q \o r)[Len(q) + j] = r[j]
         /\ \A k \in DOMAIN (q \o r) :
              \/ k \in DOMAIN q
              \/ \E j \in DOMAIN r : k = Len(q) + j
<1>1. DOMAIN q = 1..Len(q) /\ DOMAIN r = 1..Len(r) /\ Len(q) \in Nat /\ Len(r) \in Nat
  OBVIOUS
<1>2. q \o r \in Seq(T) /\ Len(q \o r) = Len(q) + Len(r)
  OBVIOUS
<1>3. DOMAIN (q \o r) = 1..(Len(q) + Len(r))
  BY <1>2
<1>4. \A k \in 1..(Len(q) + Len(r)) : (q \o r)[k] = IF k <= Len(q) THEN q[k] ELSE r[k - Len(q)]
  BY <1>1
<1>5. ASSUME NEW k \in DOMAIN (q \o r)
      PROVE  k \in DOMAIN q \/ \E j \in DOMAIN r : k = Len(q) + j
  <2>1. k \notin DOMAIN q => k - Len(q) \in DOMAIN r /\ k = Len(q) + (k - Len(q))
    BY <1>1, <1>3, <1>5
  <2> QED
    BY <2>1
<1> QED
  BY <1>1, <1>2, <1>3, <1>4, <1>5

LEMMA Popped ==
  ASSUME NEW T, NEW q \in Seq(T), q # <<>>
  PROVE  /\ 1 \in DOMAIN q /\ Head(q) = q[1] /\ Head(q) \in T
         /\ Tail(q) \in Seq(T)
         /\ \A k \in DOMAIN q : k # 1 => k - 1 \in DOMAIN Tail(q) /\ Tail(q)[k - 1] = q[k]
         /\ \A k \in DOMAIN Tail(q) : k + 1 \in DOMAIN q /\ Tail(q)[k] = q[k + 1]
<1>1. DOMAIN q = 1..Len(q) /\ Len(q) \in Nat /\ Len(q) # 0
  OBVIOUS
<1>2. Tail(q) \in Seq(T) /\ Len(Tail(q)) = Len(q) - 1
  OBVIOUS
<1>3. DOMAIN Tail(q) = 1..(Len(q) - 1)
  BY <1>2
<1>4. \A k \in 1..(Len(q) - 1) : Tail(q)[k] = q[k + 1]
  BY <1>1
<1>5. 1 \in DOMAIN q /\ Head(q) = q[1] /\ q[1] \in T
  BY <1>1
<1>6. \A k \in DOMAIN q : k # 1 => k - 1 \in DOMAIN Tail(q) /\ Tail(q)[k - 1] = q[k]
  <2> SUFFICES ASSUME NEW k \in DOMAIN q, k # 1
               PROVE  k - 1 \in DOMAIN Tail(q) /\ Tail(q)[k - 1] = q[k]
    OBVIOUS
  <2>1. k - 1 \in 1..(Len(q) - 1) /\ (k - 1) + 1 = k
    BY <1>1
  <2> QED
    BY <1>3, <1>4, <2>1
<1> QED
  BY <1>1, <1>2, <1>3, <1>4, <1>5, <1>6

-----------------------------------------------------------------------------
(* The workload is fixed, and the processes are counted right. *)
Base == workload \in Workload /\ ServerInv

LEMMA InitBase == Init => Base
BY ServerInitInv, RealtimeAssumption DEF Init, Base

LEMMA WorkloadKept == [Next]_vars => UNCHANGED workload
BY DEF Next, vars, Tick, HttpStep, FeedStep, Publish, Connect, Disconnect, Vanish, Pong, Heartbeat,
       Redis, Shutdown, Die, Unhandled, Fall, PresenceExpires

LEMMA HttpStepKeeps == ASSUME Base, HttpStep PROVE ServerInv'
<1>1. workload.requests \subseteq Requests /\ workload.servers \subseteq Servers
  BY DEF Base, Workload
<1>2. ASSUME NEW r \in workload.requests, NEW s \in workload.servers, Arrive(r, s)
      PROVE  ServerInv'
  BY <1>1, <1>2, ArriveKeeps DEF Base
<1>3. ASSUME NEW r \in workload.requests, Complete(r) \/ Abort(r) \/ Answer(r)
      PROVE  ServerInv'
  BY <1>1, <1>3, CompleteKeeps, AbortKeeps, AnswerKeeps DEF Base
<1>4. ASSUME NEW s \in workload.servers, Signal(s) \/ Drained(s) \/ DrainTimeout(s) \/ Restart(s)
      PROVE  ServerInv'
  BY <1>1, <1>4, ProcessKeeps DEF Base
<1>5. ASSUME NEW r \in workload.requests, NEW s \in workload.servers, KeepAliveEnds(r, s)
      PROVE  ServerInv'
  BY <1>1, <1>5, KeepAliveKeeps DEF Base
<1> QED
  BY <1>2, <1>3, <1>4, <1>5 DEF HttpStep

LEMMA BaseStep == ASSUME Base, [Next]_vars PROVE Base'
<1>1. ASSUME HttpStep PROVE ServerInv'
  BY <1>1, HttpStepKeeps
<1>2. ASSUME NEW r \in Requests, NEW e \in Events, NEW kind \in Kinds, Publish(r, e, kind)
      PROVE  ServerInv'
  BY <1>2, CompleteKeeps DEF Base, Publish
<1>3. ASSUME NEW s \in Servers, Shutdown(s) \/ Die(s) \/ Unhandled(s) PROVE ServerInv'
  BY <1>3, EndKeeps DEF Base, Shutdown, Die, Unhandled, Fall
<1>4. ASSUME Tick \/ FeedStep \/ PresenceExpires \/ UNCHANGED vars PROVE ServerInv'
  BY <1>4, ServerUnchanged DEF Base, Tick, FeedStep, PresenceExpires, vars
<1>5. ASSUME NEW c \in Clients,
             (\E s \in Servers : Connect(c, s)) \/ Disconnect(c) \/ Vanish(c) \/ Pong(c)
      PROVE  ServerInv'
  BY <1>5, ServerUnchanged DEF Base, Connect, Disconnect, Vanish, Pong
<1>6. ASSUME NEW s \in Servers, Heartbeat(s) \/ Redis(s) PROVE ServerInv'
  BY <1>6, ServerUnchanged DEF Base, Heartbeat, Redis
<1>7. ServerInv'
  BY <1>1, <1>2, <1>3, <1>4, <1>5, <1>6 DEF Next
<1> QED
  BY <1>7, WorkloadKept DEF Base

LEMMA BaseKept == Spec => []Base
BY InitBase, BaseStep, PTL DEF Spec

(* The count never runs short of the requests there are, whatever aborts, crashes and      *)
(* signals come: the database is closed only under a request whose drain timed out, or      *)
(* that a connection kept alive brought when the drain was over.                            *)
THEOREM DrainRespected == Spec => []RequestsDrained
<1>1. Base => RequestsDrained
  BY DEF Base, ServerInv
<1> QED
  BY BaseKept, <1>1, PTL

-----------------------------------------------------------------------------
(* Sockets, rooms and commands. *)

(* Commands that are about an event, or about a client. *)
Asked ==
  {x \in Command :
     /\ x.cmd \in OnBus => x.event \in Events
     /\ x.cmd \notin OnBus => x.client \in Clients
     /\ x.cmd \in {"hset", "expire", "hdel"} => UserOf[x.client] \in Users}

(* A process knows the sockets there are: those in its room. *)
RoomInv == \A s \in Servers : rooms[s] = SocketsAt(s)

Wired ==
  /\ clock \in 0..MaxTime
  /\ published \in [Events -> [kind: Kinds \cup {None}, at: Servers, ms: 0..MaxTime]]
  /\ rooms \in [Servers -> SUBSET Clients]
  /\ socket \in [Clients -> Socket]
  /\ got \in [Clients -> SUBSET Events] /\ owed \in [Clients -> SUBSET Events]
  /\ outbox \in [Servers -> Seq(Asked)]
  /\ buffer \subseteq Events /\ unstored \subseteq Events
  /\ presence \subseteq Users /\ expiring \in BOOLEAN /\ blurred \subseteq Users
  /\ RoomInv

Appends(s, cmds) == outbox' = [outbox EXCEPT ![s] = @ \o cmds]

Pops(s, cmds) == outbox[s] # <<>> /\ outbox' = [outbox EXCEPT ![s] = Tail(@) \o cmds]

(* Sockets of s are closed, by their clients or by the heartbeat. *)
Closes(cs, s) ==
  /\ cs \subseteq SocketsAt(s)
  /\ \A c \in cs : socket'[c] = [NoSocket EXCEPT !.n = socket[c].n]
  /\ \A c \in Clients \ cs : socket'[c] = [socket[c] EXCEPT !.alive = socket'[c].alive]
  /\ Leave(cs, s)
  /\ UNCHANGED <<workload, clock, published, got, owed, buffer, unstored, presence, expiring,
                 blurred, serverVars, feedVars>>

(* What may happen to the rooms, the sockets and Redis. *)
LEMMA WsCases ==
  ASSUME Wired, [Next]_vars
  PROVE  \/ UNCHANGED wsVars
         \/ \E r \in Requests, e \in Events, kind \in Kinds : Publish(r, e, kind)
         \/ \E c \in Clients, s \in Servers : Connect(c, s)
         \/ \E c \in Clients : Vanish(c) \/ Pong(c)
         \/ \E s \in Servers : \E cs \in SUBSET Clients :
              Closes(cs, s) /\ socket' \in [Clients -> Socket]
         \/ \E s \in Servers : Redis(s) \/ Fall(s)
         \/ PresenceExpires
<1>1. ASSUME NEW c \in Clients, Disconnect(c)
      PROVE  Closes({c}, socket[c].at) /\ socket[c].at \in Servers
             /\ socket' \in [Clients -> Socket]
  <2>1. socket[c] \in Socket
    BY DEF Wired
  <2>2. c \in SocketsAt(socket[c].at) /\ socket[c].at \in Servers
    BY <1>1, <2>1 DEF Disconnect, SocketsAt, Socket
  <2>3. [NoSocket EXCEPT !.n = socket[c].n] \in Socket
    BY <2>1, NoRequestTyped DEF Socket, NoSocket
  <2>4. \A d \in Clients \ {c} : socket'[d] = [socket[d] EXCEPT !.alive = socket'[d].alive]
    BY <1>1 DEF Disconnect, Wired, Socket
  <2>5. socket' \in [Clients -> Socket] /\ socket'[c] = [NoSocket EXCEPT !.n = socket[c].n]
    BY <1>1, <2>3 DEF Disconnect, Wired
  <2> QED
    BY <1>1, <2>2, <2>4, <2>5 DEF Disconnect, Closes
<1>2. ASSUME NEW s \in Servers, Heartbeat(s)
      PROVE  Closes({c \in rooms[s] : ~socket[c].alive}, s) /\ socket' \in [Clients -> Socket]
  <2> DEFINE dead == {c \in rooms[s] : ~socket[c].alive}
  <2>1. dead \subseteq SocketsAt(s) /\ dead \subseteq Clients
    BY DEF Wired, RoomInv, SocketsAt
  <2>2. \A c \in Clients : socket[c] \in Socket
    BY DEF Wired
  <2>3. \A c \in dead : socket'[c] = [NoSocket EXCEPT !.n = socket[c].n]
    BY <1>2, <2>1 DEF Heartbeat
  <2>4. \A c \in Clients \ dead : socket'[c] = [socket[c] EXCEPT !.alive = FALSE] \/ socket'[c] = socket[c]
    BY <1>2 DEF Heartbeat
  <2>5. \A c \in Clients \ dead : socket'[c] = [socket[c] EXCEPT !.alive = socket'[c].alive]
    BY <2>2, <2>4 DEF Socket
  <2>6. \A c \in Clients : [NoSocket EXCEPT !.n = socket[c].n] \in Socket
                           /\ [socket[c] EXCEPT !.alive = FALSE] \in Socket
    BY <2>2, NoRequestTyped DEF Socket, NoSocket
  <2>7. socket' \in [Clients -> Socket]
    BY <1>2, <2>2, <2>6 DEF Heartbeat
  <2> QED
    BY <1>2, <2>1, <2>3, <2>5, <2>7 DEF Heartbeat, Closes
<1>3. ASSUME HttpStep \/ FeedStep \/ Tick \/ UNCHANGED vars \/ \E s \in Servers : Shutdown(s)
      PROVE  UNCHANGED wsVars
  BY <1>3 DEF HttpStep, FeedStep, Tick, vars, Shutdown
<1>4. \A s \in Servers : Die(s) \/ Unhandled(s) => Fall(s)
  BY DEF Die, Unhandled
<1>5. ASSUME NEW s \in Servers, Heartbeat(s)
      PROVE  \E cs \in SUBSET Clients : Closes(cs, s) /\ socket' \in [Clients -> Socket]
  <2>1. {c \in rooms[s] : ~socket[c].alive} \in SUBSET Clients
    BY DEF Wired
  <2> QED
    BY <1>2, <1>5, <2>1
<1>6. ASSUME NEW c \in Clients, Disconnect(c)
      PROVE  \E s \in Servers : \E cs \in SUBSET Clients :
               Closes(cs, s) /\ socket' \in [Clients -> Socket]
  <2>1. {c} \in SUBSET Clients
    OBVIOUS
  <2>2. PICK s \in Servers : s = socket[c].at
    BY <1>1, <1>6
  <2>3. Closes({c}, s) /\ socket' \in [Clients -> Socket]
    BY <1>1, <1>6, <2>2
  <2> QED
    BY <2>1, <2>3
<1> QED
  BY <1>3, <1>4, <1>5, <1>6 DEF Next

-----------------------------------------------------------------------------
(* What each step does to the commands of a process. *)

LEMMA CmdAsked ==
  /\ \A e \in Events : Cmd("zadd", e, None) \in Asked
  /\ \A c \in Clients, n \in 0..MaxConnections :
       LET x == [cmd |-> "zrange", event |-> None, client |-> c, n |-> n] IN x \in Asked
  /\ \A c \in Clients, n \in 0..MaxConnections, cmd \in {"hset", "hdel"} :
       UserOf[c] # None => [cmd |-> cmd, event |-> None, client |-> c, n |-> n] \in Asked
BY RealtimeAssumption DEF Asked, Command, Cmd, OnBus

LEMMA FollowAsked ==
  ASSUME NEW x \in Asked
  PROVE  /\ x.cmd = "zadd" => [x EXCEPT !.cmd = "age"] \in Asked
         /\ x.cmd = "age" => [x EXCEPT !.cmd = "rank"] \in Asked
         /\ x.cmd = "hset" => [x EXCEPT !.cmd = "expire"] \in Asked
BY DEF Asked, Command, OnBus

(* The command that the answer to the first one brings. *)
Follows(s, y) ==
  /\ y.cmd \in {"age", "rank", "expire"}
  /\ y.cmd \in OnBus => Head(outbox[s]).cmd \in OnBus /\ y.event = Head(outbox[s]).event

LEMMA RedisPops ==
  ASSUME Wired, NEW s \in Servers, Redis(s)
  PROVE  /\ outbox[s] # <<>> /\ outbox[s] \in Seq(Asked) /\ Head(outbox[s]) \in Asked
         /\ \E cmds \in Seq(Asked) :
              Pops(s, cmds) /\ \A j \in DOMAIN cmds : Follows(s, cmds[j])
<1> DEFINE x == Head(outbox[s])
<1>1. outbox[s] # <<>> /\ outbox[s] \in Seq(Asked)
  BY DEF Wired, Redis, Zadd, TrimByAge, TrimByRank, Zrange, Hset, Expire, Hdel, CommandFails, First
<1>2. x \in Asked
  BY <1>1, Popped
<1>3. CASE Then(s, <<>>)
  <2>1. <<>> \in Seq(Asked) /\ DOMAIN <<>> = {}
    OBVIOUS
  <2> QED
    BY <1>1, <1>2, <1>3, <2>1 DEF Then, Pops
<1>4. ASSUME NEW cmd \in {"age", "rank", "expire"}, [x EXCEPT !.cmd = cmd] \in Asked,
             cmd \in OnBus => x.cmd \in OnBus,
             Then(s, <<[x EXCEPT !.cmd = cmd]>>)
      PROVE  \E cmds \in Seq(Asked) :
               Pops(s, cmds) /\ \A j \in DOMAIN cmds : Follows(s, cmds[j])
  <2> DEFINE y == [x EXCEPT !.cmd = cmd]
  <2>1. y.cmd = cmd /\ y.event = x.event
    BY <1>2 DEF Asked, Command
  <2> HIDE DEF y
  <2>2. <<y>> \in Seq(Asked) /\ \A j \in DOMAIN <<y>> : <<y>>[j] = y
    BY <1>4 DEF y
  <2>3. Pops(s, <<y>>)
    BY <1>1, <1>4 DEF Pops, Then, y
  <2>4. Follows(s, y)
    BY <1>4, <2>1 DEF Follows
  <2> QED
    BY <2>2, <2>3, <2>4
<1>5. CASE Zadd(s)
  BY <1>2, <1>4, <1>5, <1>1, FollowAsked DEF Zadd, First, OnBus
<1>6. CASE TrimByAge(s)
  BY <1>2, <1>4, <1>6, <1>1, FollowAsked DEF TrimByAge, First, OnBus
<1>7. CASE Hset(s)
  BY <1>2, <1>4, <1>7, <1>1, FollowAsked DEF Hset, First, OnBus
<1> QED
  BY <1>1, <1>2, <1>3, <1>5, <1>6, <1>7 DEF Redis, TrimByRank, Zrange, Expire, Hdel, CommandFails

(* HDEL is sent for each of the sockets whose user is known, in some order. *)
LEMMA LeaveAppends ==
  ASSUME Wired, NEW s \in Servers, NEW cs \in SUBSET Clients, Leave(cs, s)
  PROVE  \E cmds \in Seq(Asked) :
           /\ Appends(s, cmds)
           /\ \A j \in DOMAIN cmds : cmds[j].cmd = "hdel"
           /\ \A c \in cs : UserOf[c] # None => \E j \in DOMAIN cmds : cmds[j].client = c
<1> DEFINE S == {c \in cs : UserOf[c] # None}
           n == Cardinality(S)
<1>1. PICK order \in SetToSeqs(S) :
        Send(s, [k \in DOMAIN order |-> Cmd("hdel", None, order[k])])
  BY DEF Leave
<1>2. IsFiniteSet(S) /\ n \in Nat /\ S \subseteq Clients
  BY RealtimeAssumption, FS_Subset, FS_CardinalityType
<1> HIDE DEF S
<1>3. order \in [1..n -> S] /\ \A i, j \in 1..n : i # j => order[i] # order[j]
  BY <1>1 DEF SetToSeqs
<1>4. order \in Injection(1..n, S)
  BY <1>3 DEF Injection, IsInjective
<1>5. Cardinality(1..n) = n
  BY <1>2, FS_Interval
<1>6. order \in Surjection(1..n, S)
  BY <1>2, <1>4, <1>5, FS_Injection
<1> DEFINE cmds == [k \in 1..n |-> Cmd("hdel", None, order[k])]
<1>7. \A c \in S : Cmd("hdel", None, c) \in Asked /\ Cmd("hdel", None, c).client = c /\ Cmd("hdel", None, c).cmd = "hdel"
  <2> SUFFICES ASSUME NEW c \in S
               PROVE  Cmd("hdel", None, c) \in Asked /\ Cmd("hdel", None, c).client = c
                      /\ Cmd("hdel", None, c).cmd = "hdel"
    OBVIOUS
  <2>1. c \in Clients /\ UserOf[c] # None
    BY DEF S
  <2>2. socket[c].n \in 0..MaxConnections
    BY <2>1 DEF Wired, Socket
  <2>3. 0 \in 0..MaxConnections
    BY RealtimeAssumption
  <2> QED
    BY <2>1, <2>2, <2>3, CmdAsked DEF Cmd
<1>8. cmds \in Seq(Asked) /\ DOMAIN cmds = 1..n
  BY <1>2, <1>3, <1>7
<1>9. Appends(s, cmds)
  BY <1>1, <1>3 DEF Send, Appends
<1>10. \A j \in DOMAIN cmds : cmds[j].cmd = "hdel"
  BY <1>3, <1>7
<1>11. ASSUME NEW c \in cs, UserOf[c] # None PROVE \E j \in DOMAIN cmds : cmds[j].client = c
  <2>1. c \in S
    BY <1>11 DEF S
  <2>2. PICK j \in 1..n : order[j] = c
    BY <1>6, <2>1 DEF Surjection
  <2> QED
    BY <1>7, <2>1, <2>2
<1> HIDE DEF cmds
<1> QED
  BY <1>8, <1>9, <1>10, <1>11

(* HSET and ZRANGEBYSCORE are sent for a new socket. *)
Greets(c, s, cmds) ==
  /\ Appends(s, cmds)
  /\ \A j \in DOMAIN cmds : cmds[j].cmd \in {"hset", "zrange"} /\ cmds[j].client = c
  /\ UserOf[c] # None => \E j \in DOMAIN cmds : cmds[j].cmd = "hset"
  /\ LastSeen(c) # None =>
       \E j \in DOMAIN cmds : cmds[j].cmd = "zrange" /\ cmds[j].n = socket[c].n + 1

LEMMA ConnectAppends ==
  ASSUME Wired, NEW c \in Clients, NEW s \in Servers, Connect(c, s),
         workload.connections \in 0..MaxConnections
  PROVE  \E cmds \in Seq(Asked) : Greets(c, s, cmds)
<1> DEFINE n == socket[c].n + 1
           h == [cmd |-> "hset", event |-> None, client |-> c, n |-> n]
           z == [cmd |-> "zrange", event |-> None, client |-> c, n |-> n]
           H == IF UserOf[c] = None THEN <<>> ELSE <<h>>
           Z == IF LastSeen(c) = None THEN <<>> ELSE <<z>>
<1>1. n \in 0..MaxConnections
  <2>1. socket[c] \in Socket /\ n <= workload.connections
    BY DEF Wired, Connect
  <2>2. socket[c].n \in 0..MaxConnections
    BY <2>1 DEF Socket
  <2> QED
    BY <2>1, <2>2, RealtimeAssumption
<1>2. z \in Asked /\ (UserOf[c] # None => h \in Asked)
  BY <1>1, CmdAsked
<1>3. [Cmd("hset", None, c) EXCEPT !.n = n] = h /\ [Cmd("zrange", None, c) EXCEPT !.n = n] = z
  BY DEF Cmd
<1>4. Appends(s, H \o Z)
  BY <1>3 DEF Connect, Send, ForUser, Appends
<1>f. h.cmd = "hset" /\ h.client = c /\ z.cmd = "zrange" /\ z.client = c /\ z.n = n
  OBVIOUS
<1> HIDE DEF h, z, n
<1>5. H \in Seq(Asked) /\ (\A k \in DOMAIN H : H[k] = h) /\ (UserOf[c] # None => 1 \in DOMAIN H)
  <2>1. CASE UserOf[c] = None
    <3>1. H = <<>>
      BY <2>1
    <3> QED
      BY <2>1, <3>1
  <2>2. CASE UserOf[c] # None
    <3>1. H = <<h>>
      BY <2>2
    <3> QED
      BY <1>2, <2>2, <3>1
  <2> QED
    BY <2>1, <2>2
<1>6. Z \in Seq(Asked) /\ (\A k \in DOMAIN Z : Z[k] = z) /\ (LastSeen(c) # None => 1 \in DOMAIN Z)
  <2>1. CASE LastSeen(c) = None
    <3>1. Z = <<>>
      BY <2>1
    <3> QED
      BY <2>1, <3>1
  <2>2. CASE LastSeen(c) # None
    <3>1. Z = <<z>>
      BY <2>2
    <3> QED
      BY <1>2, <2>2, <3>1
  <2> QED
    BY <2>1, <2>2
<1> HIDE DEF H, Z
<1>7. H \o Z \in Seq(Asked)
      /\ (\A k \in DOMAIN H : k \in DOMAIN (H \o Z) /\ (H \o Z)[k] = H[k])
      /\ (\A j \in DOMAIN Z : Len(H) + j \in DOMAIN (H \o Z) /\ (H \o Z)[Len(H) + j] = Z[j])
      /\ \A k \in DOMAIN (H \o Z) : k \in DOMAIN H \/ \E j \in DOMAIN Z : k = Len(H) + j
  BY <1>5, <1>6, Appended
<1> DEFINE cmds == H \o Z
<1>8. \A j \in DOMAIN cmds : cmds[j] = h \/ cmds[j] = z
  BY <1>5, <1>6, <1>7
<1>9. UserOf[c] # None => \E j \in DOMAIN cmds : cmds[j] = h
  BY <1>5, <1>7
<1>10. LastSeen(c) # None => \E j \in DOMAIN cmds : cmds[j] = z
  BY <1>6, <1>7
<1>11. cmds \in Seq(Asked) /\ Appends(s, cmds)
  BY <1>4, <1>7
<1> HIDE DEF cmds
<1> QED
  BY <1>f, <1>8, <1>9, <1>10, <1>11 DEF n, Greets

-----------------------------------------------------------------------------
LEMMA OutboxTyped ==
  ASSUME Wired, NEW s \in Servers, NEW cmds \in Seq(Asked), Appends(s, cmds) \/ Pops(s, cmds)
  PROVE  outbox' \in [Servers -> Seq(Asked)]
<1>1. outbox \in [Servers -> Seq(Asked)] /\ outbox[s] \in Seq(Asked)
  BY DEF Wired
<1>2. Appends(s, cmds) => outbox[s] \o cmds \in Seq(Asked)
  BY <1>1, Appended
<1>3. Pops(s, cmds) => Tail(outbox[s]) \o cmds \in Seq(Asked)
  <2> SUFFICES ASSUME Pops(s, cmds) PROVE Tail(outbox[s]) \o cmds \in Seq(Asked)
    OBVIOUS
  <2>1. Tail(outbox[s]) \in Seq(Asked)
    BY <1>1, Popped DEF Pops
  <2> QED
    BY <2>1, Appended
<1> QED
  BY <1>1, <1>2, <1>3 DEF Appends, Pops

LEMMA LastSeenTyped ==
  ASSUME Wired, NEW c \in Clients
  PROVE  LastSeen(c) \in {None} \cup 0..MaxTime
<1> DEFINE T == {t \in 0..MaxTime : \E e \in got[c] : published[e].ms = t}
<1>1. CASE got[c] = {}
  BY <1>1 DEF LastSeen
<1>2. CASE got[c] # {}
  <2>1. got[c] \subseteq Events /\ \A e \in Events : published[e].ms \in 0..MaxTime
    BY DEF Wired
  <2>2. T \subseteq 0..MaxTime /\ T # {}
    BY <1>2, <2>1
  <2>3. PICK t \in T : \A u \in T : u <= t
    BY <2>2, RealtimeAssumption, Greatest
  <2>4. t \in 0..MaxTime /\ (\E e \in got[c] : published[e].ms = t)
        /\ \A e \in got[c] : published[e].ms <= t
    BY <2>1, <2>3
  <2>5. LastSeen(c) = CHOOSE v \in 0..MaxTime :
                        /\ \E e \in got[c] : published[e].ms = v
                        /\ \A e \in got[c] : published[e].ms <= v
    BY <1>2 DEF LastSeen
  <2> QED
    BY <2>4, <2>5
<1> QED
  BY <1>1, <1>2

LEMMA WiredInit == Init => Wired
<1> SUFFICES ASSUME Init PROVE Wired
  OBVIOUS
<1> USE DEF Init
<1>1. Unpublished \in [kind: Kinds \cup {None}, at: Servers, ms: 0..MaxTime]
  BY NoRequestTyped, RealtimeAssumption DEF Unpublished
<1>2. NoSocket \in Socket /\ NoSocket.state = "closed"
  BY NoRequestTyped, RealtimeAssumption DEF NoSocket, Socket
<1>3. <<>> \in Seq(Asked)
  OBVIOUS
<1>4. socket = [c \in Clients |-> NoSocket] /\ rooms = [s \in Servers |-> {}]
  OBVIOUS
<1>5. RoomInv
  BY <1>2, <1>4 DEF RoomInv, SocketsAt
<1>6. clock \in 0..MaxTime
  BY RealtimeAssumption
<1> QED
  BY <1>1, <1>2, <1>3, <1>5, <1>6 DEF Wired

LEMMA ClockStep == ASSUME Wired, [Next]_vars PROVE clock' \in 0..MaxTime
<1>1. ASSUME NEW s \in Servers, Redis(s) \/ Heartbeat(s) \/ Shutdown(s) \/ Die(s) \/ Unhandled(s)
      PROVE  UNCHANGED clock
  BY <1>1 DEF Redis, Heartbeat, Shutdown, Die, Unhandled, Fall
<1>2. ASSUME HttpStep \/ FeedStep \/ PresenceExpires \/ UNCHANGED vars PROVE UNCHANGED clock
  BY <1>2 DEF HttpStep, FeedStep, PresenceExpires, vars
<1>3. ASSUME NEW c \in Clients,
             (\E s \in Servers : Connect(c, s)) \/ Disconnect(c) \/ Vanish(c) \/ Pong(c)
      PROVE  UNCHANGED clock
  BY <1>3 DEF Connect, Disconnect, Vanish, Pong
<1>4. ASSUME NEW r \in Requests, NEW e \in Events, NEW kind \in Kinds, Publish(r, e, kind)
      PROVE  UNCHANGED clock
  BY <1>4 DEF Publish
<1>5. Tick => clock' \in 0..MaxTime
  BY RealtimeAssumption DEF Tick, Wired
<1>6. clock \in 0..MaxTime
  BY DEF Wired
<1> QED
  BY <1>1, <1>2, <1>3, <1>4, <1>5, <1>6 DEF Next

(* One lemma for each kind of step. *)

LEMMA PublishWired ==
  ASSUME Base, Wired, NEW r \in Requests, NEW e \in Events, NEW kind \in Kinds,
         Publish(r, e, kind), clock' \in 0..MaxTime
  PROVE  /\ Wired'
         /\ \E s \in Servers :
              /\ s = request[r].at
              /\ Appends(s, <<Cmd("zadd", e, None)>>) /\ <<Cmd("zadd", e, None)>> \in Seq(Asked)
              /\ published' = [published EXCEPT ![e] = [kind |-> kind, at |-> s, ms |-> clock]]
<1>1. PICK s \in Servers : s = request[r].at
  BY DEF Base, ServerInv, ServerTypeOK, Request
<1>2. published' = [published EXCEPT ![e] = [kind |-> kind, at |-> s, ms |-> clock]]
      /\ Broadcast(s, e)
      /\ UNCHANGED <<clock, rooms, socket, owed, buffer, unstored, presence, expiring, blurred>>
  BY <1>1 DEF Publish
<1>3. [kind |-> kind, at |-> s, ms |-> clock] \in [kind: Kinds \cup {None}, at: Servers, ms: 0..MaxTime]
  BY DEF Wired
<1>4. Cmd("zadd", e, None) \in Asked
  BY CmdAsked
<1>5. <<Cmd("zadd", e, None)>> \in Seq(Asked) /\ Appends(s, <<Cmd("zadd", e, None)>>)
  <2> DEFINE x == Cmd("zadd", e, None)
  <2>1. outbox' = [outbox EXCEPT ![s] = Append(@, x)] /\ x \in Asked
    BY <1>2, <1>4 DEF Broadcast
  <2> HIDE DEF x
  <2>2. outbox \in [Servers -> Seq(Asked)] /\ <<x>> \in Seq(Asked)
    BY <2>1 DEF Wired
  <2>3. Append(outbox[s], x) = outbox[s] \o <<x>>
    BY <2>1, <2>2
  <2>4. Appends(s, <<x>>)
    BY <2>1, <2>2, <2>3 DEF Appends
  <2> QED
    BY <2>2, <2>4 DEF x
<1>6. outbox' \in [Servers -> Seq(Asked)]
  BY <1>5, OutboxTyped
<1>7. got' \in [Clients -> SUBSET Events]
  BY <1>2 DEF Wired, Broadcast
<1>8. RoomInv'
  BY <1>2 DEF Wired, RoomInv, SocketsAt
<1>9. published' \in [Events -> [kind: Kinds \cup {None}, at: Servers, ms: 0..MaxTime]]
  BY <1>2, <1>3 DEF Wired
<1>10. Wired'
  BY <1>2, <1>6, <1>7, <1>8, <1>9 DEF Wired
<1> QED
  BY <1>1, <1>2, <1>5, <1>10

LEMMA ConnectWired ==
  ASSUME Base, Wired, NEW c \in Clients, NEW s \in Servers, Connect(c, s), clock' \in 0..MaxTime
  PROVE  Wired'
<1> DEFINE new == [state |-> "open", at |-> s, alive |-> TRUE, since |-> LastSeen(c),
                   n |-> socket[c].n + 1]
<1>1. workload.connections \in 0..MaxConnections
  BY DEF Base, Workload
<1>2. socket[c] \in Socket /\ socket[c].n + 1 <= workload.connections
  BY DEF Wired, Connect
<1>3. socket[c].n + 1 \in 0..MaxConnections
  BY <1>1, <1>2, RealtimeAssumption DEF Socket
<1>4. new \in Socket
  BY <1>3, LastSeenTyped DEF Socket
<1>5. socket' = [socket EXCEPT ![c] = new] /\ rooms' = [rooms EXCEPT ![s] = @ \cup {c}]
      /\ owed' = [owed EXCEPT ![c] = buffer] /\ socket[c].state = "closed"
      /\ UNCHANGED <<clock, published, got, buffer, unstored, presence, expiring, blurred>>
  BY DEF Connect
<1>6. new.state = "open" /\ new.at = s
  OBVIOUS
<1>7. outbox' \in [Servers -> Seq(Asked)]
  BY <1>1, ConnectAppends, OutboxTyped DEF Greets
<1> HIDE DEF new
<1>8. RoomInv'
  <2> SUFFICES ASSUME NEW t \in Servers PROVE rooms'[t] = SocketsAt(t)'
    BY DEF RoomInv
  <2>1. rooms[t] = SocketsAt(t) /\ rooms'[t] = IF t = s THEN rooms[t] \cup {c} ELSE rooms[t]
    BY <1>5 DEF Wired, RoomInv
  <2>2. SocketsAt(t)' = IF t = s THEN SocketsAt(t) \cup {c} ELSE SocketsAt(t)
    BY <1>5, <1>6 DEF SocketsAt, Wired
  <2> QED
    BY <2>1, <2>2
<1>9. socket' \in [Clients -> Socket] /\ rooms' \in [Servers -> SUBSET Clients]
      /\ owed' \in [Clients -> SUBSET Events]
  BY <1>4, <1>5 DEF Wired
<1> QED
  BY <1>5, <1>7, <1>8, <1>9 DEF Wired

LEMMA ClosesFacts ==
  ASSUME Wired, NEW s \in Servers, NEW cs \in SUBSET Clients, Closes(cs, s)
  PROVE  /\ \A c \in cs : socket'[c].state = "closed" /\ socket[c].at = s /\ socket[c].state # "closed"
         /\ \A c \in Clients \ cs :
              /\ socket'[c].state = socket[c].state /\ socket'[c].at = socket[c].at
              /\ socket'[c].since = socket[c].since /\ socket'[c].n = socket[c].n
<1>1. \A c \in Clients : socket[c] \in Socket
  BY DEF Wired
<1>2. ASSUME NEW c \in cs PROVE socket'[c].state = "closed"
  BY <1>2 DEF Closes, NoSocket
<1>3. ASSUME NEW c \in Clients \ cs
      PROVE  /\ socket'[c].state = socket[c].state /\ socket'[c].at = socket[c].at
             /\ socket'[c].since = socket[c].since /\ socket'[c].n = socket[c].n
  <2> DEFINE v == socket'[c].alive
  <2>1. socket'[c] = [socket[c] EXCEPT !.alive = v]
    BY DEF Closes
  <2> HIDE DEF v
  <2> QED
    BY <1>1, <2>1 DEF Socket
<1> QED
  BY <1>2, <1>3 DEF Closes, SocketsAt

LEMMA ClosesWired ==
  ASSUME Wired, NEW s \in Servers, NEW cs \in SUBSET Clients, Closes(cs, s),
         socket' \in [Clients -> Socket]
  PROVE  Wired'
<1>1. outbox' \in [Servers -> Seq(Asked)]
  BY LeaveAppends, OutboxTyped DEF Closes
<1>2. rooms' = [rooms EXCEPT ![s] = @ \ cs] /\ rooms' \in [Servers -> SUBSET Clients]
  BY DEF Closes, Leave, Wired
<1>3. RoomInv'
  <2> SUFFICES ASSUME NEW t \in Servers PROVE rooms'[t] = SocketsAt(t)'
    BY DEF RoomInv
  <2>1. rooms[t] = SocketsAt(t) /\ rooms'[t] = IF t = s THEN rooms[t] \ cs ELSE rooms[t]
    BY <1>2 DEF Wired, RoomInv
  <2>2. SocketsAt(t)' = IF t = s THEN SocketsAt(t) \ cs ELSE SocketsAt(t)
    BY ClosesFacts DEF SocketsAt
  <2> QED
    BY <2>1, <2>2
<1> QED
  BY <1>1, <1>2, <1>3 DEF Wired, Closes

LEMMA RedisWired ==
  ASSUME Wired, NEW s \in Servers, Redis(s)
  PROVE  Wired'
<1>1. outbox' \in [Servers -> Seq(Asked)]
  BY RedisPops, OutboxTyped
<1> DEFINE x == Head(outbox[s])
<1>2. x \in Asked /\ outbox[s] # <<>>
  BY RedisPops
<1>3. x.cmd \in {"zadd", "age", "rank"} => x.event \in Events
  BY <1>2 DEF Asked, OnBus
<1>4. x.cmd \notin {"zadd", "age", "rank"} => x.client \in Clients
  BY <1>2 DEF Asked, OnBus
<1>5. x.cmd \in {"hset", "hdel"} => UserOf[x.client] \in Users
  BY <1>2 DEF Asked
<1> HIDE DEF x
<1>6. UNCHANGED <<clock, published, rooms, socket, owed>>
  BY DEF Redis
<1>7. RoomInv'
  BY <1>6 DEF Wired, RoomInv, SocketsAt
<1> DEFINE Kept == /\ got' \in [Clients -> SUBSET Events]
                   /\ buffer' \subseteq Events /\ unstored' \subseteq Events
                   /\ presence' \subseteq Users /\ expiring' \in BOOLEAN /\ blurred' \subseteq Users
<1>8. ASSUME Zadd(s) \/ TrimByAge(s) \/ TrimByRank(s) PROVE Kept
  BY <1>3, <1>8 DEF Zadd, TrimByAge, TrimByRank, Newest, First, Wired, x
<1>9. ASSUME Zrange(s) PROVE Kept
  BY <1>4, <1>9 DEF Zrange, Replayed, First, Wired, x
<1>10. ASSUME Hset(s) \/ Hdel(s) PROVE Kept
  <2>1. got' \in [Clients -> SUBSET Events] /\ buffer' \subseteq Events /\ unstored' \subseteq Events
    BY <1>10 DEF Hset, Hdel, Wired
  <2>2. presence' \subseteq Users /\ blurred' \subseteq Users
    BY <1>5, <1>10 DEF Hset, Hdel, First, Wired, x
  <2>3. expiring' \in BOOLEAN
    BY <1>10, Zenon DEF Hset, Hdel, Wired
  <2> QED
    BY <2>1, <2>2, <2>3
<1>11. ASSUME Expire(s) PROVE Kept
  BY <1>11 DEF Expire, Wired
<1>12. ASSUME CommandFails(s) PROVE Kept
  BY <1>3, <1>12 DEF CommandFails, First, Wired, x
<1>13. Kept
  BY <1>8, <1>9, <1>10, <1>11, <1>12 DEF Redis
<1> QED
  BY <1>1, <1>6, <1>7, <1>13 DEF Wired

LEMMA FallWired ==
  ASSUME Wired, NEW s \in Servers, Fall(s)
  PROVE  Wired'
<1>1. outbox' \in [Servers -> Seq(Asked)] /\ <<>> \in Seq(Asked)
  BY DEF Wired, Fall
<1>2. \A c \in Clients : [NoSocket EXCEPT !.n = socket[c].n] \in Socket
                         /\ [NoSocket EXCEPT !.n = socket[c].n].state = "closed"
  BY NoRequestTyped DEF Wired, Socket, NoSocket
<1>3. socket' \in [Clients -> Socket] /\ rooms' \in [Servers -> SUBSET Clients]
  BY <1>2 DEF Wired, Fall
<1>4. RoomInv'
  <2> SUFFICES ASSUME NEW t \in Servers PROVE rooms'[t] = SocketsAt(t)'
    BY DEF RoomInv
  <2>1. rooms[t] = SocketsAt(t) /\ rooms'[t] = IF t = s THEN {} ELSE rooms[t]
    BY DEF Wired, RoomInv, Fall
  <2>2. SocketsAt(t)' = IF t = s THEN {} ELSE SocketsAt(t)
    BY <1>2 DEF SocketsAt, Fall
  <2> QED
    BY <2>1, <2>2
<1>5. \A k \in DOMAIN outbox[s] : outbox[s][k] \in Asked
  BY DEF Wired
<1>6. unstored' \subseteq Events
  BY <1>5 DEF Fall, Wired, Asked, OnBus
<1>7. blurred' \subseteq Users
  <2>1. {UserOf[c] : c \in SocketsAt(s)} \ {None} \subseteq Users
    BY RealtimeAssumption DEF SocketsAt
  <2>2. {UserOf[outbox[s][k].client] :
           k \in {j \in DOMAIN outbox[s] : outbox[s][j].cmd \in {"hset", "hdel"}}} \subseteq Users
    BY <1>5 DEF Asked
  <2> QED
    BY <2>1, <2>2 DEF Fall, Wired
<1> QED
  BY <1>1, <1>3, <1>4, <1>6, <1>7 DEF Wired, Fall

LEMMA WiredStep == ASSUME Base, Wired, [Next]_vars PROVE Wired'
<1>1. clock' \in 0..MaxTime
  BY ClockStep
<1>2. ASSUME UNCHANGED wsVars PROVE Wired'
  BY <1>1, <1>2 DEF Wired, RoomInv, SocketsAt, wsVars
<1>3. ASSUME NEW c \in Clients, Vanish(c) \/ Pong(c) PROVE Wired'
  <2> DEFINE new == socket'[c]
  <2>1. socket[c] \in Socket /\ socket[c].state = "open"
    BY <1>3 DEF Wired, Vanish, Pong
  <2>2. /\ [socket[c] EXCEPT !.state = "vanished"] \in Socket
        /\ [socket[c] EXCEPT !.alive = TRUE] \in Socket
    BY <2>1 DEF Socket
  <2>3. new \in Socket /\ socket' = [socket EXCEPT ![c] = new]
        /\ new.state # "closed" /\ new.at = socket[c].at
    <3>1. CASE Vanish(c)
      BY <3>1, <2>1, <2>2 DEF Vanish, Wired, Socket
    <3>2. CASE Pong(c)
      BY <3>2, <2>1, <2>2 DEF Pong, Wired, Socket
    <3> QED
      BY <1>3, <3>1, <3>2
  <2> HIDE DEF new
  <2>4. \A s \in Servers : SocketsAt(s)' = SocketsAt(s)
    BY <2>1, <2>3 DEF SocketsAt, Wired
  <2>5. UNCHANGED <<published, rooms, got, owed, outbox, buffer, unstored, presence, expiring, blurred>>
    BY <1>3 DEF Vanish, Pong
  <2> QED
    BY <1>1, <2>3, <2>4, <2>5 DEF Wired, RoomInv
<1>4. ASSUME PresenceExpires PROVE Wired'
  BY <1>1, <1>4 DEF PresenceExpires, Wired, RoomInv, SocketsAt
<1> QED
  BY <1>1, <1>2, <1>3, <1>4, WsCases, PublishWired, ConnectWired, ClosesWired, RedisWired, FallWired

-----------------------------------------------------------------------------
(* Presence.  A HSET that Redis has still to execute is for a socket that is there, or    *)
(* will be followed by the HDEL of its user.                                              *)

LEMMA AppendsKept ==
  ASSUME Wired, NEW s \in Servers, NEW cmds \in Seq(Asked), Appends(s, cmds)
  PROVE  /\ \A t \in Servers : \A k \in DOMAIN outbox[t] :
              k \in Nat \ {0} /\ k <= Len(outbox[t])
              /\ k \in DOMAIN outbox'[t] /\ outbox'[t][k] = outbox[t][k]
         /\ \A j \in DOMAIN cmds :
              j \in Nat \ {0} /\ Len(outbox[s]) + j \in DOMAIN outbox'[s]
              /\ outbox'[s][Len(outbox[s]) + j] = cmds[j]
         /\ \A t \in Servers : \A k \in DOMAIN outbox'[t] :
              k \in DOMAIN outbox[t] \/ (t = s /\ \E j \in DOMAIN cmds : k = Len(outbox[s]) + j)
         /\ \A t \in Servers : Len(outbox[t]) \in Nat
<1>1. \A t \in Servers : outbox[t] \in Seq(Asked)
  BY DEF Wired
<1>2. \A t \in Servers : outbox'[t] = IF t = s THEN outbox[s] \o cmds ELSE outbox[t]
  BY DEF Wired, Appends
<1>3. \A t \in Servers : Len(outbox[t]) \in Nat /\ DOMAIN outbox[t] = 1..Len(outbox[t])
  BY <1>1
<1>4. \A j \in DOMAIN cmds : j \in Nat \ {0}
  OBVIOUS
<1>5. /\ \A k \in DOMAIN outbox[s] :
           k \in DOMAIN (outbox[s] \o cmds) /\ (outbox[s] \o cmds)[k] = outbox[s][k]
      /\ \A j \in DOMAIN cmds : Len(outbox[s]) + j \in DOMAIN (outbox[s] \o cmds)
                              /\ (outbox[s] \o cmds)[Len(outbox[s]) + j] = cmds[j]
      /\ \A k \in DOMAIN (outbox[s] \o cmds) :
           k \in DOMAIN outbox[s] \/ \E j \in DOMAIN cmds : k = Len(outbox[s]) + j
  BY <1>1, Appended
<1>6. ASSUME NEW t \in Servers, NEW k \in DOMAIN outbox[t]
      PROVE  k \in Nat \ {0} /\ k <= Len(outbox[t])
             /\ k \in DOMAIN outbox'[t] /\ outbox'[t][k] = outbox[t][k]
  <2>1. k \in Nat \ {0} /\ k <= Len(outbox[t])
    BY <1>3, <1>6
  <2>2. CASE t = s
    BY <1>2, <1>5, <1>6, <2>1, <2>2
  <2>3. CASE t # s
    BY <1>2, <1>6, <2>1, <2>3
  <2> QED
    BY <2>1, <2>2, <2>3
<1>7. ASSUME NEW j \in DOMAIN cmds
      PROVE  j \in Nat \ {0} /\ Len(outbox[s]) + j \in DOMAIN outbox'[s]
             /\ outbox'[s][Len(outbox[s]) + j] = cmds[j]
  BY <1>2, <1>4, <1>5, <1>7
<1>8. ASSUME NEW t \in Servers, NEW k \in DOMAIN outbox'[t]
      PROVE  k \in DOMAIN outbox[t] \/ (t = s /\ \E j \in DOMAIN cmds : k = Len(outbox[s]) + j)
  BY <1>2, <1>5, <1>8
<1> QED
  BY <1>3, <1>6, <1>7, <1>8

LEMMA PopsKept ==
  ASSUME Wired, NEW s \in Servers, NEW cmds \in Seq(Asked), Pops(s, cmds)
  PROVE  /\ \A t \in Servers : t # s => outbox'[t] = outbox[t]
         /\ \A k \in DOMAIN outbox[s] :
              k \in Nat \ {0}
              /\ (k # 1 => k - 1 \in DOMAIN outbox'[s] /\ outbox'[s][k - 1] = outbox[s][k])
         /\ \A k \in DOMAIN outbox'[s] :
              k \in Nat \ {0}
              /\ \/ k + 1 \in DOMAIN outbox[s] /\ outbox'[s][k] = outbox[s][k + 1]
                 \/ \E j \in DOMAIN cmds : outbox'[s][k] = cmds[j]
         /\ 1 \in DOMAIN outbox[s] /\ Head(outbox[s]) = outbox[s][1]
<1> DEFINE q == outbox[s]
<1>1. q \in Seq(Asked) /\ q # <<>>
  BY DEF Wired, Pops
<1>2. outbox'[s] = Tail(q) \o cmds /\ \A t \in Servers : t # s => outbox'[t] = outbox[t]
  BY DEF Wired, Pops
<1> HIDE DEF q
<1>3. /\ 1 \in DOMAIN q /\ Head(q) = q[1]
      /\ Tail(q) \in Seq(Asked)
      /\ \A k \in DOMAIN q : k # 1 => k - 1 \in DOMAIN Tail(q) /\ Tail(q)[k - 1] = q[k]
      /\ \A k \in DOMAIN Tail(q) : k + 1 \in DOMAIN q /\ Tail(q)[k] = q[k + 1]
  BY <1>1, Popped
<1> DEFINE r == Tail(q)
<1> HIDE DEF r
<1>4. /\ r \o cmds \in Seq(Asked)
      /\ \A k \in DOMAIN r : k \in DOMAIN (r \o cmds) /\ (r \o cmds)[k] = r[k]
      /\ \A j \in DOMAIN cmds : Len(r) + j \in DOMAIN (r \o cmds) /\ (r \o cmds)[Len(r) + j] = cmds[j]
      /\ \A k \in DOMAIN (r \o cmds) :
           k \in DOMAIN r \/ \E j \in DOMAIN cmds : k = Len(r) + j
  <2>1. r \in Seq(Asked)
    BY <1>3 DEF r
  <2> QED
    BY <2>1, Appended
<1>5. (\A k \in DOMAIN q : k \in Nat \ {0}) /\ \A k \in DOMAIN (r \o cmds) : k \in Nat \ {0}
  BY <1>1, <1>4
<1>6. outbox'[s] = r \o cmds
      /\ (\A k \in DOMAIN q : k # 1 => k - 1 \in DOMAIN r /\ r[k - 1] = q[k])
      /\ \A k \in DOMAIN r : k + 1 \in DOMAIN q /\ r[k] = q[k + 1]
  BY <1>2, <1>3 DEF r
<1>7. \A k \in DOMAIN q : k # 1 => k - 1 \in DOMAIN outbox'[s] /\ outbox'[s][k - 1] = q[k]
  BY <1>4, <1>6
<1>8. \A k \in DOMAIN outbox'[s] :
        \/ k + 1 \in DOMAIN q /\ outbox'[s][k] = q[k + 1]
        \/ \E j \in DOMAIN cmds : outbox'[s][k] = cmds[j]
  BY <1>4, <1>6
<1> QED
  BY <1>2, <1>3, <1>5, <1>6, <1>7, <1>8 DEF q

Told ==
  \A s \in Servers : \A k \in DOMAIN outbox[s] : outbox[s][k].cmd = "hset" =>
    LET c == outbox[s][k].client IN
      \/ socket[c].state # "closed" /\ socket[c].at = s
      \/ \E j \in DOMAIN outbox[s] :
           j > k /\ outbox[s][j].cmd = "hdel" /\ outbox[s][j].client = c

PresenceInv ==
  /\ Told
  /\ \A u \in Users :
       u \in blurred \/ PresencePending(u) \/ (u \in presence <=> TabsOf(u) # {})

(* A user is pending as long as its commands are kept. *)
LEMMA AppendsPending ==
  ASSUME Wired, NEW s \in Servers, NEW cmds \in Seq(Asked), Appends(s, cmds), NEW u \in Users
  PROVE  /\ PresencePending(u) => PresencePending(u)'
         /\ (\E j \in DOMAIN cmds : cmds[j].cmd \in {"hset", "hdel"} /\ UserOf[cmds[j].client] = u)
              => PresencePending(u)'
BY AppendsKept DEF PresencePending

LEMMA PopsPending ==
  ASSUME Wired, NEW s \in Servers, NEW cmds \in Seq(Asked), Pops(s, cmds), NEW u \in Users,
         PresencePending(u)
  PROVE  PresencePending(u)' \/ (/\ Head(outbox[s]).cmd \in {"hset", "hdel"}
                                 /\ UserOf[Head(outbox[s]).client] = u)
<1>1. PICK t \in Servers : \E k \in DOMAIN outbox[t] :
        outbox[t][k].cmd \in {"hset", "hdel"} /\ UserOf[outbox[t][k].client] = u
  BY DEF PresencePending
<1>2. PICK k \in DOMAIN outbox[t] :
        outbox[t][k].cmd \in {"hset", "hdel"} /\ UserOf[outbox[t][k].client] = u
  BY <1>1
<1>3. CASE t = s /\ k = 1
  BY <1>2, <1>3, PopsKept
<1>4. CASE t = s /\ k # 1
  <2>1. k - 1 \in DOMAIN outbox'[s] /\ outbox'[s][k - 1] = outbox[s][k]
    BY <1>4, PopsKept
  <2> QED
    BY <1>2, <1>4, <2>1 DEF PresencePending
<1>5. CASE t # s
  <2>1. outbox'[t] = outbox[t]
    BY <1>5, PopsKept
  <2> QED
    BY <1>2, <2>1 DEF PresencePending
<1> QED
  BY <1>3, <1>4, <1>5

LEMMA PublishPresence ==
  ASSUME Base, Wired, PresenceInv, NEW r \in Requests, NEW e \in Events, NEW kind \in Kinds,
         Publish(r, e, kind), clock' \in 0..MaxTime
  PROVE  PresenceInv'
<1> DEFINE cmds == <<Cmd("zadd", e, None)>>
<1>1. PICK s \in Servers : Appends(s, cmds) /\ cmds \in Seq(Asked)
  BY PublishWired
<1>2. \A j \in DOMAIN cmds : cmds[j].cmd = "zadd"
  BY DEF Cmd
<1> HIDE DEF cmds
<1>3. UNCHANGED <<socket, presence, blurred>>
  BY DEF Publish
<1>4. Told'
  <2> SUFFICES ASSUME NEW t \in Servers, NEW k \in DOMAIN outbox'[t], outbox'[t][k].cmd = "hset"
               PROVE  LET d == outbox'[t][k].client IN
                        \/ socket[d].state # "closed" /\ socket[d].at = t
                        \/ \E j \in DOMAIN outbox'[t] :
                             j > k /\ outbox'[t][j].cmd = "hdel" /\ outbox'[t][j].client = d
    BY <1>3 DEF Told
  <2>1. k \in DOMAIN outbox[t] /\ outbox'[t][k] = outbox[t][k]
    BY <1>1, <1>2, AppendsKept
  <2>2. \/ /\ socket[outbox[t][k].client].state # "closed"
           /\ socket[outbox[t][k].client].at = t
        \/ \E j \in DOMAIN outbox[t] :
             /\ j > k /\ outbox[t][j].cmd = "hdel"
             /\ outbox[t][j].client = outbox[t][k].client
    BY <2>1 DEF PresenceInv, Told
  <2> QED
    BY <1>1, <2>1, <2>2, AppendsKept
<1>5. \A u \in Users : (PresencePending(u) => PresencePending(u)') /\ TabsOf(u)' = TabsOf(u)
  BY <1>1, <1>3, AppendsPending DEF TabsOf
<1> QED
  BY <1>3, <1>4, <1>5 DEF PresenceInv

LEMMA ConnectPresence ==
  ASSUME Base, Wired, PresenceInv, NEW c \in Clients, NEW s \in Servers, Connect(c, s)
  PROVE  PresenceInv'
<1>1. workload.connections \in 0..MaxConnections
  BY DEF Base, Workload
<1>p. PICK cmds \in Seq(Asked) : Greets(c, s, cmds)
  BY <1>1, ConnectAppends
<1>2. /\ Appends(s, cmds)
      /\ \A j \in DOMAIN cmds : cmds[j].cmd \in {"hset", "zrange"} /\ cmds[j].client = c
      /\ UserOf[c] # None => \E j \in DOMAIN cmds : cmds[j].cmd = "hset"
  BY <1>p DEF Greets
<1>3. socket[c].state = "closed" /\ socket'[c].state = "open" /\ socket'[c].at = s
      /\ (\A d \in Clients : d # c => socket'[d] = socket[d])
      /\ UNCHANGED <<presence, blurred>>
  BY DEF Connect, Wired
<1>4. Told'
  <2> SUFFICES ASSUME NEW t \in Servers, NEW k \in DOMAIN outbox'[t], outbox'[t][k].cmd = "hset"
               PROVE  LET d == outbox'[t][k].client IN
                        \/ socket'[d].state # "closed" /\ socket'[d].at = t
                        \/ \E j \in DOMAIN outbox'[t] :
                             j > k /\ outbox'[t][j].cmd = "hdel" /\ outbox'[t][j].client = d
    BY DEF Told
  <2>1. CASE k \in DOMAIN outbox[t]
    <3>1. outbox'[t][k] = outbox[t][k]
      BY <1>2, <2>1, AppendsKept
    <3>2. outbox[t][k] \in Asked
      BY <2>1 DEF Wired
    <3>3. outbox[t][k].client \in Clients
      BY <3>1, <3>2 DEF Asked, OnBus
    <3>4. \/ /\ socket[outbox[t][k].client].state # "closed"
             /\ socket[outbox[t][k].client].at = t
          \/ \E j \in DOMAIN outbox[t] :
               /\ j > k /\ outbox[t][j].cmd = "hdel"
               /\ outbox[t][j].client = outbox[t][k].client
      BY <2>1, <3>1 DEF PresenceInv, Told
    <3> QED
      BY <1>2, <1>3, <3>1, <3>3, <3>4, AppendsKept
  <2>2. CASE k \notin DOMAIN outbox[t]
    BY <1>2, <1>3, <2>2, AppendsKept
  <2> QED
    BY <2>1, <2>2
<1>5. ASSUME NEW u \in Users
      PROVE  u \in blurred' \/ PresencePending(u)' \/ (u \in presence' <=> TabsOf(u)' # {})
  <2>1. CASE UserOf[c] = u
    <3>1. u # None
      BY RealtimeAssumption
    <3> QED
      BY <1>2, <2>1, <3>1, AppendsPending
  <2>2. CASE UserOf[c] # u
    <3>1. TabsOf(u)' = TabsOf(u)
      BY <1>3, <2>2 DEF TabsOf
    <3> QED
      BY <1>2, <1>3, <3>1, AppendsPending DEF PresenceInv
  <2> QED
    BY <2>1, <2>2
<1> QED
  BY <1>4, <1>5 DEF PresenceInv

LEMMA ClosesPresence ==
  ASSUME Wired, PresenceInv, NEW s \in Servers, NEW cs \in SUBSET Clients, Closes(cs, s)
  PROVE  PresenceInv'
<1>1. PICK cmds \in Seq(Asked) :
        /\ Appends(s, cmds)
        /\ \A j \in DOMAIN cmds : cmds[j].cmd = "hdel"
        /\ \A c \in cs : UserOf[c] # None => \E j \in DOMAIN cmds : cmds[j].client = c
  BY LeaveAppends DEF Closes
<1>2. UNCHANGED <<presence, blurred>>
  BY DEF Closes
<1>3. Told'
  <2> SUFFICES ASSUME NEW t \in Servers, NEW k \in DOMAIN outbox'[t], outbox'[t][k].cmd = "hset"
               PROVE  LET d == outbox'[t][k].client IN
                        \/ socket'[d].state # "closed" /\ socket'[d].at = t
                        \/ \E j \in DOMAIN outbox'[t] :
                             j > k /\ outbox'[t][j].cmd = "hdel" /\ outbox'[t][j].client = d
    BY DEF Told
  <2>1. k \in DOMAIN outbox[t] /\ outbox'[t][k] = outbox[t][k]
        /\ k \in Nat /\ k <= Len(outbox[t]) /\ Len(outbox[t]) \in Nat
    BY <1>1, AppendsKept
  <2>2. outbox[t][k] \in Asked
    BY <2>1 DEF Wired
  <2> DEFINE d == outbox[t][k].client
  <2>3. d \in Clients /\ UserOf[d] # None
    BY <2>1, <2>2, RealtimeAssumption DEF Asked, OnBus
  <2>4. \/ socket[d].state # "closed" /\ socket[d].at = t
        \/ \E j \in DOMAIN outbox[t] :
             j > k /\ outbox[t][j].cmd = "hdel" /\ outbox[t][j].client = d
    BY <2>1 DEF PresenceInv, Told
  <2> HIDE DEF d
  <2>5. CASE d \in cs /\ socket[d].at = t
    <3>1. t = s
      BY <2>5, ClosesFacts
    <3>2. PICK j \in DOMAIN cmds : cmds[j].client = d
      BY <1>1, <2>3, <2>5
    <3>3. Len(outbox[s]) + j \in DOMAIN outbox'[s] /\ outbox'[s][Len(outbox[s]) + j] = cmds[j]
          /\ j \in Nat \ {0}
      BY <1>1, AppendsKept
    <3>4. Len(outbox[s]) + j > k
      BY <2>1, <3>1, <3>3
    <3> QED
      BY <1>1, <2>1, <3>1, <3>2, <3>3, <3>4 DEF d
  <2>6. CASE d \in cs /\ socket[d].at # t
    BY <1>1, <2>1, <2>4, <2>6, AppendsKept DEF d
  <2>7. CASE d \notin cs
    BY <1>1, <2>1, <2>3, <2>4, <2>7, AppendsKept, ClosesFacts DEF d
  <2> QED
    BY <2>5, <2>6, <2>7
<1>4. ASSUME NEW u \in Users
      PROVE  u \in blurred' \/ PresencePending(u)' \/ (u \in presence' <=> TabsOf(u)' # {})
  <2>1. u # None
    BY RealtimeAssumption
  <2>2. CASE \E c \in cs : UserOf[c] = u
    <3>1. PICK c \in cs : UserOf[c] = u
      BY <2>2
    <3>2. PICK j \in DOMAIN cmds : cmds[j].client = c
      BY <1>1, <2>1, <3>1
    <3> QED
      BY <1>1, <3>1, <3>2, AppendsPending
  <2>3. CASE ~\E c \in cs : UserOf[c] = u
    <3>1. TabsOf(u)' = TabsOf(u)
      BY <2>3, ClosesFacts DEF TabsOf
    <3> QED
      BY <1>1, <1>2, <3>1, AppendsPending DEF PresenceInv
  <2> QED
    BY <2>2, <2>3
<1> QED
  BY <1>3, <1>4 DEF PresenceInv

LEMMA RedisTold ==
  ASSUME Wired, Told, NEW s \in Servers, Redis(s)
  PROVE  Told'
<1>1. PICK cmds \in Seq(Asked) :
        Pops(s, cmds) /\ \A j \in DOMAIN cmds : cmds[j].cmd \in {"age", "rank", "expire"}
  BY RedisPops DEF Follows
<1>2. UNCHANGED socket
  BY DEF Redis
<1> SUFFICES ASSUME NEW t \in Servers, NEW k \in DOMAIN outbox'[t], outbox'[t][k].cmd = "hset"
             PROVE  LET d == outbox'[t][k].client IN
                      \/ socket[d].state # "closed" /\ socket[d].at = t
                      \/ \E j \in DOMAIN outbox'[t] :
                           j > k /\ outbox'[t][j].cmd = "hdel" /\ outbox'[t][j].client = d
  BY <1>2 DEF Told
<1>3. CASE t # s
  <2>1. outbox'[t] = outbox[t]
    BY <1>1, <1>3, PopsKept
  <2> QED
    BY <2>1 DEF Told
<1>4. CASE t = s
  <2>1. k \in Nat /\ k + 1 \in DOMAIN outbox[s] /\ outbox'[s][k] = outbox[s][k + 1]
    BY <1>1, <1>4, PopsKept
  <2> DEFINE d == outbox[s][k + 1].client
  <2>2. \/ socket[d].state # "closed" /\ socket[d].at = s
        \/ \E j \in DOMAIN outbox[s] :
             j > k + 1 /\ outbox[s][j].cmd = "hdel" /\ outbox[s][j].client = d
    BY <1>4, <2>1 DEF Told
  <2> HIDE DEF d
  <2>3. ASSUME NEW j \in DOMAIN outbox[s], j > k + 1, outbox[s][j].cmd = "hdel",
               outbox[s][j].client = d
        PROVE  \E i \in DOMAIN outbox'[s] :
                 i > k /\ outbox'[s][i].cmd = "hdel" /\ outbox'[s][i].client = d
    <3>1. j \in Nat \ {0} /\ j # 1
      BY <1>1, <2>1, <2>3, PopsKept
    <3>2. j - 1 \in DOMAIN outbox'[s] /\ outbox'[s][j - 1] = outbox[s][j] /\ j - 1 > k
      BY <1>1, <2>1, <2>3, <3>1, PopsKept
    <3> QED
      BY <2>3, <3>2
  <2> QED
    BY <1>4, <2>1, <2>2, <2>3 DEF d
<1> QED
  BY <1>3, <1>4

LEMMA RedisPresence ==
  ASSUME Wired, PresenceInv, NEW s \in Servers, Redis(s)
  PROVE  PresenceInv'
<1>1. PICK cmds \in Seq(Asked) :
        Pops(s, cmds) /\ \A j \in DOMAIN cmds : cmds[j].cmd \in {"age", "rank", "expire"}
  BY RedisPops DEF Follows
<1> DEFINE x == Head(outbox[s])
<1>2. x \in Asked /\ 1 \in DOMAIN outbox[s] /\ x = outbox[s][1]
  BY <1>1, RedisPops, PopsKept
<1>3. Told'
  BY RedisTold DEF PresenceInv
<1>4. UNCHANGED socket /\ \A u \in Users : TabsOf(u)' = TabsOf(u)
  BY DEF Redis, TabsOf
<1> SUFFICES ASSUME NEW u \in Users
             PROVE  u \in blurred' \/ PresencePending(u)' \/ (u \in presence' <=> TabsOf(u) # {})
  BY <1>3, <1>4 DEF PresenceInv
<1>5. PresencePending(u) =>
        PresencePending(u)' \/ (x.cmd \in {"hset", "hdel"} /\ UserOf[x.client] = u)
  BY <1>1, PopsPending
<1>6. u \in blurred \/ PresencePending(u) \/ (u \in presence <=> TabsOf(u) # {})
  BY DEF PresenceInv
<1>7. ASSUME x.cmd = "hset", UserOf[x.client] = u, TabsOf(u) = {}
      PROVE  PresencePending(u)'
  <2>1. x.client \in Clients
    BY <1>2, <1>7 DEF Asked, OnBus
  <2>2. socket[x.client].state = "closed"
    BY <1>7, <2>1 DEF TabsOf
  <2>3. PICK j \in DOMAIN outbox[s] :
          j > 1 /\ outbox[s][j].cmd = "hdel" /\ outbox[s][j].client = x.client
    BY <1>2, <1>7, <2>2 DEF PresenceInv, Told
  <2>4. j - 1 \in DOMAIN outbox'[s] /\ outbox'[s][j - 1] = outbox[s][j]
    BY <1>1, <2>3, PopsKept
  <2> QED
    BY <1>7, <2>3, <2>4 DEF PresencePending
<1> HIDE DEF x
<1>8. CASE Hset(s)
  <2>1. x.cmd = "hset" /\ presence' = presence \cup {UserOf[x.client]}
        /\ blurred' = IF TabsOf(UserOf[x.client]) # {} THEN blurred \ {UserOf[x.client]} ELSE blurred
    BY <1>8 DEF Hset, First, x
  <2> QED
    BY <1>5, <1>6, <1>7, <2>1
<1>9. CASE Hdel(s)
  <2>1. x.cmd = "hdel" /\ presence' = presence \ {UserOf[x.client]}
        /\ blurred' = IF TabsOf(UserOf[x.client]) # {} THEN blurred \cup {UserOf[x.client]}
                      ELSE blurred \ {UserOf[x.client]}
    BY <1>9 DEF Hdel, First, x
  <2> QED
    BY <1>5, <1>6, <2>1
<1>10. CASE ~Hset(s) /\ ~Hdel(s)
  <2>1. x.cmd \notin {"hset", "hdel"} /\ UNCHANGED <<presence, blurred>>
    BY <1>10 DEF Redis, Zadd, TrimByAge, TrimByRank, Zrange, Expire, CommandFails, First, OnBus, x
  <2> QED
    BY <1>5, <1>6, <2>1
<1> QED
  BY <1>8, <1>9, <1>10

LEMMA FallPresence ==
  ASSUME Wired, PresenceInv, NEW s \in Servers, Fall(s)
  PROVE  PresenceInv'
<1>1. outbox'[s] = <<>> /\ \A t \in Servers : t # s => outbox'[t] = outbox[t]
  BY DEF Fall, Wired
<1>2. \A c \in Clients : IF c \in SocketsAt(s) THEN socket'[c].state = "closed"
                         ELSE socket'[c] = socket[c]
  BY DEF Fall, NoSocket
<1>3. DOMAIN <<>> = {}
  OBVIOUS
<1>4. UNCHANGED presence
  BY DEF Fall
<1>5. Told'
  <2> SUFFICES ASSUME NEW t \in Servers, t # s, NEW k \in DOMAIN outbox[t],
                      outbox[t][k].cmd = "hset"
               PROVE  LET d == outbox[t][k].client IN
                        \/ socket'[d].state # "closed" /\ socket'[d].at = t
                        \/ \E j \in DOMAIN outbox[t] :
                             j > k /\ outbox[t][j].cmd = "hdel" /\ outbox[t][j].client = d
    BY <1>1, <1>3 DEF Told
  <2>1. outbox[t][k] \in Asked
    BY DEF Wired
  <2>2. outbox[t][k].client \in Clients
    BY <2>1 DEF Asked, OnBus
  <2> QED
    BY <1>2, <2>2 DEF PresenceInv, Told, SocketsAt
<1>6. ASSUME NEW u \in Users
      PROVE  u \in blurred' \/ PresencePending(u)' \/ (u \in presence' <=> TabsOf(u)' # {})
  <2>1. blurred \subseteq blurred'
    BY DEF Fall
  <2>2. (\E c \in SocketsAt(s) : UserOf[c] = u) => u \in blurred'
    BY RealtimeAssumption DEF Fall
  <2>3. (\E k \in DOMAIN outbox[s] :
           outbox[s][k].cmd \in {"hset", "hdel"} /\ UserOf[outbox[s][k].client] = u)
        => u \in blurred'
    BY DEF Fall
  <2>4. PresencePending(u) /\ u \notin blurred' => PresencePending(u)'
    BY <1>1, <2>3 DEF PresencePending
  <2>5. u \notin blurred' => TabsOf(u)' = TabsOf(u)
    BY <1>2, <2>2 DEF TabsOf
  <2> QED
    BY <1>4, <2>1, <2>4, <2>5 DEF PresenceInv
<1> QED
  BY <1>5, <1>6 DEF PresenceInv

LEMMA PresenceStep == ASSUME Base, Wired, PresenceInv, [Next]_vars PROVE PresenceInv'
<1>1. clock' \in 0..MaxTime
  BY ClockStep
<1>2. ASSUME UNCHANGED wsVars PROVE PresenceInv'
  BY <1>2 DEF PresenceInv, Told, PresencePending, TabsOf, wsVars
<1>3. ASSUME NEW c \in Clients, Vanish(c) \/ Pong(c) PROVE PresenceInv'
  <2>1. socket[c] \in Socket /\ socket[c].state = "open"
    BY <1>3 DEF Wired, Vanish, Pong
  <2>2. socket'[c].state # "closed" /\ socket'[c].at = socket[c].at
        /\ \A d \in Clients : d # c => socket'[d] = socket[d]
    <3>1. CASE Vanish(c)
      BY <3>1, <2>1 DEF Vanish, Wired, Socket
    <3>2. CASE Pong(c)
      BY <3>2, <2>1 DEF Pong, Wired, Socket
    <3> QED
      BY <1>3, <3>1, <3>2
  <2>3. UNCHANGED <<outbox, presence, blurred>>
    BY <1>3 DEF Vanish, Pong
  <2>4. \A u \in Users : TabsOf(u)' = TabsOf(u) /\ PresencePending(u)' = PresencePending(u)
    BY <2>1, <2>2, <2>3 DEF TabsOf, PresencePending
  <2>5. \A d \in Clients : socket[d].state # "closed"
          => socket'[d].state # "closed" /\ socket'[d].at = socket[d].at
    BY <2>2
  <2>6. \A s \in Servers : \A k \in DOMAIN outbox[s] :
          outbox[s][k].cmd = "hset" => outbox[s][k].client \in Clients
    <3>1. \A s \in Servers : \A k \in DOMAIN outbox[s] : outbox[s][k] \in Asked
      BY DEF Wired
    <3> QED
      BY <3>1 DEF Asked, OnBus
  <2>7. Told'
    BY <2>3, <2>5, <2>6 DEF PresenceInv, Told
  <2> QED
    BY <2>3, <2>4, <2>7 DEF PresenceInv
<1>4. ASSUME PresenceExpires PROVE PresenceInv'
  <2>1. UNCHANGED <<outbox, socket>> /\ presence' = {} /\ blurred' = {u \in Users : TabsOf(u) # {}}
    BY <1>4 DEF PresenceExpires
  <2>2. Told' /\ \A u \in Users : TabsOf(u)' = TabsOf(u)
    BY <2>1 DEF PresenceInv, Told, TabsOf
  <2> QED
    BY <2>1, <2>2 DEF PresenceInv
<1> QED
  BY <1>1, <1>2, <1>3, <1>4, WsCases, PublishPresence, ConnectPresence, ClosesPresence,
     RedisPresence, FallPresence

LEMMA PresenceInit == Init => PresenceInv
<1> SUFFICES ASSUME Init PROVE PresenceInv
  OBVIOUS
<1>1. \A s \in Servers : outbox[s] = <<>>
  BY DEF Init
<1>2. \A c \in Clients : socket[c].state = "closed"
  BY DEF Init, NoSocket
<1>3. presence = {} /\ \A u \in Users : TabsOf(u) = {}
  BY <1>2 DEF Init, TabsOf
<1> QED
  BY <1>1, <1>3 DEF PresenceInv, Told

LEMMA WiredKept == Spec => []Wired
<1>1. Base /\ Wired /\ [Next]_vars => Wired'
  BY WiredStep
<1> QED
  BY WiredInit, BaseKept, <1>1, PTL DEF Spec

(* Who is in the presence hash, once Redis has done what it was asked, has a tab open and *)
(* the others have not, but for the named exceptions: a HSET is never executed after the  *)
(* HDEL that was to undo it, on any number of processes that come and go.                 *)
THEOREM PresenceRight == Spec => []PresenceTellsTabs
<1>1. Base /\ Wired /\ PresenceInv /\ [Next]_vars => PresenceInv'
  BY PresenceStep
<1>2. PresenceInv => PresenceTellsTabs
  BY DEF PresenceInv, PresenceTellsTabs
<1> QED
  BY PresenceInit, BaseKept, WiredKept, <1>1, <1>2, PTL DEF Spec

-----------------------------------------------------------------------------
(* Replay.  An event that was published is in the buffer, on its way there, rightly       *)
(* dropped or not stored; one that a client has still to hear of will be there when its   *)
(* ZRANGEBYSCORE is executed.                                                             *)

Pub == {e \in Events : IsPublished(e)}

KnownInv ==
  /\ IsFiniteSet(Pub) /\ buffer \subseteq Pub /\ \A c \in Clients : owed[c] \subseteq Pub
  /\ \A s \in Servers : \A k \in DOMAIN outbox[s] :
       outbox[s][k].cmd \in OnBus => outbox[s][k].event \in Pub

Adding(e) ==
  \E k \in DOMAIN outbox[published[e].at] :
    outbox[published[e].at][k].cmd = "zadd" /\ outbox[published[e].at][k].event = e

StoredInv == \A e \in Pub : e \in buffer \/ e \in unstored \/ Dropped(e) \/ Adding(e)

(* The client's ZRANGEBYSCORE is to come, and will find the event. *)
WillReplay(c, e) ==
  LET q == outbox[socket[c].at] IN
    \E k \in DOMAIN q :
      /\ q[k].cmd = "zrange" /\ q[k].client = c /\ q[k].n = socket[c].n
      /\ e \in buffer \/ \E j \in DOMAIN q : j < k /\ q[j].cmd = "zadd" /\ q[j].event = e

(* What a client that reconnected is to hear of. *)
Due(c, e) ==
  /\ socket[c].state = "open" /\ socket[c].since # None
  /\ e \in Pub /\ published[e].ms > socket[c].since
  /\ published[e].at = socket[c].at \/ e \in owed[c]

GapInv ==
  \A c \in Clients : \A e \in Events :
    Due(c, e) => e \in got[c] \/ e \in unstored \/ Dropped(e) \/ WillReplay(c, e)

ReplayInv == KnownInv /\ StoredInv /\ GapInv

LEMMA SamePublished ==
  ASSUME UNCHANGED published
  PROVE  Pub' = Pub /\ \A e \in Events : Dropped(e)' = Dropped(e)
BY DEF Pub, IsPublished, Dropped, Later

LEMMA ReplayInit == Init => ReplayInv
<1> SUFFICES ASSUME Init PROVE ReplayInv
  OBVIOUS
<1>1. \A e \in Events : published[e] = Unpublished
  BY DEF Init
<1>2. Pub = {} /\ buffer = {} /\ \A c \in Clients : owed[c] = {}
  BY <1>1 DEF Init, Pub, IsPublished
<1>3. \A s \in Servers : outbox[s] = <<>>
  BY DEF Init
<1>4. KnownInv
  BY <1>2, <1>3, FS_EmptySet DEF KnownInv
<1>5. StoredInv /\ GapInv
  BY <1>2 DEF StoredInv, GapInv, Due
<1> QED
  BY <1>4, <1>5 DEF ReplayInv

(* What is kept when commands are added. *)
LEMMA AppendsReplay ==
  ASSUME Wired, NEW s \in Servers, NEW cmds \in Seq(Asked), Appends(s, cmds), UNCHANGED buffer,
         NEW c \in Clients, socket'[c].at = socket[c].at, socket'[c].n = socket[c].n,
         NEW e, WillReplay(c, e)
  PROVE  WillReplay(c, e)'
<1> DEFINE t == socket[c].at
<1>1. t \in Servers
  BY DEF Wired, Socket
<1>2. PICK k \in DOMAIN outbox[t] :
        /\ outbox[t][k].cmd = "zrange" /\ outbox[t][k].client = c /\ outbox[t][k].n = socket[c].n
        /\ \/ e \in buffer
           \/ \E j \in DOMAIN outbox[t] :
                j < k /\ outbox[t][j].cmd = "zadd" /\ outbox[t][j].event = e
  BY DEF WillReplay
<1> HIDE DEF t
<1>3. \A i \in DOMAIN outbox[t] : i \in DOMAIN outbox'[t] /\ outbox'[t][i] = outbox[t][i]
  BY <1>1, AppendsKept
<1>4. k \in DOMAIN outbox'[t] /\ outbox'[t][k] = outbox[t][k]
  BY <1>3
<1>5. \/ e \in buffer
      \/ \E j \in DOMAIN outbox'[t] :
           j < k /\ outbox'[t][j].cmd = "zadd" /\ outbox'[t][j].event = e
  BY <1>2, <1>3
<1>6. t = socket'[c].at
  BY DEF t
<1>7. outbox'[t][k].cmd = "zrange" /\ outbox'[t][k].client = c /\ outbox'[t][k].n = socket'[c].n
  BY <1>2, <1>4
<1>8. \/ e \in buffer'
      \/ \E j \in DOMAIN outbox'[socket'[c].at] :
           /\ j < k /\ outbox'[socket'[c].at][j].cmd = "zadd"
           /\ outbox'[socket'[c].at][j].event = e
  BY <1>5, <1>6
<1> QED
  BY <1>4, <1>6, <1>7, <1>8 DEF WillReplay

LEMMA AddingKept ==
  ASSUME Wired, NEW s \in Servers, NEW cmds \in Seq(Asked), Appends(s, cmds),
         NEW e \in Events, published'[e].at = published[e].at, Adding(e)
  PROVE  Adding(e)'
<1> PICK t \in Servers : t = published[e].at
  BY DEF Wired
<1>1. PICK k \in DOMAIN outbox[t] : outbox[t][k].cmd = "zadd" /\ outbox[t][k].event = e
  BY DEF Adding
<1>2. k \in DOMAIN outbox'[t] /\ outbox'[t][k] = outbox[t][k]
  BY AppendsKept
<1> QED
  BY <1>1, <1>2 DEF Adding

LEMMA AppendsKnown ==
  ASSUME Wired, KnownInv, StoredInv, NEW s \in Servers, NEW cmds \in Seq(Asked), Appends(s, cmds),
         \A j \in DOMAIN cmds : cmds[j].cmd \notin OnBus,
         UNCHANGED <<published, buffer, unstored>>,
         \A c \in Clients : owed'[c] \subseteq owed[c] \cup buffer
  PROVE  KnownInv' /\ StoredInv'
<1>1. Pub' = Pub /\ \A e \in Events : Dropped(e)' = Dropped(e)
  BY SamePublished
<1>2. KnownInv'
  <2>1. \A t \in Servers : \A k \in DOMAIN outbox'[t] :
          outbox'[t][k].cmd \in OnBus =>
            k \in DOMAIN outbox[t] /\ outbox'[t][k] = outbox[t][k]
    BY AppendsKept
  <2> QED
    BY <1>1, <2>1 DEF KnownInv
<1>3. ASSUME NEW e \in Events, Adding(e) PROVE Adding(e)'
  BY <1>3, AddingKept
<1>4. StoredInv'
  BY <1>1, <1>3 DEF StoredInv, Pub
<1> QED
  BY <1>2, <1>4

LEMMA PublishReplay ==
  ASSUME Base, Wired, ReplayInv, NEW r \in Requests, NEW e \in Events, NEW kind \in Kinds,
         Publish(r, e, kind), clock' \in 0..MaxTime
  PROVE  ReplayInv'
<1> DEFINE x == Cmd("zadd", e, None)
<1>1. PICK s \in Servers :
        /\ s = request[r].at
        /\ Appends(s, <<x>>) /\ <<x>> \in Seq(Asked)
        /\ published' = [published EXCEPT ![e] = [kind |-> kind, at |-> s, ms |-> clock]]
  BY PublishWired
<1>2. x.cmd = "zadd" /\ x.event = e
  BY DEF Cmd
<1> HIDE DEF x
<1>3. DOMAIN <<x>> = {1} /\ <<x>>[1] = x
  OBVIOUS
<1> DEFINE cmds == <<x>>
<1>c. cmds \in Seq(Asked) /\ Appends(s, cmds) /\ 1 \in DOMAIN cmds /\ \A j \in DOMAIN cmds : cmds[j] = x
  BY <1>1, <1>3
<1> HIDE DEF cmds
<1>a. /\ \A t \in Servers : \A k \in DOMAIN outbox[t] :
           k \in DOMAIN outbox'[t] /\ outbox'[t][k] = outbox[t][k]
      /\ \A j \in DOMAIN cmds : Len(outbox[s]) + j \in DOMAIN outbox'[s]
                               /\ outbox'[s][Len(outbox[s]) + j] = cmds[j]
      /\ \A t \in Servers : \A k \in DOMAIN outbox'[t] :
           k \in DOMAIN outbox[t] \/ (t = s /\ \E j \in DOMAIN cmds : k = Len(outbox[s]) + j)
  BY <1>c, AppendsKept
<1>4. ~IsPublished(e) /\ UNCHANGED <<socket, owed, buffer, unstored>>
  BY DEF Publish
<1>5. \A d \in Events : d # e => published'[d] = published[d]
  BY <1>1 DEF Wired
<1>6. published'[e].at = s /\ published'[e].kind = kind
  BY <1>1 DEF Wired
<1>7. Pub' = Pub \cup {e} /\ e \notin Pub
  <2>1. published'[e] # Unpublished
    BY <1>6, FeedAssumption DEF Unpublished
  <2> QED
    BY <1>4, <1>5, <2>1 DEF Pub, IsPublished
<1>8. IsFiniteSet(Pub) /\ IsFiniteSet(Pub')
  BY <1>7, FS_AddElement DEF ReplayInv, KnownInv
<1>9. ASSUME NEW d \in Pub, Dropped(d) PROVE Dropped(d)'
  <2>1. d # e /\ d \in Events
    BY <1>7 DEF Pub
  <2> DEFINE D == {y \in Events : IsPublished(y) /\ Later(y, d)}
             E == {y \in Events : IsPublished(y)' /\ Later(y, d)'}
  <2>2. \A y \in Events : IsPublished(y) => IsPublished(y)' /\ published'[y] = published[y] /\ y # e
    BY <1>4, <1>5 DEF IsPublished
  <2>3. D \subseteq E /\ E \subseteq Pub'
    BY <1>5, <2>1, <2>2 DEF Later, Pub
  <2>4. Cardinality(D) <= Cardinality(E) /\ Cardinality(D) \in Nat /\ Cardinality(E) \in Nat
    <3>1. IsFiniteSet(E)
      BY <1>8, <2>3, FS_Subset
    <3>2. IsFiniteSet(D) /\ Cardinality(D) <= Cardinality(E)
      BY <2>3, <3>1, FS_Subset
    <3> QED
      BY <3>1, <3>2, FS_CardinalityType
  <2>5. CASE \E y \in Events : IsPublished(y) /\ published[y].ms >= published[d].ms + Window
    <3>1. PICK y \in Events : IsPublished(y) /\ published[y].ms >= published[d].ms + Window
      BY <2>5
    <3>2. IsPublished(y)' /\ published'[y] = published[y] /\ published'[d] = published[d]
      BY <1>5, <2>1, <2>2, <3>1
    <3> QED
      BY <3>1, <3>2 DEF Dropped
  <2>6. CASE Cardinality(D) >= Cap
    <3>1. Cardinality(E) >= Cap
      BY <2>4, <2>6, RealtimeAssumption
    <3> QED
      BY <3>1 DEF Dropped
  <2> QED
    BY <1>9, <2>5, <2>6 DEF Dropped
<1>10. KnownInv'
  <2>1. \A t \in Servers : \A k \in DOMAIN outbox'[t] :
          outbox'[t][k] = x \/ (k \in DOMAIN outbox[t] /\ outbox'[t][k] = outbox[t][k])
    BY <1>a, <1>c
  <2>2. \A t \in Servers : \A k \in DOMAIN outbox'[t] :
          outbox'[t][k].cmd \in OnBus => outbox'[t][k].event \in Pub'
    BY <1>2, <1>7, <2>1 DEF ReplayInv, KnownInv
  <2> QED
    BY <1>4, <1>7, <1>8, <2>2 DEF ReplayInv, KnownInv
<1>11. ASSUME NEW d \in Pub, Adding(d) PROVE Adding(d)'
  <2>1. d \in Events /\ published'[d] = published[d]
    BY <1>5, <1>7 DEF Pub
  <2> QED
    BY <1>c, <1>11, <2>1, AddingKept
<1>12. Adding(e)'
  <2>1. \E k \in DOMAIN outbox'[s] : outbox'[s][k] = x
    BY <1>a, <1>c
  <2> QED
    BY <1>2, <1>6, <2>1 DEF Adding
<1>13. StoredInv'
  BY <1>4, <1>7, <1>9, <1>11, <1>12 DEF ReplayInv, StoredInv
<1>14. GapInv'
  <2> SUFFICES ASSUME NEW c \in Clients, NEW d \in Events, Due(c, d)'
               PROVE  d \in got'[c] \/ d \in unstored \/ Dropped(d)' \/ WillReplay(c, d)'
    BY <1>4 DEF GapInv
  <2>1. got[c] \subseteq got'[c]
        /\ (c \in rooms[s] /\ socket[c].state = "open" => e \in got'[c])
    BY <1>1 DEF Publish, Broadcast, Wired
  <2>2. CASE d = e
    <3>1. e \notin owed[c]
      BY <1>7 DEF ReplayInv, KnownInv
    <3>2. socket[c].state = "open" /\ socket[c].at = s
      BY <1>4, <1>6, <2>2, <3>1 DEF Due
    <3>3. c \in rooms[s]
      BY <3>2 DEF Wired, RoomInv, SocketsAt
    <3> QED
      BY <2>1, <2>2, <3>2, <3>3
  <2>3. CASE d # e
    <3>1. Due(c, d) /\ d \in Pub
      BY <1>4, <1>5, <1>7, <2>3 DEF Due
    <3>2. WillReplay(c, d) => WillReplay(c, d)'
      BY <1>c, <1>4, AppendsReplay
    <3> QED
      BY <1>9, <2>1, <3>1, <3>2 DEF ReplayInv, GapInv
  <2> QED
    BY <2>2, <2>3
<1> QED
  BY <1>10, <1>13, <1>14 DEF ReplayInv

LEMMA ConnectReplay ==
  ASSUME Base, Wired, ReplayInv, NEW c \in Clients, NEW s \in Servers, Connect(c, s)
  PROVE  ReplayInv'
<1>1. workload.connections \in 0..MaxConnections
  BY DEF Base, Workload
<1>2. PICK cmds \in Seq(Asked) : Greets(c, s, cmds)
  BY <1>1, ConnectAppends
<1>3. Appends(s, cmds) /\ \A j \in DOMAIN cmds : cmds[j].cmd \notin OnBus /\ cmds[j].client = c
  BY <1>2 DEF Greets, OnBus
<1>4. /\ UNCHANGED <<published, got, buffer, unstored>> /\ owed' = [owed EXCEPT ![c] = buffer]
      /\ \A d \in Clients : d # c => socket'[d] = socket[d] /\ owed'[d] = owed[d]
      /\ owed'[c] = buffer
      /\ socket'[c].at = s /\ socket'[c].since = LastSeen(c) /\ socket'[c].n = socket[c].n + 1
  BY DEF Connect, Wired
<1>5. Pub' = Pub /\ \A e \in Events : Dropped(e)' = Dropped(e)
  BY <1>4, SamePublished
<1>6. KnownInv' /\ StoredInv'
  <2>1. \A d \in Clients : owed'[d] \subseteq owed[d] \cup buffer
    BY <1>4
  <2> QED
    BY <1>3, <1>4, <2>1, AppendsKnown DEF ReplayInv
<1>7. ASSUME NEW e \in Events, Due(c, e)'
      PROVE  e \in unstored \/ Dropped(e) \/ WillReplay(c, e)'
  <2>1. LastSeen(c) # None /\ e \in Pub /\ (published[e].at = s \/ e \in buffer)
    BY <1>4, <1>5, <1>7 DEF Due
  <2>2. PICK j \in DOMAIN cmds : cmds[j].cmd = "zrange" /\ cmds[j].n = socket[c].n + 1
    BY <1>2, <2>1 DEF Greets
  <2> DEFINE k == Len(outbox[s]) + j
  <2>3. k \in DOMAIN outbox'[s] /\ outbox'[s][k] = cmds[j] /\ Len(outbox[s]) < k
    BY <1>3, AppendsKept
  <2>4. \A i \in DOMAIN outbox[s] : i < k /\ i \in DOMAIN outbox'[s] /\ outbox'[s][i] = outbox[s][i]
    BY <1>3, <2>3, AppendsKept
  <2> HIDE DEF k
  <2>5. e \in unstored \/ Dropped(e) \/ e \in buffer
        \/ \E i \in DOMAIN outbox[s] : outbox[s][i].cmd = "zadd" /\ outbox[s][i].event = e
    BY <2>1 DEF ReplayInv, StoredInv, Adding
  <2>6. e \in unstored \/ Dropped(e) \/ e \in buffer
        \/ \E i \in DOMAIN outbox'[s] :
             i < k /\ outbox'[s][i].cmd = "zadd" /\ outbox'[s][i].event = e
    BY <2>4, <2>5
  <2>7. outbox'[s][k].cmd = "zrange" /\ outbox'[s][k].client = c /\ outbox'[s][k].n = socket'[c].n
    BY <1>3, <1>4, <2>2, <2>3
  <2>8. e \in buffer' => WillReplay(c, e)'
    BY <1>4, <2>3, <2>7 DEF WillReplay
  <2>9. (\E i \in DOMAIN outbox'[s] :
           i < k /\ outbox'[s][i].cmd = "zadd" /\ outbox'[s][i].event = e) => WillReplay(c, e)'
    BY <1>4, <2>3, <2>7 DEF WillReplay
  <2> QED
    BY <1>4, <2>6, <2>8, <2>9
<1>8. ASSUME NEW d \in Clients, d # c, NEW e \in Events, Due(d, e)'
      PROVE  e \in got[d] \/ e \in unstored \/ Dropped(e) \/ WillReplay(d, e)'
  <2>1. Due(d, e)
    BY <1>4, <1>5, <1>8 DEF Due
  <2>2. WillReplay(d, e) => WillReplay(d, e)'
    BY <1>3, <1>4, <1>8, AppendsReplay
  <2> QED
    BY <2>1, <2>2 DEF ReplayInv, GapInv
<1>9. GapInv'
  BY <1>4, <1>5, <1>7, <1>8 DEF GapInv
<1> QED
  BY <1>6, <1>9 DEF ReplayInv

LEMMA ClosesReplay ==
  ASSUME Wired, ReplayInv, NEW s \in Servers, NEW cs \in SUBSET Clients, Closes(cs, s)
  PROVE  ReplayInv'
<1>1. PICK cmds \in Seq(Asked) :
        /\ Appends(s, cmds)
        /\ \A j \in DOMAIN cmds : cmds[j].cmd = "hdel"
        /\ \A c \in cs : UserOf[c] # None => \E j \in DOMAIN cmds : cmds[j].client = c
  BY LeaveAppends DEF Closes
<1>2. UNCHANGED <<published, got, owed, buffer, unstored>>
  BY DEF Closes
<1>3. KnownInv' /\ StoredInv'
  <2>1. \A d \in Clients : owed'[d] \subseteq owed[d] \cup buffer
    BY <1>2
  <2>2. \A j \in DOMAIN cmds : cmds[j].cmd \notin OnBus
    BY <1>1 DEF OnBus
  <2> QED
    BY <1>1, <1>2, <2>1, <2>2, AppendsKnown DEF ReplayInv
<1>4. ASSUME NEW d \in Clients, NEW e \in Events, Due(d, e)'
      PROVE  e \in got[d] \/ e \in unstored \/ Dropped(e) \/ WillReplay(d, e)'
  <2>1. d \notin cs
    BY <1>4, ClosesFacts DEF Due
  <2>2. Due(d, e)
    BY <1>2, <1>4, <2>1, ClosesFacts, SamePublished DEF Due
  <2>3. WillReplay(d, e) => WillReplay(d, e)'
    BY <1>1, <1>2, <2>1, ClosesFacts, AppendsReplay
  <2> QED
    BY <2>2, <2>3 DEF ReplayInv, GapInv
<1>5. GapInv'
  BY <1>2, <1>4, SamePublished DEF GapInv
<1> QED
  BY <1>3, <1>5 DEF ReplayInv

(* What Redis no longer has is what it was right to drop. *)
LEMMA RedisDrops ==
  ASSUME Wired, KnownInv, NEW s \in Servers, Redis(s), NEW e \in buffer, e \notin buffer'
  PROVE  Dropped(e)
<1> DEFINE x == Head(outbox[s])
<1>1. PICK cmds \in Seq(Asked) : Pops(s, cmds)
  BY RedisPops
<1>2. x.cmd \in OnBus => x.event \in Pub
  BY <1>1, PopsKept DEF KnownInv
<1>3. e \in Events /\ published[e].ms \in Nat /\ \A d \in Events : published[d].ms \in Nat
  BY DEF Wired
<1> HIDE DEF x
<1>4. CASE TrimByAge(s)
  <2>1. x.cmd = "age" /\ ~(published[e].ms + Window > published[x.event].ms)
    BY <1>4 DEF TrimByAge, First, x
  <2>2. x.event \in Pub /\ x.event \in Events
    BY <1>2, <2>1 DEF OnBus, Pub
  <2>3. published[x.event].ms >= published[e].ms + Window
    BY <1>3, <2>1, <2>2, RealtimeAssumption
  <2> QED
    BY <2>2, <2>3 DEF Dropped, Pub
<1>5. CASE TrimByRank(s)
  <2> DEFINE D == {d \in buffer : Later(d, e)}
             E == {d \in Events : IsPublished(d) /\ Later(d, e)}
  <2>1. ~(Cardinality(D) < Cap)
    BY <1>5 DEF TrimByRank, Newest
  <2>2. D \subseteq E /\ E \subseteq Pub /\ IsFiniteSet(Pub)
    BY DEF KnownInv, Pub, Wired
  <2>3. IsFiniteSet(E) /\ IsFiniteSet(D) /\ Cardinality(D) <= Cardinality(E)
    <3>1. IsFiniteSet(E)
      BY <2>2, FS_Subset
    <3> QED
      BY <2>2, <3>1, FS_Subset
  <2>4. Cardinality(D) \in Nat /\ Cardinality(E) \in Nat
    BY <2>3, FS_CardinalityType
  <2>5. Cardinality(E) >= Cap
    BY <2>1, <2>3, <2>4, RealtimeAssumption
  <2> QED
    BY <2>5 DEF Dropped
<1>6. ~TrimByAge(s) /\ ~TrimByRank(s) => buffer \subseteq buffer'
  BY DEF Redis, Zadd, Zrange, Hset, Expire, Hdel, CommandFails
<1> QED
  BY <1>4, <1>5, <1>6

(* A ZADD ends in the buffer or in an error. *)
LEMMA RedisAdds ==
  ASSUME NEW s \in Servers, Redis(s), Head(outbox[s]).cmd = "zadd"
  PROVE  Head(outbox[s]).event \in buffer' \cup unstored'
BY DEF Redis, Zadd, TrimByAge, TrimByRank, Zrange, Hset, Expire, Hdel, CommandFails, First

LEMMA RedisKnown ==
  ASSUME Wired, KnownInv, NEW s \in Servers, Redis(s)
  PROVE  KnownInv'
<1> DEFINE x == Head(outbox[s])
<1>1. PICK cmds \in Seq(Asked) : Pops(s, cmds) /\ \A j \in DOMAIN cmds : Follows(s, cmds[j])
  BY RedisPops
<1>2. x.cmd \in OnBus => x.event \in Pub
  BY <1>1, PopsKept DEF KnownInv
<1>3. UNCHANGED <<published, owed>>
  BY DEF Redis
<1>4. Pub' = Pub
  BY <1>3, SamePublished
<1>5. buffer' \subseteq Pub
  <2>1. CASE Zadd(s)
    BY <1>2, <2>1 DEF KnownInv, Zadd, First, OnBus
  <2>2. CASE ~Zadd(s)
    <3>1. buffer' \subseteq buffer
      BY <2>2 DEF Redis, TrimByAge, TrimByRank, Newest, Zrange, Hset, Expire, Hdel, CommandFails
    <3> QED
      BY <3>1 DEF KnownInv
  <2> QED
    BY <2>1, <2>2
<1>6. ASSUME NEW t \in Servers, NEW k \in DOMAIN outbox'[t], outbox'[t][k].cmd \in OnBus
      PROVE  outbox'[t][k].event \in Pub
  <2>1. CASE t # s
    <3>1. outbox'[t] = outbox[t]
      BY <1>1, <2>1, PopsKept
    <3> QED
      BY <1>6, <3>1 DEF KnownInv
  <2>2. CASE t = s
    <3>1. \/ k + 1 \in DOMAIN outbox[s] /\ outbox'[s][k] = outbox[s][k + 1]
          \/ \E j \in DOMAIN cmds : outbox'[s][k] = cmds[j]
      BY <1>1, <2>2, PopsKept
    <3>2. CASE k + 1 \in DOMAIN outbox[s] /\ outbox'[s][k] = outbox[s][k + 1]
      BY <1>6, <2>2, <3>2 DEF KnownInv
    <3>3. CASE \E j \in DOMAIN cmds : outbox'[s][k] = cmds[j]
      BY <1>1, <1>2, <1>6, <2>2, <3>3 DEF Follows
    <3> QED
      BY <3>1, <3>2, <3>3
  <2> QED
    BY <2>1, <2>2
<1> QED
  BY <1>3, <1>4, <1>5, <1>6 DEF KnownInv

LEMMA RedisStored ==
  ASSUME Wired, KnownInv, StoredInv, NEW s \in Servers, Redis(s)
  PROVE  StoredInv'
<1>1. PICK cmds \in Seq(Asked) : Pops(s, cmds)
  BY RedisPops
<1>2. UNCHANGED published /\ unstored \subseteq unstored'
  BY DEF Redis, Zadd, TrimByAge, TrimByRank, Zrange, Hset, Expire, Hdel, CommandFails
<1>3. Pub' = Pub /\ \A e \in Events : Dropped(e)' = Dropped(e)
  BY <1>2, SamePublished
<1>4. ASSUME NEW e \in Pub, Adding(e) PROVE Adding(e)' \/ e \in buffer' \cup unstored'
  <2> PICK t \in Servers : t = published[e].at
    BY DEF Pub, Wired
  <2>1. PICK k \in DOMAIN outbox[t] : outbox[t][k].cmd = "zadd" /\ outbox[t][k].event = e
    BY <1>4 DEF Adding
  <2>2. CASE t = s /\ k = 1
    <3>1. Head(outbox[s]) = outbox[s][1]
      BY <1>1, PopsKept
    <3> QED
      BY <2>1, <2>2, <3>1, RedisAdds
  <2>3. CASE t = s /\ k # 1
    <3>1. k - 1 \in DOMAIN outbox'[s] /\ outbox'[s][k - 1] = outbox[s][k]
      BY <1>1, <2>3, PopsKept
    <3> QED
      BY <1>2, <2>1, <2>3, <3>1 DEF Adding
  <2>4. CASE t # s
    <3>1. outbox'[t] = outbox[t]
      BY <1>1, <2>4, PopsKept
    <3> QED
      BY <1>2, <2>1, <3>1 DEF Adding
  <2> QED
    BY <2>2, <2>3, <2>4
<1>5. ASSUME NEW e \in Pub PROVE e \in buffer => e \in buffer' \/ Dropped(e)
  BY RedisDrops
<1>6. \A e \in Pub : e \in Events
  BY DEF Pub
<1> QED
  BY <1>2, <1>3, <1>4, <1>5, <1>6 DEF StoredInv

(* The reply to a client's ZRANGEBYSCORE has every event it is due. *)
LEMMA RedisSends ==
  ASSUME Wired, NEW s \in Servers, Redis(s), Head(outbox[s]).cmd = "zrange",
         NEW c \in Clients, Head(outbox[s]).client = c, Head(outbox[s]).n = socket[c].n,
         NEW e \in buffer, Due(c, e)
  PROVE  e \in got'[c]
<1>1. Zrange(s)
  BY DEF Redis, Zadd, TrimByAge, TrimByRank, Hset, Expire, Hdel, CommandFails, First, OnBus
<1>2. socket[c].state = "open"
  BY DEF Due
<1>3. got' = [got EXCEPT ![c] = @ \cup Replayed(socket[c].since)]
  BY <1>1, <1>2 DEF Zrange
<1>4. socket[c].since \in 0..MaxTime /\ published[e].ms \in 0..MaxTime
      /\ published[e].ms > socket[c].since
  <2>1. socket[c] \in Socket /\ e \in Events
    BY DEF Wired
  <2> QED
    BY <2>1 DEF Due, Socket, Wired
<1>5. e \in Replayed(socket[c].since)
  BY <1>4, RealtimeAssumption DEF Replayed
<1> QED
  BY <1>3, <1>5 DEF Wired

LEMMA RedisReplay ==
  ASSUME Wired, ReplayInv, NEW s \in Servers, Redis(s)
  PROVE  ReplayInv'
<1>1. PICK cmds \in Seq(Asked) : Pops(s, cmds)
  BY RedisPops
<1>2. UNCHANGED <<published, socket, owed>> /\ unstored \subseteq unstored'
      /\ \A c \in Clients : got[c] \subseteq got'[c]
  BY DEF Wired, Redis, Zadd, TrimByAge, TrimByRank, Zrange, Hset, Expire, Hdel, CommandFails
<1>3. Pub' = Pub /\ \A e \in Events : Dropped(e)' = Dropped(e)
  BY <1>2, SamePublished
<1>4. ASSUME NEW c \in Clients, NEW e \in Events, Due(c, e), WillReplay(c, e)
      PROVE  e \in got'[c] \/ e \in unstored' \/ Dropped(e) \/ WillReplay(c, e)'
  <2> PICK t \in Servers : t = socket[c].at
    BY DEF Wired, Socket
  <2>1. PICK k \in DOMAIN outbox[t] :
          /\ outbox[t][k].cmd = "zrange" /\ outbox[t][k].client = c /\ outbox[t][k].n = socket[c].n
          /\ \/ e \in buffer
             \/ \E j \in DOMAIN outbox[t] :
                  j < k /\ outbox[t][j].cmd = "zadd" /\ outbox[t][j].event = e
    BY <1>4 DEF WillReplay
  <2>2. e \in buffer => e \in buffer' \/ Dropped(e)
    BY RedisDrops DEF ReplayInv
  <2>3. CASE t # s
    <3>1. outbox'[t] = outbox[t]
      BY <1>1, <2>3, PopsKept
    <3> QED
      BY <1>2, <2>1, <2>2, <3>1 DEF WillReplay
  <2>4. CASE t = s /\ k = 1
    <3>1. Head(outbox[s]) = outbox[s][1] /\ \A j \in DOMAIN outbox[s] : j \in Nat \ {0}
      BY <1>1, PopsKept
    <3>2. e \in buffer
      BY <2>1, <2>4, <3>1
    <3> QED
      BY <1>4, <2>1, <2>4, <3>1, <3>2, RedisSends
  <2>5. CASE t = s /\ k # 1
    <3>1. k - 1 \in DOMAIN outbox'[s] /\ outbox'[s][k - 1] = outbox[s][k] /\ k \in Nat
      BY <1>1, <2>5, PopsKept
    <3>2. e \in buffer' => WillReplay(c, e)'
      BY <1>2, <2>1, <2>5, <3>1 DEF WillReplay
    <3>3. ASSUME NEW j \in DOMAIN outbox[s], j < k, outbox[s][j].cmd = "zadd",
                 outbox[s][j].event = e
          PROVE  e \in buffer' \/ e \in unstored' \/ WillReplay(c, e)'
      <4>1. CASE j = 1
        <5>1. Head(outbox[s]) = outbox[s][1]
          BY <1>1, PopsKept
        <5> QED
          BY <3>3, <4>1, <5>1, RedisAdds
      <4>2. CASE j # 1
        <5>1. j - 1 \in DOMAIN outbox'[s] /\ outbox'[s][j - 1] = outbox[s][j] /\ j \in Nat
          BY <1>1, <4>2, PopsKept
        <5>2. j - 1 < k - 1
          BY <3>1, <3>3, <5>1
        <5>3. \E i \in DOMAIN outbox'[s] :
                i < k - 1 /\ outbox'[s][i].cmd = "zadd" /\ outbox'[s][i].event = e
          BY <3>3, <5>1, <5>2
        <5> QED
          BY <1>2, <2>1, <2>5, <3>1, <5>3 DEF WillReplay
      <4> QED
        BY <4>1, <4>2
    <3> QED
      BY <2>1, <2>2, <2>5, <3>2, <3>3
  <2> QED
    BY <2>3, <2>4, <2>5
<1>5. GapInv'
  <2> SUFFICES ASSUME NEW c \in Clients, NEW e \in Events, Due(c, e)'
               PROVE  e \in got'[c] \/ e \in unstored' \/ Dropped(e)' \/ WillReplay(c, e)'
    BY DEF GapInv
  <2>1. Due(c, e)
    BY <1>2, <1>3 DEF Due
  <2> QED
    BY <1>2, <1>3, <1>4, <2>1 DEF ReplayInv, GapInv
<1> QED
  BY <1>5, RedisKnown, RedisStored DEF ReplayInv

(* The sockets of a process that ended are owed nothing, and the events it had not stored *)
(* are counted as such.                                                                   *)
LEMMA FallReplay ==
  ASSUME Wired, ReplayInv, NEW s \in Servers, Fall(s)
  PROVE  ReplayInv'
<1>1. outbox'[s] = <<>> /\ \A t \in Servers : t # s => outbox'[t] = outbox[t]
  BY DEF Fall, Wired
<1>2. UNCHANGED <<published, got, owed, buffer>> /\ unstored \subseteq unstored'
  BY DEF Fall
<1>3. Pub' = Pub /\ \A e \in Events : Dropped(e)' = Dropped(e)
  BY <1>2, SamePublished
<1>4. DOMAIN <<>> = {}
  OBVIOUS
<1>5. KnownInv'
  BY <1>1, <1>2, <1>3, <1>4 DEF ReplayInv, KnownInv
<1>6. ASSUME NEW e \in Pub, Adding(e) PROVE Adding(e)' \/ e \in unstored'
  <2> PICK t \in Servers : t = published[e].at
    BY DEF Pub, Wired
  <2>1. PICK k \in DOMAIN outbox[t] : outbox[t][k].cmd = "zadd" /\ outbox[t][k].event = e
    BY <1>6 DEF Adding
  <2>2. CASE t = s
    <3>1. outbox[s][k].event \in
            {outbox[s][i].event : i \in {j \in DOMAIN outbox[s] : outbox[s][j].cmd = "zadd"}}
      BY <2>1, <2>2
    <3> QED
      BY <2>1, <2>2, <3>1 DEF Fall
  <2>3. CASE t # s
    BY <1>1, <1>2, <2>1, <2>3 DEF Adding
  <2> QED
    BY <2>2, <2>3
<1>7. StoredInv'
  <2>1. \A e \in Pub : e \in Events
    BY DEF Pub
  <2> QED
    BY <1>2, <1>3, <1>6, <2>1 DEF ReplayInv, StoredInv
<1>8. GapInv'
  <2> SUFFICES ASSUME NEW c \in Clients, NEW e \in Events, Due(c, e)'
               PROVE  e \in got[c] \/ e \in unstored' \/ Dropped(e) \/ WillReplay(c, e)'
    BY <1>2, <1>3 DEF GapInv
  <2>1. c \notin SocketsAt(s) /\ socket'[c] = socket[c]
    BY DEF Fall, Due, NoSocket
  <2>2. Due(c, e)
    BY <1>2, <1>3, <2>1 DEF Due
  <2>3. socket[c].at # s /\ socket[c].at \in Servers
    BY <2>1, <2>2 DEF Due, SocketsAt, Wired, Socket
  <2>4. WillReplay(c, e) => WillReplay(c, e)'
    BY <1>1, <1>2, <2>1, <2>3 DEF WillReplay
  <2> QED
    BY <1>2, <2>2, <2>4 DEF ReplayInv, GapInv
<1> QED
  BY <1>5, <1>7, <1>8 DEF ReplayInv

(* Sockets may be closed for the client, or answer; nothing is published or executed. *)
LEMMA StillReplay ==
  ASSUME Wired, ReplayInv, UNCHANGED <<published, got, owed, outbox, buffer, unstored>>,
         \A c \in Clients : socket'[c].state = "open" =>
           /\ socket[c].state = "open" /\ socket'[c].at = socket[c].at
           /\ socket'[c].since = socket[c].since /\ socket'[c].n = socket[c].n
  PROVE  ReplayInv'
<1>1. Pub' = Pub /\ \A e \in Events : Dropped(e)' = Dropped(e)
  BY SamePublished
<1>2. KnownInv'
  BY <1>1 DEF ReplayInv, KnownInv
<1>3. StoredInv'
  BY <1>1 DEF ReplayInv, StoredInv, Adding, Pub
<1>4. GapInv'
  <2> SUFFICES ASSUME NEW c \in Clients, NEW e \in Events, Due(c, e)'
               PROVE  e \in got[c] \/ e \in unstored \/ Dropped(e) \/ WillReplay(c, e)'
    BY <1>1 DEF GapInv
  <2>1. Due(c, e)
    BY <1>1 DEF Due
  <2>2. WillReplay(c, e) => WillReplay(c, e)'
    BY DEF WillReplay, Due
  <2> QED
    BY <2>1, <2>2 DEF ReplayInv, GapInv
<1> QED
  BY <1>2, <1>3, <1>4 DEF ReplayInv

LEMMA ReplayStep == ASSUME Base, Wired, ReplayInv, [Next]_vars PROVE ReplayInv'
<1>1. clock' \in 0..MaxTime
  BY ClockStep
<1>2. ASSUME UNCHANGED wsVars PROVE ReplayInv'
  BY <1>2, StillReplay DEF wsVars
<1>3. ASSUME NEW c \in Clients, Vanish(c) \/ Pong(c) PROVE ReplayInv'
  <2>1. socket[c] \in Socket /\ socket[c].state = "open"
    BY <1>3 DEF Wired, Vanish, Pong
  <2>2. socket'[c].at = socket[c].at /\ socket'[c].since = socket[c].since
        /\ socket'[c].n = socket[c].n /\ \A d \in Clients : d # c => socket'[d] = socket[d]
    <3>1. CASE Vanish(c)
      BY <3>1, <2>1 DEF Vanish, Wired, Socket
    <3>2. CASE Pong(c)
      BY <3>2, <2>1 DEF Pong, Wired, Socket
    <3> QED
      BY <1>3, <3>1, <3>2
  <2>3. UNCHANGED <<published, got, owed, outbox, buffer, unstored>>
    BY <1>3 DEF Vanish, Pong
  <2>4. \A d \in Clients : socket'[d].state = "open" =>
          /\ socket[d].state = "open" /\ socket'[d].at = socket[d].at
          /\ socket'[d].since = socket[d].since /\ socket'[d].n = socket[d].n
    BY <2>1, <2>2
  <2> QED
    BY <2>3, <2>4, StillReplay
<1>4. ASSUME PresenceExpires PROVE ReplayInv'
  BY <1>4, StillReplay DEF PresenceExpires
<1> QED
  BY <1>1, <1>2, <1>3, <1>4, WsCases, PublishReplay, ConnectReplay, ClosesReplay,
     RedisReplay, FallReplay

(* Between the live events and the replay nothing is lost, for any window, any size of    *)
(* the buffer and any number of clients, processes and crashes: the events a client has   *)
(* not got after its replay were too old, pushed out by newer ones or not taken by Redis.  *)
THEOREM ReplayComplete == Spec => []ReplayClosesGap
<1>1. Base /\ Wired /\ ReplayInv /\ [Next]_vars => ReplayInv'
  BY ReplayStep
<1>2. ASSUME Wired, ReplayInv PROVE ReplayClosesGap
  <2> SUFFICES ASSUME NEW c \in Clients, socket[c].state = "open", socket[c].since # None,
                      ~Awaited("zrange", c),
                      NEW e \in Events, IsPublished(e), published[e].ms > socket[c].since,
                      published[e].at = socket[c].at \/ e \in owed[c]
               PROVE  e \in got[c] \/ e \in unstored \/ Dropped(e)
    BY DEF ReplayClosesGap
  <2>1. Due(c, e)
    BY DEF Due, Pub
  <2>2. socket[c].at \in Servers
    BY <1>2 DEF Wired, Socket
  <2>3. ~WillReplay(c, e)
    BY <2>2 DEF WillReplay, Awaited
  <2> QED
    BY <1>2, <2>1, <2>3 DEF ReplayInv, GapInv
<1>3. Wired /\ ReplayInv => ReplayClosesGap
  BY <1>2
<1> QED
  BY ReplayInit, BaseKept, WiredKept, <1>1, <1>3, PTL DEF Spec

-----------------------------------------------------------------------------
(* The activity log.  Each insert is on its way, done or failed: none is done twice, and  *)
(* none is left.                                                                          *)

(* Each service of the process writes one row of an event of a kind that is logged. *)
LoggedByEachService ==
  \A e \in Events :
    Cardinality({n \in Entries : log[n] = e})
      + Cardinality({w \in inserting : w[2] = e}) + Cardinality({w \in unlogged : w[1] = e})
    = IF published[e].kind \in Logged THEN Cardinality(Services) ELSE 0

RowsOf(e) == {n \in Entries : log[n] = e}

InsertsOf(e) == {w \in inserting : w[2] = e}

FailuresOf(e) == {w \in unlogged : w[1] = e}

LogInv ==
  /\ log \in [Entries -> Events \cup {None, Earlier}]
  /\ inserting \subseteq Servers \X Events \X Services
  /\ unlogged \subseteq Events \X Services
  /\ \A w \in inserting :
       IsPublished(w[2]) /\ w[1] = published[w[2]].at /\ <<w[2], w[3]>> \notin unlogged
  /\ \A w \in unlogged : IsPublished(w[1])
  /\ \A n \in Entries : log[n] \in Events => IsPublished(log[n])
  /\ LoggedByEachService

LEMMA ServicesTwo == IsFiniteSet(Services) /\ Cardinality(Services) = 2
<1>1. IsFiniteSet({"bootstrap"}) /\ Cardinality({"bootstrap"}) = 1
  BY FS_Singleton
<1>2. "controller" \notin {"bootstrap"} /\ Services = {"bootstrap"} \cup {"controller"}
  BY DEF Services
<1> QED
  BY <1>1, <1>2, FS_AddElement

LEMMA LogCounts ==
  ASSUME LogInv, NEW e \in Events
  PROVE  /\ IsFiniteSet(RowsOf(e)) /\ Cardinality(RowsOf(e)) \in Nat
         /\ IsFiniteSet(InsertsOf(e)) /\ Cardinality(InsertsOf(e)) \in Nat
         /\ IsFiniteSet(FailuresOf(e)) /\ Cardinality(FailuresOf(e)) \in Nat
         /\ Cardinality(RowsOf(e)) + Cardinality(InsertsOf(e)) + Cardinality(FailuresOf(e))
              = IF published[e].kind \in Logged THEN 2 ELSE 0
<1>1. RowsOf(e) \subseteq Entries
  BY DEF RowsOf
<1>2. InsertsOf(e) \subseteq {<<published[e].at, e, "bootstrap">>} \cup {<<published[e].at, e, "controller">>}
  <2> SUFFICES ASSUME NEW w \in InsertsOf(e)
               PROVE  w = <<published[e].at, e, "bootstrap">> \/ w = <<published[e].at, e, "controller">>
    OBVIOUS
  <2>1. w \in Servers \X Events \X Services /\ w[2] = e /\ w[1] = published[e].at
    BY DEF InsertsOf, LogInv
  <2> QED
    BY <2>1 DEF Services
<1>3. FailuresOf(e) \subseteq {<<e, "bootstrap">>} \cup {<<e, "controller">>}
  <2> SUFFICES ASSUME NEW w \in FailuresOf(e) PROVE w = <<e, "bootstrap">> \/ w = <<e, "controller">>
    OBVIOUS
  <2>1. w \in Events \X Services /\ w[1] = e
    BY DEF FailuresOf, LogInv
  <2> QED
    BY <2>1 DEF Services
<1>4. ASSUME NEW x, NEW y, NEW T, T \subseteq {x} \cup {y}
      PROVE  IsFiniteSet(T) /\ Cardinality(T) \in Nat
  <2>1. IsFiniteSet({x} \cup {y})
    BY FS_Singleton, FS_AddElement
  <2>2. IsFiniteSet(T)
    BY <1>4, <2>1, FS_Subset
  <2> QED
    BY <2>2, FS_CardinalityType
<1>5. IsFiniteSet(RowsOf(e)) /\ Cardinality(RowsOf(e)) \in Nat
  BY <1>1, FeedAssumption, FS_Subset, FS_CardinalityType
<1>6. IsFiniteSet(InsertsOf(e)) /\ Cardinality(InsertsOf(e)) \in Nat
  BY <1>2, <1>4
<1>7. IsFiniteSet(FailuresOf(e)) /\ Cardinality(FailuresOf(e)) \in Nat
  BY <1>3, <1>4
<1>8. Cardinality(RowsOf(e)) + Cardinality(InsertsOf(e)) + Cardinality(FailuresOf(e))
        = IF published[e].kind \in Logged THEN Cardinality(Services) ELSE 0
  BY DEF LogInv, LoggedByEachService, RowsOf, InsertsOf, FailuresOf
<1> QED
  BY <1>5, <1>6, <1>7, <1>8, ServicesTwo

(* What it takes to keep the count of each event. *)
LEMMA CountsKept ==
  ASSUME \A e \in Events :
           Cardinality(RowsOf(e)') + Cardinality(InsertsOf(e)') + Cardinality(FailuresOf(e)')
             = IF published'[e].kind \in Logged THEN 2 ELSE 0
  PROVE  LoggedByEachService'
BY ServicesTwo DEF LoggedByEachService, RowsOf, InsertsOf, FailuresOf

LEMMA LogInit == Init => LogInv
<1> SUFFICES ASSUME Init PROVE LogInv
  OBVIOUS
<1>1. \A e \in Events : published[e] = Unpublished /\ Unpublished.kind = None
  BY DEF Init, Unpublished
<1>2. inserting = {} /\ unlogged = {} /\ log \in [Entries -> Events \cup {None, Earlier}]
      /\ \A n \in Entries : log[n] \in {None, Earlier}
  BY DEF Init
<1>3. \A e \in Events : e # None /\ e # Earlier
  BY FeedAssumption DEF Earlier
<1>4. \A e \in Events : RowsOf(e) = {} /\ InsertsOf(e) = {} /\ FailuresOf(e) = {}
  BY <1>2, <1>3 DEF RowsOf, InsertsOf, FailuresOf
<1>5. None \notin Logged
  BY FeedAssumption DEF Logged, Kinds
<1>6. LoggedByEachService
  BY <1>1, <1>4, <1>5, FS_EmptySet DEF LoggedByEachService, RowsOf, InsertsOf, FailuresOf
<1>7. \A n \in Entries : log[n] \notin Events
  BY <1>2, <1>3
<1>8. inserting \subseteq Servers \X Events \X Services /\ unlogged \subseteq Events \X Services
      /\ (\A w \in inserting : IsPublished(w[2]) /\ w[1] = published[w[2]].at
                                /\ <<w[2], w[3]>> \notin unlogged)
      /\ \A w \in unlogged : IsPublished(w[1])
  BY <1>2
<1>9. log \in [Entries -> Events \cup {None, Earlier}]
  BY <1>2
<1>10. \A n \in Entries : log[n] \in Events => IsPublished(log[n])
  BY <1>7
<1> QED
  BY <1>6, <1>8, <1>9, <1>10 DEF LogInv

LEMMA PublishLog ==
  ASSUME Base, Wired, LogInv, NEW r \in Requests, NEW e \in Events, NEW kind \in Kinds,
         Publish(r, e, kind), clock' \in 0..MaxTime
  PROVE  LogInv'
<1>0. PICK s \in Servers : s = request[r].at
  BY DEF Base, ServerInv, ServerTypeOK, Request
<1>1. published' = [published EXCEPT ![e] = [kind |-> kind, at |-> s, ms |-> clock]]
  BY <1>0 DEF Publish
<1>2. ~IsPublished(e) /\ LogEvent(s, e, kind) /\ UNCHANGED <<log, unlogged>>
  BY <1>0 DEF Publish
<1>3. published'[e].at = s /\ published'[e].kind = kind
      /\ \A d \in Events : d # e => published'[d] = published[d]
  BY <1>1 DEF Wired
<1>4. IsPublished(e)'
  BY <1>3, FeedAssumption DEF IsPublished, Unpublished
<1>5. \A d \in Events : IsPublished(d) => IsPublished(d)' /\ published'[d] = published[d]
  BY <1>2, <1>3 DEF IsPublished
<1>6. RowsOf(e) = {} /\ InsertsOf(e) = {} /\ FailuresOf(e) = {}
  BY <1>2 DEF LogInv, RowsOf, InsertsOf, FailuresOf
<1> DEFINE b == <<s, e, "bootstrap">>
           c == <<s, e, "controller">>
<1>7. b[1] = s /\ b[2] = e /\ c[1] = s /\ c[2] = e /\ b # c
      /\ b[3] = "bootstrap" /\ c[3] = "controller"
      /\ b \in Servers \X Events \X Services /\ c \in Servers \X Events \X Services
  BY DEF Services
<1>8. inserting' = IF kind \in Logged THEN inserting \cup {b, c} ELSE inserting
  BY <1>2 DEF LogEvent, Services
<1> HIDE DEF b, c
<1>9. inserting' \subseteq Servers \X Events \X Services
  BY <1>7, <1>8 DEF LogInv
<1>10. \A w \in inserting' :
         IsPublished(w[2])' /\ w[1] = published'[w[2]].at /\ <<w[2], w[3]>> \notin unlogged
  <2> SUFFICES ASSUME NEW w \in inserting'
               PROVE  IsPublished(w[2])' /\ w[1] = published'[w[2]].at /\ <<w[2], w[3]>> \notin unlogged
    OBVIOUS
  <2>1. CASE w \in inserting
    <3>1. w[2] \in Events /\ IsPublished(w[2]) /\ w[1] = published[w[2]].at
          /\ <<w[2], w[3]>> \notin unlogged
      BY <2>1 DEF LogInv
    <3> QED
      BY <1>5, <3>1
  <2>2. CASE w = b \/ w = c
    <3>1. \A x : <<e, x>> \notin unlogged
      BY <1>2 DEF LogInv
    <3> QED
      BY <1>3, <1>4, <1>7, <2>2, <3>1
  <2> QED
    BY <1>8, <2>1, <2>2
<1>11. \A w \in unlogged : IsPublished(w[1])'
  <2>1. \A w \in unlogged : w[1] \in Events /\ IsPublished(w[1])
    BY DEF LogInv
  <2> QED
    BY <1>5, <2>1
<1>14. \A n \in Entries : log[n] \in Events => published'[log[n]] # Unpublished
  BY <1>5 DEF LogInv, IsPublished
<1>12. ASSUME NEW d \in Events
       PROVE  Cardinality(RowsOf(d)') + Cardinality(InsertsOf(d)') + Cardinality(FailuresOf(d)')
                = IF published'[d].kind \in Logged THEN 2 ELSE 0
  <2>1. RowsOf(d)' = RowsOf(d) /\ FailuresOf(d)' = FailuresOf(d)
    BY <1>2 DEF RowsOf, FailuresOf
  <2>2. CASE d # e
    <3>1. InsertsOf(d)' = InsertsOf(d)
      BY <1>7, <1>8, <2>2 DEF InsertsOf
    <3> QED
      BY <1>3, <2>1, <2>2, <3>1, LogCounts
  <2>3. CASE d = e
    <3>1. InsertsOf(e)' = IF kind \in Logged THEN {b, c} ELSE {}
      BY <1>6, <1>7, <1>8 DEF InsertsOf
    <3>2. Cardinality({b, c}) = 2
      <4>1. {b, c} = {b} \cup {c} /\ c \notin {b}
        BY <1>7
      <4>2. IsFiniteSet({b}) /\ Cardinality({b}) = 1
        BY FS_Singleton
      <4>3. Cardinality({b} \cup {c}) = 1 + 1
        BY <4>1, <4>2, FS_AddElement
      <4> QED
        BY <4>1, <4>3
    <3> QED
      BY <1>3, <1>6, <2>1, <2>3, <3>1, <3>2, FS_EmptySet
  <2> QED
    BY <2>2, <2>3
<1>13. LoggedByEachService'
  BY <1>12, CountsKept
<1> QED
  <2>1. \A n \in Entries : log'[n] \in Events => published'[log'[n]] # Unpublished
    BY <1>2, <1>14
  <2> QED
    BY <1>2, <1>9, <1>10, <1>11, <1>13, <2>1 DEF LogInv, IsPublished

LEMMA InsertLog ==
  ASSUME LogInv, UNCHANGED published, NEW s \in Servers, NEW e \in Events, NEW service \in Services,
         InsertEntry(s, e, service)
  PROVE  LogInv'
<1> DEFINE w == <<s, e, service>>
<1>1. w \in inserting /\ w[1] = s /\ w[2] = e /\ w[3] = service /\ inserting' = inserting \ {w}
  BY DEF InsertEntry
<1>2. IsPublished(e) /\ s = published[e].at /\ <<e, service>> \notin unlogged
  BY <1>1 DEF LogInv
<1>3. \A d : IsPublished(d)' = IsPublished(d)
  BY DEF IsPublished
<1>4. \A v \in inserting : v[2] = e /\ v[3] = service => v = w
  <2> SUFFICES ASSUME NEW v \in inserting, v[2] = e, v[3] = service PROVE v = w
    OBVIOUS
  <2>1. v \in Servers \X Events \X Services /\ v[1] = s
    BY <1>2 DEF LogInv
  <2> QED
    BY <2>1
<1>5. \A d \in Events : InsertsOf(d)' = IF d = e THEN InsertsOf(d) \ {w} ELSE InsertsOf(d)
  BY <1>1 DEF InsertsOf
<1>6. Cardinality(InsertsOf(e)') = Cardinality(InsertsOf(e)) - 1
  <2>1. w \in InsertsOf(e) /\ InsertsOf(e)' = InsertsOf(e) \ {w}
    BY <1>1, <1>5 DEF InsertsOf
  <2> QED
    BY <2>1, LogCounts, FS_RemoveElement
<1> HIDE DEF w
<1>7. CASE UNCHANGED unlogged
           /\ \E n \in Entries \ Rows : log' = [log EXCEPT ![n] = e]
  <2>1. PICK n \in Entries : log[n] = None /\ log' = [log EXCEPT ![n] = e]
    BY <1>7 DEF Rows
  <2>2. \A d \in Events : d # None
    BY FeedAssumption
  <2>3. log' \in [Entries -> Events \cup {None, Earlier}] /\ log'[n] = e
        /\ \A m \in Entries : m # n => log'[m] = log[m]
    BY <2>1 DEF LogInv
  <2>4. ASSUME NEW d \in Events
        PROVE  Cardinality(RowsOf(d)') + Cardinality(InsertsOf(d)') + Cardinality(FailuresOf(d)')
                 = IF published'[d].kind \in Logged THEN 2 ELSE 0
    <3>1. FailuresOf(d)' = FailuresOf(d)
      BY <1>7 DEF FailuresOf
    <3>2. CASE d = e
      <4>1. RowsOf(e)' = RowsOf(e) \cup {n} /\ n \notin RowsOf(e)
        BY <2>1, <2>2, <2>3 DEF RowsOf
      <4>2. Cardinality(RowsOf(e)') = Cardinality(RowsOf(e)) + 1
        BY <4>1, LogCounts, FS_AddElement
      <4> QED
        BY <1>6, <3>1, <3>2, <4>2, LogCounts
    <3>3. CASE d # e
      <4>1. RowsOf(d)' = RowsOf(d)
        BY <2>1, <2>2, <2>3, <3>3 DEF RowsOf
      <4> QED
        BY <1>5, <3>1, <3>3, <4>1, LogCounts
    <3> QED
      BY <3>2, <3>3
  <2>5. LoggedByEachService'
    BY <2>4, CountsKept
  <2>6. ASSUME NEW m \in Entries, log'[m] \in Events PROVE published'[log'[m]] # Unpublished
    <3>1. \A k \in Entries : log[k] \in Events => published[log[k]] # Unpublished
      BY DEF LogInv, IsPublished
    <3>2. published[e] # Unpublished
      BY <1>2 DEF IsPublished
    <3>3. CASE m = n
      BY <2>3, <3>2, <3>3
    <3>4. CASE m # n
      BY <2>3, <2>6, <3>1, <3>4
    <3> QED
      BY <3>3, <3>4
  <2> QED
    BY <1>1, <1>3, <1>7, <2>3, <2>5, <2>6 DEF LogInv, IsPublished
<1>8. CASE unlogged' = unlogged \cup {<<e, service>>} /\ UNCHANGED log
  <2> DEFINE f == <<e, service>>
  <2>1. f \in Events \X Services /\ f[1] = e /\ f \notin unlogged /\ unlogged' = unlogged \cup {f}
    BY <1>2, <1>8
  <2>2. \A v \in inserting' : <<v[2], v[3]>> # f
    BY <1>1, <1>4
  <2> HIDE DEF f
  <2>3. ASSUME NEW d \in Events
        PROVE  Cardinality(RowsOf(d)') + Cardinality(InsertsOf(d)') + Cardinality(FailuresOf(d)')
                 = IF published'[d].kind \in Logged THEN 2 ELSE 0
    <3>1. RowsOf(d)' = RowsOf(d)
      BY <1>8 DEF RowsOf
    <3>2. CASE d = e
      <4>1. FailuresOf(e)' = FailuresOf(e) \cup {f} /\ f \notin FailuresOf(e)
        BY <2>1 DEF FailuresOf
      <4>2. Cardinality(FailuresOf(e)') = Cardinality(FailuresOf(e)) + 1
        BY <4>1, LogCounts, FS_AddElement
      <4> QED
        BY <1>6, <3>1, <3>2, <4>2, LogCounts
    <3>3. CASE d # e
      <4>1. FailuresOf(d)' = FailuresOf(d)
        BY <2>1, <3>3 DEF FailuresOf
      <4> QED
        BY <1>5, <3>1, <3>3, <4>1, LogCounts
    <3> QED
      BY <3>2, <3>3
  <2>4. LoggedByEachService'
    BY <2>3, CountsKept
  <2> QED
    BY <1>1, <1>2, <1>3, <1>8, <2>1, <2>2, <2>4 DEF LogInv, IsPublished
<1> QED
  BY <1>7, <1>8 DEF InsertEntry

LEMMA DropLog ==
  ASSUME LogInv, UNCHANGED published, NEW s \in Servers, DropInserts(s)
  PROVE  LogInv'
<1> DEFINE mine == {w \in inserting : w[1] = s}
           lost == {<<w[2], w[3]>> : w \in mine}
<1>1. inserting' = inserting \ mine /\ unlogged' = unlogged \cup lost /\ UNCHANGED log
  BY DEF DropInserts
<1>2. \A d : IsPublished(d)' = IsPublished(d)
  BY DEF IsPublished
<1>3. \A w \in inserting : w \in Servers \X Events \X Services /\ IsPublished(w[2])
                           /\ w[1] = published[w[2]].at /\ <<w[2], w[3]>> \notin unlogged
  BY DEF LogInv
<1>4. lost \subseteq Events \X Services /\ \A f \in lost : IsPublished(f[1])
  BY <1>3
<1>5. ASSUME NEW w \in inserting', <<w[2], w[3]>> \in lost PROVE FALSE
  <2>1. PICK v \in mine : <<w[2], w[3]>> = <<v[2], v[3]>>
    BY <1>5
  <2>2. w \in inserting /\ v \in inserting /\ w[1] # s /\ v[1] = s
    BY <1>1
  <2>3. w[2] = v[2]
    BY <2>1
  <2>4. w[1] = published[w[2]].at /\ v[1] = published[v[2]].at
    BY <1>3, <2>2
  <2> QED
    BY <2>2, <2>3, <2>4
<1>6. ASSUME NEW d \in Events
      PROVE  Cardinality(RowsOf(d)') + Cardinality(InsertsOf(d)') + Cardinality(FailuresOf(d)')
               = IF published'[d].kind \in Logged THEN 2 ELSE 0
  <2>1. RowsOf(d)' = RowsOf(d)
    BY <1>1 DEF RowsOf
  <2>2. CASE published[d].at # s
    <3>1. InsertsOf(d)' = InsertsOf(d)
      BY <1>1, <1>3, <2>2 DEF InsertsOf
    <3>2. FailuresOf(d)' = FailuresOf(d)
      <4>1. \A f \in lost : f[1] # d
        BY <1>3, <2>2
      <4> QED
        BY <1>1, <4>1 DEF FailuresOf
    <3> QED
      BY <2>1, <3>1, <3>2, LogCounts
  <2>3. CASE published[d].at = s
    <3> DEFINE I == InsertsOf(d)
               L == {<<w[2], w[3]>> : w \in I}
    <3>1. InsertsOf(d)' = {} /\ I \subseteq mine
      BY <1>1, <1>3, <2>3 DEF InsertsOf
    <3>2. FailuresOf(d)' = FailuresOf(d) \cup L
      <4>1. {f \in lost : f[1] = d} = L
        BY <1>3, <3>1 DEF InsertsOf
      <4>2. FailuresOf(d)' = FailuresOf(d) \cup {f \in lost : f[1] = d}
        BY <1>1 DEF FailuresOf
      <4> QED
        BY <4>1, <4>2
    <3>3. FailuresOf(d) \cap L = {}
      BY <1>3, <3>1 DEF FailuresOf
    <3>4. Cardinality(L) = Cardinality(I) /\ IsFiniteSet(L)
      <4> DEFINE g == [w \in I |-> <<w[2], w[3]>>]
      <4>1. g \in [I -> L] /\ \A y \in L : \E w \in I : g[w] = y
        OBVIOUS
      <4>2. \A v, w \in I : g[v] = g[w] => v = w
        <5> SUFFICES ASSUME NEW v \in I, NEW w \in I, v[2] = w[2], v[3] = w[3] PROVE v = w
          OBVIOUS
        <5>1. v \in inserting /\ w \in inserting
          BY DEF InsertsOf
        <5>2. v \in Servers \X Events \X Services /\ v[1] = published[v[2]].at
          BY <5>1 DEF LogInv
        <5>3. w \in Servers \X Events \X Services /\ w[1] = published[w[2]].at
          BY <5>1 DEF LogInv
        <5>4. v = <<v[1], v[2], v[3]>> /\ w = <<w[1], w[2], w[3]>>
          BY <5>2, <5>3
        <5>5. v[1] = w[1]
          BY <5>2, <5>3
        <5> QED
          BY <5>4, <5>5
      <4> HIDE DEF g
      <4>3. g \in Surjection(I, L) /\ g \in Injection(I, L)
        BY <4>1, <4>2 DEF Surjection, Injection, IsInjective
      <4>4. IsFiniteSet(I)
        BY LogCounts
      <4> QED
        BY <4>3, <4>4, FS_Surjection
    <3> HIDE DEF I, L
    <3>5. Cardinality(FailuresOf(d)') = Cardinality(FailuresOf(d)) + Cardinality(I)
      <4>1. Cardinality(FailuresOf(d) \cup L)
              = Cardinality(FailuresOf(d)) + Cardinality(L) - Cardinality(FailuresOf(d) \cap L)
        BY <3>4, LogCounts, FS_Union
      <4>2. Cardinality(I) \in Nat /\ Cardinality(FailuresOf(d)) \in Nat
        BY LogCounts DEF I
      <4>3. Cardinality(FailuresOf(d) \cap L) = 0
        BY <3>3, FS_EmptySet
      <4> QED
        BY <3>2, <3>4, <4>1, <4>2, <4>3
    <3>6. Cardinality(InsertsOf(d)') = 0
      BY <3>1, FS_EmptySet
    <3> QED
      BY <2>1, <3>5, <3>6, LogCounts DEF I
  <2> QED
    BY <2>2, <2>3
<1> HIDE DEF mine, lost
<1>7. LoggedByEachService'
  BY <1>6, CountsKept
<1>8. unlogged' \subseteq Events \X Services /\ \A f \in unlogged' : IsPublished(f[1])'
  BY <1>1, <1>2, <1>4 DEF LogInv
<1> QED
  BY <1>1, <1>2, <1>5, <1>7, <1>8 DEF LogInv, IsPublished

LEMMA LogStep == ASSUME Base, Wired, LogInv, [Next]_vars PROVE LogInv'
<1>1. clock' \in 0..MaxTime
  BY ClockStep
<1>2. ASSUME UNCHANGED <<published, log, inserting, unlogged>> PROVE LogInv'
  BY <1>2 DEF LogInv, LoggedByEachService, IsPublished
<1>3. ASSUME Tick \/ HttpStep \/ PresenceExpires \/ UNCHANGED vars
      PROVE  UNCHANGED <<published, log, inserting, unlogged>>
  BY <1>3 DEF Tick, HttpStep, PresenceExpires, vars, wsVars, feedVars
<1>4. ASSUME FeedStep PROVE LogInv'
  <2>1. UNCHANGED published
    BY <1>4 DEF FeedStep, wsVars
  <2>2. ASSUME AskFeed \/ ReadFeed \/ LeaveFeed
        PROVE  UNCHANGED <<log, inserting, unlogged>>
    BY <2>2 DEF AskFeed, ReadFeed, LeaveFeed
  <2> QED
    BY <1>2, <1>4, <2>1, <2>2, InsertLog DEF FeedStep
<1>5. ASSUME NEW c \in Clients,
             (\E s \in Servers : Connect(c, s)) \/ Disconnect(c) \/ Vanish(c) \/ Pong(c)
      PROVE  UNCHANGED <<published, log, inserting, unlogged>>
  BY <1>5 DEF Connect, Disconnect, Vanish, Pong, feedVars
<1>6. ASSUME NEW s \in Servers, Heartbeat(s) \/ Redis(s)
      PROVE  UNCHANGED <<published, log, inserting, unlogged>>
  BY <1>6 DEF Heartbeat, Redis, feedVars
<1>7. ASSUME NEW s \in Servers, Shutdown(s) \/ Die(s) \/ Unhandled(s) PROVE LogInv'
  <2>1. DropInserts(s) /\ UNCHANGED published
    BY <1>7 DEF Shutdown, Die, Unhandled, Fall, wsVars
  <2> QED
    BY <2>1, DropLog
<1> QED
  BY <1>1, <1>2, <1>3, <1>4, <1>5, <1>6, <1>7, PublishLog DEF Next

LEMMA CountedLogged == LogInv => EventsLogged
<1> SUFFICES ASSUME LogInv, NEW e \in Events
             PROVE  IF published[e].kind \in Logged
                      THEN \/ \E n \in Entries : log[n] = e
                           \/ \E w \in inserting : w[2] = e
                           \/ \A service \in Services : <<e, service>> \in unlogged
                      ELSE \A n \in Entries : log[n] # e
  BY DEF EventsLogged
<1> DEFINE n == Cardinality(RowsOf(e))
           i == Cardinality(InsertsOf(e))
           f == Cardinality(FailuresOf(e))
<1>0. /\ n \in Nat /\ i \in Nat /\ f \in Nat
      /\ n + i + f = IF published[e].kind \in Logged THEN 2 ELSE 0
  BY LogCounts
<1>3. n = 0 => RowsOf(e) = {}
  BY LogCounts, FS_EmptySet
<1>1. CASE published[e].kind \notin Logged
  <2> HIDE DEF n, i, f
  <2>1. n = 0
    BY <1>0, <1>1
  <2>2. RowsOf(e) = {}
    BY <1>3, <2>1
  <2> QED
    BY <1>1, <2>2 DEF RowsOf
<1>2. CASE published[e].kind \in Logged
  <2> SUFFICES ASSUME RowsOf(e) = {}, InsertsOf(e) = {}, NEW service \in Services,
                      <<e, service>> \notin unlogged
               PROVE  FALSE
    BY <1>2 DEF RowsOf, InsertsOf
  <2>5. n = 0 /\ i = 0
    BY FS_EmptySet
  <2> HIDE DEF n, i, f
  <2>1. f = 2
    BY <1>0, <1>2, <2>5
  <2> DEFINE b == <<e, "bootstrap">>
             c == <<e, "controller">>
  <2>2. FailuresOf(e) \subseteq {b} \/ FailuresOf(e) \subseteq {c}
    <3>1. \A w \in FailuresOf(e) : w \in unlogged /\ (w = b \/ w = c)
      BY DEF FailuresOf, LogInv, Services
    <3>2. service = "bootstrap" => b \notin unlogged
      OBVIOUS
    <3>3. service = "controller" => c \notin unlogged
      OBVIOUS
    <3> QED
      BY <3>1, <3>2, <3>3 DEF Services
  <2>3. \A x : IsFiniteSet({x}) /\ Cardinality({x}) = 1
    BY FS_Singleton
  <2>4. f <= 1
    <3>1. PICK x : FailuresOf(e) \subseteq {x}
      BY <2>2
    <3>2. IsFiniteSet({x}) /\ Cardinality({x}) = 1
      BY <2>3
    <3>3. Cardinality(FailuresOf(e)) <= Cardinality({x})
      BY <3>1, <3>2, FS_Subset
    <3> QED
      BY <3>2, <3>3 DEF f
  <2> QED
    BY <2>1, <2>4
<1> QED
  BY <1>1, <1>2

(* No event of a kind that is logged goes missing but when the inserts of both services    *)
(* failed or were cut off: no crash, shutdown or failed insert loses one by itself.         *)
THEOREM LoggedUnlessFailed == Spec => []EventsLogged
<1>1. Base /\ Wired /\ LogInv /\ [Next]_vars => LogInv'
  BY LogStep
<1> QED
  BY LogInit, BaseKept, WiredKept, CountedLogged, <1>1, PTL DEF Spec

-----------------------------------------------------------------------------
(* The feed.  While no row is added, a row was seen, is past the cursor, or is of the      *)
(* millisecond a page ended within.                                                       *)

Excused(n) ==
  \E last \in feed.marks :
    CreatedAt[last] > Milli(CreatedAt[last]) /\ Milli(CreatedAt[n]) = Milli(CreatedAt[last])

FeedInv ==
  /\ feed \in Feed
  /\ feed.step = "idle" => feed.cursor = None
  /\ feed.quiet /\ feed.step # "idle" =>
       \A n \in Rows :
         \/ n \in feed.seen
         \/ Excused(n)
         \/ (feed.step = "query" \/ feed.more) /\ n \in Older(feed.cursor, Rows)

ByAge == {p \in Entries \X Entries : Newer(p[1], p[2])}

LEMMA MilliFacts ==
  ASSUME NEW t \in Nat
  PROVE  Milli(t) \in Nat /\ Milli(t) <= t /\ t <= Milli(t) + 1 /\ Milli(Milli(t)) = Milli(t)
BY DEF Milli

LEMMA ByAgeOrders == ASSUME NEW S, S \subseteq Entries PROVE IsOrder(ByAge, S) /\ IsFiniteSet(S)
<1>1. \A x, y \in Entries : <<x, y>> \in ByAge <=> Newer(x, y)
  BY DEF ByAge
<1>2. \A x \in Entries : x \in Nat /\ CreatedAt[x] \in Nat
  BY FeedAssumption
<1>3. IsOrder(ByAge, S)
  BY <1>1, <1>2 DEF IsOrder, Newer
<1>4. IsFiniteSet(S)
  BY FeedAssumption, FS_Subset
<1> QED
  BY <1>3, <1>4

LEMMA NewestFirst ==
  ASSUME NEW S, S \subseteq Entries, NEW k
  PROVE  NewestOf(k, S) = FirstOf(ByAge, k, S)
<1>1. ASSUME NEW x \in S PROVE {y \in S : Newer(y, x)} = Before(ByAge, x, S)
  BY DEF ByAge, Before
<1> QED
  BY <1>1 DEF NewestOf, FirstOf

LEMMA OldestLast ==
  ASSUME NEW S, S \subseteq Entries, S # {}
  PROVE  OldestOf(S) \in S
<1>1. PICK x \in S : \A y \in S : y = x \/ <<y, x>> \in ByAge
  BY ByAgeOrders, LastExists
<1>2. \A y \in S : y = x \/ Newer(y, x)
  BY <1>1 DEF ByAge
<1> QED
  BY <1>2 DEF OldestOf

(* A page is the newest of what is past the cursor; if it is not all of it, the rest is   *)
(* older than the page's last row.                                                        *)
LEMMA PageSplits ==
  ASSUME NEW S, S \subseteq Entries, NEW rows, NEW items,
         rows = NewestOf(FeedLimit + 1, S), items = NewestOf(FeedLimit, rows)
  PROVE  /\ items \subseteq rows /\ rows \subseteq S
         /\ items = rows => items = S
         /\ items # rows => OldestOf(items) \in items
         /\ \A x \in items, n \in S \ items : Newer(x, n)
<1>1. IsOrder(ByAge, S) /\ IsFiniteSet(S) /\ FeedLimit \in Nat \ {0}
  BY ByAgeOrders, FeedAssumption
<1>2. rows = FirstOf(ByAge, FeedLimit + 1, S) /\ rows \subseteq S
  BY <1>1, NewestFirst, FirstFinite
<1>3. IsOrder(ByAge, rows) /\ IsFiniteSet(rows) /\ rows \subseteq Entries
  BY <1>2, ByAgeOrders
<1>4. items = FirstOf(ByAge, FeedLimit, rows) /\ items \subseteq rows
  BY <1>3, NewestFirst, FirstFinite
<1>5. items = rows => items = S
  BY <1>1, <1>2, <1>4, FirstAll
<1>6. items # rows => OldestOf(items) \in items
  <2> SUFFICES ASSUME items # rows PROVE OldestOf(items) \in items
    OBVIOUS
  <2>1. items # {}
    BY <1>1, <1>3, <1>4, FirstNonempty
  <2> QED
    BY <1>3, <1>4, <2>1, OldestLast
<1>7. ASSUME NEW x \in items, NEW n \in S \ items PROVE Newer(x, n)
  <2>1. CASE n \in rows
    <3>1. <<x, n>> \in ByAge
      BY <1>1, <1>3, <1>4, <2>1, FirstClosed
    <3> QED
      BY <3>1 DEF ByAge
  <2>2. CASE n \notin rows
    <3>1. x \in rows /\ n \in S \ rows /\ FeedLimit + 1 \in Nat
      BY <1>1, <1>4, <2>2
    <3>2. <<x, n>> \in ByAge
      BY <1>1, <1>2, <3>1, FirstClosed
    <3> QED
      BY <3>2 DEF ByAge
  <2> QED
    BY <2>1, <2>2
<1> QED
  BY <1>2, <1>4, <1>5, <1>6, <1>7

LEMMA ReadFeedKeeps == ASSUME FeedInv, ReadFeed PROVE FeedInv'
<1> DEFINE old == Older(feed.cursor, Rows)
           rows == NewestOf(FeedLimit + 1, old)
           items == NewestOf(FeedLimit, rows)
           last == OldestOf(items)
           cut_ == [ms |-> Milli(CreatedAt[last]), id |-> last]
<1>1. feed' = [feed EXCEPT !.step = "shown", !.more = (items # rows), !.seen = @ \cup items,
                           !.cursor = IF items = rows THEN None ELSE cut_,
                           !.marks = IF items = rows THEN @ ELSE @ \cup {last}]
      /\ feed.step = "query" /\ UNCHANGED log
  BY DEF ReadFeed
<1>2. old \subseteq Rows /\ Rows \subseteq Entries /\ Rows' = Rows
  BY <1>1 DEF Older, Rows
<1> HIDE DEF old, rows, items, last
<1>3. /\ items \subseteq rows /\ rows \subseteq old
      /\ items = rows => items = old
      /\ items # rows => last \in items
      /\ \A x \in items, n \in old \ items : Newer(x, n)
  <2>1. old \subseteq Entries /\ rows = NewestOf(FeedLimit + 1, old) /\ items = NewestOf(FeedLimit, rows)
    BY <1>2 DEF rows, items
  <2> QED
    BY <2>1, PageSplits DEF last
<1>4. items # rows => last \in Entries /\ cut_ \in [ms: Nat, id: Entries]
  BY <1>2, <1>3, FeedAssumption, MilliFacts
<1>5. feed \in Feed /\ feed.seen \subseteq Entries /\ feed.marks \subseteq Entries
      /\ feed.quiet \in BOOLEAN
  BY DEF FeedInv, Feed
<1>6. feed'.step = "shown" /\ feed'.seen = feed.seen \cup items /\ feed'.quiet = feed.quiet
      /\ feed'.cursor = (IF items = rows THEN None ELSE cut_)
      /\ feed'.marks = (IF items = rows THEN feed.marks ELSE feed.marks \cup {last})
      /\ (feed'.more <=> items # rows)
  BY <1>1, <1>5 DEF Feed
<1>7. feed' \in Feed
  <2>1. (items # rows) \in BOOLEAN /\ items \subseteq Entries
    BY <1>2, <1>3
  <2>2. CASE items = rows
    BY <1>1, <1>5, <2>1, <2>2 DEF Feed
  <2>3. CASE items # rows
    BY <1>1, <1>4, <1>5, <2>1, <2>3 DEF Feed
  <2> QED
    BY <2>2, <2>3
<1>8. ASSUME feed.quiet, NEW n \in Rows
      PROVE  n \in feed'.seen \/ Excused(n)' \/ (feed'.more /\ n \in Older(feed'.cursor, Rows))
  <2>1. n \in feed.seen \/ Excused(n) \/ n \in old
    BY <1>1, <1>8 DEF FeedInv, old
  <2>2. feed.marks \subseteq feed'.marks
    BY <1>6
  <2>3. Excused(n) => Excused(n)'
    BY <2>2 DEF Excused
  <2>4. CASE n \in old /\ n \notin items
    <3>1. items # rows /\ Newer(last, n) /\ last \in Entries /\ n \in Entries /\ last \in feed'.marks
      BY <1>2, <1>3, <1>4, <1>6, <2>4
    <3>2. CreatedAt[last] \in Nat /\ CreatedAt[n] \in Nat /\ last \in Nat /\ n \in Nat
      BY <3>1, FeedAssumption
    <3> DEFINE ms == Milli(CreatedAt[last])
    <3>3. ms \in Nat /\ ms <= CreatedAt[last] /\ CreatedAt[last] <= ms + 1 /\ Milli(ms) = ms
      BY <3>2, MilliFacts
    <3>4. CreatedAt[last] > CreatedAt[n] \/ (CreatedAt[last] = CreatedAt[n] /\ last > n)
      BY <3>1 DEF Newer
    <3>5. feed'.cursor = cut_ /\ cut_.ms = ms /\ cut_.id = last /\ feed'.more
      BY <1>6, <3>1
    <3>6. Excused(n)' \/ ~(CreatedAt[last] > ms /\ Milli(CreatedAt[n]) = ms)
      BY <3>1 DEF Excused
    <3> HIDE DEF ms, cut_
    <3>7. CASE CreatedAt[n] < ms \/ (CreatedAt[n] = ms /\ n < last)
      <4>1. n \in Older(cut_, Rows)
        BY <3>5, <3>7 DEF Older
      <4> QED
        BY <3>5, <4>1
    <3>8. CASE CreatedAt[n] = ms /\ ~(n < last)
      <4>1. CreatedAt[last] > ms /\ Milli(CreatedAt[n]) = ms
        BY <3>2, <3>3, <3>4, <3>8
      <4> QED
        BY <3>6, <4>1
    <3>9. CASE CreatedAt[n] > ms
      <4>1. CreatedAt[last] > ms /\ CreatedAt[n] = CreatedAt[last]
        BY <3>2, <3>3, <3>4, <3>9
      <4> QED
        BY <3>6, <4>1 DEF ms
    <3> QED
      BY <3>2, <3>3, <3>7, <3>8, <3>9
  <2> QED
    BY <1>6, <2>1, <2>3, <2>4
<1> QED
  BY <1>2, <1>6, <1>7, <1>8 DEF FeedInv

LEMMA FeedInit == Init => FeedInv
<1> SUFFICES ASSUME Init PROVE FeedInv
  OBVIOUS
<1>1. feed = NoFeed
  BY DEF Init
<1>2. NoFeed \in Feed
  BY DEF NoFeed, Feed
<1>3. NoFeed.step = "idle" /\ NoFeed.cursor = None
  BY DEF NoFeed
<1> QED
  BY <1>1, <1>2, <1>3 DEF FeedInv

LEMMA FeedSteps ==
  ASSUME FeedInv,
         \/ UNCHANGED <<log, feed>>
         \/ AskFeed \/ ReadFeed \/ LeaveFeed
         \/ \E s \in Servers, e \in Events, service \in Services : InsertEntry(s, e, service)
  PROVE  FeedInv'
<1>1. feed \in Feed
  BY DEF FeedInv
<1>2. ASSUME UNCHANGED <<log, feed>> PROVE FeedInv'
  BY <1>2 DEF FeedInv, Rows, Excused, Older
<1>3. ASSUME AskFeed PROVE FeedInv'
  <2>1. feed' = [feed EXCEPT !.step = "query"] /\ UNCHANGED log
        /\ (feed.step = "idle" \/ (feed.step = "shown" /\ feed.more))
    BY <1>3 DEF AskFeed
  <2>2. feed' \in Feed /\ feed'.step = "query" /\ feed'.cursor = feed.cursor
        /\ feed'.seen = feed.seen /\ feed'.marks = feed.marks /\ feed'.quiet = feed.quiet
    BY <1>1, <2>1 DEF Feed
  <2>3. Rows' = Rows /\ \A n : Excused(n)' = Excused(n)
    BY <2>1, <2>2 DEF Rows, Excused
  <2>4. feed.step = "idle" => Older(feed.cursor, Rows) = Rows
    BY DEF FeedInv, Older
  <2> QED
    BY <2>1, <2>2, <2>3, <2>4 DEF FeedInv
<1>4. ASSUME LeaveFeed PROVE FeedInv'
  <2>1. feed' = NoFeed /\ NoFeed \in Feed /\ NoFeed.step = "idle" /\ NoFeed.cursor = None
    BY <1>4 DEF LeaveFeed, NoFeed, Feed
  <2> QED
    BY <2>1 DEF FeedInv
<1>5. ASSUME NEW s \in Servers, NEW e \in Events, NEW service \in Services,
             InsertEntry(s, e, service)
      PROVE  FeedInv'
  <2>1. CASE feed' = [feed EXCEPT !.quiet = (feed.step = "idle")]
    <3>1. (feed.step = "idle") \in BOOLEAN
      OBVIOUS
    <3>2. feed' \in Feed /\ feed'.step = feed.step /\ feed'.cursor = feed.cursor
          /\ (feed'.quiet <=> feed.step = "idle")
      BY <1>1, <2>1, <3>1 DEF Feed
    <3> QED
      BY <3>2 DEF FeedInv
  <2>2. CASE UNCHANGED <<log, feed>>
    BY <1>2, <2>2
  <2> QED
    BY <1>5, <2>1, <2>2 DEF InsertEntry
<1> QED
  BY <1>2, <1>3, <1>4, <1>5, ReadFeedKeeps

LEMMA FeedStepKept == ASSUME FeedInv, [Next]_vars PROVE FeedInv'
<1>1. ASSUME Tick \/ HttpStep \/ PresenceExpires \/ UNCHANGED vars PROVE UNCHANGED <<log, feed>>
  BY <1>1 DEF Tick, HttpStep, PresenceExpires, vars, feedVars
<1>2. ASSUME FeedStep PROVE FeedInv'
  BY <1>2, FeedSteps DEF FeedStep
<1>3. ASSUME NEW c \in Clients,
             (\E s \in Servers : Connect(c, s)) \/ Disconnect(c) \/ Vanish(c) \/ Pong(c)
      PROVE  UNCHANGED <<log, feed>>
  BY <1>3 DEF Connect, Disconnect, Vanish, Pong, feedVars
<1>4. ASSUME NEW s \in Servers, Heartbeat(s) \/ Redis(s) PROVE UNCHANGED <<log, feed>>
  BY <1>4 DEF Heartbeat, Redis, feedVars
<1>5. ASSUME NEW s \in Servers, Shutdown(s) \/ Die(s) \/ Unhandled(s) PROVE UNCHANGED <<log, feed>>
  <2>1. DropInserts(s)
    BY <1>5 DEF Shutdown, Die, Unhandled, Fall
  <2> QED
    BY <2>1 DEF DropInserts
<1>6. ASSUME NEW r \in Requests, NEW e \in Events, NEW kind \in Kinds, Publish(r, e, kind)
      PROVE  UNCHANGED <<log, feed>>
  BY <1>6 DEF Publish
<1> QED
  BY <1>1, <1>2, <1>3, <1>4, <1>5, <1>6, FeedSteps DEF Next

(* Whatever the page size, the rows and their times: reading a feed to its end misses no  *)
(* row but some of a millisecond that a page ended within.                                *)
THEOREM FeedMisses == Spec => []FeedMissesOnlySameMilli
<1>1. FeedInv /\ [Next]_vars => FeedInv'
  BY FeedStepKept
<1>2. FeedInv => FeedMissesOnlySameMilli
  BY DEF FeedInv, FeedMissesOnlySameMilli, Excused
<1> QED
  BY FeedInit, <1>1, <1>2, PTL DEF Spec

(* Every value a behaviour reaches is of its type, the commands and sockets included.     *)
THEOREM TypesKept == Spec => []TypeOK
<1>1. Base /\ Wired /\ LogInv /\ FeedInv => TypeOK
  <2> SUFFICES ASSUME Base, Wired, LogInv, FeedInv PROVE TypeOK
    OBVIOUS
  <2>1. ServerTypeOK /\ FeedTypeOK
    BY DEF Base, ServerInv, LogInv, FeedInv, FeedTypeOK
  <2>2. outbox \in [Servers -> Seq(Command)]
    <3>1. Asked \subseteq Command
      BY DEF Asked
    <3>2. \A q \in Seq(Asked) : q \in Seq(Command)
      BY <3>1
    <3> QED
      BY <3>2 DEF Wired
  <2> QED
    BY <2>1, <2>2 DEF Wired, TypeOK
<1>2. Base /\ Wired /\ LogInv /\ [Next]_vars => LogInv'
  BY LogStep
<1>3. FeedInv /\ [Next]_vars => FeedInv'
  BY FeedStepKept
<1> QED
  BY LogInit, FeedInit, BaseKept, WiredKept, <1>1, <1>2, <1>3, PTL DEF Spec
===============================================================================
