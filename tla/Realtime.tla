------------------------------- MODULE Realtime -------------------------------
(***************************************************************************)
(* Domain events of a project (src/src/core/events) on their way to the    *)
(* activity log and to WebSocket clients (src/src/modules/websocket): rooms *)
(* in the memory of each process, a replay buffer and the presence of users *)
(* in Redis.                                                               *)
(*                                                                         *)
(* publish calls its subscribers at once, so a room hears of an event      *)
(* before anything else happens in the process.  What they ask of Redis    *)
(* goes through the one connection of the process, in the order sent; a    *)
(* command sent when another was answered is here sent at that moment.     *)
(* The processes' clocks agree.                                            *)
(***************************************************************************)
EXTENDS ActivityFeed, SequencesExt

CONSTANTS
  Clients, UserOf, \* tabs, and whose they are; None: the URL has no userId
  Users,
  Window,          \* REPLAY_WINDOW_SECONDS, in the ms of the clock
  Cap,             \* REPLAY_BUFFER_MAX_ITEMS
  MaxTime,         \* bound: how far the clock runs
  MaxConnections,  \* bound: how often a client connects
  Workloads        \* what happens in a behaviour: see Workload

VARIABLES
  workload,
  clock,      \* ms
  published,  \* of each event: its kind, process and time, or Unpublished
  rooms,      \* the sockets in the project's room, per process
  socket,     \* of each client
  got,        \* the events each client has received
  owed,       \* history: events stored when the client connected
  outbox,     \* commands a process has sent to Redis, not executed yet
  buffer,     \* events:{projectId}; an event's score is its time
  unstored,   \* history: events Redis did not take
  presence,   \* presence:{projectId}
  expiring,   \* whether presence has a TTL
  blurred     \* history: users whose presence no longer tells of their tabs

wsVars == <<published, rooms, socket, got, owed, outbox, buffer, unstored, presence, expiring,
            blurred>>
vars == <<workload, clock, wsVars, serverVars, feedVars>>

(* The parts of the system that are busy, the kinds of event, who takes part, the rows   *)
(* of the log there are, how often a client connects, whether Redis commands may fail,   *)
(* and whether processes may die.                                                        *)
Workload == [parts: SUBSET {"requests", "sockets", "feed", "shutdown", "pings"}, kinds: SUBSET Kinds,
             servers: SUBSET Servers, requests: SUBSET Requests, clients: SUBSET Clients,
             events: SUBSET Events, rows: SUBSET Entries, connections: 0..MaxConnections, faults: BOOLEAN,
             crashes: BOOLEAN]

ASSUME RealtimeAssumption ==
  /\ IsFiniteSet(Clients) /\ UserOf \in [Clients -> Users \cup {None}] /\ None \notin Users
  /\ Window \in Nat /\ Cap \in Nat \ {0} /\ MaxTime \in Nat /\ MaxConnections \in Nat
  /\ Workloads \subseteq Workload

Unpublished == [kind |-> None, at |-> NoRequest.at, ms |-> 0]

(* vanished: the client is gone, and the process has not noticed. *)
Socket == [state: {"closed", "open", "vanished"}, at: Servers, alive: BOOLEAN,
           since: {None} \cup 0..MaxTime, n: 0..MaxConnections]

NoSocket == [state |-> "closed", at |-> NoRequest.at, alive |-> FALSE, since |-> None, n |-> 0]

Command == [cmd: {"zadd", "age", "rank", "zrange", "hset", "expire", "hdel"},
            event: Events \cup {None}, client: Clients \cup {None}, n: 0..MaxConnections]

TypeOK ==
  /\ ServerTypeOK /\ FeedTypeOK
  /\ clock \in 0..MaxTime
  /\ published \in [Events -> [kind: Kinds \cup {None}, at: Servers, ms: 0..MaxTime]]
  /\ rooms \in [Servers -> SUBSET Clients]
  /\ socket \in [Clients -> Socket]
  /\ got \in [Clients -> SUBSET Events] /\ owed \in [Clients -> SUBSET Events]
  /\ outbox \in [Servers -> Seq(Command)]
  /\ buffer \subseteq Events /\ unstored \subseteq Events
  /\ presence \subseteq Users /\ expiring \in BOOLEAN /\ blurred \subseteq Users

Init ==
  /\ ServerInit
  /\ workload \in Workloads
  /\ clock = 0
  /\ published = [e \in Events |-> Unpublished]
  /\ rooms = [s \in Servers |-> {}]
  /\ socket = [c \in Clients |-> NoSocket]
  /\ got = [c \in Clients |-> {}]
  /\ owed = [c \in Clients |-> {}]
  /\ outbox = [s \in Servers |-> <<>>]
  /\ buffer = {} /\ unstored = {}
  /\ presence = {} /\ expiring = FALSE /\ blurred = {}
  /\ log = [n \in Entries |-> IF n \in workload.rows THEN Earlier ELSE None]
  /\ inserting = {} /\ unlogged = {} /\ feed = NoFeed

-----------------------------------------------------------------------------

IsPublished(e) == published[e] # Unpublished

Does(part) == part \in workload.parts

Cmd(cmd, e, c) == [cmd |-> cmd, event |-> e, client |-> c,
                   n |-> IF c = None THEN 0 ELSE socket[c].n]

Tick ==
  /\ clock < MaxTime /\ \E e \in workload.events : IsPublished(e)
  /\ clock' = clock + 1
  /\ UNCHANGED <<workload, wsVars, serverVars, feedVars>>

(* Mutant of Broadcast: an event nobody is there to hear is not kept either. *)
Broadcast_OnlyToRooms(s, e) ==
  /\ got' = [c \in Clients |->
       IF c \in rooms[s] /\ socket[c].state = "open" THEN got[c] \cup {e} ELSE got[c]]
  /\ outbox' = IF rooms[s] = {} THEN outbox
               ELSE [outbox EXCEPT ![s] = Append(@, Cmd("zadd", e, None))]

(* broadcastToRoom reaches the room of this process; then appendToReplayBuffer. *)
Broadcast(s, e) ==
  /\ got' = [c \in Clients |->
       IF c \in rooms[s] /\ socket[c].state = "open" THEN got[c] \cup {e} ELSE got[c]]
  /\ outbox' = [outbox EXCEPT ![s] = Append(@, Cmd("zadd", e, None))]

(* eventBus.publish, by a request that is done. *)
Publish(r, e, kind) ==
  LET s == request[r].at IN
    /\ e \in workload.events /\ ~IsPublished(e) /\ kind \in workload.kinds
    /\ \A d \in workload.events : d < e => IsPublished(d)
    /\ Complete(r)
    /\ published' = [published EXCEPT ![e] = [kind |-> kind, at |-> s, ms |-> clock]]
    /\ Broadcast(s, e)
    /\ LogEvent(s, e, kind)
    /\ UNCHANGED <<workload, clock, rooms, socket, owed, buffer, unstored, presence, expiring,
                   blurred, log, unlogged, feed>>

-----------------------------------------------------------------------------
(* Sockets. *)

Send(s, cmds) == outbox' = [outbox EXCEPT ![s] = @ \o cmds]

(* The time of the last event a client knows of: what it passes as ?since=. *)
LastSeen(c) ==
  IF got[c] = {} THEN None
  ELSE CHOOSE t \in 0..MaxTime :
         /\ \E e \in got[c] : published[e].ms = t
         /\ \A e \in got[c] : published[e].ms <= t

(* What is sent to Redis for a user, if the connection names one. *)
ForUser(c, cmd) == IF UserOf[c] = None THEN <<>> ELSE <<cmd>>

(* onConnection: into the room at once; HSET and, to replay, ZRANGEBYSCORE are sent. *)
Connect(c, s) ==
  LET since == LastSeen(c)
      n == socket[c].n + 1 IN
    /\ Does("sockets") /\ c \in workload.clients /\ s \in workload.servers
    /\ socket[c].state = "closed" /\ status[s] = "up" /\ n <= workload.connections
    /\ socket' = [socket EXCEPT ![c] =
         [state |-> "open", at |-> s, alive |-> TRUE, since |-> since, n |-> n]]
    /\ rooms' = [rooms EXCEPT ![s] = @ \cup {c}]
    /\ Send(s, ForUser(c, [Cmd("hset", None, c) EXCEPT !.n = n])
               \o IF since = None THEN <<>> ELSE <<[Cmd("zrange", None, c) EXCEPT !.n = n]>>)
    /\ owed' = [owed EXCEPT ![c] = buffer]
    /\ UNCHANGED <<workload, clock, published, got, buffer, unstored, presence, expiring,
                   blurred, serverVars, feedVars>>

(* Mutant of Leave: a socket that is terminated leaves the room only. *)
Leave_RoomOnly(cs, s) ==
  /\ rooms' = [rooms EXCEPT ![s] = @ \ cs]
  /\ UNCHANGED outbox

(* onDisconnect of the sockets cs: out of the room, and HDEL of each one's user. *)
Leave(cs, s) ==
  /\ rooms' = [rooms EXCEPT ![s] = @ \ cs]
  /\ \E order \in SetToSeqs({c \in cs : UserOf[c] # None}) :
       Send(s, [k \in DOMAIN order |-> Cmd("hdel", None, order[k])])

Disconnect(c) ==
  /\ socket[c].state = "open"
  /\ socket' = [socket EXCEPT ![c] = [NoSocket EXCEPT !.n = socket[c].n]]
  /\ Leave({c}, socket[c].at)
  /\ UNCHANGED <<workload, clock, published, got, owed, buffer, unstored, presence, expiring,
                 blurred, serverVars, feedVars>>

(* The network or the client's machine goes: the process is not told. *)
Vanish(c) ==
  /\ Does("pings") /\ socket[c].state = "open"
  /\ socket' = [socket EXCEPT ![c].state = "vanished"]
  /\ UNCHANGED <<workload, clock, published, rooms, got, owed, outbox, buffer, unstored,
                 presence, expiring, blurred, serverVars, feedVars>>

Pong(c) ==
  /\ socket[c].state = "open" /\ ~socket[c].alive
  /\ socket' = [socket EXCEPT ![c].alive = TRUE]
  /\ UNCHANGED <<workload, clock, published, rooms, got, owed, outbox, buffer, unstored,
                 presence, expiring, blurred, serverVars, feedVars>>

(* Mutant of Heartbeat: sockets are pinged and not marked. *)
Heartbeat_NotMarked(s) ==
  /\ status[s] \in {"up", "draining"} /\ rooms[s] # {}
  /\ UNCHANGED vars

(* Those that did not answer the last ping are terminated, the others pinged.  The *)
(* interval is cleared when the server begins to close.                              *)
Heartbeat(s) ==
  /\ Does("pings") /\ status[s] \in {"up", "draining"} /\ rooms[s] # {}
  /\ LET dead == {c \in rooms[s] : ~socket[c].alive} IN
       /\ socket' = [c \in Clients |->
            IF c \in dead THEN [NoSocket EXCEPT !.n = socket[c].n]
            ELSE IF c \in rooms[s] THEN [socket[c] EXCEPT !.alive = FALSE]
            ELSE socket[c]]
       /\ Leave(dead, s)
  /\ UNCHANGED <<workload, clock, published, got, owed, buffer, unstored, presence, expiring,
                 blurred, serverVars, feedVars>>

-----------------------------------------------------------------------------
(* Redis executes the first command of a process, and what follows its answer is sent. *)

Then(s, cmds) == outbox' = [outbox EXCEPT ![s] = Tail(@) \o cmds]

First(s, cmd) == outbox[s] # <<>> /\ Head(outbox[s]).cmd = cmd

Zadd(s) ==
  /\ First(s, "zadd")
  /\ buffer' = buffer \cup {Head(outbox[s]).event}
  /\ Then(s, <<[Head(outbox[s]) EXCEPT !.cmd = "age"]>>)
  /\ UNCHANGED <<got, unstored, presence, expiring, blurred>>

TrimByAge(s) ==
  /\ First(s, "age")
  /\ LET score == published[Head(outbox[s]).event].ms IN
       buffer' = {e \in buffer : published[e].ms + Window > score}
  /\ Then(s, <<[Head(outbox[s]) EXCEPT !.cmd = "rank"]>>)
  /\ UNCHANGED <<got, unstored, presence, expiring, blurred>>

Later(e, d) == published[e].ms > published[d].ms \/ (published[e].ms = published[d].ms /\ e > d)

Newest == {e \in buffer : Cardinality({d \in buffer : Later(d, e)}) < Cap}

TrimByRank(s) ==
  /\ First(s, "rank")
  /\ buffer' = Newest
  /\ Then(s, <<>>)
  /\ UNCHANGED <<got, unstored, presence, expiring, blurred>>

Replayed(since) == {e \in buffer : published[e].ms >= since + 1}

(* What is found is sent to the socket that asked, if it is still open. *)
Zrange(s) ==
  /\ First(s, "zrange")
  /\ LET c == Head(outbox[s]).client IN
       got' = IF socket[c].state = "open" /\ socket[c].n = Head(outbox[s]).n
                THEN [got EXCEPT ![c] = @ \cup Replayed(socket[c].since)] ELSE got
  /\ Then(s, <<>>)
  /\ UNCHANGED <<buffer, unstored, presence, expiring, blurred>>

TabsOf(u) == {c \in Clients : UserOf[c] = u /\ socket[c].state # "closed"}

(* HSET of a field in a hash that has a TTL, or has none. *)
Hset(s) ==
  /\ First(s, "hset")
  /\ LET c == Head(outbox[s]).client IN
       /\ presence' = presence \cup {UserOf[c]}
       /\ blurred' = IF TabsOf(UserOf[c]) # {} THEN blurred \ {UserOf[c]} ELSE blurred
  /\ Then(s, <<[Head(outbox[s]) EXCEPT !.cmd = "expire"]>>)
  /\ UNCHANGED <<got, buffer, unstored, expiring>>

Expire(s) ==
  /\ First(s, "expire")
  /\ expiring' = (presence # {})
  /\ Then(s, <<>>)
  /\ UNCHANGED <<got, buffer, unstored, presence, blurred>>

(* HDEL of the user, whatever other tabs there are; the last field takes the hash along. *)
Hdel(s) ==
  /\ First(s, "hdel")
  /\ LET u == UserOf[Head(outbox[s]).client] IN
       /\ presence' = presence \ {u}
       /\ expiring' = (expiring /\ presence # {u})
       /\ blurred' = IF TabsOf(u) # {} THEN blurred \cup {u} ELSE blurred \ {u}
  /\ Then(s, <<>>)
  /\ UNCHANGED <<got, buffer, unstored>>

(* What the bus's subscriber asks, whose errors the bus catches. *)
OnBus == {"zadd", "age", "rank"}

(* The command fails: what would have followed it does not. *)
CommandFails(s) ==
  /\ workload.faults /\ outbox[s] # <<>> /\ Head(outbox[s]).cmd \in OnBus
  /\ Then(s, <<>>)
  /\ unstored' = IF First(s, "zadd") THEN unstored \cup {Head(outbox[s]).event} ELSE unstored
  /\ UNCHANGED <<got, buffer, presence, expiring, blurred>>

Redis(s) ==
  /\ \/ Zadd(s) \/ TrimByAge(s) \/ TrimByRank(s) \/ Zrange(s)
     \/ Hset(s) \/ Expire(s) \/ Hdel(s) \/ CommandFails(s)
  /\ UNCHANGED <<workload, clock, published, rooms, socket, owed, serverVars, feedVars>>

(* 300 s after the last connection of anybody, everybody's presence is gone. *)
PresenceExpires ==
  /\ expiring
  /\ presence' = {} /\ expiring' = FALSE
  /\ blurred' = {u \in Users : TabsOf(u) # {}}
  /\ UNCHANGED <<workload, clock, published, rooms, socket, got, owed, outbox, buffer,
                 unstored, serverVars, feedVars>>

-----------------------------------------------------------------------------
(* Processes that end, and start again with nothing. *)

SocketsAt(s) == {c \in Clients : socket[c].state # "closed" /\ socket[c].at = s}

(* close of the WebSocket server closes no socket, and waits until the last is closed; *)
(* QUIT waits for the commands that were sent.                                         *)
Shutdown(s) ==
  /\ Exit(s)
  /\ SocketsAt(s) = {} /\ outbox[s] = <<>>
  /\ DropInserts(s)
  /\ UNCHANGED <<workload, clock, wsVars>>

(* The process ends at once: what it has asked of Redis is lost. *)
Fall(s) ==
  /\ Crash(s)
  /\ socket' = [c \in Clients |->
       IF c \in SocketsAt(s) THEN [NoSocket EXCEPT !.n = socket[c].n] ELSE socket[c]]
  /\ rooms' = [rooms EXCEPT ![s] = {}]
  /\ outbox' = [outbox EXCEPT ![s] = <<>>]
  /\ unstored' = unstored \cup
       {outbox[s][k].event : k \in {j \in DOMAIN outbox[s] : outbox[s][j].cmd = "zadd"}}
  /\ blurred' = blurred \cup ({UserOf[c] : c \in SocketsAt(s)} \ {None}) \cup
       {UserOf[outbox[s][k].client] : k \in {j \in DOMAIN outbox[s] : outbox[s][j].cmd \in {"hset", "hdel"}}}
  /\ DropInserts(s)
  /\ UNCHANGED <<workload, clock, published, got, owed, buffer, presence, expiring>>

Die(s) ==
  /\ workload.crashes /\ s \in workload.servers
  /\ Fall(s)

(* Nobody catches the error of a command sent for a socket: a rejection that is not *)
(* handled ends the process.                                                        *)
Unhandled(s) ==
  /\ workload.faults /\ outbox[s] # <<>> /\ Head(outbox[s]).cmd \notin OnBus
  /\ Fall(s)

HttpStep ==
  /\ \/ \E r \in workload.requests :
          \/ /\ Does("requests") \/ \E e \in workload.events : ~IsPublished(e)
             /\ \E s \in workload.servers : Arrive(r, s)
          \/ Does("requests") /\ (Complete(r) \/ Abort(r))
          \/ Answer(r)
          \/ \E s \in workload.servers : KeepAliveEnds(r, s)
     \/ \E s \in workload.servers :
          \/ Does("shutdown") /\ Signal(s)
          \/ Drained(s) \/ DrainTimeout(s) \/ Restart(s)
  /\ UNCHANGED <<workload, clock, wsVars, feedVars>>

FeedStep ==
  /\ \/ \E s \in Servers, e \in Events, service \in Services : InsertEntry(s, e, service)
     \/ Does("feed") /\ (AskFeed \/ ReadFeed \/ LeaveFeed)
  /\ UNCHANGED <<workload, clock, wsVars, serverVars>>

Next ==
  \/ Tick
  \/ HttpStep
  \/ FeedStep
  \/ \E r \in Requests, e \in Events, kind \in Kinds : Publish(r, e, kind)
  \/ \E c \in Clients :
       (\E s \in Servers : Connect(c, s)) \/ Disconnect(c) \/ Vanish(c) \/ Pong(c)
  \/ \E s \in Servers : Heartbeat(s) \/ Redis(s) \/ Shutdown(s) \/ Die(s) \/ Unhandled(s)
  \/ PresenceExpires

(* Pings are sent, commands executed, and a shutdown goes on. *)
Fairness ==
  \A s \in Servers :
    /\ WF_vars(Heartbeat(s))
    /\ WF_vars(Redis(s))
    /\ WF_vars((Drained(s) \/ DrainTimeout(s)) /\ HttpStep)
    /\ WF_vars(Shutdown(s))

Spec == Init /\ [][Next]_vars /\ Fairness

-----------------------------------------------------------------------------
Awaited(cmd, c) ==
  \E s \in Servers : \E k \in DOMAIN outbox[s] :
    outbox[s][k].cmd = cmd /\ outbox[s][k].client = c /\ outbox[s][k].n = socket[c].n

(* Events that the buffer was right to drop: too old, or pushed out by newer ones. *)
Dropped(e) ==
  \/ \E d \in Events : IsPublished(d) /\ published[d].ms >= published[e].ms + Window
  \/ Cardinality({d \in Events : IsPublished(d) /\ Later(d, e)}) >= Cap

(* A client that reconnects with the time of its last event has, once the replay has    *)
(* come, every later event of its own process, and every one that was stored when it     *)
(* connected, but for those the buffer rightly dropped or Redis did not take: between    *)
(* replay and live events nothing is lost.                                               *)
ReplayClosesGap ==
  \A c \in Clients :
    socket[c].state = "open" /\ socket[c].since # None /\ ~Awaited("zrange", c) =>
      \A e \in Events :
        /\ IsPublished(e) /\ published[e].ms > socket[c].since
        /\ published[e].at = socket[c].at \/ e \in owed[c]
        => e \in got[c] \/ e \in unstored \/ Dropped(e)

PresencePending(u) ==
  \E s \in Servers : \E k \in DOMAIN outbox[s] :
    outbox[s][k].cmd \in {"hset", "hdel"} /\ UserOf[outbox[s][k].client] = u

(* When its commands are done, the presence hash has the users with a tab and no others, *)
(* but for those with a tab closed beside another, with a process that died, be it of a   *)
(* command that failed, or the TTL.                                                       *)
PresenceTellsTabs ==
  \A u \in Users :
    ~PresencePending(u) /\ u \notin blurred => (u \in presence <=> TabsOf(u) # {})

(* No event of a kind that is logged goes missing but when the insert of each service   *)
(* failed or was cut off by the end of the process; other kinds leave no row.            *)
EventsLogged ==
  \A e \in Events :
    IF published[e].kind \in Logged
      THEN \/ \E n \in Entries : log[n] = e
           \/ \E w \in inserting : w[2] = e
           \/ \A service \in Services : <<e, service>> \in unlogged
      ELSE \A n \in Entries : log[n] # e

(* What the migration 1781070144604-create-collaboration-tables.ts:17 says of the log: *)
(* one row per event.                                                                  *)
LoggedOnce == \A e \in Events : Cardinality({n \in Entries : log[n] = e}) <= 1

(* A socket whose client is gone is terminated after two heartbeats, unless the process *)
(* has begun to close, which stops them.                                                *)
VanishedDropped ==
  \A c \in Clients :
    socket[c].state = "vanished"
      ~> (socket[c].state # "vanished" \/ status[socket[c].at] = "closing")

(* A shutdown comes to its end, whatever became of the requests, unless from some time  *)
(* on there is always a socket: the WebSocket server waits for the last to be closed.    *)
ShutdownEnds ==
  \A s \in Servers :
    status[s] = "draining" ~> (status[s] = "down" \/ [](SocketsAt(s) # {}))
=============================================================================
