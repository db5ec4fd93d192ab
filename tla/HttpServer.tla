------------------------------ MODULE HttpServer ------------------------------
(***************************************************************************)
(* The life of the server processes (src/src/server.ts): requests, the     *)
(* count of those in flight, and the shutdown that waits for them.         *)
(*                                                                         *)
(* The deadline of the drain may pass at any time after its start.  A      *)
(* server that has stopped to listen ends the connections that are idle    *)
(* then (Node 20); one that is busy stays open and may bring another       *)
(* request.  A request stands here for its connection.                     *)
(***************************************************************************)
EXTENDS Naturals, FiniteSets

CONSTANTS Servers, Requests

ASSUME ServerAssumption == IsFiniteSet(Requests) /\ Servers # {}

VARIABLES
  status,    \* closing: the WebSocket server is being closed; down: no process
  request,   \* where each HTTP request stands
  inFlight,  \* the count of each process
  kept,      \* the connections each process has left when it no longer listens
  overdue,   \* history: servers whose drain came to its deadline
  late,      \* history: requests that came when the drain of their server was over
  cut        \* history: requests under which their server closed the database

serverVars == <<status, request, inFlight, kept, overdue, late, cut>>

(* lost: over, and still counted. *)
Request == [step: {"none", "running", "answering", "lost"}, at: Servers, aborted: BOOLEAN]

NoRequest == [step |-> "none", at |-> CHOOSE s \in Servers : TRUE, aborted |-> FALSE]

RequestsAt(s) ==
  {r \in Requests : request[r].step \in {"running", "answering"} /\ request[r].at = s}

ServerTypeOK ==
  /\ status \in [Servers -> {"up", "draining", "closing", "down"}]
  /\ request \in [Requests -> Request]
  /\ inFlight \in [Servers -> 0..Cardinality(Requests)]
  /\ overdue \subseteq Servers
  /\ kept \in [Servers -> SUBSET Requests]
  /\ late \in [Servers -> SUBSET Requests]
  /\ cut \in [Servers -> SUBSET Requests]

ServerInit ==
  /\ status = [s \in Servers |-> "up"]
  /\ request = [r \in Requests |-> NoRequest]
  /\ inFlight = [s \in Servers |-> 0]
  /\ overdue = {}
  /\ kept = [s \in Servers |-> {}]
  /\ late = [s \in Servers |-> {}]
  /\ cut = [s \in Servers |-> {}]

-----------------------------------------------------------------------------
Become(s, st) == status' = [status EXCEPT ![s] = st]

(* A new connection, or one that was busy when the server stopped to listen. *)
Accepts(s, r) == status[s] = "up" \/ (status[s] \in {"draining", "closing"} /\ r \in kept[s])

(* Mutant of Arrive: the request is not counted. *)
Arrive_NotCounted(r, s) ==
  /\ Accepts(s, r) /\ request[r].step = "none"
  /\ request' = [request EXCEPT ![r] = [step |-> "running", at |-> s, aborted |-> FALSE]]
  /\ late' = IF status[s] = "closing" THEN [late EXCEPT ![s] = @ \cup {r}] ELSE late
  /\ UNCHANGED <<status, inFlight, kept, overdue, cut>>

Arrive(r, s) ==
  /\ Accepts(s, r) /\ request[r].step = "none"
  /\ request' = [request EXCEPT ![r] = [step |-> "running", at |-> s, aborted |-> FALSE]]
  /\ inFlight' = [inFlight EXCEPT ![s] = @ + 1]
  /\ late' = IF status[s] = "closing" THEN [late EXCEPT ![s] = @ \cup {r}] ELSE late
  /\ UNCHANGED <<status, kept, overdue, cut>>

(* The keep-alive timeout of an idle connection passes, or its client closes it. *)
KeepAliveEnds(r, s) ==
  /\ r \in kept[s] \ RequestsAt(s)
  /\ kept' = [kept EXCEPT ![s] = @ \ {r}]
  /\ UNCHANGED <<status, request, inFlight, overdue, late, cut>>

(* The handler has done its work, and published what it has to. *)
Complete(r) ==
  /\ request[r].step = "running"
  /\ request' = [request EXCEPT ![r].step = "answering"]
  /\ UNCHANGED <<status, inFlight, kept, overdue, late, cut>>

(* Mutant of Abort: a closed response is counted as finished. *)
Abort_Counted(r) ==
  /\ request[r].step \in {"running", "answering"} /\ ~request[r].aborted
  /\ request' = [request EXCEPT ![r].aborted = TRUE]
  /\ inFlight' = [inFlight EXCEPT ![request[r].at] = @ - 1]
  /\ kept' = [kept EXCEPT ![request[r].at] = @ \ {r}]
  /\ UNCHANGED <<status, overdue, late, cut>>

(* The client goes away, and its connection; the handler goes on. *)
Abort(r) ==
  /\ request[r].step \in {"running", "answering"} /\ ~request[r].aborted
  /\ request' = [request EXCEPT ![r].aborted = TRUE]
  /\ kept' = [kept EXCEPT ![request[r].at] = @ \ {r}]
  /\ UNCHANGED <<status, inFlight, overdue, late, cut>>

(* 'finish' is emitted for a response that is sent, not for one nobody waits for: *)
(* an aborted request stays in the count.                                          *)
Answer(r) ==
  /\ request[r].step = "answering"
  /\ IF request[r].aborted
       THEN request' = [request EXCEPT ![r].step = "lost"] /\ UNCHANGED inFlight
       ELSE /\ request' = [request EXCEPT ![r] = NoRequest]
            /\ inFlight' = [inFlight EXCEPT ![request[r].at] = @ - 1]
  /\ UNCHANGED <<status, kept, overdue, late, cut>>

-----------------------------------------------------------------------------
(* shutdown *)

(* close ends the idle connections, and lets those be that are busy. *)
Signal(s) ==
  /\ status[s] = "up"
  /\ Become(s, "draining")
  /\ kept' = [kept EXCEPT ![s] = {r \in RequestsAt(s) : ~request[r].aborted}]
  /\ UNCHANGED <<request, inFlight, overdue, late, cut>>

Drained(s) ==
  /\ status[s] = "draining" /\ inFlight[s] = 0
  /\ Become(s, "closing")
  /\ UNCHANGED <<request, inFlight, kept, overdue, late, cut>>

(* Mutant of DrainTimeout: the drain has no deadline. *)
DrainTimeout_NoDeadline(s) ==
  /\ status[s] = "draining" /\ inFlight[s] = 0
  /\ Become(s, "closing")
  /\ UNCHANGED <<request, inFlight, kept, overdue, late, cut>>

DrainTimeout(s) ==
  /\ status[s] = "draining" /\ inFlight[s] > 0
  /\ Become(s, "closing")
  /\ overdue' = overdue \cup {s}
  /\ UNCHANGED <<request, inFlight, kept, late, cut>>

(* The process ends, in order or not, and with it all it has in memory. *)
EndProcess(s) ==
  /\ Become(s, "down")
  /\ request' = [r \in Requests |-> IF request[r].at = s THEN NoRequest ELSE request[r]]
  /\ inFlight' = [inFlight EXCEPT ![s] = 0]
  /\ kept' = [kept EXCEPT ![s] = {}]

(* AppDataSource.destroy and exit, under the requests that still run. *)
Exit(s) ==
  /\ status[s] = "closing"
  /\ EndProcess(s)
  /\ cut' = [cut EXCEPT ![s] = RequestsAt(s)]
  /\ UNCHANGED <<overdue, late>>

Crash(s) ==
  /\ status[s] # "down"
  /\ EndProcess(s)
  /\ UNCHANGED <<overdue, late, cut>>

Restart(s) ==
  /\ status[s] = "down"
  /\ Become(s, "up")
  /\ overdue' = overdue \ {s}
  /\ late' = [late EXCEPT ![s] = {}]
  /\ cut' = [cut EXCEPT ![s] = {}]
  /\ UNCHANGED <<request, inFlight, kept>>

-----------------------------------------------------------------------------
(* A shutdown closes the database under a request only after the drain timed out, or if *)
(* the request came when the drain was over: the count never runs short of the requests *)
(* there are, those on connections that outlive close() among them.                     *)
RequestsDrained == \A s \in Servers \ overdue : cut[s] \subseteq late[s]

(* What docs/learning/01-project-architecture-and-request-lifecycle.md:258 says of the   *)
(* order of the shutdown: no request finds its database gone, but after the hard timeout. *)
DatabaseOutlivesRequests == \A s \in Servers \ overdue : cut[s] = {}
=============================================================================
