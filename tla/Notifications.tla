---------------------------- MODULE Notifications ----------------------------
(***************************************************************************)
(* Notifications of mentions (src/src/modules/notifications), with the     *)
(* comments that mention.  A comment published on a server is handled      *)
(* there, one mentioned user after the other: saved through a circuit      *)
(* breaker or, when that throws for any reason, sent to a queue.  The      *)
(* consumer of each server saves what is queued and then deletes it.       *)
(*                                                                         *)
(* The breaker's key in Redis is shared; its count of failures is in the   *)
(* memory of one server.  No command stores HALF_OPEN, so what execute     *)
(* does in that state is dead code and left out.  Timeouts may come at any *)
(* time after what started them.                                           *)
(***************************************************************************)
EXTENDS Comments, FiniteSetsExt

CONSTANTS
  Threshold,     \* CIRCUIT_BREAKER_THRESHOLD
  MaxReceives    \* the queue's maxReceiveCount

VARIABLES
  saved,     \* table notifications: rows per delivery
  circuit,   \* cb:notification-service; CLOSED: no such key
  failures,  \* failureCount of the NotificationService of each server
  up,        \* servers that run
  handler,   \* what the handler of a comment's CommentAdded does
  queue,     \* the SQS queue and its dead-letter queue
  work,      \* what the consumer of a server does with each message it received
  crashes,
  lost,      \* history: deliveries cut off by a crash or not accepted by the queue
  repeated,  \* history: deliveries saved by a call that failed, or received again
  opened     \* history: the circuit has been opened, or Redis refused to

notifyVars == <<saved, circuit, failures, up, handler, queue, work, crashes, lost, repeated,
                opened>>
vars == <<commentVars, notifyVars>>

ASSUME NotificationsAssumption ==
  Threshold \in Nat \ {0} /\ MaxReceives \in Nat \ {0}

Deliveries == Comments \X Users

(* todo: how many of the comment's mentions are not dealt with, this one included. *)
Handler == [step: {"none", "state", "save", "trip", "send"}, at: Servers, todo: Texts]

NoHandler == [step |-> "none", at |-> NoJob.at, todo |-> NoText]

Message == [place: {"none", "queue", "dead", "gone"}, visible: BOOLEAN,
            receives: 0..MaxReceives]

TypeOK ==
  /\ comments \in [Comments -> Row]
  /\ pc \in [Requests -> CommentSteps]
  /\ job \in [Requests -> Job]
  /\ walk \in [Requests -> Walk]
  /\ overlapped \subseteq Comments
  /\ saved \in [Deliveries -> 0..(1 + MaxReceives)]
  /\ circuit \in {"CLOSED", "OPEN"}
  /\ failures \in [Servers -> Nat]
  /\ up \subseteq Servers
  /\ handler \in [Comments -> Handler]
  /\ queue \in [Deliveries -> Message]
  /\ work \in [Servers -> [Deliveries -> {"none", "check", "save", "delete"}]]
  /\ crashes \in Nat
  /\ lost \subseteq Deliveries /\ repeated \subseteq Deliveries /\ opened \in BOOLEAN

Init ==
  /\ CommentsInit
  /\ saved = [d \in Deliveries |-> 0]
  /\ circuit = "CLOSED"
  /\ failures = [s \in Servers |-> 0]
  /\ up = workload.servers
  /\ handler = [c \in Comments |-> NoHandler]
  /\ queue = [d \in Deliveries |-> [place |-> "none", visible |-> FALSE, receives |-> 0]]
  /\ work = [s \in Servers |-> [d \in Deliveries |-> "none"]]
  /\ crashes = workload.crashes
  /\ lost = {} /\ repeated = {} /\ opened = FALSE

-----------------------------------------------------------------------------
Step(c, step) == handler' = [handler EXCEPT ![c].step = step]

Handles(c, step) == handler[c].step = step

(* The delivery a handler is at. *)
Current(c) == <<c, Head(handler[c].todo)>>

NextMention(c) ==
  handler' = [handler EXCEPT ![c] =
    IF Len(@.todo) = 1 THEN NoHandler
                       ELSE [step |-> "state", at |-> @.at, todo |-> Tail(@.todo)]]

(* publish calls the subscriber, which runs up to its first await at once. *)
Publish(r) ==
  /\ PublishComment(r)
  /\ handler' = IF job[r].text = NoText THEN handler
                ELSE [handler EXCEPT ![job[r].comment] =
                        [step |-> "state", at |-> job[r].at, todo |-> job[r].text]]
  /\ UNCHANGED <<saved, circuit, failures, up, queue, work, crashes, lost, repeated, opened>>

(* execute: an open circuit, or a Redis that does not answer, throws. *)
ReadCircuit(c) ==
  /\ Handles(c, "state")
  /\ \/ circuit = "CLOSED" /\ Step(c, "save")
     \/ Step(c, "send")
  /\ UNCHANGED <<commentVars, saved, circuit, failures, up, queue, work, crashes, lost,
                 repeated, opened>>

Save(d) == saved' = [saved EXCEPT ![d] = @ + 1]

(* Mutant of SaveFails: the circuit opens one failure later. *)
SaveFails_OffByOne(c) ==
  LET s == handler[c].at IN
    /\ failures' = [failures EXCEPT ![s] = @ + 1]
    /\ Step(c, IF failures[s] + 1 > Threshold THEN "trip" ELSE "send")

SaveFails(c) ==
  LET s == handler[c].at IN
    /\ failures' = [failures EXCEPT ![s] = @ + 1]
    /\ Step(c, IF failures[s] + 1 >= Threshold THEN "trip" ELSE "send")

(* The insert succeeds, fails, or succeeds without the server knowing. *)
SaveNotification(c) ==
  /\ Handles(c, "save")
  /\ \/ Save(Current(c)) /\ NextMention(c) /\ UNCHANGED <<failures, repeated>>
     \/ SaveFails(c) /\ UNCHANGED <<saved, repeated>>
     \/ SaveFails(c) /\ Save(Current(c)) /\ repeated' = repeated \cup {Current(c)}
  /\ UNCHANGED <<commentVars, circuit, up, queue, work, crashes, lost, opened>>

(* SETEX with the timeout, which may fail. *)
TripCircuit(c) ==
  /\ Handles(c, "trip")
  /\ circuit' \in {"OPEN", circuit}
  /\ opened' = TRUE
  /\ Step(c, "send")
  /\ UNCHANGED <<commentVars, saved, failures, up, queue, work, crashes, lost, repeated>>

Put(d) == queue' = [queue EXCEPT ![d] = [place |-> "queue", visible |-> TRUE, receives |-> 0]]

(* Mutant of EnqueueNotification: it is tried again until the queue accepts it. *)
EnqueueNotification_Retried(c) ==
  /\ Handles(c, "send")
  /\ \/ workload.queue /\ Put(Current(c)) /\ NextMention(c)
     \/ UNCHANGED <<queue, handler>>
  /\ UNCHANGED <<commentVars, saved, circuit, failures, up, work, crashes, lost, repeated, opened>>

(* SendMessage, if there is a queue; a failure is logged and swallowed, and the next *)
(* mention handled.                                                                  *)
EnqueueNotification(c) ==
  /\ Handles(c, "send")
  /\ \/ workload.queue /\ Put(Current(c)) /\ UNCHANGED lost
     \/ UNCHANGED queue /\ lost' = lost \cup {Current(c)}
  /\ NextMention(c)
  /\ UNCHANGED <<commentVars, saved, circuit, failures, up, work, crashes, repeated, opened>>

(* The key expires. *)
CircuitTimeout ==
  /\ circuit = "OPEN"
  /\ circuit' = "CLOSED"
  /\ UNCHANGED <<commentVars, saved, failures, up, handler, queue, work, crashes, lost,
                 repeated, opened>>

-----------------------------------------------------------------------------
(* The consumer of a server. *)

Working(s) == {d \in Deliveries : work[s][d] # "none"}

(* Mutant of Poll: the queue has no redrive policy. *)
Poll_NoDeadLetters(s) ==
  /\ s \in up /\ workload.queue /\ Working(s) = {}
  /\ \E batch \in (SUBSET {d \in Deliveries : queue[d].place = "queue" /\ queue[d].visible}) \ {{}} :
       /\ queue' = [d \in Deliveries |->
            IF d \in batch THEN [queue[d] EXCEPT !.visible = FALSE, !.receives = @ + 1]
                           ELSE queue[d]]
       /\ work' = [work EXCEPT ![s] = [d \in Deliveries |->
            IF d \in batch THEN "check" ELSE "none"]]
  /\ UNCHANGED <<commentVars, saved, circuit, failures, up, handler, crashes, lost, repeated,
                 opened>>

(* Poll receives again when the batch it received last is dealt with.  The queue hands *)
(* out a message MaxReceives times; the next time it is moved to the dead letters.      *)
Poll(s) ==
  /\ s \in up /\ workload.queue /\ Working(s) = {}
  /\ \E batch \in (SUBSET {d \in Deliveries : queue[d].place = "queue" /\ queue[d].visible}) \ {{}} :
       LET dead == {d \in batch : queue[d].receives = MaxReceives} IN
         /\ queue' = [d \in Deliveries |->
              IF d \in dead THEN [queue[d] EXCEPT !.place = "dead", !.visible = FALSE]
              ELSE IF d \in batch
                THEN [queue[d] EXCEPT !.visible = FALSE, !.receives = @ + 1]
              ELSE queue[d]]
         /\ work' = [work EXCEPT ![s] = [d \in Deliveries |->
              IF d \in batch \ dead THEN "check" ELSE "none"]]
  /\ UNCHANGED <<commentVars, saved, circuit, failures, up, handler, crashes, lost, repeated,
                 opened>>

Proceed(s, d, step) == work' = [work EXCEPT ![s][d] = step]

(* Mutant of CheckCircuit: what is not delivered is deleted as well. *)
CheckCircuit_DeletesAnyway(s, d) ==
  /\ work[s][d] = "check"
  /\ \/ circuit = "CLOSED" /\ Proceed(s, d, "save")
     \/ circuit = "OPEN" /\ Proceed(s, d, "delete")
  /\ UNCHANGED <<commentVars, saved, circuit, failures, up, handler, queue, crashes, lost,
                 repeated, opened>>

(* A message found under an open circuit, or without an answer of Redis, is left. *)
CheckCircuit(s, d) ==
  /\ work[s][d] = "check"
  /\ \/ circuit = "CLOSED" /\ Proceed(s, d, "save")
     \/ Proceed(s, d, "none")
  /\ UNCHANGED <<commentVars, saved, circuit, failures, up, handler, queue, crashes, lost,
                 repeated, opened>>

(* Mutant of SaveQueued: the message is left for the next poll to delete. *)
SaveQueued_NotDeleted(s, d) ==
  /\ work[s][d] = "save"
  /\ Save(d) /\ Proceed(s, d, "none") /\ UNCHANGED repeated
  /\ UNCHANGED <<commentVars, circuit, failures, up, handler, queue, crashes, lost, opened>>

(* This save does not go through the breaker: its failures are not counted. *)
SaveQueued(s, d) ==
  /\ work[s][d] = "save"
  /\ \/ Save(d) /\ Proceed(s, d, "delete") /\ UNCHANGED repeated
     \/ UNCHANGED <<saved, repeated>> /\ Proceed(s, d, "none")
     \/ Save(d) /\ Proceed(s, d, "none") /\ repeated' = repeated \cup {d}
  /\ UNCHANGED <<commentVars, circuit, failures, up, handler, queue, crashes, lost, opened>>

(* DeleteMessage may fail, and with the receipt of an earlier receive do nothing. *)
DeleteMessage(s, d) ==
  /\ work[s][d] = "delete"
  /\ \/ /\ queue[d].place = "queue"
        /\ queue' = [queue EXCEPT ![d].place = "gone", ![d].visible = FALSE]
        /\ UNCHANGED repeated
     \/ UNCHANGED queue /\ repeated' = repeated \cup {d}
  /\ Proceed(s, d, "none")
  /\ UNCHANGED <<commentVars, saved, circuit, failures, up, handler, crashes, lost, opened>>

(* Received and not deleted in time, a message is there again. *)
VisibilityTimeout(d) ==
  /\ queue[d].place = "queue" /\ ~queue[d].visible
  /\ queue' = [queue EXCEPT ![d].visible = TRUE]
  /\ repeated' = IF \E s \in Servers : work[s][d] # "none" THEN repeated \cup {d} ELSE repeated
  /\ UNCHANGED <<commentVars, saved, circuit, failures, up, handler, work, crashes, lost,
                 opened>>

-----------------------------------------------------------------------------
(* A server dies, with its requests, handlers and batch, and starts again. *)

Pending(c) == {<<c, handler[c].todo[n]>> : n \in DOMAIN handler[c].todo}

Crash(s) ==
  /\ s \in up /\ crashes > 0
  /\ crashes' = crashes - 1
  /\ up' = up \ {s}
  /\ CutOff(s)
  /\ failures' = [failures EXCEPT ![s] = 0]
  /\ handler' = [c \in Comments |-> IF handler[c].at = s THEN NoHandler ELSE handler[c]]
  /\ lost' = lost \cup UNION {Pending(c) : c \in {e \in Comments : handler[e].at = s}}
  /\ repeated' = repeated \cup {d \in Deliveries : work[s][d] = "delete"}
  /\ work' = [work EXCEPT ![s] = [d \in Deliveries |-> "none"]]
  /\ UNCHANGED <<saved, circuit, queue, opened>>

Restart(s) ==
  /\ s \in workload.servers \ up
  /\ up' = up \cup {s}
  /\ UNCHANGED <<commentVars, saved, circuit, failures, handler, queue, work, crashes, lost,
                 repeated, opened>>

Consume(s) ==
  \/ Poll(s)
  \/ \E d \in Deliveries : CheckCircuit(s, d) \/ SaveQueued(s, d) \/ DeleteMessage(s, d)

Handle(c) ==
  ReadCircuit(c) \/ SaveNotification(c) \/ TripCircuit(c) \/ EnqueueNotification(c)

Next ==
  \/ \E s \in up : CommentStep(s) /\ UNCHANGED notifyVars
  \/ \E r \in Requests : Publish(r)
  \/ \E c \in Comments : Handle(c)
  \/ CircuitTimeout
  \/ \E s \in Servers : Consume(s) \/ Crash(s) \/ Restart(s)
  \/ \E d \in Deliveries : VisibilityTimeout(d)

(* Handlers and consumers go on, servers are restarted, and messages that were not *)
(* deleted come back.                                                              *)
Fairness ==
  /\ WF_vars(\E c \in Comments : Handle(c))
  /\ WF_vars(\E s \in Servers : Consume(s))
  /\ WF_vars(\E s \in Servers : Restart(s))
  /\ WF_vars(\E d \in Deliveries : VisibilityTimeout(d))

Spec == Init /\ [][Next]_vars /\ Fairness

-----------------------------------------------------------------------------
(* Nobody has been told of a comment that does not exist: CommentAdded is published *)
(* after the insert, unlike SprintUpdated.                                          *)
NotifiedCommentExists ==
  \A d \in Deliveries :
    saved[d] > 0 \/ queue[d].place # "none" => comments[d[1]].state # "none"

(* Where a mention may be once it was published. *)
Accounted(d) ==
  \/ d \in Pending(d[1])
  \/ saved[d] > 0
  \/ queue[d].place \in {"queue", "dead"}
  \/ d \in lost

(* A mention whose handler has begun is being handled, saved, queued or among the dead *)
(* letters ever after, whatever fails between queue and database: it is lost only if   *)
(* the queue does not accept it, or with the server that handles it.                   *)
MentionsNotLost == [][\A d \in Deliveries : Accounted(d) => Accounted(d)']_vars

(* A user is notified twice of a mention only after a save or a deletion that failed *)
(* or came late.                                                                     *)
NotifiedOnce == \A d \in Deliveries : saved[d] <= 1 \/ d \in repeated

(* The servers count failures each for itself: together they see no more than their *)
(* thresholds allow before one of them opens the circuit.                           *)
CircuitOpensInTime ==
  MapThenSumSet(LAMBDA s : failures[s], Servers) > Cardinality(Servers) * (Threshold - 1)
    => opened \/ \E c \in Comments : Handles(c, "trip")

Settled(d) ==
  /\ d \notin Pending(d[1])
  /\ queue[d].place # "queue"

(* Every mention that is handled or queued comes to rest, saved, dead-lettered or lost: *)
(* queued messages do not circulate for ever, however often a save fails.               *)
MentionsSettle == []<>(\A d \in Deliveries : Settled(d))
=============================================================================
