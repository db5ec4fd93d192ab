------------------------------ MODULE RateLimiter ------------------------------
(***************************************************************************)
(* A call of the HTTP API and the first middleware that can refuse it, the *)
(* sliding-window rate limiter (src/src/core/middleware/rateLimiter.ts).   *)
(*                                                                         *)
(* All calls here come from one IP.  Each is served by a process of its    *)
(* own; a call may follow another in the same process.  The key of the IP  *)
(* is a sorted set of times; another command than the one that adds to it  *)
(* gives it a TTL.                                                         *)
(***************************************************************************)
EXTENDS Naturals, FiniteSetsExt

CONSTANTS
  Calls,
  MaxRequests,  \* MAX_REQUESTS
  Window,       \* WINDOW_SECONDS
  MaxTime,      \* bound: how far the clock runs
  None

ASSUME LimiterAssumption ==
  /\ IsFiniteSet(Calls) /\ Calls # {}
  /\ MaxRequests \in Nat \ {0} /\ Window \in Nat \ {0} /\ MaxTime \in Nat

VARIABLES
  clock,     \* half seconds
  call,      \* of each process: what it is asked, how far it is, and what it answered
  reads,     \* history: the rows the handler of a call has read
  disturbed, \* history: calls whose rows another call has written since
  wrote,     \* history: calls that have written rows and go on
  hits,      \* rate_limit:{ip}: members, each with its time and what tells it from the others
  expiry,    \* when Redis drops the key, or None
  recorded,  \* history: all the members there ever were
  admitted   \* history: those of the calls that were let through, or may yet be

limiterVars == <<clock, call, reads, disturbed, wrote, hits, expiry, recorded, admitted>>

Times == 0..MaxTime

Within(u, t) == u <= t /\ t < u + Window

InWindow(members, t) == {m \in members : Within(m[1], t)}

-----------------------------------------------------------------------------
(* A call is answered in good order, or because a command or a query of its own failed. *)
Idle == [step |-> "answered", request |-> None, now |-> 0, user |-> None, found |-> None,
         late |-> FALSE, status |-> 0, fault |-> FALSE]

(* The call q becomes c, which has read and written the rows named. *)
Become(q, c, read, written) ==
  /\ call' = [call EXCEPT ![q] = c]
  /\ reads' = [reads EXCEPT ![q] = IF c.step = "answered" THEN {} ELSE @ \cup read]
  /\ LET hit == {o \in Calls \ {q} : reads[o] \cap written # {}} IN
       disturbed' = IF c.step = "answered" THEN (disturbed \cup hit) \ {q} ELSE disturbed \cup hit
  /\ wrote' = IF c.step = "answered" THEN wrote \ {q}
              ELSE IF written # {} THEN wrote \cup {q} ELSE wrote

Goto(q, step) == Become(q, [call[q] EXCEPT !.step = step], {}, {})

(* What the handler of q needs from the row it read. *)
Keep(q, step, row) == Become(q, [call[q] EXCEPT !.step = step, !.found = row], {}, {})

Answered(q, status) == [Idle EXCEPT !.late = call[q].late, !.status = status]

Answer(q, status) == Become(q, Answered(q, status), {}, {})

AnswerWriting(q, status, rows) == Become(q, Answered(q, status), {}, rows)

GotoReading(q, step, rows) == Become(q, [call[q] EXCEPT !.step = step], rows, {})

At(q, op, step) == call[q].step = step /\ call[q].request.op = op

Arrive(q, request, step, late) ==
  /\ call[q].step = "answered"
  /\ Become(q, [Idle EXCEPT !.step = step, !.request = request, !.now = clock, !.late = late],
            {}, {})
  /\ UNCHANGED <<clock, hits, expiry, recorded, admitted>>

(* Time goes by, and Redis drops the key when its time has come. *)
Tick ==
  /\ clock < MaxTime
  /\ clock' = clock + 1
  /\ IF expiry = clock + 1 THEN hits' = {} /\ expiry' = None ELSE UNCHANGED <<hits, expiry>>
  /\ UNCHANGED <<call, reads, disturbed, wrote, recorded, admitted>>

(* A sorted set without members is no key, and has no TTL. *)
Prune(q) ==
  /\ call[q].step = "prune"
  /\ hits' = {m \in hits : m[1] + Window > call[q].now}
  /\ expiry' = IF hits' = {} THEN None ELSE expiry
  /\ Goto(q, "count")
  /\ UNCHANGED <<clock, recorded, admitted>>

(* Mutant of Count: the window may hold one more. *)
Count_OffByOne(q) ==
  /\ call[q].step = "count"
  /\ IF Cardinality(hits) > MaxRequests THEN Answer(q, 429) ELSE Goto(q, "record")
  /\ UNCHANGED <<clock, hits, expiry, recorded, admitted>>

(* ZCARD counts all there is, whatever its score. *)
Count(q) ==
  /\ call[q].step = "count"
  /\ IF Cardinality(hits) >= MaxRequests THEN Answer(q, 429) ELSE Goto(q, "record")
  /\ UNCHANGED <<clock, hits, expiry, recorded, admitted>>

(* The time recorded is the one taken when the call came; a random number makes a        *)
(* member of its own of it.                                                              *)
Record(q) ==
  LET now == call[q].now
      member == <<now, Cardinality({m \in recorded : m[1] = now})>> IN
    /\ call[q].step = "record"
    /\ hits' = hits \cup {member}
    /\ recorded' = recorded \cup {member} /\ admitted' = admitted \cup {member}
    /\ Keep(q, "expire", member)
    /\ UNCHANGED <<clock, expiry>>

Expire(q) ==
  /\ call[q].step = "expire"
  /\ expiry' = IF hits = {} THEN None ELSE clock + Window
  /\ Keep(q, "verify", None)
  /\ UNCHANGED <<clock, hits, recorded, admitted>>

Limit(q) == Prune(q) \/ Count(q) \/ Record(q) \/ Expire(q)

-----------------------------------------------------------------------------
(* The four commands are not atomic, and each may fail.  Of the calls that came within a window no more are *)
(* let through than the limit, and, for each process, one whose count was made before    *)
(* the others recorded theirs (but for one of them), one that was recorded when the key   *)
(* was about to expire, and one that came in time but counted when a later call had      *)
(* pruned what it should have counted, or the key had expired.                           *)
RateBounded ==
  \A t \in Times :
    Cardinality(InWindow(admitted, t)) <= MaxRequests + 3 * Cardinality(Calls) - 1
=============================================================================
